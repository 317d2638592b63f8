\* Who comes: two batches; a batch and another request; a reader and a batch;
\* a reader and two other requests; or three other requests.
SPECIFICATION ClientsSpec
CONSTANTS
    s1 = s1
    s2 = s2
    s3 = s3
    b1 = b1
    b2 = b2
    rd = rd
    r1 = r1
    r2 = r2
    None = None
    NaN = NaN
    Accounts <- MCAccounts
    Currencies = {"NGN"}
    Opening <- MCOpening
    MaxNumeric <- MCMaxNumeric
    Orders <- MCOrders
    TopUpOrders <- MCTopUpOrders
    StatusOrders <- MCStatusOrders
    Sessions <- MCSessions
    References <- MCReferences
    Others = {s1, s2, s3}
    DemoBodies <- MCDemoBodies
    Batches = {b1, b2}
    Casts <- MCCasts
    MaxClock = 2
    Readers = {rd}
    LimitQueries <- MCLimitQueries
    DefaultLimit = 2
    MaxLimit = 2
SYMMETRY BatchSymmetry
INVARIANTS
    BankInv
    ResultsAreTrue
    ReportSpansItsTransfers
    WalkMissesNothing
    PageFitsTotal
PROPERTY NothingAfterTheAnswer
