\* Two instances migrate one empty database; one of them seeds, both serve.
SPECIFICATION StartupFairSpec
CONSTANTS
    i1 = i1
    i2 = i2
    s1 = s1
    None = None
    Sessions = {s1}
    Accounts <- MCAccounts
    Currencies = {"NGN"}
    References = {"r1"}
    Opening <- MCOpening
    MaxNumeric <- MCMaxNumeric
    Orders <- MCOrders
    TopUpOrders <- MCTopUpOrders
    StatusOrders <- MCStatusOrders
    Instances = {i1, i2}
    Seeders = {i1}
    MaxExits = 2
    ExitPcs <- AnyPc
INVARIANTS
    ListeningHasSchema
    NamedAccountsExist
    SeederVouches
PROPERTIES
    ReferencedNeverReseeds
    CutOffNeverListens
    EveryStartSettles
