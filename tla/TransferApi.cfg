\* Every write endpoint at once, with every failure.
SPECIFICATION ApiSpec
CONSTANTS
    t1 = t1
    t2 = t2
    c1 = c1
    u1 = u1
    None = None
    Sessions <- MCSessions
    TransferRequests <- MCTransfers
    PatchRequests <- MCPatches
    TopUpRequests <- MCTopUps
    Accounts <- MCAccounts
    Ids <- MCAccounts
    Uuid <- OneSpelling
    Opening <- MCOpening
    MaxNumeric <- MCMaxNumeric
    Currencies = {"NGN"}
    References = {"r1", "r2"}
    Bodies <- MCBodies
    TopUps <- MCTopUpBodies
    Patches <- MCPatchBodies
    PoolSize = 4
    Faults = {"commit", "crash"}
SYMMETRY ApiSymmetry
INVARIANTS
    ApiTypeOK
    BalanceMatchesLedger
    DepositsAreIssued
    RefusalsAreDue
    TopUpsAreCounted
    PatchShowsSetStatus
PROPERTIES
    ImplementsAtomicBank
    OnlyActiveAccountsMove
