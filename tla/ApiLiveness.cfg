\* One request at each write endpoint, with every failure: each is answered.
SPECIFICATION ApiFairSpec
CONSTANTS
    t1 = t1
    t2 = t2
    c1 = c1
    u1 = u1
    None = None
    Sessions <- FewSessions
    TransferRequests <- OneTransfer
    PatchRequests <- MCPatches
    TopUpRequests <- MCTopUps
    Accounts <- MCAccounts
    Ids <- MCAccounts
    Uuid <- OneSpelling
    Opening <- MCOpening
    MaxNumeric <- MCMaxNumeric
    Currencies = {"NGN"}
    References = {"r1", "r2"}
    Bodies <- MCBodies
    TopUps <- MCTopUpBodies
    Patches <- MCPatchBodies
    PoolSize = 2
    Faults = {"statement", "commit", "rollback", "crash"}
INVARIANTS
    NoDeadlock
PROPERTIES
    EveryApiRequestAnswered
