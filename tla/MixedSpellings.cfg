\* Three concurrent transfers whose ids come in two spellings: deadlocks happen.
SPECIFICATION FairSpec
CONSTANTS
    p1 = p1
    p2 = p2
    p3 = p3
    None = None
    TransferRequests <- MCRequests
    Sessions <- MCRequests
    Accounts <- SpelledAccounts
    Ids <- Spellings
    Uuid <- TwoSpellings
    Opening <- SpelledOpening
    MaxNumeric <- MCMaxNumeric
    Currencies = {"NGN", "USD"}
    References = {"r1", "r2", "r3"}
    Bodies <- SpelledBodies
    Faults <- NoFaults
INVARIANTS
    NothingHeldOutsideTransaction
    LedgerChain
PROPERTIES
    EveryRequestAnswered
