\* Two opposite transfers that spell one account differently.
SPECIFICATION Spec
CONSTANTS
    p1 = p1
    p2 = p2
    p3 = p3
    None = None
    TransferRequests <- TwoRequests
    Sessions <- TwoRequests
    Accounts <- SpelledAccounts
    Ids <- Spellings
    Uuid <- TwoSpellings
    Opening <- SpelledOpening
    MaxNumeric <- MCMaxNumeric
    Currencies = {"NGN", "USD"}
    References = {"r1", "r2", "r3"}
    Bodies <- OppositeBodies
    Faults <- NoFaults
INVARIANTS
    NoWaitCycle
