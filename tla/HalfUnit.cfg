\* A transfer of half of the smallest amount a column keeps.
SPECIFICATION Spec
CONSTANTS
    p1 = p1
    p2 = p2
    p3 = p3
    None = None
    TransferRequests <- TwoRequests
    Sessions <- TwoRequests
    Accounts <- MCAccounts
    Ids <- MCAccounts
    Uuid <- OneSpelling
    Opening <- MCOpening
    MaxNumeric <- MCMaxNumeric
    Currencies = {"NGN", "USD"}
    References = {"r1", "r2", "r3"}
    Bodies <- HalfUnitBody
    Faults <- NoFaults
INVARIANTS
    LedgerChain
