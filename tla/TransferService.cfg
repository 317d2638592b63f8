\* Three concurrent transfers over one spelling per account, with every failure.
SPECIFICATION Spec
CONSTANTS
    p1 = p1
    p2 = p2
    p3 = p3
    None = None
    TransferRequests <- MCRequests
    Sessions <- MCRequests
    Accounts <- MCAccounts
    Ids <- MCAccounts
    Uuid <- OneSpelling
    Opening <- MCOpening
    MaxNumeric <- MCMaxNumeric
    Currencies = {"NGN", "USD"}
    References = {"r1", "r2", "r3"}
    Bodies <- MCBodies
    Faults <- AllFaults
SYMMETRY RequestSymmetry
INVARIANTS
    TypeOK
    BalanceMatchesLedger
    LedgerChain
    DoubleEntry
    AuditAgreesWithLedger
    NoOverdraft
    UniqueReference
    Conservation
    SuccessIsDurable
    RejectionLeavesNoTrace
    NothingHeldOutsideTransaction
    UniqueConflictFindsWinner
    NoFalseConflict
    NoWaitCycle
PROPERTIES
    AppendOnly
