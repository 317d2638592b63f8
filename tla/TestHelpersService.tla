------------------------- MODULE TestHelpersService -------------------------
(***************************************************************************)
(* The test endpoints that change accounts: createAccount and topUpBalance *)
(* of TestHelpersService.ts.                                               *)
(***************************************************************************)
EXTENDS Handlers, FiniteSets

CONSTANTS
    TopUpRequests,  \* POST .../top-up requests, each made once
    TopUps          \* validated requests: an id and an amount

ASSUME TopUpAssumption ==
    /\ TopUpRequests \subseteq Sessions
    /\ TopUps \subseteq [id : Ids, amount : Nat \ {0}]

VARIABLES
    uPc,       \* the call each request makes next
    uReq,      \* the request
    uSeen,     \* account, the row read under FOR UPDATE
    uRead,     \* the row updateBalances has read and not yet written
    uOutcome   \* the error being handled, then the answer given

topUpVars == <<uPc, uReq, uSeen, uRead, uOutcome>>

NoTopUp == [id |-> 0, amount |-> 0]

TopUpStatements == {"lock", "read", "write", "entry"}

TopUpTypeOK ==
    /\ uPc \in [TopUpRequests -> {"idle", "begin", "commit", "readBack", "rollback"}
                                 \cup TopUpStatements \cup Answered]
    /\ uReq \in [TopUpRequests -> TopUps \cup {NoTopUp}]
    /\ uSeen \in [TopUpRequests -> Row \cup {NoRow}]
    /\ uRead \in [TopUpRequests -> Row \cup {NoRow}]
    /\ uOutcome \in [TopUpRequests -> {"NONE", "OK", "ACCOUNT_NOT_FOUND",
                                       "ACCOUNT_NOT_ACTIVE", "INTERNAL_ERROR"}]

TopUpInit ==
    /\ uPc = [p \in TopUpRequests |-> "idle"]
    /\ uReq = [p \in TopUpRequests |-> NoTopUp]
    /\ uSeen = [p \in TopUpRequests |-> NoRow]
    /\ uRead = [p \in TopUpRequests |-> NoRow]
    /\ uOutcome = [p \in TopUpRequests |-> "NONE"]
-----------------------------------------------------------------------------
\* createAccount: one INSERT with a fresh id, zero balances and no entry.
CreateAccount(a, currency) ==
    /\ accounts[a] = NoRow
    /\ accounts' = [accounts EXCEPT ![a] = [available |-> 0, ledger |-> 0,
                                            currency |-> currency, status |-> "ACTIVE"]]
    /\ UNCHANGED <<transfers, ledger, audit, lock, pend>>
-----------------------------------------------------------------------------
Topped(p) == Uuid[uReq[p].id]

TopUpGoto(p, pc) == uPc' = [uPc EXCEPT ![p] = pc]

TopUpEnds(p, pc, outcome) ==
    /\ TopUpGoto(p, pc)
    /\ uOutcome' = [uOutcome EXCEPT ![p] = outcome]

\* A statement the database refuses: the transaction is over, the call throws.
TopUpError(p) == Abort(p) /\ TopUpEnds(p, "rollback", "INTERNAL_ERROR")

ReceiveTopUp(p) ==
    /\ uPc[p] = "idle"
    /\ \E r \in TopUps : uReq' = [uReq EXCEPT ![p] = r]
    /\ TopUpGoto(p, "begin")
    /\ UNCHANGED <<dbVars, uSeen, uRead, uOutcome>>

BeginTopUp(p) ==
    /\ uPc[p] = "begin"
    /\ TopUpGoto(p, "lock")
    /\ UNCHANGED <<dbVars, uReq, uSeen, uRead, uOutcome>>

\* findByIdForUpdate, then the checks.
LockAccount(p) ==
    /\ uPc[p] = "lock"
    /\ RowFree(p, Topped(p))
    /\ lock' = Lock(p, Topped(p))
    /\ uSeen' = [uSeen EXCEPT ![p] = Visible(p, Topped(p))]
    /\ CASE Visible(p, Topped(p)) = NoRow -> TopUpEnds(p, "rollback", "ACCOUNT_NOT_FOUND")
         [] Visible(p, Topped(p)).status # "ACTIVE" ->
                TopUpEnds(p, "rollback", "ACCOUNT_NOT_ACTIVE")
         [] OTHER -> TopUpGoto(p, "read") /\ UNCHANGED uOutcome
    /\ UNCHANGED <<tables, pend, uReq, uRead>>

ReadTopped(p) ==
    /\ uPc[p] = "read"
    /\ uRead' = [uRead EXCEPT ![p] = Visible(p, Topped(p))]
    /\ TopUpGoto(p, "write")
    /\ UNCHANGED <<dbVars, uReq, uSeen, uOutcome>>

WriteTopped(p) ==
    /\ uPc[p] = "write"
    /\ LET available == uRead[p].available + uReq[p].amount
           led == uRead[p].ledger + uReq[p].amount
       IN  IF Fits(available) /\ Fits(led)
           THEN /\ UpdateBalanceColumns(p, Topped(p), ToNumeric(available), ToNumeric(led))
                /\ TopUpGoto(p, "entry")
                /\ UNCHANGED uOutcome
           ELSE TopUpError(p)
    /\ UNCHANGED <<uReq, uSeen, uRead>>

\* createForTopUp: a CREDIT of no transfer.  Its numbers are no larger than
\* those WriteTopped has stored.
InsertTopUpEntry(p) ==
    /\ uPc[p] = "entry"
    /\ pend' = [pend EXCEPT ![p].entries[Topped(p)] =
                   Append(@, [transfer |-> None, type |-> "CREDIT",
                              amount |-> ToNumeric(uReq[p].amount),
                              balance_after |-> ToNumeric(uSeen[p].available + uReq[p].amount)])]
    /\ TopUpGoto(p, "commit")
    /\ UNCHANGED <<tables, lock, uReq, uSeen, uRead, uOutcome>>

CommitTopUp(p) ==
    /\ uPc[p] = "commit"
    /\ Commit(p)
    /\ TopUpGoto(p, "readBack")
    /\ UNCHANGED <<uReq, uSeen, uRead, uOutcome>>

\* findById for the answer.
ReadBack(p) ==
    /\ uPc[p] = "readBack"
    /\ TopUpEnds(p, "done", IF accounts[Topped(p)] = NoRow THEN "INTERNAL_ERROR" ELSE "OK")
    /\ UNCHANGED <<dbVars, uReq, uSeen, uRead>>

RollbackTopUp(p) ==
    /\ uPc[p] = "rollback"
    /\ Abort(p)
    /\ TopUpGoto(p, "done")
    /\ UNCHANGED <<uReq, uSeen, uRead, uOutcome>>
-----------------------------------------------------------------------------
TopUpStatementFails(p) ==
    /\ "statement" \in Faults
    /\ uPc[p] \in TopUpStatements
    /\ TopUpError(p)
    /\ UNCHANGED <<uReq, uSeen, uRead>>

\* getTransaction() fails, or the read after the commit does: then rollback()
\* of a committed transaction throws, and the client sees 500.
TopUpCallFails(p) ==
    /\ "statement" \in Faults
    /\ uPc[p] \in {"begin", "readBack"}
    /\ TopUpEnds(p, "done", "INTERNAL_ERROR")
    /\ UNCHANGED <<dbVars, uReq, uSeen, uRead>>

\* Mutated form of TopUpCommitFails: the top-up is tried again.
TopUpCommitRetried(p) ==
    /\ "commit" \in Faults
    /\ uPc[p] = "commit"
    /\ Commit(p) \/ Abort(p)
    /\ TopUpGoto(p, "begin")
    /\ UNCHANGED <<uReq, uSeen, uRead, uOutcome>>

\* As CommitFails.
TopUpCommitFails(p) ==
    /\ "commit" \in Faults
    /\ uPc[p] = "commit"
    /\ Commit(p) \/ Abort(p)
    /\ TopUpEnds(p, "done", "INTERNAL_ERROR")
    /\ UNCHANGED <<uReq, uSeen, uRead>>

TopUpRollbackFails(p) ==
    /\ "rollback" \in Faults
    /\ uPc[p] = "rollback"
    /\ Abort(p)
    /\ TopUpEnds(p, "done", "INTERNAL_ERROR")
    /\ UNCHANGED <<uReq, uSeen, uRead>>

TopUpCrash(p) ==
    /\ "crash" \in Faults
    /\ uPc[p] \notin {"idle"} \cup Answered
    /\ Abort(p)
    /\ TopUpEnds(p, "dead", "NONE")
    /\ UNCHANGED <<uReq, uSeen, uRead>>

TopUpProgress(p) ==
    \/ BeginTopUp(p)
    \/ LockAccount(p)
    \/ ReadTopped(p)
    \/ WriteTopped(p)
    \/ InsertTopUpEntry(p)
    \/ CommitTopUp(p)
    \/ ReadBack(p)
    \/ RollbackTopUp(p)

TopUpFault(p) ==
    \/ TopUpStatementFails(p)
    \/ TopUpCallFails(p)
    \/ TopUpCommitFails(p)
    \/ TopUpRollbackFails(p)
    \/ TopUpCrash(p)
=============================================================================
