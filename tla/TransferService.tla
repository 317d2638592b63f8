--------------------------- MODULE TransferService ---------------------------
(***************************************************************************)
(* executeTransfer of src/services/TransferService.ts, the handler behind  *)
(* POST /api/v1/transfers, run by any number of requests at once.          *)
(*                                                                         *)
(* The code runs on one thread and gives it up at every await, so a step   *)
(* is one awaited call with the synchronous code that follows it.  Every   *)
(* await of the function is a call to the database.                        *)
(***************************************************************************)
EXTENDS Handlers

CONSTANTS
    TransferRequests,  \* POST /transfers requests, each made once
    Bodies             \* validated request bodies the clients send

\* createTransferSchema: the amount is positive, and may be finer than a column keeps.
Body == [source : Ids, destination : Ids, amount : Nat \ {0}, currency : Currencies,
         reference : References]

ASSUME TransferAssumption ==
    /\ TransferRequests \subseteq Sessions
    /\ Bodies \subseteq Body

VARIABLES
    tPc,       \* the call each request makes next
    tReq,      \* its body
    tAttempt,  \* the loop counter
    tSeen,     \* firstAccount and secondAccount, the rows read under FOR UPDATE
    tRead,     \* the row updateBalances has read and not yet written
    tOutcome   \* the error being handled, then the answer given

transferVars == <<tPc, tReq, tAttempt, tSeen, tRead, tOutcome>>

MaxDeadlockRetries == 3

\* Calls made inside the transaction, in the order the code makes them.
Statements == {"lockFirst", "lockSecond", "insert", "debitRead", "debitWrite",
               "creditRead", "creditWrite", "entries", "audit"}

TransferPcs == {"idle", "lookup", "begin", "commit", "committed", "rollback", "relookup"}
               \cup Statements \cup Answered

Outcomes == {"NONE", "COMPLETED", "SAME_ACCOUNT", "IDEMPOTENCY_CONFLICT", "ACCOUNT_NOT_FOUND",
             "ACCOUNT_NOT_ACTIVE", "CURRENCY_MISMATCH", "INSUFFICIENT_BALANCE",
             "UNIQUE_VIOLATION", "DEADLOCK", "INTERNAL_ERROR"}

NoBody == [source |-> 0, destination |-> 0, amount |-> 0, currency |-> "NONE", reference |-> None]

NoOutcome == [kind |-> "NONE", transfer |-> None]

TransferTypeOK ==
    /\ tPc \in [TransferRequests -> TransferPcs]
    /\ tReq \in [TransferRequests -> Bodies \cup {NoBody}]
    /\ tAttempt \in [TransferRequests -> 0..(MaxDeadlockRetries - 1)]
    /\ tSeen \in [TransferRequests -> [first : Row \cup {NoRow}, second : Row \cup {NoRow}]]
    /\ tRead \in [TransferRequests -> Row \cup {NoRow}]
    /\ tOutcome \in [TransferRequests -> [kind : Outcomes, transfer : Sessions \cup {None}]]

TypeOK == DbTypeOK /\ TransferTypeOK

TransferInit ==
    /\ tPc = [p \in TransferRequests |-> "idle"]
    /\ tReq = [p \in TransferRequests |-> NoBody]
    /\ tAttempt = [p \in TransferRequests |-> 0]
    /\ tSeen = [p \in TransferRequests |-> [first |-> NoRow, second |-> NoRow]]
    /\ tRead = [p \in TransferRequests |-> NoRow]
    /\ tOutcome = [p \in TransferRequests |-> NoOutcome]
-----------------------------------------------------------------------------
(***************************************************************************)
(* The local definitions of the function.                                  *)
(***************************************************************************)

\* Mutated form of LockOrder: source first.
SourceFirst(b) == <<b.source, b.destination>>

\* [source_account_id, destination_account_id].sort()
LockOrder(b) == IF b.source < b.destination THEN <<b.source, b.destination>>
                                            ELSE <<b.destination, b.source>>

FirstId(p) == LockOrder(tReq[p])[1]
SecondId(p) == LockOrder(tReq[p])[2]

\* sourceAccount and destAccount, given the two rows in lock order.
SourceAccount(b, first, second) == IF b.source = LockOrder(b)[1] THEN first ELSE second
DestAccount(b, first, second) == IF b.destination = LockOrder(b)[1] THEN first ELSE second

SourceAvailable(p) == SourceAccount(tReq[p], tSeen[p].first, tSeen[p].second).available
DestAvailable(p) == DestAccount(tReq[p], tSeen[p].first, tSeen[p].second).available
SourceBalanceAfter(p) == SourceAvailable(p) - tReq[p].amount
DestBalanceAfter(p) == DestAvailable(p) + tReq[p].amount

\* Mutated form of Rejection: nobody looks at the balance.
RejectionUnfunded(b, source, dest) ==
    IF NoRow \in {source, dest} THEN "ACCOUNT_NOT_FOUND"
    ELSE IF {source.status, dest.status} # {"ACTIVE"} THEN "ACCOUNT_NOT_ACTIVE"
    ELSE IF {source.currency, dest.currency} # {b.currency} THEN "CURRENCY_MISMATCH"
    ELSE "NONE"

\* The first business rule the locked rows break, or "NONE".
Rejection(b, source, dest) ==
    IF NoRow \in {source, dest} THEN "ACCOUNT_NOT_FOUND"
    ELSE IF {source.status, dest.status} # {"ACTIVE"} THEN "ACCOUNT_NOT_ACTIVE"
    ELSE IF {source.currency, dest.currency} # {b.currency} THEN "CURRENCY_MISMATCH"
    ELSE IF source.available < b.amount THEN "INSUFFICIENT_BALANCE"
    ELSE "NONE"

\* Mutated forms of RequestMatchesExisting: one compares too little; the other
\* takes the accounts the wrong way round.
MatchesCurrency(b, t) == t.currency = b.currency
MatchesReversed(b, t) == t.source = b.destination /\ t.destination = b.source

\* requestMatchesExisting: the spellings of the request against the stored
\* ids, and its number against the rounded amount.
RequestMatchesExisting(b, t) ==
    /\ t.source = b.source
    /\ t.destination = b.destination
    /\ t.currency = b.currency
    /\ t.amount = b.amount

NewTransfer(p) == [id |-> p, reference |-> tReq[p].reference,
                   source |-> Uuid[tReq[p].source], destination |-> Uuid[tReq[p].destination],
                   amount |-> ToNumeric(tReq[p].amount), currency |-> tReq[p].currency]

Debit(p) == [transfer |-> p, type |-> "DEBIT", amount |-> ToNumeric(tReq[p].amount),
             balance_after |-> ToNumeric(SourceBalanceAfter(p))]

Credit(p) == [transfer |-> p, type |-> "CREDIT", amount |-> ToNumeric(tReq[p].amount),
              balance_after |-> ToNumeric(DestBalanceAfter(p))]

\* Mutated form of AuditOf: it reads the source after the debit.
AuditAfterDebit(p) == [transfer |-> p,
                       source_before |-> Visible(p, Uuid[tReq[p].source]).available,
                       source_after |-> ToNumeric(SourceBalanceAfter(p)),
                       dest_before |-> DestAvailable(p),
                       dest_after |-> ToNumeric(DestBalanceAfter(p))]

AuditOf(p) == [transfer |-> p,
               source_before |-> SourceAvailable(p),
               source_after |-> ToNumeric(SourceBalanceAfter(p)),
               dest_before |-> DestAvailable(p),
               dest_after |-> ToNumeric(DestBalanceAfter(p))]
-----------------------------------------------------------------------------
(***************************************************************************)
(* Control.                                                                *)
(***************************************************************************)

Goto(p, pc) == tPc' = [tPc EXCEPT ![p] = pc]

Finish(p, kind, id) ==
    /\ Goto(p, "done")
    /\ tOutcome' = [tOutcome EXCEPT ![p] = [kind |-> kind, transfer |-> id]]

\* An error thrown inside the try block, on its way to the rollback.
Throw(p, kind) ==
    /\ Goto(p, "rollback")
    /\ tOutcome' = [tOutcome EXCEPT ![p] = [kind |-> kind, transfer |-> None]]

\* The database refuses a statement: it aborts the transaction at once and
\* the call throws.
StatementError(p, kind) == Abort(p) /\ Throw(p, kind)

\* Return the transfer that has this reference, if the body is the same.
AnswerFrom(p, t) ==
    IF RequestMatchesExisting(tReq[p], t)
    THEN Finish(p, "COMPLETED", t.id)
    ELSE Finish(p, "IDEMPOTENCY_CONFLICT", None)
-----------------------------------------------------------------------------
(***************************************************************************)
(* The steps of one request.                                               *)
(***************************************************************************)

\* A request arrives; equal spellings are refused before anything is read.
Receive(p) ==
    /\ tPc[p] = "idle"
    /\ \E b \in Bodies :
          /\ tReq' = [tReq EXCEPT ![p] = b]
          /\ IF b.source = b.destination
             THEN Finish(p, "SAME_ACCOUNT", None)
             ELSE Goto(p, "lookup") /\ UNCHANGED tOutcome
    /\ UNCHANGED <<dbVars, tAttempt, tSeen, tRead>>

\* findByReference before the transaction.
Lookup(p) ==
    /\ tPc[p] = "lookup"
    /\ IF ReferenceTaken(tReq[p].reference)
       THEN AnswerFrom(p, ByReference(tReq[p].reference))
       ELSE Goto(p, "begin") /\ UNCHANGED tOutcome
    /\ UNCHANGED <<dbVars, tReq, tAttempt, tSeen, tRead>>

\* getTransaction()
Begin(p) ==
    /\ tPc[p] = "begin"
    /\ Goto(p, "lockFirst")
    /\ UNCHANGED <<dbVars, tReq, tAttempt, tSeen, tRead, tOutcome>>

LockFirst(p) ==
    /\ tPc[p] = "lockFirst"
    /\ RowFree(p, Uuid[FirstId(p)])
    /\ lock' = Lock(p, Uuid[FirstId(p)])
    /\ tSeen' = [tSeen EXCEPT ![p].first = Visible(p, Uuid[FirstId(p)])]
    /\ Goto(p, "lockSecond")
    /\ UNCHANGED <<tables, pend, tReq, tAttempt, tRead, tOutcome>>

\* The second lock, then every business rule: no await lies between them.
LockSecond(p) ==
    /\ tPc[p] = "lockSecond"
    /\ RowFree(p, Uuid[SecondId(p)])
    /\ lock' = Lock(p, Uuid[SecondId(p)])
    /\ LET second == Visible(p, Uuid[SecondId(p)])
           broken == Rejection(tReq[p], SourceAccount(tReq[p], tSeen[p].first, second),
                                        DestAccount(tReq[p], tSeen[p].first, second))
       IN  /\ tSeen' = [tSeen EXCEPT ![p].second = second]
           /\ IF broken = "NONE"
              THEN Goto(p, "insert") /\ UNCHANGED tOutcome
              ELSE Throw(p, broken)
    /\ UNCHANGED <<tables, pend, tReq, tAttempt, tRead>>

\* Mutated form of InsertTransfer: an uncommitted insert refuses it at once.
InsertTransferUnwaiting(p) ==
    /\ tPc[p] = "insert"
    /\ IF InsertersOf(p, tReq[p].reference) # {} \/ ReferenceTaken(tReq[p].reference)
       THEN StatementError(p, "UNIQUE_VIOLATION")
       ELSE /\ pend' = [pend EXCEPT ![p].transfers = @ \cup {NewTransfer(p)}]
            /\ Goto(p, "debitRead")
            /\ UNCHANGED <<tables, lock, tOutcome>>
    /\ UNCHANGED <<tReq, tAttempt, tSeen, tRead>>

\* INSERT INTO transfers: waits for an uncommitted insert of the same
\* reference, and fails on a committed one.
InsertTransfer(p) ==
    /\ tPc[p] = "insert"
    /\ InsertersOf(p, tReq[p].reference) = {}
    /\ IF ReferenceTaken(tReq[p].reference)
       THEN StatementError(p, "UNIQUE_VIOLATION")
       ELSE /\ pend' = [pend EXCEPT ![p].transfers = @ \cup {NewTransfer(p)}]
            /\ Goto(p, "debitRead")
            /\ UNCHANGED <<tables, lock, tOutcome>>
    /\ UNCHANGED <<tReq, tAttempt, tSeen, tRead>>

\* updateBalances reads the row once more ...
ReadBalances(p, a, next) ==
    /\ tRead' = [tRead EXCEPT ![p] = Visible(p, a)]
    /\ Goto(p, next)
    /\ UNCHANGED <<dbVars, tReq, tAttempt, tSeen, tOutcome>>

\* ... adds the deltas in JavaScript, and writes both balances back.
WriteBalances(p, a, delta, next) ==
    /\ IF Fits(tRead[p].available + delta) /\ Fits(tRead[p].ledger + delta)
       THEN /\ UpdateBalanceColumns(p, a, ToNumeric(tRead[p].available + delta),
                                          ToNumeric(tRead[p].ledger + delta))
            /\ Goto(p, next)
            /\ UNCHANGED tOutcome
       ELSE StatementError(p, "INTERNAL_ERROR")
    /\ UNCHANGED <<tReq, tAttempt, tSeen, tRead>>

DebitRead(p) ==
    /\ tPc[p] = "debitRead"
    /\ ReadBalances(p, Uuid[tReq[p].source], "debitWrite")

DebitWrite(p) ==
    /\ tPc[p] = "debitWrite"
    /\ WriteBalances(p, Uuid[tReq[p].source], -tReq[p].amount, "creditRead")

CreditRead(p) ==
    /\ tPc[p] = "creditRead"
    /\ ReadBalances(p, Uuid[tReq[p].destination], "creditWrite")

CreditWrite(p) ==
    /\ tPc[p] = "creditWrite"
    /\ WriteBalances(p, Uuid[tReq[p].destination], tReq[p].amount, "entries")

\* Mutated form of InsertEntries: createMany without its transaction.
InsertEntriesUntransacted(p) ==
    /\ tPc[p] = "entries"
    /\ ledger' = [ledger EXCEPT ![Uuid[tReq[p].source]] = Append(@, Debit(p)),
                                ![Uuid[tReq[p].destination]] = Append(@, Credit(p))]
    /\ Goto(p, "audit")
    /\ UNCHANGED <<accounts, transfers, audit, lock, pend, tOutcome, tReq, tAttempt, tSeen, tRead>>

\* createMany: both ledger entries in one INSERT.
InsertEntries(p) ==
    /\ tPc[p] = "entries"
    /\ IF Fits(SourceBalanceAfter(p)) /\ Fits(DestBalanceAfter(p))
       THEN /\ pend' = [pend EXCEPT ![p].entries =
                 [a \in Accounts |->
                    (IF a = Uuid[tReq[p].source] THEN <<Debit(p)>> ELSE <<>>)
                    \o (IF a = Uuid[tReq[p].destination] THEN <<Credit(p)>> ELSE <<>>)]]
            /\ Goto(p, "audit")
            /\ UNCHANGED <<tables, lock, tOutcome>>
       ELSE StatementError(p, "INTERNAL_ERROR")
    /\ UNCHANGED <<tReq, tAttempt, tSeen, tRead>>

\* auditLogRepository.create; its numbers are those InsertEntries has stored.
InsertAudit(p) ==
    /\ tPc[p] = "audit"
    /\ pend' = [pend EXCEPT ![p].audit = @ \cup {AuditOf(p)}]
    /\ Goto(p, "commit")
    /\ UNCHANGED <<tables, lock, tReq, tAttempt, tSeen, tRead, tOutcome>>

CommitTransfer(p) ==
    /\ tPc[p] = "commit"
    /\ Commit(p)
    /\ Goto(p, "committed")
    /\ tOutcome' = [tOutcome EXCEPT ![p] = [kind |-> "COMPLETED", transfer |-> p]]
    /\ UNCHANGED <<tReq, tAttempt, tSeen, tRead>>

\* return toTransferResult(transfer): the answer leaves the process.
Respond(p) ==
    /\ tPc[p] = "committed"
    /\ Goto(p, "done")
    /\ UNCHANGED <<dbVars, tReq, tAttempt, tSeen, tRead, tOutcome>>

\* Mutated forms of EndTransaction: the transaction is left open; its work is
\* undone by hand, by reference.
LeakTransaction(p) == UNCHANGED dbVars
DeleteByReference(p) ==
    /\ transfers' = {t \in transfers : t.reference # tReq[p].reference}
    /\ lock' = Unlock(p)
    /\ pend' = [pend EXCEPT ![p] = NothingPending]
    /\ UNCHANGED <<accounts, ledger, audit>>

\* await transaction.rollback(); nothing is left to undo after a failed statement.
EndTransaction(p) == Abort(p)

\* Mutated form of RetriesDeadlock: any failure, no matter how often.
RetriesAlways(p) == tOutcome[p].kind \in {"DEADLOCK", "INTERNAL_ERROR"}

\* isDeadlock && attempt < maxDeadlockRetries - 1
RetriesDeadlock(p) == tOutcome[p].kind = "DEADLOCK" /\ tAttempt[p] < MaxDeadlockRetries - 1

\* Mutated form of RetryFrom: the row read under the first lock is kept.
RetryFromSecondLock == "lockSecond"

\* The next turn of the loop opens a new transaction and locks both rows again.
RetryFrom == "begin"

\* The catch block: roll back, then try again, look the reference up, or throw.
Rollback(p) ==
    /\ tPc[p] = "rollback"
    /\ EndTransaction(p)
    /\ IF RetriesDeadlock(p)
       THEN /\ tAttempt' = [tAttempt EXCEPT ![p] = @ + 1]
            /\ Goto(p, RetryFrom)
            /\ tOutcome' = [tOutcome EXCEPT ![p] = NoOutcome]
       ELSE /\ UNCHANGED tAttempt
            /\ CASE tOutcome[p].kind = "UNIQUE_VIOLATION" ->
                      Goto(p, "relookup") /\ UNCHANGED tOutcome
                 [] tOutcome[p].kind = "DEADLOCK" -> Finish(p, "INTERNAL_ERROR", None)
                 [] OTHER -> Goto(p, "done") /\ UNCHANGED tOutcome
    /\ UNCHANGED <<tReq, tSeen, tRead>>

\* findByReference after a unique violation; with no row the error is rethrown.
Relookup(p) ==
    /\ tPc[p] = "relookup"
    /\ IF ReferenceTaken(tReq[p].reference)
       THEN AnswerFrom(p, ByReference(tReq[p].reference))
       ELSE Finish(p, "INTERNAL_ERROR", None)
    /\ UNCHANGED <<dbVars, tReq, tAttempt, tSeen, tRead>>
-----------------------------------------------------------------------------
(***************************************************************************)
(* Waiting, and the deadlock detector.  Only transfers wait while they     *)
(* hold a lock, so a cycle of waits consists of transfers.                 *)
(***************************************************************************)

\* The sessions that have to end before the next statement of p can run.
WaitsFor(p) ==
    CASE tPc[p] = "lockFirst"  -> {lock[Uuid[FirstId(p)]]} \ {None, p}
      [] tPc[p] = "lockSecond" -> {lock[Uuid[SecondId(p)]]} \ {None, p}
      [] tPc[p] = "insert"     -> InsertersOf(p, tReq[p].reference)
      [] OTHER -> {}

\* C is made of cycles of waiting transfers.
WaitCycle(C) ==
    /\ C # {}
    /\ \A p \in C : \E q \in C : q \in WaitsFor(p)
    /\ \A q \in C : \E p \in C : q \in WaitsFor(p)

\* PostgreSQL breaks a cycle by failing the statement of one of its members
\* with 40P01.
DeadlockVictim(p) ==
    /\ \E C \in SUBSET TransferRequests : p \in C /\ WaitCycle(C)
    /\ StatementError(p, "DEADLOCK")
    /\ UNCHANGED <<tReq, tAttempt, tSeen, tRead>>
-----------------------------------------------------------------------------
(***************************************************************************)
(* Failures.                                                               *)
(***************************************************************************)

\* A statement fails for a reason of its own: a lost connection, a timeout.
StatementFails(p) ==
    /\ "statement" \in Faults
    /\ tPc[p] \in Statements
    /\ StatementError(p, "INTERNAL_ERROR")
    /\ UNCHANGED <<tReq, tAttempt, tSeen, tRead>>

\* A call outside the try block fails: the lookups, and getTransaction() when
\* no connection is free in time.
CallFails(p) ==
    /\ "statement" \in Faults
    /\ tPc[p] \in {"lookup", "begin", "relookup"}
    /\ Finish(p, "INTERNAL_ERROR", None)
    /\ UNCHANGED <<dbVars, tReq, tAttempt, tSeen, tRead>>

\* Mutated form of CommitFails: tried again as a deadlock is.
CommitRetried(p) ==
    /\ "commit" \in Faults
    /\ tPc[p] = "commit"
    /\ Commit(p) \/ Abort(p)
    /\ Goto(p, RetryFrom)
    /\ UNCHANGED <<tReq, tAttempt, tSeen, tRead, tOutcome>>

\* The connection is lost while COMMIT runs, before or after it takes effect.
\* commit() throws and so does rollback() of a finished transaction.
CommitFails(p) ==
    /\ "commit" \in Faults
    /\ tPc[p] = "commit"
    /\ Commit(p) \/ Abort(p)
    /\ Finish(p, "INTERNAL_ERROR", None)
    /\ UNCHANGED <<tReq, tAttempt, tSeen, tRead>>

\* ROLLBACK fails with its connection: the catch block throws at once.
RollbackFails(p) ==
    /\ "rollback" \in Faults
    /\ tPc[p] = "rollback"
    /\ Abort(p)
    /\ Finish(p, "INTERNAL_ERROR", None)
    /\ UNCHANGED <<tReq, tAttempt, tSeen, tRead>>

\* The process dies with the request; PostgreSQL aborts its transaction.
Crash(p) ==
    /\ "crash" \in Faults
    /\ tPc[p] \notin {"idle"} \cup Answered
    /\ Abort(p)
    /\ Goto(p, "dead")
    /\ tOutcome' = [tOutcome EXCEPT ![p] = NoOutcome]
    /\ UNCHANGED <<tReq, tAttempt, tSeen, tRead>>

\* What the running program does for a request once it has arrived.
TransferProgress(p) ==
    \/ Lookup(p)
    \/ Begin(p)
    \/ LockFirst(p)
    \/ LockSecond(p)
    \/ InsertTransfer(p)
    \/ DebitRead(p)
    \/ DebitWrite(p)
    \/ CreditRead(p)
    \/ CreditWrite(p)
    \/ InsertEntries(p)
    \/ InsertAudit(p)
    \/ CommitTransfer(p)
    \/ Respond(p)
    \/ Rollback(p)
    \/ Relookup(p)
    \/ DeadlockVictim(p)

TransferFault(p) ==
    \/ StatementFails(p)
    \/ CallFails(p)
    \/ CommitFails(p)
    \/ RollbackFails(p)
    \/ Crash(p)

TransferStep(p) == Receive(p) \/ TransferProgress(p) \/ TransferFault(p)

\* Every request has been answered: nothing is left to do.
TransfersOver == \A p \in TransferRequests : tPc[p] \in Answered

vars == <<dbVars, transferVars>>

Init == DbInit /\ TransferInit

Next == \/ \E p \in TransferRequests : TransferStep(p)
        \/ TransfersOver /\ UNCHANGED vars

Spec == Init /\ [][Next]_vars

\* The event loop runs every request that can run, and PostgreSQL grants a
\* free lock to a waiter and looks for deadlocks.  Arrivals and failures
\* need not happen.
FairSpec == Spec /\ \A p \in TransferRequests : WF_vars(TransferProgress(p))
-----------------------------------------------------------------------------
(***************************************************************************)
(* What a client may rely on.                                              *)
(***************************************************************************)

\* An answer 200 names a committed transfer that is the one the body asks
\* for, with its reference, whether this request created it or found it
\* (TransferService.ts:49, 154, 170).
SuccessIsDurable ==
    \A p \in TransferRequests : tOutcome[p].kind = "COMPLETED" =>
        \E t \in transfers :
            /\ t.id = tOutcome[p].transfer
            /\ t.reference = tReq[p].reference
            /\ t.source = Uuid[tReq[p].source]
            /\ t.destination = Uuid[tReq[p].destination]
            /\ t.amount = ToNumeric(tReq[p].amount)
            /\ t.currency = tReq[p].currency

\* Transfers move money and neither make nor destroy any, whatever fails
\* between the debit and the commit (TransferService.ts:101-151).
Conservation == Deposits(accounts) = Deposits(Opening)

\* A request answered with a business error has created no transfer; one
\* answered 500 or not at all may have, if its COMMIT was under way.
RejectionLeavesNoTrace ==
    \A p \in TransferRequests :
        tPc[p] = "done" /\ tOutcome[p].kind \notin {"COMPLETED", "INTERNAL_ERROR"} =>
            \A t \in transfers : t.id # p

\* A request refused by a rule on its two accounts breaks that very rule as they
\* are, until its rollback: the row locked first is not out of date when the
\* rules are checked (TransferService.ts:61-86).  An account that is missing has no
\* row to lock, and may be created meanwhile.
RefusalsAreDue ==
    \A p \in TransferRequests :
        (/\ tPc[p] = "rollback"
         /\ tOutcome[p].kind \in {"ACCOUNT_NOT_ACTIVE", "CURRENCY_MISMATCH",
                                  "INSUFFICIENT_BALANCE"}) =>
            tOutcome[p].kind = Rejection(tReq[p], accounts[Uuid[tReq[p].source]],
                                                  accounts[Uuid[tReq[p].destination]])

\* A request holds locks and uncommitted writes only between BEGIN and the
\* end of its transaction, on every path through the catch block: a retry,
\* the second lookup and the answer start with nothing held.
NothingHeldOutsideTransaction ==
    \A p \in TransferRequests : tPc[p] \notin Statements \cup {"commit", "rollback"} =>
        /\ \A a \in Accounts : lock[a] # p
        /\ pend[p] = NothingPending

\* A unique violation always finds the transfer that caused it: the 500 of a
\* rethrown UniqueConstraintError (TransferService.ts:164-173) never happens.
UniqueConflictFindsWinner ==
    \A p \in TransferRequests :
        (tPc[p] \in {"rollback", "relookup"} /\ tOutcome[p].kind = "UNIQUE_VIOLATION") =>
            ReferenceTaken(tReq[p].reference)

\* No set of transfers waits for each other (README.md:434, "locking in a
\* consistent order (sorted account IDs) to avoid deadlocks").
NoWaitCycle == \A C \in SUBSET TransferRequests : ~WaitCycle(C)

\* 409 IDEMPOTENCY_CONFLICT is only for a reference that was used with another
\* body: the request that created the transfer is not the one being refused
\* sent again (README.md:299).
NoFalseConflict ==
    \A p \in TransferRequests : tOutcome[p].kind = "IDEMPOTENCY_CONFLICT" =>
        \E t \in transfers : t.reference = tReq[p].reference /\ tReq[t.id] # tReq[p]

\* Of two requests with the same body the second is answered with the
\* transfer of the first, however they overlap (README.md:230 and 438).
DuplicateGetsWinner ==
    \A p, q \in TransferRequests :
        (/\ tPc[p] = "done" /\ tPc[q] = "done"
         /\ tReq[p] = tReq[q]
         /\ tOutcome[p].kind = "COMPLETED") => tOutcome[q] = tOutcome[p]

\* Every request that arrives is answered, unless its process dies.
EveryRequestAnswered ==
    \A p \in TransferRequests : tPc[p] # "idle" ~> tPc[p] \in Answered
=============================================================================
