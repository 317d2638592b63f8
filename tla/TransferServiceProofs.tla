----------------------- MODULE TransferServiceProofs -----------------------
(***************************************************************************)
(* Proofs about the transfer service, for any number of requests, accounts *)
(* and bodies, under any interleaving and any of the failures.             *)
(***************************************************************************)
EXTENDS TransferService, SequenceTheorems, Sums
-----------------------------------------------------------------------------
(***************************************************************************)
(* What typing rests on.  A posting is written with the numbers of rows    *)
(* read several statements earlier, so its columns hold them only because  *)
(* the rules were checked on those rows and the widths on those numbers.   *)
(***************************************************************************)

\* The calls a request makes once its rules have been checked.
Posting == {"insert", "debitRead", "debitWrite", "creditRead", "creditWrite", "entries",
            "audit", "commit"}

RulesHold(p) == Rejection(tReq[p], SourceAccount(tReq[p], tSeen[p].first, tSeen[p].second),
                                   DestAccount(tReq[p], tSeen[p].first, tSeen[p].second)) = "NONE"

RequestSound(p) ==
    /\ tPc[p] # "idle" => tReq[p] \in Bodies
    /\ tPc[p] \in Posting => RulesHold(p)
    /\ tPc[p] = "audit" => Fits(SourceBalanceAfter(p)) /\ Fits(DestBalanceAfter(p))

TypeInv == TypeOK /\ \A p \in TransferRequests : RequestSound(p)
-----------------------------------------------------------------------------
(***************************************************************************)
(* Numbers and rows.                                                       *)
(***************************************************************************)

\* A column holds what it rounds a fitting number to.
LEMMA RoundedIsColumn ==
    ASSUME NEW x \in Int, Fits(x)
    PROVE  ToNumeric(x) \in Column
<1>1. ToNumeric(x) \in Int /\ ToNumeric(x) % 4 = 0
  BY DEF ToNumeric, Quantum
<1> QED
  BY <1>1 DEF Fits, Column, IsWhole, Quantum

\* An amount no larger than a column's value fits into a column.
LEMMA FundedFits ==
    ASSUME NEW x \in Nat, NEW c \in Column, x <= c
    PROVE  Fits(x)
<1>1. c \in Int /\ c % 4 = 0 /\ c <= MaxNumeric
  BY MaxNumericAssumption DEF Column, IsWhole, Quantum
<1>2. PICK k \in Int : c = 4 * k
  BY <1>1
<1>3. (x + 2) \div 4 <= k /\ (x + 2) \div 4 >= 0 /\ (x + 2) \div 4 \in Int
  BY <1>2
<1>4. ToNumeric(x) = 4 * ((x + 2) \div 4)
  BY DEF ToNumeric, Quantum
<1> QED
  BY <1>1, <1>2, <1>3, <1>4, MaxNumericAssumption DEF Fits

LEMMA RowBalances ==
    ASSUME NEW r \in Row \cup {NoRow}
    PROVE  r.available \in Column /\ r.ledger \in Column /\ r.available \in Int /\ r.ledger \in Int
<1>1. 0 \in Column
  BY MaxNumericAssumption DEF Column, IsWhole, Quantum
<1>2. Column \subseteq Int
  BY DEF Column
<1>3. CASE r \in Row
  BY <1>2, <1>3 DEF Row
<1>4. CASE r = NoRow
  BY <1>1, <1>4 DEF NoRow
<1> QED
  BY <1>3, <1>4

LEMMA VisibleRow ==
    ASSUME DbTypeOK, NEW s \in Sessions, NEW a \in Accounts
    PROVE  Visible(s, a) \in Row \cup {NoRow}
BY DEF DbTypeOK, TablesTypeOK, Pending, Visible
-----------------------------------------------------------------------------
(***************************************************************************)
(* What the database keeps typed.                                          *)
(***************************************************************************)

LEMMA LockTyped ==
    ASSUME DbTypeOK, NEW s \in Sessions, NEW a \in Accounts
    PROVE  Lock(s, a) \in [Accounts -> Sessions \cup {None}]
BY DEF DbTypeOK, Lock

LEMMA UnlockTyped ==
    ASSUME DbTypeOK, NEW s \in Sessions
    PROVE  Unlock(s) \in [Accounts -> Sessions \cup {None}]
BY DEF DbTypeOK, Unlock

LEMMA NothingPendingTyped == NothingPending \in Pending
BY DEF NothingPending, Pending

LEMMA AbortTyped ==
    ASSUME DbTypeOK, NEW s \in Sessions, Abort(s)
    PROVE  DbTypeOK'
BY UnlockTyped, NothingPendingTyped DEF DbTypeOK, TablesTypeOK, Abort, tables

LEMMA CommitTyped ==
    ASSUME DbTypeOK, NEW s \in Sessions, Commit(s)
    PROVE  DbTypeOK'
<1>1. accounts' \in [Accounts -> Row \cup {NoRow}]
  BY VisibleRow DEF Commit
<1>2. pend[s].transfers \subseteq Transfer /\ pend[s].audit \subseteq AuditRow
      /\ pend[s].entries \in [Accounts -> Seq(Entry)]
  BY DEF DbTypeOK, Pending
<1>3. transfers' \subseteq Transfer /\ audit' \subseteq AuditRow
  BY <1>2 DEF Commit, DbTypeOK, TablesTypeOK
<1>4. ledger' \in [Accounts -> Seq(Entry)]
  <2>1. \A a \in Accounts : ledger[a] \o pend[s].entries[a] \in Seq(Entry)
    BY <1>2 DEF DbTypeOK, TablesTypeOK
  <2> QED
    BY <2>1 DEF Commit
<1>5. lock' \in [Accounts -> Sessions \cup {None}] /\ pend' \in [Sessions -> Pending]
  BY UnlockTyped, NothingPendingTyped DEF Commit, DbTypeOK
<1> QED
  BY <1>1, <1>3, <1>4, <1>5 DEF DbTypeOK, TablesTypeOK

\* UPDATE of both balances keeps a row a row.
LEMMA UpdateTyped ==
    ASSUME DbTypeOK, NEW s \in Sessions, NEW a \in Accounts,
           NEW x \in Column, NEW y \in Column, UpdateBalanceColumns(s, a, x, y)
    PROVE  DbTypeOK'
<1> DEFINE v == Visible(s, a)
           r == IF v = NoRow THEN pend[s].rows[a] ELSE [v EXCEPT !.available = x, !.ledger = y]
<1>1. v \in Row \cup {NoRow}
  BY VisibleRow
<1>2. pend[s] \in Pending
  BY DEF DbTypeOK
<1>3. r \in Row \cup {NoRow}
  <2>1. CASE v = NoRow
    BY <2>1, <1>2 DEF Pending
  <2>2. CASE v # NoRow
    BY <2>2, <1>1 DEF Row
  <2> QED
    BY <2>1, <2>2
<1>4. pend' = [pend EXCEPT ![s].rows[a] = r]
  BY DEF UpdateBalanceColumns
<1> HIDE DEF v, r
<1>5. [pend[s] EXCEPT !.rows[a] = r] \in Pending
  BY <1>2, <1>3 DEF Pending
<1>6. pend' \in [Sessions -> Pending]
  BY <1>4, <1>5 DEF DbTypeOK
<1> QED
  BY <1>6, LockTyped DEF DbTypeOK, TablesTypeOK, UpdateBalanceColumns, tables
-----------------------------------------------------------------------------
(***************************************************************************)
(* What a request knows of its own body and rows.                          *)
(***************************************************************************)

LEMMA BodyTyped ==
    ASSUME TypeInv, NEW p \in TransferRequests, tPc[p] # "idle"
    PROVE  /\ p \in Sessions
           /\ tReq[p] \in Body
           /\ tReq[p].amount \in Nat /\ tReq[p].currency \in Currencies
           /\ tReq[p].reference \in References
           /\ Uuid[tReq[p].source] \in Accounts /\ Uuid[tReq[p].destination] \in Accounts
           /\ Uuid[FirstId(p)] \in Accounts /\ Uuid[SecondId(p)] \in Accounts
<1>1. p \in Sessions /\ tReq[p] \in Body
  BY TransferAssumption DEF TypeInv, RequestSound
<1>2. FirstId(p) \in Ids /\ SecondId(p) \in Ids
  BY <1>1 DEF FirstId, SecondId, LockOrder, Body
<1> QED
  BY <1>1, <1>2, HandlersAssumption DEF Body

\* Once the rules have been checked, every number of the posting fits its column.
LEMMA PostingTyped ==
    ASSUME TypeInv, NEW p \in TransferRequests, tPc[p] \in Posting
    PROVE  /\ SourceAvailable(p) \in Column /\ DestAvailable(p) \in Column
           /\ SourceBalanceAfter(p) \in Int /\ DestBalanceAfter(p) \in Int
           /\ ToNumeric(tReq[p].amount) \in Column
<1> DEFINE source == SourceAccount(tReq[p], tSeen[p].first, tSeen[p].second)
           dest == DestAccount(tReq[p], tSeen[p].first, tSeen[p].second)
<1>1. source \in Row \cup {NoRow} /\ dest \in Row \cup {NoRow}
  BY DEF TypeInv, TypeOK, TransferTypeOK, SourceAccount, DestAccount
<1>2. tPc[p] # "idle"
  BY DEF Posting
<1>3. tReq[p].amount \in Nat
  BY <1>2, BodyTyped
<1>4. /\ source.available \in Column /\ dest.available \in Column
      /\ source.available \in Int /\ dest.available \in Int
  BY <1>1, RowBalances
<1>5. Rejection(tReq[p], source, dest) = "NONE"
  BY DEF TypeInv, RequestSound, RulesHold
<1>6. ~(source.available < tReq[p].amount)
  BY <1>5 DEF Rejection
<1>7. tReq[p].amount <= source.available
  BY <1>3, <1>4, <1>6
<1>8. Fits(tReq[p].amount)
  BY <1>3, <1>4, <1>7, FundedFits
<1>9. ToNumeric(tReq[p].amount) \in Column
  BY <1>3, <1>8, RoundedIsColumn
<1> QED
  BY <1>3, <1>4, <1>9 DEF SourceAvailable, DestAvailable, SourceBalanceAfter, DestBalanceAfter

\* A step of one request leaves the variables of the others alone.
LEMMA OthersUntouched ==
    ASSUME TransferTypeOK, NEW p \in TransferRequests, TransferStep(p),
           NEW q \in TransferRequests, q # p
    PROVE  /\ tPc'[q] = tPc[q] /\ tReq'[q] = tReq[q] /\ tSeen'[q] = tSeen[q]
           /\ tRead'[q] = tRead[q] /\ tOutcome'[q] = tOutcome[q]
<1> USE DEF TransferTypeOK, Goto, Finish, Throw, StatementError, AnswerFrom
<1>1. CASE Receive(p)
  BY <1>1 DEF Receive
<1>2. CASE Lookup(p) \/ Relookup(p)
  BY <1>2 DEF Lookup, Relookup
<1>3. CASE Begin(p) \/ LockFirst(p) \/ LockSecond(p)
  BY <1>3 DEF Begin, LockFirst, LockSecond
<1>4. CASE InsertTransfer(p) \/ InsertEntries(p) \/ InsertAudit(p)
  BY <1>4 DEF InsertTransfer, InsertEntries, InsertAudit
<1>5. CASE DebitRead(p) \/ CreditRead(p)
  BY <1>5 DEF DebitRead, CreditRead, ReadBalances
<1>6. CASE DebitWrite(p) \/ CreditWrite(p)
  BY <1>6 DEF DebitWrite, CreditWrite, WriteBalances
<1>7. CASE CommitTransfer(p) \/ Respond(p)
  BY <1>7 DEF CommitTransfer, Respond
<1>8. CASE Rollback(p)
  BY <1>8 DEF Rollback
<1>9. CASE DeadlockVictim(p) \/ TransferFault(p)
  BY <1>9 DEF DeadlockVictim, TransferFault, StatementFails, CallFails, CommitFails,
              RollbackFails, Crash
<1> QED
  BY <1>1, <1>2, <1>3, <1>4, <1>5, <1>6, <1>7, <1>8, <1>9 DEF TransferStep, TransferProgress

\* What is known of a request stays known while its variables stay.
LEMMA SoundStays ==
    ASSUME NEW q \in TransferRequests, RequestSound(q),
           tPc'[q] = tPc[q], tReq'[q] = tReq[q], tSeen'[q] = tSeen[q]
    PROVE  RequestSound(q)'
BY DEF RequestSound, RulesHold, SourceBalanceAfter, DestBalanceAfter, SourceAvailable,
       DestAvailable
-----------------------------------------------------------------------------
(***************************************************************************)
(* A step keeps the types: first of the database, then of the request.     *)
(***************************************************************************)

LEMMA InsertTransferTyped ==
    ASSUME TypeInv, NEW p \in TransferRequests, InsertTransfer(p)
    PROVE  DbTypeOK'
<1>1. DbTypeOK /\ tPc[p] = "insert" /\ tPc[p] \in Posting /\ tPc[p] # "idle"
  BY DEF TypeInv, TypeOK, InsertTransfer, Posting
<1>2. p \in Sessions
  BY <1>1, BodyTyped
<1>3. CASE ReferenceTaken(tReq[p].reference)
  BY <1>1, <1>2, <1>3, AbortTyped DEF InsertTransfer, StatementError
<1>4. CASE ~ReferenceTaken(tReq[p].reference)
  <2>1. NewTransfer(p) \in Transfer
    BY <1>1, BodyTyped, PostingTyped DEF NewTransfer, Transfer
  <2>2. pend[p] \in Pending
    BY <1>1, <1>2 DEF DbTypeOK
  <2>3. [pend[p] EXCEPT !.transfers = @ \cup {NewTransfer(p)}] \in Pending
    BY <2>1, <2>2 DEF Pending
  <2>4. pend' \in [Sessions -> Pending]
    BY <1>1, <1>4, <2>3 DEF InsertTransfer, DbTypeOK
  <2> QED
    BY <1>1, <1>4, <2>4 DEF InsertTransfer, DbTypeOK, TablesTypeOK, tables
<1> QED
  BY <1>3, <1>4

LEMMA WriteBalancesTyped ==
    ASSUME TypeInv, NEW p \in TransferRequests, tPc[p] # "idle",
           NEW a \in Accounts, NEW delta \in Int, NEW next,
           WriteBalances(p, a, delta, next)
    PROVE  DbTypeOK'
<1>1. p \in Sessions /\ DbTypeOK
  BY BodyTyped DEF TypeInv, TypeOK
<1>2. tRead[p] \in Row \cup {NoRow}
  BY DEF TypeInv, TypeOK, TransferTypeOK
<1>3. tRead[p].available + delta \in Int /\ tRead[p].ledger + delta \in Int
  BY <1>2, RowBalances
<1>4. CASE Fits(tRead[p].available + delta) /\ Fits(tRead[p].ledger + delta)
  <2>1. ToNumeric(tRead[p].available + delta) \in Column
        /\ ToNumeric(tRead[p].ledger + delta) \in Column
    BY <1>3, <1>4, RoundedIsColumn
  <2> QED
    BY <1>1, <1>4, <2>1, UpdateTyped DEF WriteBalances
<1>5. CASE ~(Fits(tRead[p].available + delta) /\ Fits(tRead[p].ledger + delta))
  BY <1>1, <1>5, AbortTyped DEF WriteBalances, StatementError
<1> QED
  BY <1>4, <1>5

LEMMA InsertEntriesTyped ==
    ASSUME TypeInv, NEW p \in TransferRequests, InsertEntries(p)
    PROVE  DbTypeOK'
<1>1. DbTypeOK /\ tPc[p] = "entries" /\ tPc[p] \in Posting /\ tPc[p] # "idle"
  BY DEF TypeInv, TypeOK, InsertEntries, Posting
<1>2. p \in Sessions
  BY <1>1, BodyTyped
<1>3. CASE ~(Fits(SourceBalanceAfter(p)) /\ Fits(DestBalanceAfter(p)))
  BY <1>1, <1>2, <1>3, AbortTyped DEF InsertEntries, StatementError
<1>4. CASE Fits(SourceBalanceAfter(p)) /\ Fits(DestBalanceAfter(p))
  <2>1. ToNumeric(SourceBalanceAfter(p)) \in Column /\ ToNumeric(DestBalanceAfter(p)) \in Column
    BY <1>1, <1>4, PostingTyped, RoundedIsColumn
  <2>2. Debit(p) \in Entry /\ Credit(p) \in Entry
    BY <1>1, <1>2, <2>1, PostingTyped DEF Debit, Credit, Entry
  <2> DEFINE from(a) == IF a = Uuid[tReq[p].source] THEN <<Debit(p)>> ELSE <<>>
             to(a) == IF a = Uuid[tReq[p].destination] THEN <<Credit(p)>> ELSE <<>>
  <2>3. \A a \in Accounts : from(a) \in Seq(Entry) /\ to(a) \in Seq(Entry)
    BY <2>2
  <2>4. \A a \in Accounts : from(a) \o to(a) \in Seq(Entry)
    BY <2>3
  <2>5. pend' = [pend EXCEPT ![p].entries = [a \in Accounts |-> from(a) \o to(a)]]
    BY <1>4 DEF InsertEntries
  <2> HIDE DEF from, to
  <2>6. pend[p] \in Pending
    BY <1>1, <1>2 DEF DbTypeOK
  <2>7. [pend[p] EXCEPT !.entries = [a \in Accounts |-> from(a) \o to(a)]] \in Pending
    BY <2>4, <2>6 DEF Pending
  <2>8. pend' \in [Sessions -> Pending]
    BY <1>1, <2>5, <2>7 DEF DbTypeOK
  <2> QED
    BY <1>1, <1>4, <2>8 DEF InsertEntries, DbTypeOK, TablesTypeOK, tables
<1> QED
  BY <1>3, <1>4

LEMMA InsertAuditTyped ==
    ASSUME TypeInv, NEW p \in TransferRequests, InsertAudit(p)
    PROVE  DbTypeOK'
<1>1. DbTypeOK /\ tPc[p] = "audit" /\ tPc[p] \in Posting /\ tPc[p] # "idle"
  BY DEF TypeInv, TypeOK, InsertAudit, Posting
<1>2. p \in Sessions
  BY <1>1, BodyTyped
<1>3. Fits(SourceBalanceAfter(p)) /\ Fits(DestBalanceAfter(p))
  BY <1>1 DEF TypeInv, RequestSound
<1>4. ToNumeric(SourceBalanceAfter(p)) \in Column /\ ToNumeric(DestBalanceAfter(p)) \in Column
  BY <1>1, <1>3, PostingTyped, RoundedIsColumn
<1>5. AuditOf(p) \in AuditRow
  BY <1>1, <1>2, <1>4, PostingTyped DEF AuditOf, AuditRow
<1>6. pend[p] \in Pending
  BY <1>1, <1>2 DEF DbTypeOK
<1>7. [pend[p] EXCEPT !.audit = @ \cup {AuditOf(p)}] \in Pending
  BY <1>5, <1>6 DEF Pending
<1>8. pend' \in [Sessions -> Pending]
  BY <1>1, <1>7 DEF InsertAudit, DbTypeOK
<1> QED
  BY <1>1, <1>8 DEF InsertAudit, DbTypeOK, TablesTypeOK, tables

LEMMA DbStepTyped ==
    ASSUME TypeInv, NEW p \in TransferRequests, TransferStep(p)
    PROVE  DbTypeOK'
<1>1. DbTypeOK /\ p \in Sessions
  BY TransferAssumption DEF TypeInv, TypeOK
<1>2. CASE UNCHANGED dbVars
  BY <1>1, <1>2 DEF DbTypeOK, TablesTypeOK, dbVars, tables
<1>3. CASE Abort(p)
  BY <1>1, <1>3, AbortTyped
<1>4. CASE Commit(p)
  BY <1>1, <1>4, CommitTyped
<1>5. CASE LockFirst(p)
  BY <1>1, <1>5, BodyTyped, LockTyped DEF LockFirst, DbTypeOK, TablesTypeOK, tables
<1>6. CASE LockSecond(p)
  BY <1>1, <1>6, BodyTyped, LockTyped DEF LockSecond, DbTypeOK, TablesTypeOK, tables
<1>7. CASE DebitWrite(p)
  BY <1>7, BodyTyped, WriteBalancesTyped DEF DebitWrite
<1>8. CASE CreditWrite(p)
  BY <1>8, BodyTyped, WriteBalancesTyped DEF CreditWrite
<1>9. CASE Receive(p) \/ Lookup(p) \/ Relookup(p) \/ Begin(p) \/ DebitRead(p) \/ CreditRead(p)
           \/ Respond(p) \/ CallFails(p)
  BY <1>2, <1>9 DEF Receive, Lookup, Relookup, Begin, DebitRead, CreditRead, ReadBalances,
                    Respond, CallFails
<1>10. CASE Rollback(p) \/ DeadlockVictim(p) \/ StatementFails(p) \/ RollbackFails(p) \/ Crash(p)
  BY <1>3, <1>10 DEF Rollback, EndTransaction, DeadlockVictim, StatementFails, RollbackFails,
                     Crash, StatementError
<1>11. CASE CommitTransfer(p) \/ CommitFails(p)
  BY <1>3, <1>4, <1>11 DEF CommitTransfer, CommitFails
<1> QED
  BY <1>5, <1>6, <1>7, <1>8, <1>9, <1>10, <1>11, InsertTransferTyped, InsertEntriesTyped,
     InsertAuditTyped DEF TransferStep, TransferProgress, TransferFault

\* How a request that stops is typed, whatever it answers.
LEMMA FinishTyped ==
    ASSUME TransferTypeOK, NEW p \in TransferRequests, NEW kind \in Outcomes,
           NEW id \in Sessions \cup {None}, Finish(p, kind, id) \/ (Throw(p, kind) /\ id = None)
    PROVE  /\ tPc' \in [TransferRequests -> TransferPcs]
           /\ tOutcome' \in [TransferRequests -> [kind : Outcomes, transfer : Sessions \cup {None}]]
<1>1. {"done", "rollback"} \subseteq TransferPcs
  BY DEF TransferPcs, Answered
<1>2. [kind |-> kind, transfer |-> id] \in [kind : Outcomes, transfer : Sessions \cup {None}]
  OBVIOUS
<1>3. tOutcome' = [tOutcome EXCEPT ![p] = [kind |-> kind, transfer |-> id]]
  BY DEF Finish, Throw
<1>4. tPc' = [tPc EXCEPT ![p] = "done"] \/ tPc' = [tPc EXCEPT ![p] = "rollback"]
  BY DEF Finish, Throw, Goto
<1> QED
  BY <1>1, <1>2, <1>3, <1>4 DEF TransferTypeOK

LEMMA AnswerTyped ==
    ASSUME TypeInv, NEW p \in TransferRequests, ReferenceTaken(tReq[p].reference),
           AnswerFrom(p, ByReference(tReq[p].reference))
    PROVE  /\ tPc' \in [TransferRequests -> TransferPcs]
           /\ tOutcome' \in [TransferRequests -> [kind : Outcomes, transfer : Sessions \cup {None}]]
<1> DEFINE t == ByReference(tReq[p].reference)
<1>1. t.id \in Sessions
  BY DEF ReferenceTaken, ByReference, TypeInv, TypeOK, DbTypeOK, TablesTypeOK, Transfer
<1>2. {"COMPLETED", "IDEMPOTENCY_CONFLICT"} \subseteq Outcomes
  BY DEF Outcomes
<1>3. TransferTypeOK
  BY DEF TypeInv, TypeOK
<1> HIDE DEF t
<1>4. Finish(p, "COMPLETED", t.id) \/ Finish(p, "IDEMPOTENCY_CONFLICT", None)
  BY DEF AnswerFrom, t
<1> QED
  BY <1>1, <1>2, <1>3, <1>4, FinishTyped

LEMMA RequestStepTyped ==
    ASSUME TypeInv, NEW p \in TransferRequests, TransferStep(p)
    PROVE  TransferTypeOK'
<1>1. TransferTypeOK /\ DbTypeOK /\ p \in Sessions
  BY TransferAssumption DEF TypeInv, TypeOK
<1>2. tPc[p] # "idle" =>
         /\ Visible(p, Uuid[FirstId(p)]) \in Row \cup {NoRow}
         /\ Visible(p, Uuid[SecondId(p)]) \in Row \cup {NoRow}
         /\ Visible(p, Uuid[tReq[p].source]) \in Row \cup {NoRow}
         /\ Visible(p, Uuid[tReq[p].destination]) \in Row \cup {NoRow}
  BY <1>1, BodyTyped, VisibleRow
<1> USE DEF TransferTypeOK, Goto
<1>3. CASE Receive(p)
  <2>1. tReq' \in [TransferRequests -> Bodies \cup {NoBody}]
    BY <1>1, <1>3 DEF Receive
  <2>2. "lookup" \in TransferPcs /\ "SAME_ACCOUNT" \in Outcomes
    BY DEF TransferPcs, Outcomes
  <2> QED
    BY <1>1, <1>3, <2>1, <2>2, FinishTyped DEF Receive
<1>4. CASE Lookup(p)
  <2>1. "begin" \in TransferPcs
    BY DEF TransferPcs
  <2> QED
    BY <1>1, <1>4, <2>1, AnswerTyped DEF Lookup
<1>5. CASE Relookup(p)
  <2>1. "INTERNAL_ERROR" \in Outcomes
    BY DEF Outcomes
  <2> QED
    BY <1>1, <1>5, <2>1, AnswerTyped, FinishTyped DEF Relookup
<1>6. CASE Begin(p) \/ Respond(p) \/ InsertAudit(p)
  BY <1>1, <1>6 DEF Begin, Respond, InsertAudit, TransferPcs, Statements, Answered
<1>7. CASE LockFirst(p)
  BY <1>1, <1>2, <1>7 DEF LockFirst, TransferPcs, Statements
<1>8. CASE LockSecond(p)
  <2> DEFINE second == Visible(p, Uuid[SecondId(p)])
             broken == Rejection(tReq[p], SourceAccount(tReq[p], tSeen[p].first, second),
                                          DestAccount(tReq[p], tSeen[p].first, second))
  <2>1. broken \in Outcomes
    BY DEF Rejection, Outcomes
  <2>2. "insert" \in TransferPcs
    BY DEF TransferPcs, Statements
  <2>3. tSeen' = [tSeen EXCEPT ![p].second = second] /\ UNCHANGED <<tReq, tAttempt, tRead>>
    BY <1>8 DEF LockSecond
  <2>4. (Goto(p, "insert") /\ UNCHANGED tOutcome) \/ Throw(p, broken)
    BY <1>8 DEF LockSecond
  <2>5. second \in Row \cup {NoRow}
    BY <1>2, <1>8 DEF LockSecond
  <2> HIDE DEF second, broken
  <2>6. tSeen' \in [TransferRequests -> [first : Row \cup {NoRow}, second : Row \cup {NoRow}]]
    BY <1>1, <2>3, <2>5
  <2> QED
    BY <1>1, <2>1, <2>2, <2>3, <2>4, <2>6, FinishTyped
<1>9. CASE InsertTransfer(p) \/ InsertEntries(p) \/ DebitWrite(p) \/ CreditWrite(p)
  <2>1. {"debitRead", "audit", "creditRead", "entries"} \subseteq TransferPcs
        /\ {"UNIQUE_VIOLATION", "INTERNAL_ERROR"} \subseteq Outcomes
    BY DEF TransferPcs, Statements, Outcomes
  <2> QED
    BY <1>1, <1>9, <2>1, FinishTyped DEF InsertTransfer, InsertEntries, DebitWrite, CreditWrite,
                                         WriteBalances, StatementError
<1>10. CASE DebitRead(p) \/ CreditRead(p)
  BY <1>1, <1>2, <1>10 DEF DebitRead, CreditRead, ReadBalances, TransferPcs, Statements
<1>11. CASE CommitTransfer(p)
  BY <1>1, <1>11 DEF CommitTransfer, TransferPcs, Outcomes
<1>12. CASE Rollback(p)
  <2>1. tAttempt' \in [TransferRequests -> 0..(MaxDeadlockRetries - 1)]
    BY <1>1, <1>12 DEF Rollback, RetriesDeadlock, MaxDeadlockRetries
  <2>2. {"begin", "relookup", "done"} \subseteq TransferPcs
        /\ {"NONE", "INTERNAL_ERROR"} \subseteq Outcomes /\ RetryFrom = "begin"
    BY DEF TransferPcs, Answered, Outcomes, RetryFrom
  <2>3. /\ tPc' \in [TransferRequests -> TransferPcs]
        /\ tOutcome' \in [TransferRequests -> [kind : Outcomes, transfer : Sessions \cup {None}]]
    <3>1. CASE Goto(p, "begin") /\ tOutcome' = [tOutcome EXCEPT ![p] = NoOutcome]
      BY <1>1, <2>2, <3>1 DEF NoOutcome
    <3>2. CASE (Goto(p, "relookup") \/ Goto(p, "done")) /\ UNCHANGED tOutcome
      BY <1>1, <2>2, <3>2
    <3>3. CASE Finish(p, "INTERNAL_ERROR", None)
      BY <1>1, <2>2, <3>3, FinishTyped
    <3> QED
      BY <1>12, <2>2, <3>1, <3>2, <3>3 DEF Rollback
  <2> QED
    BY <1>1, <1>12, <2>1, <2>3 DEF Rollback
<1>13. CASE DeadlockVictim(p) \/ StatementFails(p) \/ CallFails(p) \/ CommitFails(p) \/ RollbackFails(p)
  <2>1. {"DEADLOCK", "INTERNAL_ERROR"} \subseteq Outcomes
    BY DEF Outcomes
  <2> QED
    BY <1>1, <1>13, <2>1, FinishTyped DEF DeadlockVictim, StatementFails, CallFails, CommitFails,
                                          RollbackFails, StatementError
<1>14. CASE Crash(p)
  BY <1>1, <1>14 DEF Crash, NoOutcome, TransferPcs, Answered, Outcomes
<1> QED
  BY <1>3, <1>4, <1>5, <1>6, <1>7, <1>8, <1>9, <1>10, <1>11, <1>12, <1>13, <1>14
     DEF TransferStep, TransferProgress, TransferFault

\* The step of a request keeps what is known of it.
LEMMA SoundStep ==
    ASSUME TypeInv, NEW p \in TransferRequests, TransferStep(p)
    PROVE  RequestSound(p)'
<1>1. TransferTypeOK /\ RequestSound(p)
  BY DEF TypeInv, TypeOK
<1> USE DEF TransferTypeOK, Goto, Finish, Throw, StatementError, AnswerFrom
<1>2. ASSUME tReq'[p] \in Bodies, tPc'[p] \notin Posting
      PROVE  RequestSound(p)'
  BY <1>2 DEF RequestSound, Posting
<1>3. ASSUME UNCHANGED <<tReq, tSeen>>, tPc[p] # "idle",
             tPc'[p] \in Posting => tPc[p] \in Posting,
             tPc'[p] = "audit" => Fits(SourceBalanceAfter(p)) /\ Fits(DestBalanceAfter(p))
      PROVE  RequestSound(p)'
  BY <1>1, <1>3 DEF RequestSound, RulesHold, SourceBalanceAfter, DestBalanceAfter,
                    SourceAvailable, DestAvailable
<1>4. CASE Receive(p)
  <2>1. tReq'[p] \in Bodies /\ tPc'[p] \in {"done", "lookup"}
    BY <1>1, <1>4 DEF Receive
  <2> QED
    BY <1>2, <2>1 DEF Posting
<1>5. CASE Lookup(p) \/ Relookup(p)
  BY <1>1, <1>3, <1>5 DEF Lookup, Relookup, Posting
<1>6. CASE Begin(p) \/ Respond(p)
  BY <1>1, <1>3, <1>6 DEF Begin, Respond, Posting
<1>7. CASE LockFirst(p)
  BY <1>1, <1>2, <1>7 DEF LockFirst, RequestSound, Posting
<1>8. CASE LockSecond(p)
  <2>1. tReq'[p] \in Bodies /\ tReq' = tReq
    BY <1>1, <1>8 DEF LockSecond, RequestSound
  <2>2. CASE tPc'[p] = "rollback"
    BY <1>2, <2>1, <2>2 DEF Posting
  <2>3. CASE tPc'[p] # "rollback"
    <3>1. tPc'[p] = "insert"
          /\ Rejection(tReq[p], SourceAccount(tReq[p], tSeen[p].first, Visible(p, Uuid[SecondId(p)])),
                       DestAccount(tReq[p], tSeen[p].first, Visible(p, Uuid[SecondId(p)]))) = "NONE"
      BY <1>1, <1>8, <2>3 DEF LockSecond
    <3>2. tSeen'[p].first = tSeen[p].first /\ tSeen'[p].second = Visible(p, Uuid[SecondId(p)])
      BY <1>1, <1>8 DEF LockSecond
    <3> QED
      BY <2>1, <3>1, <3>2 DEF RequestSound, RulesHold
  <2> QED
    BY <2>2, <2>3
<1>9. CASE InsertTransfer(p) \/ InsertAudit(p)
  BY <1>1, <1>3, <1>9 DEF InsertTransfer, InsertAudit, Posting
<1>10. CASE DebitRead(p) \/ CreditRead(p)
  BY <1>1, <1>3, <1>10 DEF DebitRead, CreditRead, ReadBalances, Posting
<1>11. CASE DebitWrite(p) \/ CreditWrite(p)
  BY <1>1, <1>3, <1>11 DEF DebitWrite, CreditWrite, WriteBalances, Posting
<1>12. CASE InsertEntries(p)
  BY <1>1, <1>3, <1>12 DEF InsertEntries, Posting
<1>13. CASE CommitTransfer(p)
  BY <1>1, <1>3, <1>13 DEF CommitTransfer, Posting
<1>14. CASE Rollback(p)
  BY <1>1, <1>3, <1>14 DEF Rollback, RetryFrom, Posting
<1>15. CASE DeadlockVictim(p)
  <2>1. tPc[p] # "idle"
    BY <1>15 DEF DeadlockVictim, WaitCycle, WaitsFor
  <2> QED
    BY <1>1, <1>3, <1>15, <2>1 DEF DeadlockVictim, Posting
<1>16. CASE TransferFault(p)
  BY <1>1, <1>3, <1>16 DEF TransferFault, StatementFails, CallFails, CommitFails, RollbackFails,
                           Crash, Posting, Statements
<1> QED
  BY <1>4, <1>5, <1>6, <1>7, <1>8, <1>9, <1>10, <1>11, <1>12, <1>13, <1>14, <1>15, <1>16
     DEF TransferStep, TransferProgress

LEMMA TypeInvInit == Init => TypeInv
<1> SUFFICES ASSUME Init PROVE TypeInv
  OBVIOUS
<1>1. \A a \in Accounts : Opening[a] # NoRow => OpeningEntry(a) \in Entry
  BY TablesAssumption DEF OpeningEntry, Entry, Row
<1>2. ledger \in [Accounts -> Seq(Entry)]
  <2>1. \A a \in Accounts : (IF Opening[a] = NoRow THEN <<>> ELSE <<OpeningEntry(a)>>) \in Seq(Entry)
    BY <1>1
  <2> QED
    BY <2>1 DEF Init, DbInit, TablesInit
<1>3. TablesTypeOK
  BY <1>2, TablesAssumption DEF Init, DbInit, TablesInit, TablesTypeOK
<1>4. DbTypeOK
  BY <1>3, NothingPendingTyped DEF Init, DbInit, DbTypeOK
<1>5. TransferTypeOK
  BY DEF Init, TransferInit, TransferTypeOK, TransferPcs, NoOutcome, Outcomes, MaxDeadlockRetries
<1> QED
  BY <1>4, <1>5 DEF TypeInv, TypeOK, RequestSound, Posting, Init, TransferInit

LEMMA TypeInvStep == TypeInv /\ [Next]_vars => TypeInv'
<1> SUFFICES ASSUME TypeInv, [Next]_vars PROVE TypeInv'
  OBVIOUS
<1>1. CASE UNCHANGED vars
  BY <1>1 DEF TypeInv, TypeOK, DbTypeOK, TablesTypeOK, TransferTypeOK, RequestSound, RulesHold,
              SourceBalanceAfter, DestBalanceAfter, SourceAvailable, DestAvailable,
              vars, dbVars, tables, transferVars
<1>2. ASSUME NEW p \in TransferRequests, TransferStep(p)
      PROVE  TypeInv'
  <2>1. DbTypeOK' /\ TransferTypeOK'
    BY <1>2, DbStepTyped, RequestStepTyped
  <2>2. ASSUME NEW q \in TransferRequests, q # p
        PROVE  RequestSound(q)'
    BY <1>2, <2>2, OthersUntouched, SoundStays DEF TypeInv, TypeOK
  <2>3. RequestSound(p)'
    BY <1>2, SoundStep
  <2> QED
    BY <2>1, <2>2, <2>3 DEF TypeInv, TypeOK
<1> QED
  BY <1>1, <1>2 DEF Next

\* Every variable keeps its type: no statement the service sends is ever handed
\* a number that its column refuses after the code has gone on, and no row is
\* written that was not there (TransferService.ts:90-151).
THEOREM TransferTypes == Spec => []TypeOK
<1>1. TypeInv => TypeOK
  BY DEF TypeInv
<1> QED
  BY <1>1, TypeInvInit, TypeInvStep, PTL DEF Spec
-----------------------------------------------------------------------------
(***************************************************************************)
(* Isolation: what a step of one session leaves to the others.             *)
(***************************************************************************)

\* The locks and the uncommitted writes of q stay as they are.
Isolated(q) == /\ pend'[q] = pend[q]
               /\ \A a \in Accounts : lock'[a] = q <=> lock[a] = q

LEMMA LockIsolated ==
    ASSUME DbTypeOK, NEW s \in Sessions, NEW q \in Sessions, q # s, NEW a \in Accounts,
           RowFree(s, a), lock' = Lock(s, a), pend' = pend
    PROVE  Isolated(q)
BY TablesAssumption DEF DbTypeOK, RowFree, Lock, Isolated

LEMMA EndIsolated ==
    ASSUME DbTypeOK, NEW s \in Sessions, NEW q \in Sessions, q # s, Commit(s) \/ Abort(s)
    PROVE  Isolated(q)
BY TablesAssumption DEF DbTypeOK, Commit, Abort, Unlock, Isolated

LEMMA UpdateIsolated ==
    ASSUME DbTypeOK, NEW s \in Sessions, NEW q \in Sessions, q # s, NEW a \in Accounts,
           NEW x, NEW y, UpdateBalanceColumns(s, a, x, y)
    PROVE  Isolated(q)
BY TablesAssumption DEF DbTypeOK, RowFree, Lock, UpdateBalanceColumns, Isolated

LEMMA StepIsolated ==
    ASSUME TypeInv, NEW p \in TransferRequests, TransferStep(p), NEW q \in Sessions, q # p
    PROVE  Isolated(q)
<1>1. DbTypeOK /\ p \in Sessions
  BY TransferAssumption DEF TypeInv, TypeOK
<1>2. CASE UNCHANGED <<lock, pend>>
  BY <1>2 DEF Isolated
<1>3. CASE Commit(p) \/ Abort(p)
  BY <1>1, <1>3, EndIsolated
<1>4. CASE LockFirst(p)
  BY <1>1, <1>4, BodyTyped, LockIsolated DEF LockFirst
<1>5. CASE LockSecond(p)
  BY <1>1, <1>5, BodyTyped, LockIsolated DEF LockSecond
<1>6. CASE InsertTransfer(p)
  BY <1>1, <1>3, <1>6 DEF InsertTransfer, StatementError, Isolated, DbTypeOK
<1>7. CASE InsertEntries(p)
  BY <1>1, <1>3, <1>7 DEF InsertEntries, StatementError, Isolated, DbTypeOK
<1>8. CASE InsertAudit(p)
  BY <1>1, <1>8 DEF InsertAudit, Isolated, DbTypeOK
<1>9. CASE DebitWrite(p)
  <2>1. Uuid[tReq[p].source] \in Accounts
    BY <1>9, BodyTyped DEF DebitWrite
  <2> QED
    BY <1>1, <1>3, <1>9, <2>1, UpdateIsolated DEF DebitWrite, WriteBalances, StatementError
<1>10. CASE CreditWrite(p)
  <2>1. Uuid[tReq[p].destination] \in Accounts
    BY <1>10, BodyTyped DEF CreditWrite
  <2> QED
    BY <1>1, <1>3, <1>10, <2>1, UpdateIsolated DEF CreditWrite, WriteBalances, StatementError
<1>11. CASE Receive(p) \/ Lookup(p) \/ Relookup(p) \/ Begin(p) \/ DebitRead(p) \/ CreditRead(p)
            \/ Respond(p) \/ CallFails(p)
  BY <1>2, <1>11 DEF Receive, Lookup, Relookup, Begin, DebitRead, CreditRead, ReadBalances,
                     Respond, CallFails, dbVars
<1>12. CASE Rollback(p) \/ DeadlockVictim(p) \/ StatementFails(p) \/ RollbackFails(p) \/ Crash(p)
            \/ CommitTransfer(p) \/ CommitFails(p)
  BY <1>3, <1>12 DEF Rollback, EndTransaction, DeadlockVictim, StatementFails, RollbackFails,
                     Crash, StatementError, CommitTransfer, CommitFails
<1> QED
  BY <1>4, <1>5, <1>6, <1>7, <1>8, <1>9, <1>10, <1>11, <1>12
     DEF TransferStep, TransferProgress, TransferFault
-----------------------------------------------------------------------------
(***************************************************************************)
(* A transaction that is over holds nothing.                               *)
(***************************************************************************)

HoldsNothing(p) == (\A a \in Accounts : lock[a] # p) /\ pend[p] = NothingPending

InTransaction(p) == tPc[p] \in Statements \cup {"commit", "rollback"}

LEMMA EndHoldsNothing ==
    ASSUME DbTypeOK, NEW s \in Sessions, Commit(s) \/ Abort(s)
    PROVE  HoldsNothing(s)'
<1>1. lock' = Unlock(s) /\ pend' = [pend EXCEPT ![s] = NothingPending]
  BY DEF Commit, Abort
<1>2. pend'[s] = NothingPending
  BY <1>1 DEF DbTypeOK
<1>3. \A a \in Accounts : lock'[a] # s
  BY <1>1, TablesAssumption DEF Unlock
<1> QED
  BY <1>2, <1>3 DEF HoldsNothing

\* A request leaves its transaction only through COMMIT or ROLLBACK, and does
\* nothing that needs one before BEGIN.
LEMMA LeavesWithNothing ==
    ASSUME TypeInv, NEW p \in TransferRequests, TransferStep(p),
           ~InTransaction(p) => HoldsNothing(p), ~InTransaction(p)'
    PROVE  HoldsNothing(p)'
<1>1. DbTypeOK /\ TransferTypeOK /\ p \in Sessions
  BY TransferAssumption DEF TypeInv, TypeOK
<1>2. CASE Commit(p) \/ Abort(p)
  BY <1>1, <1>2, EndHoldsNothing
<1>3. CASE ~InTransaction(p) /\ UNCHANGED dbVars
  BY <1>3 DEF HoldsNothing, dbVars
<1> USE DEF TransferTypeOK, Goto, InTransaction, Statements
<1>4. CASE Receive(p) \/ Lookup(p) \/ Relookup(p) \/ Respond(p) \/ CallFails(p) \/ Begin(p)
  BY <1>3, <1>4 DEF Receive, Lookup, Relookup, Respond, CallFails, Begin
<1>5. CASE LockFirst(p) \/ LockSecond(p)
  BY <1>1, <1>5 DEF LockFirst, LockSecond, Throw
<1>6. CASE InsertTransfer(p) \/ InsertEntries(p) \/ InsertAudit(p)
  BY <1>1, <1>2, <1>6 DEF InsertTransfer, InsertEntries, InsertAudit, StatementError
<1>7. CASE DebitRead(p) \/ CreditRead(p)
  BY <1>1, <1>7 DEF DebitRead, CreditRead, ReadBalances
<1>8. CASE DebitWrite(p) \/ CreditWrite(p)
  BY <1>1, <1>2, <1>8 DEF DebitWrite, CreditWrite, WriteBalances, StatementError
<1>9. CASE Rollback(p) \/ DeadlockVictim(p) \/ StatementFails(p) \/ RollbackFails(p) \/ Crash(p)
           \/ CommitTransfer(p) \/ CommitFails(p)
  BY <1>2, <1>9 DEF Rollback, EndTransaction, DeadlockVictim, StatementFails, RollbackFails,
                    Crash, StatementError, CommitTransfer, CommitFails
<1> QED
  BY <1>4, <1>5, <1>6, <1>7, <1>8, <1>9 DEF TransferStep, TransferProgress, TransferFault

LEMMA NothingHeldStep ==
    ASSUME TypeInv, NothingHeldOutsideTransaction, [Next]_vars
    PROVE  NothingHeldOutsideTransaction'
<1>1. CASE UNCHANGED vars
  BY <1>1 DEF NothingHeldOutsideTransaction, vars, dbVars, transferVars
<1>2. ASSUME NEW p \in TransferRequests, TransferStep(p)
      PROVE  NothingHeldOutsideTransaction'
  <2> SUFFICES ASSUME NEW q \in TransferRequests, ~InTransaction(q)'
               PROVE  HoldsNothing(q)'
    BY DEF NothingHeldOutsideTransaction, InTransaction, HoldsNothing
  <2>1. ~InTransaction(q) => HoldsNothing(q)
    BY DEF NothingHeldOutsideTransaction, InTransaction, HoldsNothing
  <2>2. CASE q = p
    BY <1>2, <2>1, <2>2, LeavesWithNothing
  <2>3. CASE q # p
    <3>1. tPc'[q] = tPc[q]
      BY <1>2, <2>3, OthersUntouched DEF TypeInv, TypeOK
    <3>2. Isolated(q)
      BY <1>2, <2>3, StepIsolated, TransferAssumption
    <3> QED
      BY <2>1, <3>1, <3>2 DEF InTransaction, HoldsNothing, Isolated
  <2> QED
    BY <2>2, <2>3
<1> QED
  BY <1>1, <1>2 DEF Next

\* On every path through the catch block the request ends its transaction
\* before it goes on: outside one it holds no lock and no uncommitted write
\* (TransferService.ts:153-174).
THEOREM TransactionsEnd == Spec => []NothingHeldOutsideTransaction
<1>1. Init => NothingHeldOutsideTransaction
  BY TablesAssumption, TransferAssumption
     DEF Init, DbInit, TransferInit, NothingHeldOutsideTransaction
<1> QED
  BY <1>1, TypeInvInit, TypeInvStep, NothingHeldStep, PTL DEF Spec
-----------------------------------------------------------------------------
(***************************************************************************)
(* The tables only grow, and only by COMMIT.                               *)
(***************************************************************************)

LEMMA TablesMoveAtCommit ==
    ASSUME NEW p \in TransferRequests, TransferStep(p)
    PROVE  UNCHANGED tables \/ (tPc[p] = "commit" /\ Commit(p))
<1> USE DEF Abort, StatementError
<1>1. CASE Receive(p) \/ Lookup(p) \/ Relookup(p) \/ Respond(p) \/ CallFails(p) \/ Begin(p)
  BY <1>1 DEF Receive, Lookup, Relookup, Respond, CallFails, Begin, dbVars
<1>2. CASE LockFirst(p) \/ LockSecond(p) \/ DebitRead(p) \/ CreditRead(p)
  BY <1>2 DEF LockFirst, LockSecond, DebitRead, CreditRead, ReadBalances, dbVars
<1>3. CASE InsertTransfer(p) \/ InsertEntries(p) \/ InsertAudit(p)
  BY <1>3 DEF InsertTransfer, InsertEntries, InsertAudit
<1>4. CASE DebitWrite(p) \/ CreditWrite(p)
  BY <1>4 DEF DebitWrite, CreditWrite, WriteBalances, UpdateBalanceColumns
<1>5. CASE Rollback(p) \/ DeadlockVictim(p) \/ StatementFails(p) \/ RollbackFails(p) \/ Crash(p)
  BY <1>5 DEF Rollback, EndTransaction, DeadlockVictim, StatementFails, RollbackFails, Crash
<1>6. CASE CommitTransfer(p) \/ CommitFails(p)
  BY <1>6 DEF CommitTransfer, CommitFails
<1> QED
  BY <1>1, <1>2, <1>3, <1>4, <1>5, <1>6 DEF TransferStep, TransferProgress, TransferFault

LEMMA ConcatPrefix ==
    ASSUME NEW S, NEW s \in Seq(S), NEW t \in Seq(S)
    PROVE  Len(s) <= Len(s \o t) /\ \A i \in 1..Len(s) : (s \o t)[i] = s[i]
<1>1. Len(s) \in Nat /\ Len(t) \in Nat
  BY LenProperties
<1>2. Len(s \o t) = Len(s) + Len(t)
  BY ConcatProperties
<1>3. \A i \in 1..Len(s) + Len(t) : (s \o t)[i] = IF i <= Len(s) THEN s[i] ELSE t[i - Len(s)]
  BY ConcatProperties
<1> QED
  BY <1>1, <1>2, <1>3

LEMMA CommitAppends ==
    ASSUME DbTypeOK, NEW s \in Sessions, Commit(s)
    PROVE  /\ transfers \subseteq transfers'
           /\ audit \subseteq audit'
           /\ \A a \in Accounts :
                 /\ Len(ledger[a]) <= Len(ledger'[a])
                 /\ \A i \in 1..Len(ledger[a]) : ledger'[a][i] = ledger[a][i]
                 /\ accounts[a] # NoRow => accounts'[a] # NoRow
<1>1. transfers \subseteq transfers' /\ audit \subseteq audit'
  BY DEF Commit
<1>2. ASSUME NEW a \in Accounts
      PROVE  /\ Len(ledger[a]) <= Len(ledger'[a])
             /\ \A i \in 1..Len(ledger[a]) : ledger'[a][i] = ledger[a][i]
  <2>1. ledger[a] \in Seq(Entry) /\ pend[s].entries[a] \in Seq(Entry)
    BY DEF DbTypeOK, TablesTypeOK, Pending
  <2>2. ledger'[a] = ledger[a] \o pend[s].entries[a]
    BY DEF Commit
  <2>3. /\ Len(ledger[a]) <= Len(ledger[a] \o pend[s].entries[a])
        /\ \A i \in 1..Len(ledger[a]) : (ledger[a] \o pend[s].entries[a])[i] = ledger[a][i]
    BY <2>1, ConcatPrefix, Zenon
  <2> QED
    BY <2>2, <2>3, Zenon
<1>3. ASSUME NEW a \in Accounts, accounts[a] # NoRow
      PROVE  accounts'[a] # NoRow
  BY <1>3 DEF Commit, Visible
<1> QED
  BY <1>1, <1>2, <1>3

\* No step of any request, successful or not, changes or removes a committed
\* transfer, ledger entry or audit row (README.md:240).
THEOREM TransfersAppend == Spec => AppendOnly
<1>1. TypeInv /\ [Next]_vars =>
         [/\ transfers \subseteq transfers'
          /\ audit \subseteq audit'
          /\ \A a \in Accounts :
                /\ Len(ledger[a]) <= Len(ledger'[a])
                /\ \A i \in 1..Len(ledger[a]) : ledger'[a][i] = ledger[a][i]
                /\ accounts[a] # NoRow => accounts'[a] # NoRow]_tables
  <2> SUFFICES ASSUME TypeInv, [Next]_vars, ~UNCHANGED tables
               PROVE  /\ transfers \subseteq transfers'
                      /\ audit \subseteq audit'
                      /\ \A a \in Accounts :
                            /\ Len(ledger[a]) <= Len(ledger'[a])
                            /\ \A i \in 1..Len(ledger[a]) : ledger'[a][i] = ledger[a][i]
                            /\ accounts[a] # NoRow => accounts'[a] # NoRow
    OBVIOUS
  <2>1. PICK p \in TransferRequests : Commit(p)
    BY TablesMoveAtCommit DEF Next, vars, dbVars
  <2> QED
    BY <2>1, CommitAppends, TransferAssumption DEF TypeInv, TypeOK
<1> QED
  BY <1>1, TypeInvInit, TypeInvStep, PTL DEF Spec, AppendOnly
-----------------------------------------------------------------------------
(***************************************************************************)
(* References.  The unique index lets one uncommitted insert of a          *)
(* reference live at a time, and none beside a committed row; a request    *)
(* inserts at most the transfer of its own body, and once only.            *)
(***************************************************************************)

\* What request p may have inserted and not yet committed.
PendingSound(p) ==
    /\ pend[p].transfers \subseteq {NewTransfer(p)}
    /\ pend[p].transfers # {} => ~ReferenceTaken(tReq[p].reference)
    /\ \A q \in TransferRequests \ {p} :
          pend[p].transfers # {} /\ pend[q].transfers # {} => tReq[p].reference # tReq[q].reference

\* A committed transfer belongs to a request that has nothing left to do but
\* answer, and that has not been refused for a business reason.
CreatorOver(t) ==
    /\ t.id \in TransferRequests
    /\ \/ tPc[t.id] \in {"committed", "done"} /\ tOutcome[t.id].kind \in {"COMPLETED", "INTERNAL_ERROR"}
       \/ tPc[t.id] = "dead"

ReferenceInv ==
    /\ \A p \in TransferRequests : PendingSound(p)
    /\ \A t \in transfers : CreatorOver(t)
    /\ UniqueReference

\* The four things a step of p can do to its uncommitted transfer.
Keeps(p) == pend'[p].transfers = pend[p].transfers /\ UNCHANGED transfers
Inserts(p) == /\ InsertersOf(p, tReq[p].reference) = {}
              /\ ~ReferenceTaken(tReq[p].reference)
              /\ pend'[p].transfers = pend[p].transfers \cup {NewTransfer(p)}
              /\ UNCHANGED transfers
Drops(p) == pend'[p].transfers = {} /\ UNCHANGED transfers
Commits(p) == /\ pend'[p].transfers = {} /\ transfers' = transfers \cup pend[p].transfers
              /\ tPc'[p] \in {"committed", "done"}
              /\ tOutcome'[p].kind \in {"COMPLETED", "INTERNAL_ERROR"}

LEMMA PendingStep ==
    ASSUME TypeInv, NothingHeldOutsideTransaction, NEW p \in TransferRequests, TransferStep(p)
    PROVE  /\ Keeps(p) \/ Inserts(p) \/ Drops(p) \/ Commits(p)
           /\ pend'[p].transfers # {} => tReq'[p] = tReq[p]
<1>1. DbTypeOK /\ TransferTypeOK /\ p \in Sessions
  BY TransferAssumption DEF TypeInv, TypeOK
<1>2. tReq' = tReq \/ Receive(p)
  BY DEF TransferStep, TransferProgress, TransferFault, Lookup, Relookup, Respond, CallFails, Begin,
         LockFirst, LockSecond, DebitRead, CreditRead, ReadBalances, InsertTransfer, InsertEntries,
         InsertAudit, DebitWrite, CreditWrite, WriteBalances, Rollback, DeadlockVictim,
         StatementFails, RollbackFails, Crash, CommitTransfer, CommitFails
<1>3. Receive(p) => pend'[p].transfers = {}
  BY DEF Receive, NothingHeldOutsideTransaction, NothingPending, Statements, dbVars
<1>4. CASE UNCHANGED <<transfers, pend>>
  BY <1>2, <1>3, <1>4 DEF Keeps
<1>5. CASE Abort(p)
  <2>1. Drops(p)
    BY <1>1, <1>5 DEF Abort, NothingPending, DbTypeOK, tables, Drops
  <2> QED
    BY <1>2, <1>3, <2>1
<1>6. ASSUME Commit(p), tPc'[p] \in {"committed", "done"},
             tOutcome'[p].kind \in {"COMPLETED", "INTERNAL_ERROR"}
      PROVE  Commits(p)
  BY <1>1, <1>6 DEF Commit, NothingPending, DbTypeOK, Commits
<1>7. CASE Receive(p) \/ Lookup(p) \/ Relookup(p) \/ Respond(p) \/ CallFails(p) \/ Begin(p)
  BY <1>4, <1>7 DEF Receive, Lookup, Relookup, Respond, CallFails, Begin, dbVars, tables
<1>8. CASE LockFirst(p) \/ LockSecond(p) \/ DebitRead(p) \/ CreditRead(p)
  BY <1>4, <1>8 DEF LockFirst, LockSecond, DebitRead, CreditRead, ReadBalances, dbVars, tables
<1>9. CASE InsertTransfer(p)
  <2>1. CASE ReferenceTaken(tReq[p].reference)
    BY <1>5, <1>9, <2>1 DEF InsertTransfer, StatementError
  <2>2. CASE ~ReferenceTaken(tReq[p].reference)
    <3>1. Inserts(p)
      BY <1>1, <1>9, <2>2 DEF InsertTransfer, Inserts, DbTypeOK, Pending, tables
    <3> QED
      BY <1>2, <1>3, <3>1
  <2> QED
    BY <2>1, <2>2
<1>10. CASE InsertEntries(p) \/ InsertAudit(p)
  <2>1. Abort(p) \/ Keeps(p)
    BY <1>1, <1>10 DEF InsertEntries, InsertAudit, StatementError, Keeps, DbTypeOK, Pending, tables
  <2> QED
    BY <1>2, <1>3, <1>5, <2>1
<1>11. CASE DebitWrite(p) \/ CreditWrite(p)
  <2>1. Abort(p) \/ Keeps(p)
    BY <1>1, <1>11 DEF DebitWrite, CreditWrite, WriteBalances, UpdateBalanceColumns, StatementError,
                       Keeps, DbTypeOK, Pending, tables
  <2> QED
    BY <1>2, <1>3, <1>5, <2>1
<1>12. CASE Rollback(p) \/ DeadlockVictim(p) \/ StatementFails(p) \/ RollbackFails(p) \/ Crash(p)
  BY <1>5, <1>12 DEF Rollback, EndTransaction, DeadlockVictim, StatementFails, RollbackFails, Crash,
                     StatementError
<1>13. CASE CommitTransfer(p) \/ CommitFails(p)
  <2>1. Abort(p) \/ Commit(p)
    BY <1>13 DEF CommitTransfer, CommitFails
  <2>2. tPc'[p] \in {"committed", "done"} /\ tOutcome'[p].kind \in {"COMPLETED", "INTERNAL_ERROR"}
    BY <1>1, <1>13 DEF CommitTransfer, CommitFails, TransferTypeOK, Goto, Finish
  <2> QED
    BY <1>2, <1>3, <1>5, <1>6, <2>1, <2>2
<1> QED
  BY <1>7, <1>8, <1>9, <1>10, <1>11, <1>12, <1>13 DEF TransferStep, TransferProgress, TransferFault

\* A request whose transfer is committed only answers, or dies.
LEMMA CreatorStays ==
    ASSUME TransferTypeOK, NEW p \in TransferRequests, TransferStep(p),
           tPc[p] \in {"committed"} \cup Answered,
           tPc[p] # "dead" => tOutcome[p].kind \in {"COMPLETED", "INTERNAL_ERROR"}
    PROVE  /\ tPc'[p] \in {"committed"} \cup Answered
           /\ tPc'[p] # "dead" => tOutcome'[p].kind \in {"COMPLETED", "INTERNAL_ERROR"}
<1>1. /\ ~Receive(p) /\ ~Lookup(p) /\ ~Relookup(p) /\ ~Begin(p) /\ ~LockFirst(p) /\ ~LockSecond(p)
      /\ ~InsertTransfer(p) /\ ~DebitRead(p) /\ ~DebitWrite(p) /\ ~CreditRead(p) /\ ~CreditWrite(p)
      /\ ~InsertEntries(p) /\ ~InsertAudit(p) /\ ~CommitTransfer(p) /\ ~Rollback(p)
  BY DEF Answered, Receive, Lookup, Relookup, Begin, LockFirst, LockSecond, InsertTransfer, DebitRead,
         DebitWrite, CreditRead, CreditWrite, InsertEntries, InsertAudit, CommitTransfer, Rollback
<1>2. ~DeadlockVictim(p)
  <2>1. WaitsFor(p) = {}
    BY DEF Answered, WaitsFor
  <2> QED
    BY <2>1 DEF DeadlockVictim, WaitCycle
<1>3. ~StatementFails(p) /\ ~CallFails(p) /\ ~CommitFails(p) /\ ~RollbackFails(p)
  BY DEF Answered, Statements, StatementFails, CallFails, CommitFails, RollbackFails
<1>4. CASE Respond(p)
  BY <1>4 DEF Respond, Goto, TransferTypeOK, Answered
<1>5. CASE Crash(p)
  BY <1>5 DEF Crash, Goto, TransferTypeOK, Answered
<1> QED
  BY <1>1, <1>2, <1>3, <1>4, <1>5 DEF TransferStep, TransferProgress, TransferFault

LEMMA ReferenceInvStep ==
    ASSUME TypeInv, NothingHeldOutsideTransaction, ReferenceInv,
           NEW p \in TransferRequests, TransferStep(p)
    PROVE  ReferenceInv'
<1>1. /\ Keeps(p) \/ Inserts(p) \/ Drops(p) \/ Commits(p)
      /\ pend'[p].transfers # {} => tReq'[p] = tReq[p]
  BY PendingStep
<1>2. \A q \in TransferRequests \ {p} :
         /\ tPc'[q] = tPc[q] /\ tReq'[q] = tReq[q] /\ tOutcome'[q] = tOutcome[q]
         /\ pend'[q] = pend[q]
  BY OthersUntouched, StepIsolated, TransferAssumption DEF TypeInv, TypeOK, Isolated
<1>3. pend[p].transfers \subseteq {NewTransfer(p)}
  BY DEF ReferenceInv, PendingSound
<1>4. NewTransfer(p).id = p /\ NewTransfer(p).reference = tReq[p].reference
  BY DEF NewTransfer
<1>5. transfers' \subseteq transfers \cup pend[p].transfers
  BY <1>1 DEF Keeps, Inserts, Drops, Commits
<1>6. pend'[p].transfers # {} => UNCHANGED transfers
  BY <1>1 DEF Keeps, Inserts, Drops, Commits
<1>7. ASSUME NEW q \in TransferRequests
      PROVE  PendingSound(q)'
  <2>1. pend'[q].transfers \subseteq {NewTransfer(q)'}
    <3>1. CASE q # p
      BY <1>2, <3>1 DEF ReferenceInv, PendingSound, NewTransfer
    <3>2. CASE q = p /\ pend'[p].transfers # {}
      BY <1>1, <1>3, <3>2 DEF NewTransfer, Keeps, Inserts, Drops, Commits
    <3> QED
      BY <3>1, <3>2
  <2>2. ASSUME pend'[q].transfers # {}
        PROVE  ~ReferenceTaken(tReq[q].reference)' /\ tReq'[q] = tReq[q]
    <3>1. CASE q # p
      <4>1. ~ReferenceTaken(tReq[q].reference) /\ tReq'[q] = tReq[q]
        BY <1>2, <2>2, <3>1 DEF ReferenceInv, PendingSound
      <4>2. pend[p].transfers # {} => tReq[p].reference # tReq[q].reference
        BY <1>2, <2>2, <3>1 DEF ReferenceInv, PendingSound
      <4>3. \A t \in transfers' : t \in transfers \/ t.reference # tReq[q].reference
        BY <1>3, <1>4, <1>5, <4>2
      <4> QED
        BY <4>1, <4>3 DEF ReferenceTaken
    <3>2. CASE q = p
      BY <1>1, <1>6, <2>2, <3>2 DEF ReferenceInv, PendingSound, ReferenceTaken, Keeps, Inserts, Drops,
                                   Commits
    <3> QED
      BY <3>1, <3>2
  <2>3. ASSUME NEW r \in TransferRequests \ {q},
               pend'[q].transfers # {}, pend'[r].transfers # {}
        PROVE  tReq'[q].reference # tReq'[r].reference
    <3> DEFINE Apart(x, y) == tReq'[x].reference # tReq'[y].reference
    <3>1. CASE q # p /\ r # p
      BY <1>2, <2>3, <3>1 DEF ReferenceInv, PendingSound
    <3>2. ASSUME NEW o \in TransferRequests \ {p}, pend'[o].transfers # {}, pend'[p].transfers # {}
          PROVE  tReq[p].reference # tReq[o].reference
      <4>1. pend[o].transfers # {}
        BY <1>2, <3>2
      <4>2. CASE pend[p].transfers # {}
        BY <4>1, <4>2 DEF ReferenceInv, PendingSound
      <4>3. CASE pend[p].transfers = {}
        <5>1. InsertersOf(p, tReq[p].reference) = {}
          BY <1>1, <3>2, <4>3 DEF Keeps, Inserts, Drops, Commits
        <5>2. PICK t \in pend[o].transfers : t.reference = tReq[o].reference
          BY <4>1 DEF ReferenceInv, PendingSound, NewTransfer
        <5> QED
          BY <5>1, <5>2, TransferAssumption DEF InsertersOf
      <4> QED
        BY <4>2, <4>3
    <3>3. CASE q = p
      BY <1>1, <1>2, <2>3, <3>2, <3>3
    <3>4. CASE r = p
      BY <1>1, <1>2, <2>3, <3>2, <3>4
    <3> QED
      BY <3>1, <3>3, <3>4
  <2> QED
    BY <2>1, <2>2, <2>3 DEF PendingSound
<1>8. ASSUME NEW t \in transfers'
      PROVE  CreatorOver(t)'
  <2>1. CASE t \in transfers /\ t.id # p
    BY <1>2, <2>1 DEF ReferenceInv, CreatorOver
  <2>2. CASE t \in transfers /\ t.id = p
    BY <2>2, CreatorStays DEF ReferenceInv, CreatorOver, TypeInv, TypeOK, Answered
  <2>3. CASE t \notin transfers
    <3>1. t.id = p /\ Commits(p)
      BY <1>1, <1>3, <1>4, <1>5, <2>3 DEF Keeps, Inserts, Drops
    <3> QED
      BY <3>1 DEF CreatorOver, Commits, Answered
  <2> QED
    BY <2>1, <2>2, <2>3
<1>9. UniqueReference'
  <2> SUFFICES ASSUME NEW t \in transfers', NEW u \in transfers', t.reference = u.reference
               PROVE  t = u
    BY DEF UniqueReference
  <2>1. pend[p].transfers # {} => \A w \in transfers : w.reference # tReq[p].reference
    BY DEF ReferenceInv, PendingSound, ReferenceTaken
  <2> QED
    BY <1>3, <1>4, <1>5, <2>1 DEF ReferenceInv, UniqueReference
<1> QED
  BY <1>7, <1>8, <1>9 DEF ReferenceInv

LEMMA ReferenceInvHolds == Spec => []ReferenceInv
<1>1. Init => ReferenceInv
  BY TransferAssumption DEF Init, DbInit, TablesInit, TransferInit, ReferenceInv, PendingSound,
                            UniqueReference, NothingPending
<1>2. TypeInv /\ NothingHeldOutsideTransaction /\ ReferenceInv /\ [Next]_vars => ReferenceInv'
  <2>1. ReferenceInv /\ UNCHANGED vars => ReferenceInv'
    BY DEF ReferenceInv, PendingSound, CreatorOver, UniqueReference, NewTransfer, ReferenceTaken,
           vars, dbVars, tables, transferVars
  <2> QED
    BY <2>1, ReferenceInvStep DEF Next
<1> QED
  BY <1>1, <1>2, TypeInvInit, TypeInvStep, TransactionsEnd, PTL DEF Spec

\* However requests overlap, and whatever is retried, one reference never
\* names two transfers (README.md:228).
THEOREM OneTransferPerReference == Spec => []UniqueReference
<1>1. ReferenceInv => UniqueReference
  BY DEF ReferenceInv
<1> QED
  BY <1>1, ReferenceInvHolds, PTL

\* A request refused for a business reason has not moved any money.
THEOREM RejectionsCommitNothing == Spec => []RejectionLeavesNoTrace
<1>1. ReferenceInv => RejectionLeavesNoTrace
  <2> SUFFICES ASSUME ReferenceInv, NEW p \in TransferRequests, tPc[p] = "done",
                      tOutcome[p].kind \notin {"COMPLETED", "INTERNAL_ERROR"},
                      NEW t \in transfers, t.id = p
               PROVE  FALSE
    BY DEF RejectionLeavesNoTrace
  <2> QED
    BY DEF ReferenceInv, CreatorOver
<1> QED
  BY <1>1, ReferenceInvHolds, PTL
-----------------------------------------------------------------------------
(***************************************************************************)
(* The loser of a race for a reference.                                    *)
(***************************************************************************)

Refused(p) == tPc[p] \in {"rollback", "relookup"} /\ tOutcome[p].kind = "UNIQUE_VIOLATION"

\* Only the unique index sends a request down this path.
LEMMA RefusedStep ==
    ASSUME TransferTypeOK, NEW p \in TransferRequests, TransferStep(p), Refused(p)'
    PROVE  /\ Refused(p) \/ ReferenceTaken(tReq[p].reference)
           /\ tReq'[p] = tReq[p]
<1> USE DEF TransferTypeOK, Goto, Finish, Throw, Refused, StatementError
<1>1. CASE Receive(p) \/ Begin(p) \/ Respond(p) \/ CallFails(p)
  BY <1>1 DEF Receive, Begin, Respond, CallFails
<1>2. CASE Lookup(p) \/ Relookup(p)
  BY <1>2 DEF Lookup, Relookup, AnswerFrom
<1>3. CASE LockFirst(p) \/ DebitRead(p) \/ CreditRead(p)
  BY <1>3 DEF LockFirst, DebitRead, CreditRead, ReadBalances
<1>4. CASE LockSecond(p)
  <2> DEFINE second == Visible(p, Uuid[SecondId(p)])
             broken == Rejection(tReq[p], SourceAccount(tReq[p], tSeen[p].first, second),
                                          DestAccount(tReq[p], tSeen[p].first, second))
  <2>1. broken # "UNIQUE_VIOLATION"
    BY DEF Rejection
  <2>2. IF broken = "NONE" THEN Goto(p, "insert") /\ UNCHANGED tOutcome ELSE Throw(p, broken)
    BY <1>4 DEF LockSecond
  <2> QED
    BY <2>1, <2>2
<1>5. CASE InsertTransfer(p)
  BY <1>5 DEF InsertTransfer
<1>6. CASE DebitWrite(p) \/ CreditWrite(p)
  BY <1>6 DEF DebitWrite, CreditWrite, WriteBalances
<1>7. CASE InsertEntries(p) \/ InsertAudit(p)
  BY <1>7 DEF InsertEntries, InsertAudit
<1>8. CASE CommitTransfer(p) \/ CommitFails(p)
  BY <1>8 DEF CommitTransfer, CommitFails
<1>9. CASE Rollback(p)
  BY <1>9 DEF Rollback, RetryFrom
<1>10. CASE DeadlockVictim(p) \/ StatementFails(p) \/ RollbackFails(p) \/ Crash(p)
  BY <1>10 DEF DeadlockVictim, StatementFails, RollbackFails, Crash
<1> QED
  BY <1>1, <1>2, <1>3, <1>4, <1>5, <1>6, <1>7, <1>8, <1>9, <1>10
     DEF TransferStep, TransferProgress, TransferFault

LEMMA WinnerStep ==
    ASSUME TypeInv, UniqueConflictFindsWinner, [Next]_vars
    PROVE  UniqueConflictFindsWinner'
<1>1. CASE UNCHANGED vars
  BY <1>1 DEF UniqueConflictFindsWinner, ReferenceTaken, vars, dbVars, tables, transferVars
<1>2. ASSUME NEW p \in TransferRequests, TransferStep(p)
      PROVE  UniqueConflictFindsWinner'
  <2>1. DbTypeOK /\ TransferTypeOK /\ p \in Sessions
    BY TransferAssumption DEF TypeInv, TypeOK
  <2>2. transfers \subseteq transfers'
    BY <1>2, <2>1, TablesMoveAtCommit, CommitAppends DEF tables
  <2>3. ASSUME NEW q \in TransferRequests, Refused(q)'
        PROVE  ReferenceTaken(tReq[q].reference) /\ tReq'[q] = tReq[q]
    <3>1. CASE q = p
      BY <1>2, <2>1, <2>3, <3>1, RefusedStep DEF UniqueConflictFindsWinner, Refused
    <3>2. CASE q # p
      BY <1>2, <2>1, <2>3, <3>2, OthersUntouched DEF UniqueConflictFindsWinner, Refused
    <3> QED
      BY <3>1, <3>2
  <2> QED
    BY <2>2, <2>3 DEF UniqueConflictFindsWinner, Refused, ReferenceTaken
<1> QED
  BY <1>1, <1>2 DEF Next

\* Whoever loses the race for a reference finds the transfer of the winner
\* when it looks the reference up again: the error is never rethrown
\* (TransferService.ts:164-173).
THEOREM LoserFindsWinner == Spec => []UniqueConflictFindsWinner
<1>1. Init => UniqueConflictFindsWinner
  BY DEF Init, TransferInit, UniqueConflictFindsWinner
<1> QED
  BY <1>1, TypeInvInit, TypeInvStep, WinnerStep, PTL DEF Spec
=============================================================================
