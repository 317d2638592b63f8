---------------------------- MODULE PostingProofs ----------------------------
(***************************************************************************)
(* A transfer that commits does in one step what the atomic bank does: at  *)
(* every statement of its transaction, what it has written so far is what  *)
(* the bank would write from the tables as they are now, because the two   *)
(* rows it computed from are still locked, and so still the same.          *)
(*                                                                         *)
(* That the rows stay is true of every request; it already keeps accounts  *)
(* from being overdrawn.  That the writes agree with the bank needs two    *)
(* hypotheses about the bodies.  From both each COMMIT is a step of the    *)
(* bank, and the promises of the tables follow from the theorems about it. *)
(***************************************************************************)
EXTENDS TransferServiceProofs
-----------------------------------------------------------------------------
(***************************************************************************)
(* The rows a request has locked.                                          *)
(***************************************************************************)

Source(p) == Uuid[tReq[p].source]
Dest(p) == Uuid[tReq[p].destination]
FirstRow(p) == Uuid[FirstId(p)]
SecondRow(p) == Uuid[SecondId(p)]

\* The calls made after each write of the transaction.
Inserted == Posting \ {"insert"}
Debited == {"creditRead", "creditWrite", "entries", "audit", "commit"}
Credited == {"entries", "audit", "commit"}
Entered == {"audit", "commit"}

\* It holds the rows it has seen, and they are still as it saw them.
HasFirst(p) == lock[FirstRow(p)] = p /\ accounts[FirstRow(p)] = tSeen[p].first
HasSecond(p) == lock[SecondRow(p)] = p /\ accounts[SecondRow(p)] = tSeen[p].second

HeldSound(p) ==
    /\ tPc[p] \notin {"idle"} \cup Answered => tReq[p].source # tReq[p].destination
    /\ tPc[p] = "lockSecond" /\ tSeen[p].first # NoRow => HasFirst(p)
    /\ tPc[p] \in Posting => HasFirst(p) /\ HasSecond(p)
    /\ \A a \in Accounts :
          /\ pend[p].rows[a] # NoRow =>
                /\ tPc[p] \in Debited /\ lock[a] = p /\ accounts[a] # NoRow
                /\ pend[p].rows[a].status = accounts[a].status
          /\ pend[p].rows[a].available >= 0
    /\ tPc[p] = "debitWrite" => tRead[p] = accounts[Source(p)]
    /\ tPc[p] = "creditWrite" => tRead[p].available >= 0

HeldInv == NoOverdraft /\ \A p \in TransferRequests : HeldSound(p)

LEMMA LockOrderIsBoth ==
    ASSUME NEW p
    PROVE  \/ FirstId(p) = tReq[p].source /\ SecondId(p) = tReq[p].destination
           \/ FirstId(p) = tReq[p].destination /\ SecondId(p) = tReq[p].source
BY DEF FirstId, SecondId, LockOrder

\* The rows the rules were checked on are the committed rows of the two accounts.
LEMMA SeenRows ==
    ASSUME NEW p, tReq[p].source # tReq[p].destination, HasFirst(p), HasSecond(p)
    PROVE  /\ SourceAccount(tReq[p], tSeen[p].first, tSeen[p].second) = accounts[Source(p)]
           /\ DestAccount(tReq[p], tSeen[p].first, tSeen[p].second) = accounts[Dest(p)]
           /\ lock[Source(p)] = p /\ lock[Dest(p)] = p
BY DEF HasFirst, HasSecond, FirstRow, SecondRow, FirstId, SecondId, LockOrder, SourceAccount,
       DestAccount, Source, Dest

LEMMA PostingKnows ==
    ASSUME TypeInv, NEW p \in TransferRequests, HeldSound(p), tPc[p] \in Posting
    PROVE  /\ Source(p) \in Accounts /\ Dest(p) \in Accounts
           /\ lock[Source(p)] = p /\ lock[Dest(p)] = p
           /\ accounts[Source(p)] \in Row /\ accounts[Dest(p)] \in Row
           /\ \A a \in {Source(p), Dest(p)} :
                 accounts[a].status = "ACTIVE" /\ accounts[a].currency = tReq[p].currency
           /\ tReq[p].amount \in Nat /\ accounts[Source(p)].available >= tReq[p].amount
           /\ SourceAvailable(p) = accounts[Source(p)].available
           /\ DestAvailable(p) = accounts[Dest(p)].available
           /\ FirstRow(p) \in {Source(p), Dest(p)} /\ SecondRow(p) \in {Source(p), Dest(p)}
<1>1. tPc[p] # "idle" /\ tPc[p] \notin Answered
  BY DEF Posting, Answered
<1>2. tReq[p].source # tReq[p].destination /\ tReq[p].amount \in Nat
  BY <1>1, BodyTyped DEF HeldSound
<1>3. Source(p) \in Accounts /\ Dest(p) \in Accounts
  BY <1>1, BodyTyped DEF Source, Dest
<1>4. /\ SourceAccount(tReq[p], tSeen[p].first, tSeen[p].second) = accounts[Source(p)]
      /\ DestAccount(tReq[p], tSeen[p].first, tSeen[p].second) = accounts[Dest(p)]
      /\ lock[Source(p)] = p /\ lock[Dest(p)] = p
  BY <1>2, SeenRows DEF HeldSound
<1>5. Rejection(tReq[p], accounts[Source(p)], accounts[Dest(p)]) = "NONE"
  BY <1>4 DEF TypeInv, RequestSound, RulesHold
<1>6. /\ accounts[Source(p)] # NoRow /\ accounts[Dest(p)] # NoRow
      /\ {accounts[Source(p)].status, accounts[Dest(p)].status} = {"ACTIVE"}
      /\ {accounts[Source(p)].currency, accounts[Dest(p)].currency} = {tReq[p].currency}
      /\ ~(accounts[Source(p)].available < tReq[p].amount)
  BY <1>5 DEF Rejection
<1>7. accounts[Source(p)] \in Row /\ accounts[Dest(p)] \in Row
  BY <1>3, <1>6 DEF TypeInv, TypeOK, DbTypeOK, TablesTypeOK
<1>8. accounts[Source(p)].available >= tReq[p].amount
  BY <1>2, <1>6, <1>7, RowBalances
<1>9. /\ SourceAvailable(p) = accounts[Source(p)].available
      /\ DestAvailable(p) = accounts[Dest(p)].available
  BY <1>4 DEF SourceAvailable, DestAvailable
<1>10. FirstRow(p) \in {Source(p), Dest(p)} /\ SecondRow(p) \in {Source(p), Dest(p)}
  BY LockOrderIsBoth DEF FirstRow, SecondRow, Source, Dest
<1> QED
  BY <1>2, <1>3, <1>4, <1>6, <1>7, <1>8, <1>9, <1>10

\* The names of a posting depend on the request only.
LEMMA SameNames ==
    ASSUME NEW q, tReq'[q] = tReq[q], tSeen'[q] = tSeen[q]
    PROVE  /\ Source(q)' = Source(q) /\ Dest(q)' = Dest(q)
           /\ FirstRow(q)' = FirstRow(q) /\ SecondRow(q)' = SecondRow(q)
           /\ NewTransfer(q)' = NewTransfer(q) /\ AuditOf(q)' = AuditOf(q)
           /\ Debit(q)' = Debit(q) /\ Credit(q)' = Credit(q)
BY DEF Source, Dest, FirstRow, SecondRow, FirstId, SecondId, NewTransfer, AuditOf, Debit, Credit,
       SourceBalanceAfter, DestBalanceAfter, SourceAvailable, DestAvailable
-----------------------------------------------------------------------------
(***************************************************************************)
(* The steps of the others leave the locked rows alone.                    *)
(***************************************************************************)

\* The uncommitted writes of session q, its locks and the rows it has locked
\* stay as they are.
Undisturbed(q) ==
    /\ Isolated(q)
    /\ \A a \in Accounts : lock[a] = q /\ accounts[a] # NoRow => accounts'[a] = accounts[a]

SameRequest(q) == /\ tPc'[q] = tPc[q] /\ tReq'[q] = tReq[q] /\ tSeen'[q] = tSeen[q]
                  /\ tRead'[q] = tRead[q]

LEMMA RowIsThere == \A r \in Row : r # NoRow
BY DEF Row, NoRow, Statuses

LEMMA HeldSoundStays ==
    ASSUME TypeInv, NEW q \in TransferRequests, HeldSound(q), SameRequest(q), Undisturbed(q)
    PROVE  HeldSound(q)'
<1> USE DEF SameRequest
<1>1. /\ Source(q)' = Source(q) /\ FirstRow(q)' = FirstRow(q) /\ SecondRow(q)' = SecondRow(q)
  BY SameNames
<1>2. pend'[q] = pend[q] /\ \A a \in Accounts : lock[a] = q => lock'[a] = q
  BY DEF Undisturbed, Isolated
<1>3. \A a \in Accounts :
         /\ pend'[q].rows[a] # NoRow =>
               /\ tPc'[q] \in Debited /\ lock'[a] = q /\ accounts'[a] # NoRow
               /\ pend'[q].rows[a].status = accounts'[a].status
         /\ pend'[q].rows[a].available >= 0
  BY <1>2 DEF HeldSound, Undisturbed
<1>4. CASE tPc[q] \in Posting
  <2>1. /\ accounts'[Source(q)] = accounts[Source(q)]
        /\ accounts'[FirstRow(q)] = accounts[FirstRow(q)]
        /\ accounts'[SecondRow(q)] = accounts[SecondRow(q)]
        /\ FirstRow(q) \in Accounts /\ SecondRow(q) \in Accounts
    BY <1>4, PostingKnows, RowIsThere DEF Undisturbed
  <2>2. HasFirst(q)' /\ HasSecond(q)'
    BY <1>1, <1>2, <1>4, <2>1 DEF HeldSound, HasFirst, HasSecond
  <2> QED
    BY <1>1, <1>3, <1>4, <2>1, <2>2 DEF HeldSound, Posting
<1>5. CASE tPc[q] \notin Posting
  <2>1. tPc[q] = "lockSecond" /\ tSeen[q].first # NoRow => HasFirst(q)'
    <3> SUFFICES ASSUME tPc[q] = "lockSecond", tSeen[q].first # NoRow
                 PROVE  HasFirst(q)'
      OBVIOUS
    <3>1. FirstRow(q) \in Accounts
      BY BodyTyped DEF FirstRow
    <3> QED
      BY <1>1, <1>2, <3>1 DEF HeldSound, HasFirst, Undisturbed
  <2> QED
    BY <1>3, <1>5, <2>1 DEF HeldSound, Posting
<1> QED
  BY <1>4, <1>5

\* A request commits only rows it has locked.
LEMMA OthersUndisturbed ==
    ASSUME TypeInv, NEW p \in TransferRequests, HeldSound(p), TransferStep(p),
           NEW q \in Sessions, q # p
    PROVE  Undisturbed(q)
<1>1. Isolated(q)
  BY StepIsolated
<1>2. ASSUME NEW a \in Accounts, lock[a] = q
      PROVE  accounts'[a] = accounts[a]
  <2>1. CASE UNCHANGED tables
    BY <2>1 DEF tables
  <2>2. CASE Commit(p)
    BY <1>2, <2>2 DEF HeldSound, Commit, Visible
  <2> QED
    BY <2>1, <2>2, TablesMoveAtCommit
<1> QED
  BY <1>1, <1>2 DEF Undisturbed
-----------------------------------------------------------------------------
(***************************************************************************)
(* The steps of the request itself.                                        *)
(***************************************************************************)

\* A request whose body stays is under way.
LEMMA UnderWay ==
    ASSUME NEW p, TransferStep(p), ~Receive(p)
    PROVE  tPc[p] \notin {"idle"} \cup Answered /\ tReq' = tReq
<1> USE DEF Answered
<1>1. CASE Lookup(p) \/ Relookup(p) \/ Respond(p) \/ CallFails(p) \/ Begin(p)
  BY <1>1 DEF Lookup, Relookup, Respond, CallFails, Begin
<1>2. CASE LockFirst(p) \/ LockSecond(p) \/ DebitRead(p) \/ CreditRead(p)
  BY <1>2 DEF LockFirst, LockSecond, DebitRead, CreditRead, ReadBalances
<1>3. CASE InsertTransfer(p) \/ InsertEntries(p) \/ InsertAudit(p) \/ DebitWrite(p) \/ CreditWrite(p)
  BY <1>3 DEF InsertTransfer, InsertEntries, InsertAudit, DebitWrite, CreditWrite, WriteBalances
<1>4. CASE Rollback(p) \/ CommitTransfer(p) \/ StatementFails(p) \/ CommitFails(p)
           \/ RollbackFails(p) \/ Crash(p)
  BY <1>4 DEF Rollback, CommitTransfer, StatementFails, CommitFails, RollbackFails, Crash,
              Statements
<1>5. CASE DeadlockVictim(p)
  BY <1>5 DEF DeadlockVictim, WaitCycle, WaitsFor
<1> QED
  BY <1>1, <1>2, <1>3, <1>4, <1>5 DEF TransferStep, TransferProgress, TransferFault

LEMMA TwoSpellings ==
    ASSUME TransferTypeOK, NEW p \in TransferRequests, TransferStep(p),
           tPc[p] \notin {"idle"} \cup Answered => tReq[p].source # tReq[p].destination
    PROVE  tPc'[p] \notin {"idle"} \cup Answered => tReq'[p].source # tReq'[p].destination
<1>1. CASE Receive(p)
  BY <1>1 DEF Receive, Finish, Goto, TransferTypeOK, Answered
<1>2. CASE ~Receive(p)
  BY <1>2, UnderWay
<1> QED
  BY <1>1, <1>2

\* Where nothing has been written yet, or all of it has been undone.
WroteNothing(p) == /\ \A a \in Accounts : pend[p].rows[a] = NoRow /\ pend[p].entries[a] = <<>>
                   /\ pend[p].transfers = {} /\ pend[p].audit = {}

LEMMA OverIsEmpty ==
    ASSUME DbTypeOK, NEW s \in Sessions, Commit(s) \/ Abort(s)
    PROVE  WroteNothing(s)'
<1>1. pend'[s] = NothingPending
  BY EndHoldsNothing DEF HoldsNothing
<1> QED
  BY <1>1 DEF WroteNothing, NothingPending

\* A step that leads out of the posting ends the transaction; before it
\* nothing is written.
LEMMA OutsideStep ==
    ASSUME TypeInv, NEW p \in TransferRequests, TransferStep(p), tPc'[p] \notin Posting
    PROVE  \/ WroteNothing(p)'
           \/ tPc[p] \notin Posting /\ UNCHANGED pend
<1>1. DbTypeOK /\ TransferTypeOK /\ p \in Sessions
  BY TransferAssumption DEF TypeInv, TypeOK
<1>2. CASE Commit(p) \/ Abort(p)
  BY <1>1, <1>2, OverIsEmpty
<1> USE DEF TransferTypeOK, Goto, Posting
<1>3. CASE Receive(p) \/ Lookup(p) \/ Relookup(p) \/ Respond(p) \/ CallFails(p) \/ Begin(p)
  BY <1>3 DEF Receive, Lookup, Relookup, Respond, CallFails, Begin, dbVars
<1>4. CASE LockFirst(p) \/ LockSecond(p)
  BY <1>1, <1>4 DEF LockFirst, LockSecond
<1>5. CASE InsertTransfer(p) \/ InsertEntries(p) \/ InsertAudit(p)
  BY <1>1, <1>2, <1>5 DEF InsertTransfer, InsertEntries, InsertAudit, StatementError
<1>6. CASE DebitRead(p) \/ CreditRead(p)
  BY <1>1, <1>6 DEF DebitRead, CreditRead, ReadBalances
<1>7. CASE DebitWrite(p) \/ CreditWrite(p)
  BY <1>1, <1>2, <1>7 DEF DebitWrite, CreditWrite, WriteBalances, StatementError
<1>8. CASE Rollback(p) \/ DeadlockVictim(p) \/ StatementFails(p) \/ RollbackFails(p) \/ Crash(p)
           \/ CommitTransfer(p) \/ CommitFails(p)
  BY <1>2, <1>8 DEF Rollback, EndTransaction, DeadlockVictim, StatementFails, RollbackFails,
                    Crash, StatementError, CommitTransfer, CommitFails
<1> QED
  BY <1>3, <1>4, <1>5, <1>6, <1>7, <1>8 DEF TransferStep, TransferProgress, TransferFault

LEMMA PostingPath ==
    ASSUME TransferTypeOK, NEW p \in TransferRequests, TransferStep(p),
           tPc'[p] \in Posting \cup {"lockSecond"}
    PROVE  \/ LockFirst(p)
           \/ LockSecond(p) /\ tPc'[p] = "insert"
           \/ InsertTransfer(p) /\ tPc'[p] = "debitRead"
           \/ DebitRead(p) \/ CreditRead(p)
           \/ DebitWrite(p) /\ tPc'[p] = "creditRead"
           \/ CreditWrite(p) /\ tPc'[p] = "entries"
           \/ InsertEntries(p) /\ tPc'[p] = "audit"
           \/ InsertAudit(p)
<1> USE DEF TransferTypeOK, Goto, Finish, Throw, StatementError, Posting
<1>1. ~Receive(p) /\ ~Begin(p) /\ ~Respond(p) /\ ~CallFails(p)
  BY DEF Receive, Begin, Respond, CallFails
<1>2. ~Lookup(p) /\ ~Relookup(p)
  BY DEF Lookup, Relookup, AnswerFrom
<1>3. LockSecond(p) => tPc'[p] = "insert"
  BY DEF LockSecond
<1>4. InsertTransfer(p) => tPc'[p] = "debitRead"
  BY DEF InsertTransfer
<1>5. (DebitWrite(p) => tPc'[p] = "creditRead") /\ (CreditWrite(p) => tPc'[p] = "entries")
  BY DEF DebitWrite, CreditWrite, WriteBalances
<1>6. InsertEntries(p) => tPc'[p] = "audit"
  BY DEF InsertEntries
<1>7. ~Rollback(p) /\ ~CommitTransfer(p) /\ ~CommitFails(p) /\ ~DeadlockVictim(p)
      /\ ~StatementFails(p) /\ ~RollbackFails(p) /\ ~Crash(p)
  BY DEF Rollback, RetryFrom, CommitTransfer, CommitFails, DeadlockVictim, StatementFails,
         RollbackFails, Crash
<1> QED
  BY <1>1, <1>2, <1>3, <1>4, <1>5, <1>6, <1>7 DEF TransferStep, TransferProgress, TransferFault


LEMMA LockFirstHeld ==
    ASSUME TypeInv, NEW p \in TransferRequests, HeldSound(p), LockFirst(p)
    PROVE  HeldSound(p)'
<1>1. DbTypeOK /\ TransferTypeOK /\ p \in Sessions /\ tPc[p] = "lockFirst" /\ tPc[p] # "idle"
  BY TransferAssumption DEF TypeInv, TypeOK, LockFirst
<1>2. \A a \in Accounts : pend[p].rows[a] = NoRow
  BY <1>1 DEF HeldSound, Debited
<1>3. tPc'[p] = "lockSecond" /\ tReq' = tReq /\ UNCHANGED <<tables, pend>>
  BY <1>1 DEF LockFirst, Goto, TransferTypeOK
<1>4. tSeen'[p].first # NoRow => HasFirst(p)'
  <2>1. FirstRow(p) \in Accounts /\ FirstRow(p)' = FirstRow(p)
    BY <1>1, <1>3, BodyTyped DEF FirstRow, FirstId
  <2>2. Visible(p, FirstRow(p)) = accounts[FirstRow(p)]
    BY <1>2, <2>1 DEF Visible
  <2>3. tSeen'[p].first = accounts[FirstRow(p)]
    BY <1>1, <2>2 DEF LockFirst, FirstRow, TransferTypeOK
  <2>4. accounts[FirstRow(p)] # NoRow => lock'[FirstRow(p)] = p
    BY <1>1, <2>1, <2>2 DEF LockFirst, FirstRow, Lock, DbTypeOK
  <2> QED
    BY <1>3, <2>1, <2>3, <2>4 DEF HasFirst, tables
<1> QED
  BY <1>1, <1>2, <1>3, <1>4 DEF HeldSound, Posting, Answered, NoRow

LEMMA LockSecondHeld ==
    ASSUME TypeInv, NEW p \in TransferRequests, HeldSound(p), LockSecond(p), tPc'[p] = "insert"
    PROVE  HeldSound(p)'
<1>1. DbTypeOK /\ TransferTypeOK /\ p \in Sessions /\ tPc[p] = "lockSecond" /\ tPc[p] # "idle"
  BY TransferAssumption DEF TypeInv, TypeOK, LockSecond
<1>2. \A a \in Accounts : pend[p].rows[a] = NoRow
  BY <1>1 DEF HeldSound, Debited
<1>3. tReq' = tReq /\ UNCHANGED <<tables, pend>>
  BY DEF LockSecond
<1>4. /\ FirstRow(p) \in Accounts /\ SecondRow(p) \in Accounts
      /\ FirstRow(p)' = FirstRow(p) /\ SecondRow(p)' = SecondRow(p)
  BY <1>1, <1>3, BodyTyped DEF FirstRow, FirstId, SecondRow, SecondId
<1>5. Visible(p, SecondRow(p)) = accounts[SecondRow(p)]
  BY <1>2, <1>4 DEF Visible
<1>6. /\ tSeen'[p].first = tSeen[p].first /\ tSeen'[p].second = accounts[SecondRow(p)]
  BY <1>1, <1>5 DEF LockSecond, SecondRow, TransferTypeOK
<1>7. tSeen'[p].first # NoRow /\ tSeen'[p].second # NoRow
  <2>1. RequestSound(p)'
    BY SoundStep DEF TransferStep, TransferProgress
  <2>2. Rejection(tReq[p], SourceAccount(tReq[p], tSeen'[p].first, tSeen'[p].second),
                           DestAccount(tReq[p], tSeen'[p].first, tSeen'[p].second)) = "NONE"
    BY <1>3, <2>1 DEF RequestSound, RulesHold, Posting
  <2>3. NoRow \notin {SourceAccount(tReq[p], tSeen'[p].first, tSeen'[p].second),
                      DestAccount(tReq[p], tSeen'[p].first, tSeen'[p].second)}
    BY <2>2 DEF Rejection
  <2>4. tReq[p].source # tReq[p].destination
    BY <1>1 DEF HeldSound, Answered
  <2> QED
    BY <2>3, <2>4 DEF SourceAccount, DestAccount, LockOrder
<1>8. lock'[FirstRow(p)] = p /\ lock'[SecondRow(p)] = p
  <2>1. lock[FirstRow(p)] = p
    BY <1>1, <1>6, <1>7 DEF HeldSound, HasFirst
  <2>2. lock' = Lock(p, SecondRow(p))
    BY DEF LockSecond, SecondRow
  <2> QED
    BY <1>1, <1>4, <1>5, <1>6, <1>7, <2>1, <2>2 DEF Lock, DbTypeOK
<1>9. accounts'[FirstRow(p)] = tSeen'[p].first /\ accounts'[SecondRow(p)] = tSeen'[p].second
  BY <1>1, <1>3, <1>6, <1>7 DEF HeldSound, HasFirst, tables
<1> QED
  BY <1>1, <1>2, <1>3, <1>4, <1>8, <1>9 DEF HeldSound, HasFirst, HasSecond, Posting, Answered, NoRow

\* What is left to show of a statement of the posting: what it reads or writes.
LEMMA StillHeld ==
    ASSUME TypeInv, NEW p \in TransferRequests, HeldSound(p),
           tPc[p] \in Posting, tPc'[p] \in Posting,
           UNCHANGED <<tReq, tSeen, accounts>>,
           \A a \in Accounts :
              /\ lock[a] = p => lock'[a] = p
              /\ pend'[p].rows[a] # NoRow =>
                    /\ tPc'[p] \in Debited /\ lock'[a] = p /\ accounts[a] # NoRow
                    /\ pend'[p].rows[a].status = accounts[a].status
              /\ pend'[p].rows[a].available >= 0,
           tPc'[p] = "debitWrite" => tRead'[p] = accounts[Source(p)],
           tPc'[p] = "creditWrite" => tRead'[p].available >= 0
    PROVE  HeldSound(p)'
<1>1. /\ Source(p)' = Source(p)
      /\ FirstRow(p)' = FirstRow(p) /\ SecondRow(p)' = SecondRow(p)
  BY SameNames
<1>2. FirstRow(p) \in Accounts /\ SecondRow(p) \in Accounts
  BY PostingKnows
<1>3. HasFirst(p)' /\ HasSecond(p)'
  BY <1>1, <1>2 DEF HeldSound, HasFirst, HasSecond
<1>4. tReq'[p].source # tReq'[p].destination
  BY DEF HeldSound, Posting, Answered
<1> QED
  BY <1>1, <1>3, <1>4 DEF HeldSound, Posting

\* The three inserts write no account row.
LEMMA InsertsHeld ==
    ASSUME TypeInv, NEW p \in TransferRequests, HeldSound(p), tPc'[p] \in Posting,
           InsertTransfer(p) \/ InsertEntries(p) \/ InsertAudit(p)
    PROVE  HeldSound(p)'
<1>1. /\ TransferTypeOK /\ p \in Sessions
      /\ pend \in [Sessions -> Pending] /\ pend[p] \in Pending
  BY TransferAssumption DEF TypeInv, TypeOK, DbTypeOK
<1>2. /\ tPc[p] \in Posting /\ tPc'[p] \notin {"debitWrite", "creditWrite"}
      /\ tPc[p] \in Debited => tPc'[p] \in Debited
      /\ UNCHANGED <<tables, lock, tReq, tSeen>>
      /\ \/ \E t : pend' = [pend EXCEPT ![p].transfers = t]
         \/ \E e : pend' = [pend EXCEPT ![p].entries = e]
         \/ \E x : pend' = [pend EXCEPT ![p].audit = x]
  BY <1>1 DEF InsertTransfer, InsertEntries, InsertAudit, StatementError, Throw, Goto,
              TransferTypeOK,
              Posting, Debited
<1>3. pend'[p].rows = pend[p].rows
  BY <1>1, <1>2 DEF Pending
<1> QED
  BY <1>2, <1>3, StillHeld DEF HeldSound, tables

LEMMA ReadsHeld ==
    ASSUME TypeInv, NoOverdraft, NEW p \in TransferRequests, HeldSound(p),
           DebitRead(p) \/ CreditRead(p)
    PROVE  HeldSound(p)'
<1>1. DbTypeOK /\ TransferTypeOK /\ p \in Sessions
  BY TransferAssumption DEF TypeInv, TypeOK
<1>2. UNCHANGED <<tables, lock, pend, tReq, tSeen>>
  BY DEF DebitRead, CreditRead, ReadBalances, dbVars, tables
<1>3. CASE DebitRead(p)
  <2>1. /\ tPc[p] = "debitRead" /\ tPc'[p] = "debitWrite"
        /\ tRead'[p] = Visible(p, Source(p)) /\ Source(p) \in Accounts
    BY <1>1, <1>3, BodyTyped DEF DebitRead, ReadBalances, Goto, TransferTypeOK, Source
  <2>2. tRead'[p] = accounts[Source(p)]
    BY <2>1 DEF HeldSound, Debited, Visible
  <2> QED
    BY <1>2, <2>1, <2>2, StillHeld DEF HeldSound, tables, Posting, Debited
<1>4. CASE CreditRead(p)
  <2>1. /\ tPc[p] = "creditRead" /\ tPc'[p] = "creditWrite"
        /\ tRead'[p] = Visible(p, Dest(p)) /\ Dest(p) \in Accounts
    BY <1>1, <1>4, BodyTyped DEF CreditRead, ReadBalances, Goto, TransferTypeOK, Dest
  <2>2. tRead'[p].available >= 0
    BY <2>1 DEF HeldSound, NoOverdraft, Visible
  <2> QED
    BY <1>2, <2>1, <2>2, StillHeld DEF HeldSound, tables, Posting, Debited
<1> QED
  BY <1>3, <1>4

\* An UPDATE of the balances changes one row, which the session then has locked.
LEMMA UpdateWrites ==
    ASSUME DbTypeOK, NEW s \in Sessions, NEW a \in Accounts, NEW x, NEW y,
           UpdateBalanceColumns(s, a, x, y)
    PROVE  /\ UNCHANGED tables
           /\ \A b \in Accounts : lock[b] = s => lock'[b] = s
           /\ \A b \in Accounts \ {a} : pend'[s].rows[b] = pend[s].rows[b]
           /\ \/ pend'[s].rows[a] = pend[s].rows[a]
              \/ /\ pend'[s].rows[a].available = x /\ lock'[a] = s
                 /\ Visible(s, a) # NoRow /\ pend'[s].rows[a].status = Visible(s, a).status
<1> DEFINE v == Visible(s, a)
           r == IF v = NoRow THEN pend[s].rows[a] ELSE [v EXCEPT !.available = x, !.ledger = y]
<1>1. pend[s] \in Pending /\ v \in Row \cup {NoRow}
  BY VisibleRow DEF DbTypeOK
<1>2. pend' = [pend EXCEPT ![s].rows[a] = r] /\ lock' = Lock(s, a)
  BY DEF UpdateBalanceColumns
<1>3. v # NoRow => r.available = x /\ lock'[a] = s /\ r.status = Visible(s, a).status
  BY <1>1, <1>2 DEF Row, Lock, DbTypeOK
<1>4. (v = NoRow => r = pend[s].rows[a]) /\ v = Visible(s, a)
  OBVIOUS
<1>5. \A b \in Accounts : lock[b] = s => lock'[b] = s
  BY <1>2 DEF Lock, DbTypeOK
<1> HIDE DEF v, r
<1>6. /\ pend'[s].rows[a] = r
      /\ \A b \in Accounts \ {a} : pend'[s].rows[b] = pend[s].rows[b]
  BY <1>1, <1>2 DEF DbTypeOK, Pending
<1> QED
  BY <1>3, <1>4, <1>5, <1>6 DEF UpdateBalanceColumns

\* A column never rounds a sum that is not negative below zero.
LEMMA RoundedIsFunded ==
    ASSUME NEW x \in Int, x >= 0
    PROVE  ToNumeric(x) >= 0
BY DEF ToNumeric, Quantum

LEMMA WritesHeld ==
    ASSUME TypeInv, NEW p \in TransferRequests, HeldSound(p), tPc'[p] \in Posting,
           DebitWrite(p) \/ CreditWrite(p)
    PROVE  HeldSound(p)'
<1> DEFINE a == IF tPc[p] = "debitWrite" THEN Source(p) ELSE Dest(p)
           delta == IF tPc[p] = "debitWrite" THEN -tReq[p].amount ELSE tReq[p].amount
           x == ToNumeric(tRead[p].available + delta)
           y == ToNumeric(tRead[p].ledger + delta)
<1>1. /\ DbTypeOK /\ TransferTypeOK /\ p \in Sessions
      /\ tPc[p] \in {"debitWrite", "creditWrite"} /\ tPc[p] \in Posting
  BY TransferAssumption DEF TypeInv, TypeOK, DebitWrite, CreditWrite, Posting
<1>2. WriteBalances(p, a, delta, IF tPc[p] = "debitWrite" THEN "creditRead" ELSE "entries")
  BY <1>1 DEF DebitWrite, CreditWrite, Source, Dest
<1>3. /\ UpdateBalanceColumns(p, a, x, y) /\ UNCHANGED <<tReq, tSeen>>
      /\ tPc'[p] \in {"creditRead", "entries"}
  BY <1>1, <1>2 DEF WriteBalances, StatementError, Throw, Goto, TransferTypeOK, Posting
<1>4. a \in Accounts
  BY <1>1, PostingKnows
<1>5. x >= 0
  <2>1. tRead[p].available \in Int /\ tReq[p].amount \in Nat
    BY <1>1, PostingKnows, RowBalances DEF TransferTypeOK
  <2>2. tRead[p].available + delta >= 0 /\ tRead[p].available + delta \in Int
    BY <1>1, <2>1, PostingKnows DEF HeldSound
  <2> QED
    BY <2>2, RoundedIsFunded
<1> HIDE DEF a, x, y
<1>6. /\ UNCHANGED tables
      /\ \A b \in Accounts : lock[b] = p => lock'[b] = p
      /\ \A b \in Accounts \ {a} : pend'[p].rows[b] = pend[p].rows[b]
      /\ \/ pend'[p].rows[a] = pend[p].rows[a]
         \/ /\ pend'[p].rows[a].available = x /\ lock'[a] = p
            /\ Visible(p, a) # NoRow /\ pend'[p].rows[a].status = Visible(p, a).status
  BY <1>1, <1>3, <1>4, UpdateWrites
<1>7. \A b \in Accounts :
         /\ pend'[p].rows[b] # NoRow => /\ lock'[b] = p /\ accounts[b] # NoRow
                                        /\ pend'[p].rows[b].status = accounts[b].status
         /\ pend'[p].rows[b].available >= 0
  BY <1>4, <1>5, <1>6 DEF HeldSound, Visible
<1> QED
  BY <1>1, <1>3, <1>6, <1>7, StillHeld DEF Debited, tables

LEMMA HeldSoundStep ==
    ASSUME TypeInv, NoOverdraft, NEW p \in TransferRequests, HeldSound(p), TransferStep(p)
    PROVE  HeldSound(p)'
<1>1. DbTypeOK /\ TransferTypeOK
  BY DEF TypeInv, TypeOK
<1>2. CASE tPc'[p] \notin Posting \cup {"lockSecond"}
  <2>1. \A a \in Accounts : pend'[p].rows[a] = NoRow
    BY <1>2, OutsideStep DEF WroteNothing, HeldSound, Posting, Debited
  <2> QED
    BY <1>1, <1>2, <2>1, TwoSpellings DEF HeldSound, Posting, NoRow
<1>3. CASE tPc'[p] \in Posting \cup {"lockSecond"}
  <2>1. \/ LockFirst(p)
        \/ LockSecond(p) /\ tPc'[p] = "insert"
        \/ DebitRead(p) \/ CreditRead(p)
        \/ /\ tPc'[p] \in Posting
           /\ \/ InsertTransfer(p) \/ InsertEntries(p) \/ InsertAudit(p)
              \/ DebitWrite(p) \/ CreditWrite(p)
    BY <1>1, <1>3, PostingPath DEF Posting, InsertAudit, Goto, TransferTypeOK
  <2> QED
    BY <2>1, LockFirstHeld, LockSecondHeld, InsertsHeld, ReadsHeld, WritesHeld
<1> QED
  BY <1>2, <1>3

LEMMA OverdraftStep ==
    ASSUME NoOverdraft, NEW p \in TransferRequests, HeldSound(p), TransferStep(p)
    PROVE  NoOverdraft'
<1>1. CASE UNCHANGED tables
  BY <1>1 DEF NoOverdraft, tables
<1>2. CASE Commit(p)
  BY <1>2 DEF NoOverdraft, HeldSound, Commit, Visible
<1> QED
  BY <1>1, <1>2, TablesMoveAtCommit

LEMMA HeldInvStep ==
    ASSUME TypeInv, HeldInv, NEW p \in TransferRequests, TransferStep(p)
    PROVE  HeldInv'
<1>1. NoOverdraft'
  BY OverdraftStep DEF HeldInv
<1>2. ASSUME NEW q \in TransferRequests
      PROVE  HeldSound(q)'
  <2>1. CASE q = p
    BY <2>1, HeldSoundStep DEF HeldInv
  <2>2. CASE q # p
    <3>1. SameRequest(q)
      BY <2>2, OthersUntouched DEF TypeInv, TypeOK, SameRequest
    <3> QED
      BY <2>2, <3>1, OthersUndisturbed, HeldSoundStays, TransferAssumption DEF HeldInv
  <2> QED
    BY <2>1, <2>2
<1> QED
  BY <1>1, <1>2 DEF HeldInv

LEMMA HeldInvInit == DbInit /\ TransferInit => HeldInv
<1> SUFFICES ASSUME DbInit, TransferInit PROVE HeldInv
  OBVIOUS
<1>1. NoOverdraft
  BY TablesAssumption DEF DbInit, TablesInit, NoOverdraft
<1>2. ASSUME NEW p \in TransferRequests PROVE HeldSound(p)
  BY TransferAssumption DEF DbInit, TransferInit, HeldSound, NothingPending, NoRow, Posting
<1> QED
  BY <1>1, <1>2 DEF HeldInv

LEMMA HeldInvHolds == Spec => []HeldInv
<1>1. Init => HeldInv
  BY HeldInvInit DEF Init
<1>2. TypeInv /\ HeldInv /\ [Next]_vars => HeldInv'
  <2>1. TypeInv /\ HeldInv /\ UNCHANGED vars => HeldInv'
    BY HeldSoundStays DEF HeldInv, NoOverdraft, SameRequest, Undisturbed, Isolated, vars, dbVars,
                          tables, transferVars
  <2> QED
    BY <2>1, HeldInvStep DEF Next
<1> QED
  BY <1>1, <1>2, TypeInvInit, TypeInvStep, PTL DEF Spec

\* No transfer ever overdraws an account, whatever runs beside it, however its
\* accounts are spelled and its amount is rounded: the balance of the check is
\* still the balance when the debit is written (TransferService.ts:84, 101-107).
THEOREM NeverOverdrawn == Spec => []NoOverdraft
<1>1. HeldInv => NoOverdraft
  BY DEF HeldInv
<1> QED
  BY <1>1, HeldInvHolds, PTL
-----------------------------------------------------------------------------
(***************************************************************************)
(* Refusals.                                                               *)
(***************************************************************************)

Refusals == {"ACCOUNT_NOT_ACTIVE", "CURRENCY_MISMATCH", "INSUFFICIENT_BALANCE"}

\* Request p is about to roll back because its rows break a rule.
Refusing(p) == tPc[p] = "rollback" /\ tOutcome[p].kind \in Refusals

\* It holds the two rows the rules were checked on.
RefusalSound(p) ==
    Refusing(p) =>
        /\ HasFirst(p) /\ HasSecond(p)
        /\ tSeen[p].first # NoRow /\ tSeen[p].second # NoRow
        /\ tOutcome[p].kind = Rejection(tReq[p],
                                        SourceAccount(tReq[p], tSeen[p].first, tSeen[p].second),
                                        DestAccount(tReq[p], tSeen[p].first, tSeen[p].second))

RefusalInv == \A p \in TransferRequests : RefusalSound(p)

\* Only the check of the rules refuses.
LEMMA RefusedByTheRules ==
    ASSUME TransferTypeOK, NEW p \in TransferRequests, TransferStep(p), Refusing(p)'
    PROVE  LockSecond(p)
<1> USE DEF TransferTypeOK, Goto, Finish, Throw, StatementError, Refusing, Refusals
<1>1. ~Receive(p) /\ ~Begin(p) /\ ~Respond(p) /\ ~CallFails(p) /\ ~LockFirst(p)
  BY DEF Receive, Begin, Respond, CallFails, LockFirst
<1>2. ~Lookup(p) /\ ~Relookup(p)
  BY DEF Lookup, Relookup, AnswerFrom
<1>3. ~InsertTransfer(p) /\ ~InsertEntries(p) /\ ~InsertAudit(p)
  BY DEF InsertTransfer, InsertEntries, InsertAudit
<1>4. ~DebitRead(p) /\ ~CreditRead(p)
  BY DEF DebitRead, CreditRead, ReadBalances
<1>5. ~DebitWrite(p) /\ ~CreditWrite(p)
  BY DEF DebitWrite, CreditWrite, WriteBalances
<1>6. ~Rollback(p) /\ ~CommitTransfer(p) /\ ~CommitFails(p)
  BY DEF Rollback, RetryFrom, CommitTransfer, CommitFails
<1>7. ~DeadlockVictim(p) /\ ~StatementFails(p) /\ ~RollbackFails(p) /\ ~Crash(p)
  BY DEF DeadlockVictim, StatementFails, RollbackFails, Crash
<1> QED
  BY <1>1, <1>2, <1>3, <1>4, <1>5, <1>6, <1>7 DEF TransferStep, TransferProgress, TransferFault

LEMMA RefusalBegins ==
    ASSUME TypeInv, NEW p \in TransferRequests, HeldSound(p), LockSecond(p), Refusing(p)'
    PROVE  RefusalSound(p)'
<1>1. DbTypeOK /\ TransferTypeOK /\ tPc[p] = "lockSecond"
  BY DEF TypeInv, TypeOK, LockSecond
<1>2. \A a \in Accounts : pend[p].rows[a] = NoRow
  BY <1>1 DEF HeldSound, Debited
<1>3. tReq' = tReq /\ UNCHANGED <<tables, pend>>
  BY DEF LockSecond
<1>4. /\ FirstRow(p) \in Accounts /\ SecondRow(p) \in Accounts
      /\ FirstRow(p)' = FirstRow(p) /\ SecondRow(p)' = SecondRow(p)
  BY <1>1, <1>3, BodyTyped DEF FirstRow, FirstId, SecondRow, SecondId
<1>5. Visible(p, SecondRow(p)) = accounts[SecondRow(p)]
  BY <1>2, <1>4 DEF Visible
<1>6. /\ tSeen'[p].first = tSeen[p].first /\ tSeen'[p].second = accounts[SecondRow(p)]
  BY <1>1, <1>5 DEF LockSecond, SecondRow, TransferTypeOK
<1> DEFINE broken == Rejection(tReq[p],
                               SourceAccount(tReq[p], tSeen'[p].first, tSeen'[p].second),
                               DestAccount(tReq[p], tSeen'[p].first, tSeen'[p].second))
<1>7. tOutcome'[p].kind = broken
  <2>1. broken = Rejection(tReq[p],
                           SourceAccount(tReq[p], tSeen[p].first, Visible(p, SecondRow(p))),
                           DestAccount(tReq[p], tSeen[p].first, Visible(p, SecondRow(p))))
    BY <1>5, <1>6
  <2> HIDE DEF broken
  <2>2. IF broken = "NONE" THEN Goto(p, "insert") /\ UNCHANGED tOutcome ELSE Throw(p, broken)
    BY <2>1 DEF LockSecond, SecondRow
  <2> QED
    BY <1>1, <2>2 DEF Refusing, Throw, Goto, TransferTypeOK
<1>8. tSeen'[p].first # NoRow /\ tSeen'[p].second # NoRow
  <2>1. NoRow \notin {SourceAccount(tReq[p], tSeen'[p].first, tSeen'[p].second),
                      DestAccount(tReq[p], tSeen'[p].first, tSeen'[p].second)}
    BY <1>7 DEF Rejection, Refusing, Refusals
  <2>2. tReq[p].source # tReq[p].destination
    BY <1>1 DEF HeldSound, Answered
  <2> QED
    BY <2>1, <2>2 DEF SourceAccount, DestAccount, LockOrder
<1>9. lock'[FirstRow(p)] = p /\ lock'[SecondRow(p)] = p
  <2>1. lock[FirstRow(p)] = p
    BY <1>1, <1>6, <1>8 DEF HeldSound, HasFirst
  <2>2. lock' = Lock(p, SecondRow(p))
    BY DEF LockSecond, SecondRow
  <2> QED
    BY <1>1, <1>4, <1>5, <1>6, <1>8, <2>1, <2>2 DEF Lock, DbTypeOK
<1>10. accounts'[FirstRow(p)] = tSeen'[p].first /\ accounts'[SecondRow(p)] = tSeen'[p].second
  BY <1>1, <1>3, <1>6, <1>8 DEF HeldSound, HasFirst, tables
<1> HIDE DEF broken
<1>11. HasFirst(p)' /\ HasSecond(p)'
  BY <1>4, <1>9, <1>10 DEF HasFirst, HasSecond
<1> QED
  BY <1>3, <1>7, <1>8, <1>11 DEF RefusalSound, broken, SourceAccount, DestAccount

\* While the others go on, a request about to roll back stays as it is.
LEMMA RefusalStays ==
    ASSUME TypeInv, NEW q \in TransferRequests, RefusalSound(q),
           SameRequest(q), tOutcome'[q] = tOutcome[q], Undisturbed(q)
    PROVE  RefusalSound(q)'
<1> SUFFICES ASSUME Refusing(q)' PROVE RefusalSound(q)'
  BY DEF RefusalSound
<1>1. Refusing(q) /\ FirstRow(q)' = FirstRow(q) /\ SecondRow(q)' = SecondRow(q)
  BY SameNames DEF SameRequest, Refusing
<1>2. FirstRow(q) \in Accounts /\ SecondRow(q) \in Accounts
  BY <1>1, BodyTyped DEF FirstRow, FirstId, SecondRow, SecondId, Refusing
<1>3. HasFirst(q)' /\ HasSecond(q)'
  BY <1>1, <1>2 DEF RefusalSound, HasFirst, HasSecond, Undisturbed, Isolated, SameRequest
<1> QED
  BY <1>1, <1>3 DEF RefusalSound, SameRequest, SourceAccount, DestAccount

LEMMA RefusalInvStep ==
    ASSUME TypeInv, HeldInv, RefusalInv, NEW p \in TransferRequests, TransferStep(p)
    PROVE  RefusalInv'
<1>1. DbTypeOK /\ TransferTypeOK
  BY DEF TypeInv, TypeOK
<1>2. RefusalSound(p)'
  <2>1. CASE Refusing(p)'
    BY <1>1, <2>1, RefusedByTheRules, RefusalBegins DEF HeldInv
  <2>2. CASE ~Refusing(p)'
    BY <2>2 DEF RefusalSound
  <2> QED
    BY <2>1, <2>2
<1>3. ASSUME NEW q \in TransferRequests, q # p PROVE RefusalSound(q)'
  <2>1. SameRequest(q) /\ tOutcome'[q] = tOutcome[q]
    BY <1>1, <1>3, OthersUntouched DEF SameRequest
  <2>2. Undisturbed(q)
    BY <1>3, OthersUndisturbed, TransferAssumption DEF HeldInv
  <2> QED
    BY <2>1, <2>2, RefusalStays DEF RefusalInv
<1> QED
  BY <1>2, <1>3 DEF RefusalInv

LEMMA RefusalInvInit == TransferInit => RefusalInv
BY DEF TransferInit, RefusalInv, RefusalSound, Refusing

LEMMA RowsRefused ==
    ASSUME HeldInv, RefusalInv
    PROVE  RefusalsAreDue
<1> SUFFICES ASSUME NEW p \in TransferRequests, Refusing(p)
             PROVE  tOutcome[p].kind = Rejection(tReq[p], accounts[Source(p)], accounts[Dest(p)])
  BY DEF RefusalsAreDue, Refusing, Refusals, Source, Dest
<1>1. tReq[p].source # tReq[p].destination
  BY DEF HeldInv, HeldSound, Refusing, Answered
<1> QED
  BY <1>1, SeenRows DEF RefusalInv, RefusalSound

\* Whoever is refused for a status, a currency or a balance is refused for what
\* the account is, whatever ran between the two locks, however the accounts are
\* spelled and the amount is rounded (TransferService.ts:61-86).
THEOREM RefusalsAreForCause == Spec => []RefusalsAreDue
<1>1. Init => RefusalInv
  BY RefusalInvInit DEF Init
<1>2. TypeInv /\ HeldInv /\ RefusalInv /\ [Next]_vars => RefusalInv'
  <2>1. TypeInv /\ RefusalInv /\ UNCHANGED vars => RefusalInv'
    BY RefusalStays DEF RefusalInv, SameRequest, Undisturbed, Isolated, vars, dbVars, tables,
                        transferVars
  <2> QED
    BY <2>1, RefusalInvStep DEF Next
<1>3. HeldInv /\ RefusalInv => RefusalsAreDue
  BY RowsRefused
<1> QED
  BY <1>1, <1>2, <1>3, TypeInvInit, TypeInvStep, HeldInvHolds, PTL DEF Spec
-----------------------------------------------------------------------------
(***************************************************************************)
(* The two hypotheses.  Without the first an account can be debited and    *)
(* credited from one row read twice, without the second the column rounds  *)
(* what the request compares and subtracts: the runs SpellingSelf and      *)
(* HalfUnit show both.                                                     *)
(***************************************************************************)

\* No body names one account by two spellings.
ApartSpellings == \A b \in Bodies : b.source # b.destination => Uuid[b.source] # Uuid[b.destination]

\* Every amount is one a column can hold.
WholeAmounts == \A b \in Bodies : IsWhole(b.amount)

PlainBodies == ApartSpellings /\ WholeAmounts

\* The atomic bank, asked for the same transfers.
OrderOf(b) == [source |-> Uuid[b.source], destination |-> Uuid[b.destination],
               amount |-> b.amount, currency |-> b.currency, reference |-> b.reference]

Books == INSTANCE AtomicBankProofs WITH
    Orders <- {OrderOf(b) : b \in Bodies}, TopUpOrders <- {}, StatusOrders <- {}

LEMMA WholeIsExact ==
    ASSUME NEW x \in Int, IsWhole(x)
    PROVE  ToNumeric(x) = x
<1>1. PICK k \in Int : x = 4 * k
  BY DEF IsWhole, Quantum
<1>2. (4 * k + 2) \div 4 = k /\ (2 - 4 * k) \div 4 = -k
  OBVIOUS
<1> QED
  BY <1>1, <1>2 DEF ToNumeric, Quantum

LEMMA PlainAmount ==
    ASSUME PlainBodies, TypeInv, NEW p \in TransferRequests, tPc[p] # "idle"
    PROVE  /\ tReq[p] \in Bodies /\ tReq[p].amount \in Nat \ {0} /\ IsWhole(tReq[p].amount)
           /\ ToNumeric(tReq[p].amount) = tReq[p].amount
<1>1. tReq[p] \in Bodies /\ tReq[p] \in Body
  BY BodyTyped DEF TypeInv, RequestSound
<1>2. tReq[p].amount \in Nat \ {0} /\ IsWhole(tReq[p].amount)
  BY <1>1 DEF PlainBodies, WholeAmounts, Body
<1> QED
  BY <1>1, <1>2, WholeIsExact

LEMMA PostingApart ==
    ASSUME PlainBodies, TypeInv, NEW p \in TransferRequests, HeldSound(p), tPc[p] \in Posting
    PROVE  Source(p) # Dest(p)
<1>1. tReq[p] \in Bodies
  BY PlainAmount DEF Posting
<1> QED
  BY <1>1 DEF HeldSound, Posting, Answered, PlainBodies, ApartSpellings, Source, Dest
-----------------------------------------------------------------------------
(***************************************************************************)
(* What a request has written when it makes its next call.                 *)
(***************************************************************************)

WrittenRow(p, a) ==
    IF tPc[p] \in Debited /\ a = Source(p) THEN Books!Adjusted(a, -tReq[p].amount)
    ELSE IF tPc[p] \in Credited /\ a = Dest(p) THEN Books!Adjusted(a, tReq[p].amount)
    ELSE NoRow

WrittenEntries(p, a) ==
    IF tPc[p] \notin Entered THEN <<>>
    ELSE (IF a = Source(p) THEN <<Debit(p)>> ELSE <<>>)
         \o (IF a = Dest(p) THEN <<Credit(p)>> ELSE <<>>)

HasWritten(p) ==
    /\ \A a \in Accounts : pend[p].rows[a] = WrittenRow(p, a)
                         /\ pend[p].entries[a] = WrittenEntries(p, a)
    /\ pend[p].transfers = IF tPc[p] \in Inserted THEN {NewTransfer(p)} ELSE {}
    /\ pend[p].audit = IF tPc[p] = "commit" THEN {AuditOf(p)} ELSE {}

PostingSound(p) ==
    /\ HasWritten(p)
    /\ tPc[p] = "creditWrite" => tRead[p] = accounts[Dest(p)]

LEMMA AdjustedStays ==
    ASSUME NEW a \in Accounts, accounts'[a] = accounts[a], NEW delta
    PROVE  Books!Adjusted(a, delta)' = Books!Adjusted(a, delta)
BY DEF Books!Adjusted

LEMMA NothingWritten ==
    ASSUME NEW p, tPc[p] \notin Inserted
    PROVE  HasWritten(p) <=> WroteNothing(p)
BY DEF HasWritten, WroteNothing, WrittenRow, WrittenEntries, Inserted, Posting, Debited,
       Credited, Entered

LEMMA NothingWrittenNext ==
    ASSUME NEW p, tPc'[p] \notin Inserted, WroteNothing(p)'
    PROVE  HasWritten(p)'
BY DEF HasWritten, WroteNothing, WrittenRow, WrittenEntries, Inserted, Posting, Debited,
       Credited, Entered

\* The steps of the others keep it ...
LEMMA PostingSoundStays ==
    ASSUME TypeInv, NEW q \in TransferRequests, HeldSound(q), PostingSound(q),
           SameRequest(q), Undisturbed(q)
    PROVE  PostingSound(q)'
<1> USE DEF SameRequest
<1>1. /\ Source(q)' = Source(q) /\ Dest(q)' = Dest(q)
      /\ NewTransfer(q)' = NewTransfer(q) /\ AuditOf(q)' = AuditOf(q)
      /\ Debit(q)' = Debit(q) /\ Credit(q)' = Credit(q)
  BY SameNames
<1>2. pend'[q] = pend[q]
  BY DEF Undisturbed, Isolated
<1>3. CASE tPc[q] \in Posting
  <2>1. /\ accounts'[Source(q)] = accounts[Source(q)] /\ accounts'[Dest(q)] = accounts[Dest(q)]
        /\ Source(q) \in Accounts /\ Dest(q) \in Accounts
    BY <1>3, PostingKnows, RowIsThere DEF Undisturbed
  <2>2. \A a \in Accounts : WrittenRow(q, a)' = WrittenRow(q, a)
    BY <1>1, <2>1, AdjustedStays DEF WrittenRow
  <2>3. \A a \in Accounts : WrittenEntries(q, a)' = WrittenEntries(q, a)
    BY <1>1 DEF WrittenEntries
  <2>4. HasWritten(q)'
    BY <1>1, <1>2, <2>2, <2>3 DEF HasWritten, PostingSound
  <2> QED
    BY <1>1, <2>1, <2>4 DEF PostingSound
<1>4. CASE tPc[q] \notin Posting
  <2>1. tPc[q] \notin Inserted /\ tPc'[q] \notin Inserted
    BY <1>4 DEF Inserted
  <2>2. HasWritten(q)'
    BY <1>2, <2>1, NothingWritten, NothingWrittenNext DEF PostingSound, WroteNothing
  <2> QED
    BY <1>4, <2>2 DEF PostingSound, Posting
<1> QED
  BY <1>3, <1>4

\* ... and so does each of its own: before the INSERT and after the end it has
\* written nothing, ...
LEMMA EmptySound ==
    ASSUME TypeInv, NEW p \in TransferRequests, PostingSound(p), TransferStep(p),
           tPc'[p] \notin Inserted
    PROVE  PostingSound(p)'
<1>1. CASE tPc'[p] \notin Posting
  <2>1. WroteNothing(p)'
    BY <1>1, OutsideStep, NothingWritten DEF PostingSound, Inserted, WroteNothing
  <2> QED
    BY <1>1, <2>1, NothingWrittenNext DEF PostingSound, Posting
<1>2. CASE tPc'[p] \in Posting
  <2>1. LockSecond(p)
    BY <1>2, PostingPath DEF Inserted, Posting, LockFirst, DebitRead, CreditRead, ReadBalances,
                             InsertAudit,
                             Goto, TypeInv, TypeOK, TransferTypeOK
  <2>2. WroteNothing(p)'
    BY <2>1, NothingWritten DEF LockSecond, PostingSound, Inserted, Posting, WroteNothing
  <2> QED
    BY <1>2, <2>2, NothingWrittenNext DEF PostingSound, Inserted
<1> QED
  BY <1>1, <1>2

\* ... and then what its calls have written.
LEMMA InsertSound ==
    ASSUME TypeInv, NEW p \in TransferRequests, PostingSound(p), InsertTransfer(p),
           tPc'[p] = "debitRead"
    PROVE  PostingSound(p)'
<1>1. DbTypeOK /\ TransferTypeOK /\ p \in Sessions /\ tPc[p] = "insert"
  BY TransferAssumption DEF TypeInv, TypeOK, InsertTransfer
<1>2. /\ pend' = [pend EXCEPT ![p].transfers = @ \cup {NewTransfer(p)}]
      /\ UNCHANGED <<tables, tReq, tSeen>>
  BY <1>1 DEF InsertTransfer, StatementError, Throw, Goto, TransferTypeOK
<1>3. /\ pend'[p].rows = pend[p].rows /\ pend'[p].entries = pend[p].entries
      /\ pend'[p].transfers = pend[p].transfers \cup {NewTransfer(p)}
      /\ pend'[p].audit = pend[p].audit
  BY <1>1, <1>2 DEF DbTypeOK, Pending
<1>4. NewTransfer(p)' = NewTransfer(p)
  BY <1>2, SameNames
<1>5. WroteNothing(p)
  BY <1>1, NothingWritten DEF PostingSound, Inserted
<1>6. HasWritten(p)'
  BY <1>3, <1>4, <1>5 DEF HasWritten, WroteNothing, WrittenRow, WrittenEntries, Inserted, Posting,
                          Debited, Credited, Entered
<1> QED
  BY <1>6 DEF PostingSound

LEMMA ReadSound ==
    ASSUME PlainBodies, TypeInv, NEW p \in TransferRequests, HeldSound(p), PostingSound(p),
           DebitRead(p) \/ CreditRead(p)
    PROVE  PostingSound(p)'
<1>1. TransferTypeOK
  BY DEF TypeInv, TypeOK
<1>2. UNCHANGED <<tables, pend, tReq, tSeen>>
  BY DEF DebitRead, CreditRead, ReadBalances, dbVars
<1>3. /\ Source(p)' = Source(p) /\ Dest(p)' = Dest(p) /\ NewTransfer(p)' = NewTransfer(p)
      /\ \A a \in Accounts : \A d : Books!Adjusted(a, d)' = Books!Adjusted(a, d)
  BY <1>2, SameNames DEF tables, Books!Adjusted
<1>4. \/ tPc[p] = "debitRead" /\ tPc'[p] = "debitWrite"
      \/ tPc[p] = "creditRead" /\ tPc'[p] = "creditWrite" /\ tRead'[p] = Visible(p, Dest(p))
  BY <1>1 DEF DebitRead, CreditRead, ReadBalances, Goto, TransferTypeOK, Dest
<1>5. HasWritten(p)'
  BY <1>2, <1>3, <1>4 DEF PostingSound, HasWritten, WrittenRow, WrittenEntries, Inserted, Posting,
                          Debited, Credited, Entered
<1>6. CASE tPc'[p] = "creditWrite"
  <2>1. Dest(p) \in Accounts /\ Source(p) # Dest(p)
    BY <1>4, <1>6, PostingKnows, PostingApart DEF Posting
  <2>2. pend[p].rows[Dest(p)] = NoRow
    BY <1>4, <1>6, <2>1 DEF PostingSound, HasWritten, WrittenRow, Credited
  <2> QED
    BY <1>2, <1>3, <1>4, <1>5, <1>6, <2>2 DEF PostingSound, Visible, tables
<1> QED
  BY <1>5, <1>6 DEF PostingSound

\* An UPDATE computed from the committed row writes what the bank would.
LEMMA WriteIsAdjusted ==
    ASSUME DbTypeOK, NEW p \in Sessions, NEW a \in Accounts, NEW delta \in Int, IsWhole(delta),
           accounts[a] \in Row, pend[p].rows[a] = NoRow,
           UpdateBalanceColumns(p, a, ToNumeric(accounts[a].available + delta),
                                      ToNumeric(accounts[a].ledger + delta)),
           lock[a] = p
    PROVE  /\ UNCHANGED <<tables, lock>>
           /\ pend'[p].rows = [pend[p].rows EXCEPT ![a] = Books!Adjusted(a, delta)]
           /\ pend'[p].transfers = pend[p].transfers /\ pend'[p].entries = pend[p].entries
           /\ pend'[p].audit = pend[p].audit
<1>1. Visible(p, a) = accounts[a] /\ accounts[a] # NoRow
  BY DEF Visible, Row, NoRow, Statuses
<1>2. /\ accounts[a].available \in Int /\ accounts[a].ledger \in Int
      /\ IsWhole(accounts[a].available + delta) /\ IsWhole(accounts[a].ledger + delta)
  BY DEF Row, Column, IsWhole, Quantum
<1>3. /\ ToNumeric(accounts[a].available + delta) = accounts[a].available + delta
      /\ ToNumeric(accounts[a].ledger + delta) = accounts[a].ledger + delta
  BY <1>2, WholeIsExact
<1> DEFINE r == [accounts[a] EXCEPT !.available = accounts[a].available + delta,
                                    !.ledger = accounts[a].ledger + delta]
<1>4. pend' = [pend EXCEPT ![p].rows[a] = r]
  BY <1>1, <1>3 DEF UpdateBalanceColumns
<1>5. r = Books!Adjusted(a, delta)
  BY DEF Books!Adjusted
<1> HIDE DEF r
<1>6. pend[p] \in Pending
  BY DEF DbTypeOK
<1>7. /\ pend'[p].rows = [pend[p].rows EXCEPT ![a] = r]
      /\ pend'[p].transfers = pend[p].transfers /\ pend'[p].entries = pend[p].entries
      /\ pend'[p].audit = pend[p].audit
  BY <1>4, <1>6 DEF DbTypeOK, Pending
<1>8. lock' = lock
  BY <1>1 DEF UpdateBalanceColumns, Lock, DbTypeOK
<1> QED
  BY <1>5, <1>7, <1>8 DEF UpdateBalanceColumns, tables

LEMMA WholeNegation ==
    ASSUME NEW x \in Int, IsWhole(x)
    PROVE  -x \in Int /\ IsWhole(-x)
BY DEF IsWhole, Quantum

LEMMA DebitWriteSound ==
    ASSUME PlainBodies, TypeInv, NEW p \in TransferRequests, HeldSound(p), PostingSound(p),
           DebitWrite(p),
           tPc'[p] = "creditRead"
    PROVE  PostingSound(p)'
<1> DEFINE amount == tReq[p].amount
<1>1. /\ DbTypeOK /\ TransferTypeOK /\ p \in Sessions
      /\ tPc[p] = "debitWrite" /\ tPc[p] \in Posting /\ tPc[p] # "idle"
  BY TransferAssumption DEF TypeInv, TypeOK, DebitWrite, Posting
<1>2. /\ Source(p) \in Accounts /\ Dest(p) \in Accounts /\ Source(p) # Dest(p)
      /\ lock[Source(p)] = p /\ lock[Dest(p)] = p /\ accounts[Source(p)] \in Row
  BY <1>1, PostingKnows, PostingApart
<1>3. tRead[p] = accounts[Source(p)]
  BY <1>1 DEF HeldSound
<1>4. -amount \in Int /\ IsWhole(-amount)
  BY <1>1, PlainAmount, WholeNegation
<1>5. /\ UpdateBalanceColumns(p, Source(p), ToNumeric(accounts[Source(p)].available + (-amount)),
                                           ToNumeric(accounts[Source(p)].ledger + (-amount)))
      /\ UNCHANGED <<tReq, tSeen>>
  BY <1>1, <1>3 DEF DebitWrite, WriteBalances, StatementError, Throw, Goto, TransferTypeOK, Source
<1>6. pend[p].rows[Source(p)] = NoRow
  BY <1>1, <1>2 DEF PostingSound, HasWritten, WrittenRow, Debited, Credited
<1>7. /\ UNCHANGED <<tables, lock>>
      /\ pend'[p].rows = [pend[p].rows EXCEPT ![Source(p)] = Books!Adjusted(Source(p), -amount)]
      /\ pend'[p].transfers = pend[p].transfers /\ pend'[p].entries = pend[p].entries
      /\ pend'[p].audit = pend[p].audit
  BY <1>1, <1>2, <1>4, <1>5, <1>6, WriteIsAdjusted
<1>8. /\ Source(p)' = Source(p) /\ Dest(p)' = Dest(p) /\ NewTransfer(p)' = NewTransfer(p)
      /\ Books!Adjusted(Source(p), -amount)' = Books!Adjusted(Source(p), -amount)
      /\ amount' = amount
  BY <1>5, <1>7, SameNames DEF tables, Books!Adjusted
<1>9. pend[p].rows \in [Accounts -> Row \cup {NoRow}]
  BY <1>1 DEF DbTypeOK, Pending
<1>10. \A a \in Accounts : pend'[p].rows[a] = WrittenRow(p, a)'
  BY <1>1, <1>2, <1>7, <1>8, <1>9 DEF PostingSound, HasWritten, WrittenRow, Debited, Credited
<1>11. HasWritten(p)'
  BY <1>1, <1>7, <1>8, <1>10 DEF PostingSound, HasWritten, WrittenEntries, Inserted, Posting,
                                 Entered
<1> QED
  BY <1>1, <1>11 DEF PostingSound

LEMMA CreditWriteSound ==
    ASSUME PlainBodies, TypeInv, NEW p \in TransferRequests, HeldSound(p), PostingSound(p),
           CreditWrite(p),
           tPc'[p] = "entries"
    PROVE  PostingSound(p)'
<1> DEFINE amount == tReq[p].amount
<1>1. /\ DbTypeOK /\ TransferTypeOK /\ p \in Sessions
      /\ tPc[p] = "creditWrite" /\ tPc[p] \in Posting /\ tPc[p] # "idle"
  BY TransferAssumption DEF TypeInv, TypeOK, CreditWrite, Posting
<1>2. /\ Source(p) \in Accounts /\ Dest(p) \in Accounts /\ Source(p) # Dest(p)
      /\ lock[Source(p)] = p /\ lock[Dest(p)] = p /\ accounts[Dest(p)] \in Row
  BY <1>1, PostingKnows, PostingApart
<1>3. tRead[p] = accounts[Dest(p)]
  BY <1>1 DEF PostingSound
<1>4. amount \in Int /\ IsWhole(amount)
  BY <1>1, PlainAmount
<1>5. /\ UpdateBalanceColumns(p, Dest(p), ToNumeric(accounts[Dest(p)].available + amount),
                                         ToNumeric(accounts[Dest(p)].ledger + amount))
      /\ UNCHANGED <<tReq, tSeen>>
  BY <1>1, <1>3 DEF CreditWrite, WriteBalances, StatementError, Throw, Goto, TransferTypeOK, Dest
<1>6. pend[p].rows[Dest(p)] = NoRow
  BY <1>1, <1>2 DEF PostingSound, HasWritten, WrittenRow, Debited, Credited
<1>7. /\ UNCHANGED <<tables, lock>>
      /\ pend'[p].rows = [pend[p].rows EXCEPT ![Dest(p)] = Books!Adjusted(Dest(p), amount)]
      /\ pend'[p].transfers = pend[p].transfers /\ pend'[p].entries = pend[p].entries
      /\ pend'[p].audit = pend[p].audit
  BY <1>1, <1>2, <1>4, <1>5, <1>6, WriteIsAdjusted
<1>8. /\ Source(p)' = Source(p) /\ Dest(p)' = Dest(p) /\ NewTransfer(p)' = NewTransfer(p)
      /\ Books!Adjusted(Dest(p), amount)' = Books!Adjusted(Dest(p), amount)
      /\ Books!Adjusted(Source(p), -amount)' = Books!Adjusted(Source(p), -amount)
      /\ amount' = amount
  BY <1>5, <1>7, SameNames DEF tables, Books!Adjusted
<1>9. pend[p].rows \in [Accounts -> Row \cup {NoRow}]
  BY <1>1 DEF DbTypeOK, Pending
<1>10. \A a \in Accounts : pend'[p].rows[a] = WrittenRow(p, a)'
  BY <1>1, <1>2, <1>7, <1>8, <1>9 DEF PostingSound, HasWritten, WrittenRow, Debited, Credited
<1>11. HasWritten(p)'
  BY <1>1, <1>7, <1>8, <1>10 DEF PostingSound, HasWritten, WrittenEntries, Inserted, Posting,
                                 Entered
<1> QED
  BY <1>1, <1>11 DEF PostingSound

LEMMA EntriesSound ==
    ASSUME PlainBodies, TypeInv, NEW p \in TransferRequests, HeldSound(p), PostingSound(p),
           InsertEntries(p),
           tPc'[p] = "audit"
    PROVE  PostingSound(p)'
<1> DEFINE both == [a \in Accounts |-> (IF a = Source(p) THEN <<Debit(p)>> ELSE <<>>)
                                       \o (IF a = Dest(p) THEN <<Credit(p)>> ELSE <<>>)]
<1>1. /\ DbTypeOK /\ TransferTypeOK /\ p \in Sessions
      /\ tPc[p] = "entries" /\ tPc[p] \in Posting
  BY TransferAssumption DEF TypeInv, TypeOK, InsertEntries, Posting
<1>2. pend' = [pend EXCEPT ![p].entries = both] /\ UNCHANGED <<tables, lock, tReq, tSeen>>
  BY <1>1 DEF InsertEntries, StatementError, Throw, Goto, TransferTypeOK, Source, Dest
<1> HIDE DEF both
<1>3. /\ pend'[p].rows = pend[p].rows /\ pend'[p].entries = both
      /\ pend'[p].transfers = pend[p].transfers /\ pend'[p].audit = pend[p].audit
  BY <1>1, <1>2 DEF DbTypeOK, Pending
<1>4. /\ Source(p)' = Source(p) /\ Dest(p)' = Dest(p) /\ NewTransfer(p)' = NewTransfer(p)
      /\ Debit(p)' = Debit(p) /\ Credit(p)' = Credit(p)
      /\ \A a \in Accounts : \A d : Books!Adjusted(a, d)' = Books!Adjusted(a, d)
  BY <1>2, SameNames DEF tables, Books!Adjusted
<1>5. \A a \in Accounts : both[a] = WrittenEntries(p, a)'
  BY <1>4 DEF both, WrittenEntries, Entered
<1>6. \A a \in Accounts : WrittenRow(p, a)' = WrittenRow(p, a)
  BY <1>1, <1>2, <1>4 DEF WrittenRow, Debited, Credited
<1>7. HasWritten(p)'
  BY <1>1, <1>3, <1>4, <1>5, <1>6 DEF PostingSound, HasWritten, Inserted, Posting
<1> QED
  BY <1>7 DEF PostingSound

LEMMA AuditSound ==
    ASSUME PlainBodies, TypeInv, NEW p \in TransferRequests, HeldSound(p), PostingSound(p),
           InsertAudit(p)
    PROVE  PostingSound(p)'
<1>1. /\ DbTypeOK /\ TransferTypeOK /\ p \in Sessions
      /\ tPc[p] = "audit" /\ tPc[p] \in Posting /\ tPc'[p] = "commit"
  BY TransferAssumption DEF TypeInv, TypeOK, InsertAudit, Posting, Goto, TransferTypeOK
<1>2. /\ pend' = [pend EXCEPT ![p].audit = @ \cup {AuditOf(p)}]
      /\ UNCHANGED <<tables, lock, tReq, tSeen>>
  BY DEF InsertAudit
<1>3. /\ pend'[p].rows = pend[p].rows /\ pend'[p].entries = pend[p].entries
      /\ pend'[p].transfers = pend[p].transfers
      /\ pend'[p].audit = pend[p].audit \cup {AuditOf(p)}
  BY <1>1, <1>2 DEF DbTypeOK, Pending
<1>4. /\ Source(p)' = Source(p) /\ Dest(p)' = Dest(p) /\ NewTransfer(p)' = NewTransfer(p)
      /\ Debit(p)' = Debit(p) /\ Credit(p)' = Credit(p) /\ AuditOf(p)' = AuditOf(p)
      /\ \A a \in Accounts : \A d : Books!Adjusted(a, d)' = Books!Adjusted(a, d)
  BY <1>2, SameNames DEF tables, Books!Adjusted
<1>5. \A a \in Accounts : WrittenRow(p, a)' = WrittenRow(p, a)
                         /\ WrittenEntries(p, a)' = WrittenEntries(p, a)
  BY <1>1, <1>2, <1>4 DEF WrittenRow, WrittenEntries, Debited, Credited, Entered
<1>6. HasWritten(p)'
  BY <1>1, <1>3, <1>4, <1>5 DEF PostingSound, HasWritten, Inserted, Posting
<1> QED
  BY <1>1, <1>6 DEF PostingSound

LEMMA PostingSoundStep ==
    ASSUME PlainBodies, TypeInv, NEW p \in TransferRequests, HeldSound(p), PostingSound(p),
           TransferStep(p)
    PROVE  PostingSound(p)'
<1>1. CASE tPc'[p] \notin Inserted
  BY <1>1, EmptySound
<1>2. CASE tPc'[p] \in Inserted
  <2>1. \/ InsertTransfer(p) /\ tPc'[p] = "debitRead"
        \/ DebitRead(p) \/ CreditRead(p)
        \/ DebitWrite(p) /\ tPc'[p] = "creditRead"
        \/ CreditWrite(p) /\ tPc'[p] = "entries"
        \/ InsertEntries(p) /\ tPc'[p] = "audit"
        \/ InsertAudit(p)
    BY <1>2, PostingPath DEF Inserted, Posting, LockFirst, Goto, TypeInv, TypeOK, TransferTypeOK
  <2> QED
    BY <2>1, InsertSound, ReadSound, DebitWriteSound, CreditWriteSound, EntriesSound, AuditSound
<1> QED
  BY <1>1, <1>2
-----------------------------------------------------------------------------
(***************************************************************************)
(* COMMIT is the bank's move.                                              *)
(***************************************************************************)

\* The numbers of the posting are exact.
LEMMA PostedNumbers ==
    ASSUME PlainBodies, TypeInv, NEW p \in TransferRequests, HeldSound(p), PostingSound(p),
           tPc[p] \in Posting
    PROVE  LET paid == accounts[Source(p)].available - tReq[p].amount
               received == accounts[Dest(p)].available + tReq[p].amount
           IN  /\ Debit(p) = [transfer |-> p, type |-> "DEBIT", amount |-> tReq[p].amount,
                              balance_after |-> paid]
               /\ Credit(p) = [transfer |-> p, type |-> "CREDIT", amount |-> tReq[p].amount,
                               balance_after |-> received]
               /\ AuditOf(p) = [transfer |-> p,
                                source_before |-> accounts[Source(p)].available,
                                source_after |-> paid,
                                dest_before |-> accounts[Dest(p)].available,
                                dest_after |-> received]
               /\ NewTransfer(p) = [id |-> p, reference |-> tReq[p].reference, source |-> Source(p),
                                    destination |-> Dest(p), amount |-> tReq[p].amount,
                                    currency |-> tReq[p].currency]
<1> DEFINE amount == tReq[p].amount
           before == accounts[Source(p)].available
           there == accounts[Dest(p)].available
<1>1. amount \in Nat \ {0} /\ IsWhole(amount) /\ ToNumeric(amount) = amount
  BY PlainAmount DEF Posting
<1>2. /\ SourceAvailable(p) = before /\ DestAvailable(p) = there
      /\ before \in Column /\ there \in Column
  BY PostingKnows DEF Row
<1>3. /\ before \in Int /\ there \in Int
      /\ IsWhole(before - amount) /\ IsWhole(there + amount)
  BY <1>1, <1>2 DEF Column, IsWhole, Quantum
<1>4. ToNumeric(before - amount) = before - amount /\ ToNumeric(there + amount) = there + amount
  BY <1>1, <1>3, WholeIsExact
<1> QED
  BY <1>1, <1>2, <1>4 DEF Debit, Credit, AuditOf, NewTransfer, SourceBalanceAfter, DestBalanceAfter,
                          Source, Dest

\* No committed transfer has the id or the reference of one that is pending.
LEMMA PendingIsNew ==
    ASSUME ReferenceInv, NEW p \in TransferRequests, HeldSound(p), PostingSound(p),
           tPc[p] = "commit"
    PROVE  \A t \in transfers : t.id # p /\ t.reference # tReq[p].reference
<1>1. pend[p].transfers # {}
  BY DEF PostingSound, HasWritten, Inserted, Posting
<1> QED
  BY <1>1 DEF ReferenceInv, PendingSound, CreatorOver, ReferenceTaken

LEMMA ConcatOne ==
    ASSUME NEW s \in Seq(Entry), NEW e \in Entry
    PROVE  /\ s \o (<<e>> \o <<>>) = Append(s, e)
           /\ s \o (<<>> \o <<e>>) = Append(s, e)
           /\ s \o (<<>> \o <<>>) = s
<1>1. <<e>> \o <<>> = <<e>> /\ <<>> \o <<e>> = <<e>> /\ <<>> \o <<>> = <<>>
  BY ConcatEmptySeq
<1>2. s \o <<>> = s /\ s \o <<e>> = Append(s, e)
  BY ConcatEmptySeq, AppendIsConcat
<1> QED
  BY <1>1, <1>2

LEMMA CommitIsMove ==
    ASSUME PlainBodies, TypeInv, ReferenceInv, NEW p \in TransferRequests, HeldSound(p),
           PostingSound(p),
           tPc[p] = "commit", Commit(p)
    PROVE  OrderOf(tReq[p]) \in {OrderOf(b) : b \in Bodies} /\ Books!Move(p, OrderOf(tReq[p]))
<1> DEFINE s == Source(p)
           d == Dest(p)
           amount == tReq[p].amount
           o == OrderOf(tReq[p])
<1>1. DbTypeOK /\ p \in Sessions /\ tPc[p] \in Posting /\ tPc[p] # "idle"
  BY TransferAssumption DEF TypeInv, TypeOK, Posting
<1>2. /\ s \in Accounts /\ d \in Accounts /\ s # d
      /\ accounts[s] \in Row /\ accounts[d] \in Row
      /\ \A a \in {s, d} : accounts[a].status = "ACTIVE" /\ accounts[a].currency = tReq[p].currency
      /\ accounts[s].available >= amount
  BY <1>1, PostingKnows, PostingApart
<1>3. tReq[p] \in Bodies /\ amount \in Nat
  BY <1>1, PlainAmount
<1>4. /\ o.source = s /\ o.destination = d /\ o.amount = amount
      /\ o.currency = tReq[p].currency /\ o.reference = tReq[p].reference
  BY DEF OrderOf, Source, Dest
<1>5. /\ pend[p].rows[s] = Books!Adjusted(s, -amount) /\ pend[p].rows[d] = Books!Adjusted(d, amount)
      /\ \A a \in Accounts \ {s, d} : pend[p].rows[a] = NoRow
      /\ pend[p].transfers = {NewTransfer(p)} /\ pend[p].audit = {AuditOf(p)}
  BY <1>1, <1>2 DEF PostingSound, HasWritten, WrittenRow, Debited, Credited, Inserted, Posting
<1>6. \A a \in Accounts : pend[p].entries[a] = (IF a = s THEN <<Debit(p)>> ELSE <<>>)
                                               \o (IF a = d THEN <<Credit(p)>> ELSE <<>>)
  BY <1>1 DEF PostingSound, HasWritten, WrittenEntries, Entered
<1>7. \A t \in transfers : t.id # p /\ t.reference # tReq[p].reference
  BY PendingIsNew
<1>8. Books!Adjusted(s, -amount) # NoRow /\ Books!Adjusted(d, amount) # NoRow
  BY <1>2 DEF Books!Adjusted, Row, NoRow
<1>9. Books!Holds(s, -amount) /\ Books!Holds(d, amount)
  <2>1. pend[p].rows[s] \in Row \cup {NoRow} /\ pend[p].rows[d] \in Row \cup {NoRow}
    BY <1>1, <1>2 DEF DbTypeOK, Pending
  <2>2. Books!Adjusted(s, -amount) \in Row /\ Books!Adjusted(d, amount) \in Row
    BY <1>5, <1>8, <2>1
  <2>3. /\ Books!Adjusted(s, -amount).available = accounts[s].available + (-amount)
        /\ Books!Adjusted(s, -amount).ledger = accounts[s].ledger + (-amount)
        /\ Books!Adjusted(d, amount).available = accounts[d].available + amount
        /\ Books!Adjusted(d, amount).ledger = accounts[d].ledger + amount
    BY <1>2 DEF Books!Adjusted, Row
  <2>4. \A r \in Row : r.available \in (-MaxNumeric)..MaxNumeric
                      /\ r.ledger \in (-MaxNumeric)..MaxNumeric
    BY DEF Row, Column
  <2> QED
    BY <2>2, <2>3, <2>4 DEF Books!Holds
<1>10. accounts' = [accounts EXCEPT ![s] = Books!Adjusted(s, -amount),
                                   ![d] = Books!Adjusted(d, amount)]
  <2>1. /\ accounts' = [a \in Accounts |-> Visible(p, a)]
        /\ accounts \in [Accounts -> Row \cup {NoRow}]
    BY <1>1 DEF Commit, DbTypeOK, TablesTypeOK
  <2>2. /\ Visible(p, s) = Books!Adjusted(s, -amount) /\ Visible(p, d) = Books!Adjusted(d, amount)
        /\ \A a \in Accounts \ {s, d} : Visible(p, a) = accounts[a]
    BY <1>2, <1>5, <1>8 DEF Visible
  <2> QED
    BY <1>2, <2>1, <2>2
<1>11. ledger' = [ledger EXCEPT ![s] = Append(@, Debit(p)), ![d] = Append(@, Credit(p))]
  <2>1. ledger \in [Accounts -> Seq(Entry)] /\ pend[p].entries \in [Accounts -> Seq(Entry)]
    BY <1>1 DEF DbTypeOK, TablesTypeOK, Pending
  <2>2. Debit(p) \in Entry /\ Credit(p) \in Entry
    <3>1. /\ accounts[s].available - amount \in Column /\ accounts[d].available + amount \in Column
          /\ amount \in Column
      <4>1. ToNumeric(amount) = amount /\ ToNumeric(amount) \in Column
        BY <1>1, PlainAmount, PostingTyped
      <4>2. pend[p].rows[s] \in Row /\ pend[p].rows[d] \in Row
        BY <1>1, <1>2, <1>5, <1>8 DEF DbTypeOK, Pending
      <4>3. /\ Books!Adjusted(s, -amount).available = accounts[s].available - amount
            /\ Books!Adjusted(d, amount).available = accounts[d].available + amount
        BY <1>2, <1>3 DEF Books!Adjusted, Row, Column
      <4> QED
        BY <1>5, <4>1, <4>2, <4>3 DEF Row
    <3> QED
      BY <1>1, <3>1, PostedNumbers DEF Entry
  <2>3. ledger' = [a \in Accounts |-> ledger[a] \o pend[p].entries[a]]
    BY DEF Commit
  <2>4. /\ ledger'[s] = Append(ledger[s], Debit(p)) /\ ledger'[d] = Append(ledger[d], Credit(p))
        /\ \A a \in Accounts \ {s, d} : ledger'[a] = ledger[a]
    BY <1>2, <1>6, <2>1, <2>2, <2>3, ConcatOne
  <2> QED
    BY <1>2, <2>1, <2>3, <2>4
<1>12. transfers' = transfers \cup {NewTransfer(p)} /\ audit' = audit \cup {AuditOf(p)}
  BY <1>5 DEF Commit
<1> HIDE DEF s, d, amount, o
<1>13. Books!RulesAllow(o)
  BY <1>2, <1>4 DEF Books!RulesAllow
<1>14. Books!Move(p, o)
  <2>1. /\ Debit(p) = [transfer |-> p, type |-> "DEBIT", amount |-> amount,
                       balance_after |-> accounts[s].available - amount]
        /\ Credit(p) = [transfer |-> p, type |-> "CREDIT", amount |-> amount,
                        balance_after |-> accounts[d].available + amount]
        /\ AuditOf(p) = [transfer |-> p,
                         source_before |-> accounts[s].available,
                         source_after |-> accounts[s].available - amount,
                         dest_before |-> accounts[d].available,
                         dest_after |-> accounts[d].available + amount]
        /\ NewTransfer(p) = [id |-> p, reference |-> o.reference, source |-> s,
                             destination |-> d, amount |-> amount, currency |-> o.currency]
    BY <1>1, <1>4, PostedNumbers DEF s, d, amount
  <2> QED
    BY <1>4, <1>7, <1>9, <1>10, <1>11, <1>12, <1>13, <2>1 DEF Books!Move
<1> QED
  BY <1>3, <1>14 DEF o
-----------------------------------------------------------------------------
(***************************************************************************)
(* Transfers alone: the service is the bank.                               *)
(***************************************************************************)

PostingInv == \A p \in TransferRequests : PostingSound(p)

LEMMA PostingInvStep ==
    ASSUME PlainBodies, TypeInv, HeldInv, PostingInv, NEW p \in TransferRequests, TransferStep(p)
    PROVE  PostingInv'
<1> SUFFICES ASSUME NEW q \in TransferRequests PROVE PostingSound(q)'
  BY DEF PostingInv
<1>1. CASE q = p
  BY <1>1, PostingSoundStep DEF PostingInv, HeldInv
<1>2. CASE q # p
  <2>1. SameRequest(q)
    BY <1>2, OthersUntouched DEF TypeInv, TypeOK, SameRequest
  <2> QED
    BY <1>2, <2>1, OthersUndisturbed, PostingSoundStays, TransferAssumption DEF PostingInv, HeldInv
<1> QED
  BY <1>1, <1>2

LEMMA PostingInvInit == DbInit /\ TransferInit => PostingInv
<1> SUFFICES ASSUME DbInit, TransferInit, NEW p \in TransferRequests PROVE PostingSound(p)
  BY DEF PostingInv
<1>1. tPc[p] = "idle" /\ pend[p] = NothingPending
  BY TransferAssumption DEF DbInit, TransferInit
<1>2. WroteNothing(p)
  BY <1>1 DEF NothingPending, WroteNothing
<1> QED
  BY <1>1, <1>2, NothingWritten DEF PostingSound, Posting, Inserted

LEMMA PostingInvHolds == PlainBodies /\ Spec => []PostingInv
<1>1. Init => PostingInv
  BY PostingInvInit DEF Init
<1>2. PlainBodies /\ TypeInv /\ HeldInv /\ PostingInv /\ [Next]_vars => PostingInv'
  <2>1. PlainBodies /\ TypeInv /\ HeldInv /\ PostingInv /\ UNCHANGED vars => PostingInv'
    BY PostingSoundStays DEF PostingInv, HeldInv, SameRequest, Undisturbed, Isolated, vars,
                             dbVars, tables,
                             transferVars
  <2> QED
    BY <2>1, PostingInvStep DEF Next
<1>3. PlainBodies => PlainBodies'
  BY DEF PlainBodies, ApartSpellings, WholeAmounts
<1> QED
  BY <1>1, <1>2, <1>3, TypeInvInit, TypeInvStep, HeldInvHolds, PTL DEF Spec

\* A step of a request leaves the tables alone or is a move of the bank.
LEMMA StepIsMove ==
    ASSUME PlainBodies, TypeInv, HeldInv, ReferenceInv, PostingInv, NEW p \in TransferRequests,
           TransferStep(p)
    PROVE  \/ UNCHANGED tables
           \/ \E id \in Sessions : \E o \in {OrderOf(b) : b \in Bodies} : Books!Move(id, o)
BY TablesMoveAtCommit, CommitIsMove, TransferAssumption DEF PostingInv, HeldInv

\* The constants of the bank are what it assumes of them.
LEMMA BooksAssumptions ==
    PlainBodies => Books!BankAssumption /\ Books!TablesAssumption /\ Books!MaxNumericAssumption
<1> SUFFICES ASSUME PlainBodies
             PROVE  Books!BankAssumption /\ Books!TablesAssumption /\ Books!MaxNumericAssumption
  OBVIOUS
<1>1. ASSUME NEW b \in Bodies PROVE OrderOf(b) \in Books!Order
  <2>1. b \in Body /\ IsWhole(b.amount)
    BY TransferAssumption DEF PlainBodies, WholeAmounts
  <2> QED
    BY <2>1, HandlersAssumption DEF OrderOf, Books!Order, Books!Amount, Body, IsWhole,
                                    Books!IsWhole,
                                    Quantum, Books!Quantum
<1>2. Books!BankAssumption
  BY <1>1 DEF Books!BankAssumption
<1>3. Books!TablesAssumption /\ Books!MaxNumericAssumption
  BY TablesAssumption, MaxNumericAssumption
     DEF IsFiniteSet, Books!IsFiniteSet, Books!TablesAssumption,
         Books!MaxNumericAssumption, Row, NoRow, Column, Statuses,
         IsWhole, Quantum,
         Books!Row, Books!NoRow, Books!Column, Books!Statuses, Books!IsWhole, Books!Quantum
<1> QED
  BY <1>2, <1>3

LEMMA BooksInit == TablesInit => Books!TablesInit
BY DEF TablesInit, Books!TablesInit, OpeningEntry, Books!OpeningEntry, NoRow, Books!NoRow

\* What the bank promises of the tables is what the service promises of them.
LEMMA BooksPromises ==
    Books!BankInv => /\ BalanceMatchesLedger /\ LedgerChain /\ DoubleEntry
                     /\ AuditAgreesWithLedger /\ NoOverdraft
BY DEF Books!BankInv, BalanceMatchesLedger, LastBalance, LedgerChain, BalanceBefore, DoubleEntry,
       HasEntry, AuditAgreesWithLedger, NoOverdraft, Books!BalanceMatchesLedger, Books!LastBalance,
       Books!LedgerChain, Books!BalanceBefore, Books!DoubleEntry, Books!HasEntry,
       Books!AuditAgreesWithLedger, Books!NoOverdraft

\* Whatever order concurrent transfers take, and whatever fails on the way, the
\* tables change as if each transfer happened in one step
\* (TransferService.ts:54-151).
THEOREM TransfersAreAtomic == PlainBodies /\ Spec => Books!BankSpec
<1>1. Init => Books!TablesInit
  BY BooksInit DEF Init, DbInit
<1>2. PlainBodies /\ TypeInv /\ HeldInv /\ ReferenceInv /\ PostingInv /\ [Next]_vars
         => [Books!BankNext]_(Books!tables)
  <2> SUFFICES ASSUME PlainBodies, TypeInv, HeldInv, ReferenceInv, PostingInv, [Next]_vars
               PROVE  [Books!BankNext]_(Books!tables)
    OBVIOUS
  <2>1. ASSUME NEW p \in TransferRequests, TransferStep(p)
        PROVE  [Books!BankNext]_(Books!tables)
    BY <2>1, StepIsMove DEF Books!BankNext, Books!tables, tables
  <2>2. CASE UNCHANGED vars
    BY <2>2 DEF vars, dbVars, tables, Books!tables
  <2> QED
    BY <2>1, <2>2 DEF Next
<1>3. PlainBodies => PlainBodies'
  BY DEF PlainBodies, ApartSpellings, WholeAmounts
<1> QED
  BY <1>1, <1>2, <1>3, TypeInvInit, TypeInvStep, HeldInvHolds, ReferenceInvHolds, PostingInvHolds,
     PTL
     DEF Spec, Books!BankSpec

\* Every promise of the tables holds in every state of the service.
THEOREM TransfersKeepTheBooks ==
    PlainBodies /\ Spec => [](/\ BalanceMatchesLedger /\ LedgerChain /\ DoubleEntry
                             /\ AuditAgreesWithLedger /\ NoOverdraft)
<1>1. PlainBodies => (Books!BankSpec => []Books!BankInv)
  BY BooksAssumptions, Books!BankCorrect
<1> QED
  BY <1>1, TransfersAreAtomic, BooksPromises, PTL
-----------------------------------------------------------------------------

\* The bank adds up the same balances.
LEMMA BooksDeposits == \A rows : Books!Deposits(rows) = Deposits(rows)
BY DEF Books!Deposits, Books!SumFunction, Books!SumFunctionOnSet, Books!FoldFunctionOnSet,
       Books!MapThenFoldSet, Deposits, SumFunction, SumFunctionOnSet, FoldFunctionOnSet,
       MapThenFoldSet

\* Transfers move money and neither make nor destroy any, in whatever order
\* they run and wherever they fail (TransferService.ts:101-151).
THEOREM TransfersConserveMoney == PlainBodies /\ Spec => []Conservation
<1>1. Init => Conservation
  BY DEF Init, DbInit, TablesInit, Conservation
<1>2. PlainBodies => (Books!BankSpec => []Books!BankInv)
  BY BooksAssumptions, Books!BankCorrect
<1>3. PlainBodies /\ TypeInv /\ HeldInv /\ ReferenceInv /\ PostingInv /\ Books!BankInv
         /\ Conservation /\ [Next]_vars => Conservation'
  <2> SUFFICES ASSUME PlainBodies, TypeInv, HeldInv, ReferenceInv, PostingInv, Books!BankInv,
                      Conservation, [Next]_vars
               PROVE  Conservation'
    OBVIOUS
  <2>1. Deposits(accounts') = Deposits(accounts)
    <3>1. ASSUME NEW p \in TransferRequests, TransferStep(p)
          PROVE  Deposits(accounts') = Deposits(accounts)
      <4>1. CASE UNCHANGED tables
        BY <4>1 DEF tables
      <4>2. ASSUME NEW id \in Sessions, NEW b \in Bodies, Books!Move(id, OrderOf(b))
            PROVE  Deposits(accounts') = Deposits(accounts)
        <5>1. OrderOf(b) \in Books!Order
          BY BooksAssumptions DEF Books!BankAssumption
        <5>2. Books!Deposits(accounts') = Books!Deposits(accounts)
          BY <4>2, <5>1, BooksAssumptions, Books!MoveKeepsMoney
        <5> QED
          BY <5>2, BooksDeposits
      <4> QED
        BY <3>1, <4>1, <4>2, StepIsMove
    <3>2. CASE UNCHANGED vars
      BY <3>2 DEF vars, dbVars, tables
    <3> QED
      BY <3>1, <3>2 DEF Next
  <2> QED
    BY <2>1 DEF Conservation
<1>4. PlainBodies => PlainBodies'
  BY DEF PlainBodies, ApartSpellings, WholeAmounts
<1> QED
  BY <1>1, <1>2, <1>3, <1>4, TransfersAreAtomic, TypeInvInit, TypeInvStep, HeldInvHolds,
     ReferenceInvHolds, PostingInvHolds, PTL
     DEF Spec
=============================================================================
