---------------------------- MODULE AnswerProofs ----------------------------
(***************************************************************************)
(* What the client of a transfer is told, and why transfers do not wait in *)
(* a circle.                                                               *)
(*                                                                         *)
(* An answer is about a row some request committed earlier.  The invariant *)
(* keeps what ties the two together: a committed transfer is the one the   *)
(* body of its creator asked for, and past its INSERT a request has that   *)
(* transfer among its uncommitted writes until it commits.                 *)
(***************************************************************************)
EXTENDS PostingProofs
-----------------------------------------------------------------------------
AnswerInv ==
    /\ \A p \in TransferRequests :
          /\ tPc[p] = "idle" => tOutcome[p].kind = "NONE"
          /\ tPc[p] \in Inserted => pend[p].transfers # {}
    /\ \A t \in transfers : t = NewTransfer(t.id)
    /\ SuccessIsDurable

\* The transfer t is what the body of p asks for.
AsAsked(p, t) ==
    /\ t.reference = tReq[p].reference
    /\ t.source = Uuid[tReq[p].source]
    /\ t.destination = Uuid[tReq[p].destination]
    /\ t.amount = ToNumeric(tReq[p].amount)
    /\ t.currency = tReq[p].currency

LEMMA NewIsAsAsked == \A p : AsAsked(p, NewTransfer(p)) /\ NewTransfer(p).id = p
BY DEF AsAsked, NewTransfer

\* The four ways the answer of a request can move on.
LEMMA OutcomeStep ==
    ASSUME TransferTypeOK, NEW p \in TransferRequests, TransferStep(p),
           tPc[p] = "idle" => tOutcome[p].kind = "NONE"
    PROVE  \/ tOutcome'[p] = tOutcome[p] /\ tReq'[p] = tReq[p]
           \/ tOutcome'[p].kind \notin {"COMPLETED", "IDEMPOTENCY_CONFLICT"}
           \/ /\ ReferenceTaken(tReq[p].reference)
              /\ AnswerFrom(p, ByReference(tReq[p].reference))
              /\ UNCHANGED <<transfers, tReq>>
           \/ CommitTransfer(p)
<1> USE DEF TransferTypeOK, Goto, Finish, Throw, StatementError
<1>1. CASE Receive(p)
  BY <1>1 DEF Receive
<1>2. CASE Lookup(p) \/ Relookup(p)
  BY <1>2 DEF Lookup, Relookup, dbVars, tables
<1>3. CASE Begin(p) \/ Respond(p) \/ LockFirst(p) \/ DebitRead(p) \/ CreditRead(p)
  BY <1>3 DEF Begin, Respond, LockFirst, DebitRead, CreditRead, ReadBalances
<1>4. CASE LockSecond(p)
  <2> DEFINE second == Visible(p, Uuid[SecondId(p)])
             broken == Rejection(tReq[p], SourceAccount(tReq[p], tSeen[p].first, second),
                                          DestAccount(tReq[p], tSeen[p].first, second))
  <2>1. broken \notin {"COMPLETED", "IDEMPOTENCY_CONFLICT"}
    BY DEF Rejection
  <2>2. IF broken = "NONE" THEN Goto(p, "insert") /\ UNCHANGED tOutcome ELSE Throw(p, broken)
    BY <1>4 DEF LockSecond
  <2>3. tReq' = tReq
    BY <1>4 DEF LockSecond
  <2> HIDE DEF broken
  <2> QED
    BY <2>1, <2>2, <2>3
<1>5. CASE InsertTransfer(p) \/ InsertEntries(p) \/ InsertAudit(p)
  BY <1>5 DEF InsertTransfer, InsertEntries, InsertAudit
<1>6. CASE DebitWrite(p) \/ CreditWrite(p)
  BY <1>6 DEF DebitWrite, CreditWrite, WriteBalances
<1>7. CASE Rollback(p)
  BY <1>7 DEF Rollback, NoOutcome
<1>8. CASE DeadlockVictim(p) \/ StatementFails(p) \/ CallFails(p) \/ CommitFails(p)
           \/ RollbackFails(p) \/ Crash(p)
  BY <1>8 DEF DeadlockVictim, StatementFails, CallFails, CommitFails, RollbackFails, Crash,
              NoOutcome
<1> QED
  BY <1>1, <1>2, <1>3, <1>4, <1>5, <1>6, <1>7, <1>8 DEF TransferStep, TransferProgress,
                                                        TransferFault

\* The row found under the reference.
LEMMA FoundRow ==
    ASSUME DbTypeOK, NEW r, ReferenceTaken(r)
    PROVE  ByReference(r) \in transfers /\ ByReference(r).reference = r /\ ByReference(r) \in Transfer
BY DEF ReferenceTaken, ByReference, DbTypeOK, TablesTypeOK

\* A stored id is its own spelling and a stored amount its own rounding, so a
\* row that matches a body is the row the body asks for.
LEMMA MatchIsAsAsked ==
    ASSUME TypeInv, NEW p \in TransferRequests, NEW t \in Transfer,
           t.reference = tReq[p].reference, RequestMatchesExisting(tReq[p], t)
    PROVE  AsAsked(p, t)
<1>1. /\ t.source \in Accounts /\ t.destination \in Accounts /\ t.amount \in Column
      /\ t.source = tReq[p].source /\ t.destination = tReq[p].destination
      /\ t.amount = tReq[p].amount /\ t.currency = tReq[p].currency
  BY DEF Transfer, RequestMatchesExisting
<1>2. ToNumeric(t.amount) = t.amount
  BY <1>1, WholeIsExact DEF Column
<1> QED
  BY <1>1, <1>2, HandlersAssumption DEF AsAsked

\* After a step, a request that had its answer still has it.
LEMMA DurableStep ==
    ASSUME TypeInv, NothingHeldOutsideTransaction, ReferenceInv, AnswerInv,
           NEW p \in TransferRequests, TransferStep(p)
    PROVE  SuccessIsDurable'
<1>1. DbTypeOK /\ TransferTypeOK
  BY DEF TypeInv, TypeOK
<1>2. transfers \subseteq transfers'
  BY <1>1, TablesMoveAtCommit, CommitAppends, TransferAssumption DEF tables
<1> DEFINE Durable(q) == tOutcome[q].kind = "COMPLETED" =>
                            \E t \in transfers : t.id = tOutcome[q].transfer /\ AsAsked(q, t)
<1>3. /\ SuccessIsDurable <=> \A q \in TransferRequests : Durable(q)
      /\ SuccessIsDurable' <=> \A q \in TransferRequests : Durable(q)'
  BY DEF SuccessIsDurable, AsAsked
<1>4. ASSUME NEW q \in TransferRequests, tOutcome'[q] = tOutcome[q], tReq'[q] = tReq[q]
      PROVE  Durable(q)'
  BY <1>2, <1>3, <1>4 DEF AnswerInv, AsAsked
<1>5. CASE /\ ReferenceTaken(tReq[p].reference)
           /\ AnswerFrom(p, ByReference(tReq[p].reference))
           /\ UNCHANGED <<transfers, tReq>>
  <2> DEFINE t == ByReference(tReq[p].reference)
  <2>1. t \in transfers /\ t.reference = tReq[p].reference /\ t \in Transfer
    BY <1>1, <1>5, FoundRow
  <2> HIDE DEF t
  <2>2. AnswerFrom(p, t)
    BY <1>5 DEF t
  <2>3. tOutcome'[p].kind = "COMPLETED" =>
           RequestMatchesExisting(tReq[p], t) /\ tOutcome'[p].transfer = t.id
    BY <1>1, <2>2 DEF AnswerFrom, Finish, TransferTypeOK
  <2>4. tOutcome'[p].kind = "COMPLETED" => AsAsked(p, t)
    BY <2>1, <2>3, MatchIsAsAsked
  <2>5. Durable(p)'
    BY <1>5, <2>1, <2>3, <2>4 DEF AsAsked
  <2> QED
    BY <1>1, <1>3, <1>4, <2>5, OthersUntouched
<1>6. CASE CommitTransfer(p)
  <2>1. NewTransfer(p) \in pend[p].transfers
    BY <1>6 DEF CommitTransfer, AnswerInv, ReferenceInv, PendingSound, Inserted, Posting
  <2>2. NewTransfer(p) \in transfers' /\ tReq' = tReq
    BY <1>6, <2>1 DEF CommitTransfer, Commit
  <2>3. tOutcome'[p].transfer = p
    BY <1>1, <1>6 DEF CommitTransfer, TransferTypeOK
  <2>4. Durable(p)'
    BY <2>2, <2>3, NewIsAsAsked DEF AsAsked
  <2> QED
    BY <1>1, <1>3, <1>4, <2>4, OthersUntouched
<1>7. CASE tOutcome'[p].kind \notin {"COMPLETED", "IDEMPOTENCY_CONFLICT"}
  BY <1>1, <1>3, <1>4, <1>7, OthersUntouched
<1>8. CASE tOutcome'[p] = tOutcome[p] /\ tReq'[p] = tReq[p]
  BY <1>1, <1>3, <1>4, <1>8, OthersUntouched
<1> QED
  BY <1>1, <1>5, <1>6, <1>7, <1>8, OutcomeStep DEF AnswerInv

\* Past its INSERT a request has its transfer pending, until it commits.
LEMMA InsertedStep ==
    ASSUME TypeInv, AnswerInv, NEW p \in TransferRequests, TransferStep(p)
    PROVE  /\ tPc'[p] = "idle" => tOutcome'[p].kind = "NONE"
           /\ tPc'[p] \in Inserted => pend'[p].transfers # {}
<1>1. TransferTypeOK /\ p \in Sessions /\ pend \in [Sessions -> Pending] /\ pend[p] \in Pending
  BY TransferAssumption DEF TypeInv, TypeOK, DbTypeOK
<1>0. /\ (\E e : pend' = [pend EXCEPT ![p].entries = e]) => pend'[p].transfers = pend[p].transfers
      /\ (\E x : pend' = [pend EXCEPT ![p].audit = x]) => pend'[p].transfers = pend[p].transfers
      /\ (\E a, r : pend' = [pend EXCEPT ![p].rows[a] = r]) => pend'[p].transfers = pend[p].transfers
      /\ pend' = [pend EXCEPT ![p].transfers = @ \cup {NewTransfer(p)}] =>
            NewTransfer(p) \in pend'[p].transfers
  BY <1>1 DEF Pending
<1> USE DEF TransferTypeOK, Goto, Finish, Throw, StatementError, AnswerFrom, Inserted, Posting
<1>2. CASE Receive(p) \/ Lookup(p) \/ Relookup(p) \/ Respond(p) \/ CallFails(p) \/ Begin(p)
  BY <1>1, <1>2 DEF Receive, Lookup, Relookup, Respond, CallFails, Begin
<1>3. CASE LockFirst(p) \/ LockSecond(p)
  BY <1>1, <1>3 DEF LockFirst, LockSecond
<1>4. CASE InsertTransfer(p)
  <2>1. tPc'[p] \in Inserted => pend' = [pend EXCEPT ![p].transfers = @ \cup {NewTransfer(p)}]
    BY <1>1, <1>4 DEF InsertTransfer
  <2>2. tPc'[p] # "idle"
    BY <1>1, <1>4 DEF InsertTransfer
  <2> QED
    BY <1>0, <2>1, <2>2
<1>5. CASE InsertEntries(p) \/ InsertAudit(p)
  <2>1. /\ pend[p].transfers # {} /\ tPc'[p] # "idle"
        /\ tPc'[p] \in Inserted => \/ \E e : pend' = [pend EXCEPT ![p].entries = e]
                                   \/ \E x : pend' = [pend EXCEPT ![p].audit = x]
    BY <1>1, <1>5 DEF InsertEntries, InsertAudit, AnswerInv
  <2> QED
    BY <1>0, <2>1
<1>6. CASE DebitRead(p) \/ CreditRead(p)
  BY <1>1, <1>6 DEF DebitRead, CreditRead, ReadBalances, AnswerInv, dbVars
<1>7. CASE DebitWrite(p) \/ CreditWrite(p)
  <2>1. /\ pend[p].transfers # {} /\ tPc'[p] # "idle"
        /\ tPc'[p] \in Inserted => \E a, r : pend' = [pend EXCEPT ![p].rows[a] = r]
    BY <1>1, <1>7 DEF DebitWrite, CreditWrite, WriteBalances, UpdateBalanceColumns, AnswerInv
  <2> QED
    BY <1>0, <2>1
<1>8. CASE CommitTransfer(p) \/ CommitFails(p)
  BY <1>1, <1>8 DEF CommitTransfer, CommitFails
<1>9. CASE Rollback(p)
  BY <1>1, <1>9 DEF Rollback, RetryFrom
<1>10. CASE DeadlockVictim(p) \/ StatementFails(p) \/ RollbackFails(p) \/ Crash(p)
  BY <1>1, <1>10 DEF DeadlockVictim, StatementFails, RollbackFails, Crash
<1> QED
  BY <1>2, <1>3, <1>4, <1>5, <1>6, <1>7, <1>8, <1>9, <1>10
     DEF TransferStep, TransferProgress, TransferFault

\* A request that has committed, or ended, keeps its body.
LEMMA CreatorKeepsBody ==
    ASSUME ReferenceInv, TransferTypeOK, NEW p \in TransferRequests, TransferStep(p),
           NEW t \in transfers
    PROVE  tReq'[t.id] = tReq[t.id]
<1>1. t.id \in TransferRequests /\ tPc[t.id] # "idle"
  BY DEF ReferenceInv, CreatorOver
<1>2. CASE t.id = p
  <2>1. ~Receive(p)
    BY <1>1, <1>2 DEF Receive
  <2> QED
    BY <1>2, <2>1, UnderWay
<1>3. CASE t.id # p
  BY <1>1, <1>3, OthersUntouched
<1> QED
  BY <1>2, <1>3

LEMMA AnswerInvStep ==
    ASSUME TypeInv, NothingHeldOutsideTransaction, ReferenceInv, AnswerInv,
           NEW p \in TransferRequests, TransferStep(p)
    PROVE  AnswerInv'
<1>1. DbTypeOK /\ TransferTypeOK
  BY DEF TypeInv, TypeOK
<1>2. ASSUME NEW q \in TransferRequests
      PROVE  /\ tPc'[q] = "idle" => tOutcome'[q].kind = "NONE"
             /\ tPc'[q] \in Inserted => pend'[q].transfers # {}
  <2>1. CASE q = p
    BY <2>1, InsertedStep
  <2>2. CASE q # p
    BY <1>1, <2>2, OthersUntouched, StepIsolated, TransferAssumption DEF AnswerInv, Isolated
  <2> QED
    BY <2>1, <2>2
<1>3. ASSUME NEW t \in transfers'
      PROVE  t = NewTransfer(t.id)'
  <2>1. CASE t \in transfers
    <3>1. tReq'[t.id] = tReq[t.id]
      BY <1>1, <2>1, CreatorKeepsBody
    <3>2. t = NewTransfer(t.id)
      BY <2>1 DEF AnswerInv
    <3>3. NewTransfer(t.id)' = NewTransfer(t.id)
      BY <3>1 DEF NewTransfer
    <3> QED
      BY <3>2, <3>3
  <2>2. CASE t \notin transfers
    <3>1. t \in pend[p].transfers /\ tReq'[p] = tReq[p]
      <4>1. tPc[p] = "commit" /\ Commit(p)
        BY <2>2, TablesMoveAtCommit DEF tables
      <4>2. ~Receive(p)
        BY <4>1 DEF Receive
      <4> QED
        BY <2>2, <4>1, <4>2, UnderWay DEF Commit
    <3>2. t = NewTransfer(p) /\ t.id = p
      BY <3>1, NewIsAsAsked DEF ReferenceInv, PendingSound
    <3> QED
      BY <3>1, <3>2 DEF NewTransfer
  <2> QED
    BY <2>1, <2>2
<1>4. SuccessIsDurable'
  BY DurableStep
<1> QED
  BY <1>2, <1>3, <1>4 DEF AnswerInv

\* It stays true while others move: nothing takes a committed transfer away.
LEMMA AnswerInvStays ==
    ASSUME AnswerInv, UNCHANGED <<transferVars, transfers>>,
           \A q \in TransferRequests : pend'[q] = pend[q]
    PROVE  AnswerInv'
BY DEF AnswerInv, SuccessIsDurable, NewTransfer, transferVars

LEMMA AnswerInvInit == DbInit /\ TransferInit => AnswerInv
BY DEF DbInit, TablesInit, TransferInit, AnswerInv, SuccessIsDurable, NoOutcome, Inserted, Posting

LEMMA AnswerInvHolds == Spec => []AnswerInv
<1>1. Init => AnswerInv
  BY AnswerInvInit DEF Init
<1>2. TypeInv /\ NothingHeldOutsideTransaction /\ ReferenceInv /\ AnswerInv /\ [Next]_vars => AnswerInv'
  BY AnswerInvStep, AnswerInvStays DEF Next, vars, dbVars, tables
<1> QED
  BY <1>1, <1>2, TypeInvInit, TypeInvStep, TransactionsEnd, ReferenceInvHolds, PTL DEF Spec

\* Whoever is told COMPLETED, by its own commit or by finding the transfer of
\* another request, before its transaction or after losing a race, is told the
\* id of a committed transfer of its own body (TransferService.ts:49, 154, 170).
THEOREM SuccessesAreDurable == Spec => []SuccessIsDurable
<1>1. AnswerInv => SuccessIsDurable
  BY DEF AnswerInv
<1> QED
  BY <1>1, AnswerInvHolds, PTL
-----------------------------------------------------------------------------
(***************************************************************************)
(* Conflicts.  The comparison with the stored row is textual for the ids   *)
(* and numeric for the amount, so it needs every id as the database prints *)
(* it and every amount as the column keeps it (runs SpellingConflict and   *)
(* HalfUnit).                                                              *)
(***************************************************************************)

\* Clients send each account id the way PostgreSQL prints it.
StoredSpellings == \A b \in Bodies : Uuid[b.source] = b.source /\ Uuid[b.destination] = b.destination

\* A row the comparison refuses was made from another body.
LEMMA RefusedIsOther ==
    ASSUME StoredSpellings, WholeAmounts, TypeInv, ReferenceInv, AnswerInv,
           NEW p \in TransferRequests, tPc[p] # "idle",
           NEW t \in transfers, ~RequestMatchesExisting(tReq[p], t)
    PROVE  tReq[t.id] # tReq[p]
<1> SUFFICES ASSUME tReq[t.id] = tReq[p] PROVE FALSE
  OBVIOUS
<1>1. AsAsked(t.id, t)
  BY NewIsAsAsked DEF AnswerInv
<1>2. tReq[p] \in Bodies
  BY DEF TypeInv, RequestSound
<1>3. tReq[p].amount \in Nat /\ IsWhole(tReq[p].amount)
  BY <1>2, TransferAssumption DEF WholeAmounts, Body
<1>4. ToNumeric(tReq[p].amount) = tReq[p].amount
  BY <1>3, WholeIsExact
<1> QED
  BY <1>1, <1>2, <1>4 DEF StoredSpellings, AsAsked, RequestMatchesExisting

LEMMA ConflictStep ==
    ASSUME StoredSpellings, WholeAmounts, TypeInv, ReferenceInv, AnswerInv, NoFalseConflict,
           NEW p \in TransferRequests, TransferStep(p)
    PROVE  NoFalseConflict'
<1>1. DbTypeOK /\ TransferTypeOK
  BY DEF TypeInv, TypeOK
<1>2. transfers \subseteq transfers' /\ \A t \in transfers : tReq'[t.id] = tReq[t.id]
  BY <1>1, TablesMoveAtCommit, CommitAppends, CreatorKeepsBody, TransferAssumption DEF tables
<1> DEFINE Justified(q) == tOutcome[q].kind = "IDEMPOTENCY_CONFLICT" =>
                 \E t \in transfers : t.reference = tReq[q].reference /\ tReq[t.id] # tReq[q]
<1>3. ASSUME NEW q \in TransferRequests, tOutcome'[q] = tOutcome[q], tReq'[q] = tReq[q]
      PROVE  Justified(q)'
  BY <1>2, <1>3 DEF NoFalseConflict
<1>4. \A q \in TransferRequests \ {p} : Justified(q)'
  BY <1>1, <1>3, OthersUntouched
<1>5. CASE /\ ReferenceTaken(tReq[p].reference)
           /\ AnswerFrom(p, ByReference(tReq[p].reference))
           /\ UNCHANGED <<transfers, tReq>>
  <2> DEFINE t == ByReference(tReq[p].reference)
  <2>1. t \in transfers /\ t.reference = tReq[p].reference
    BY <1>1, <1>5, FoundRow
  <2> HIDE DEF t
  <2>2. tOutcome'[p].kind = "IDEMPOTENCY_CONFLICT" => ~RequestMatchesExisting(tReq[p], t)
    BY <1>1, <1>5 DEF AnswerFrom, Finish, TransferTypeOK, t
  <2>3. tPc[p] # "idle" \/ tOutcome'[p].kind # "IDEMPOTENCY_CONFLICT"
    <3>1. CASE Receive(p)
      BY <1>1, <3>1 DEF Receive, Finish, TransferTypeOK, AnswerInv
    <3>2. CASE ~Receive(p)
      BY <3>2, UnderWay
    <3> QED
      BY <3>1, <3>2
  <2>4. tOutcome'[p].kind = "IDEMPOTENCY_CONFLICT" => tReq[t.id] # tReq[p]
    BY <2>1, <2>2, <2>3, RefusedIsOther
  <2>5. Justified(p)'
    BY <1>5, <2>1, <2>4
  <2> QED
    BY <1>4, <2>5 DEF NoFalseConflict
<1>6. CASE CommitTransfer(p)
  <2>1. Justified(p)'
    BY <1>1, <1>6 DEF CommitTransfer, TransferTypeOK
  <2> QED
    BY <1>4, <2>1 DEF NoFalseConflict
<1>7. CASE tOutcome'[p].kind \notin {"COMPLETED", "IDEMPOTENCY_CONFLICT"}
  BY <1>4, <1>7 DEF NoFalseConflict
<1>8. CASE tOutcome'[p] = tOutcome[p] /\ tReq'[p] = tReq[p]
  BY <1>3, <1>4, <1>8 DEF NoFalseConflict
<1> QED
  BY <1>1, <1>5, <1>6, <1>7, <1>8, OutcomeStep DEF AnswerInv

\* A request is refused with 409 only for a reference some other body has used
\* (TransferService.ts:39-47, README.md:299).
THEOREM ConflictsAreReal ==
    (StoredSpellings /\ WholeAmounts) /\ Spec => []NoFalseConflict
<1>1. Init => NoFalseConflict
  BY DEF Init, TransferInit, NoFalseConflict, NoOutcome
<1>2. StoredSpellings /\ WholeAmounts /\ TypeInv /\ ReferenceInv /\ AnswerInv /\ NoFalseConflict
         /\ [Next]_vars => NoFalseConflict'
  <2>1. NoFalseConflict /\ UNCHANGED vars => NoFalseConflict'
    BY DEF NoFalseConflict, vars, dbVars, tables, transferVars
  <2> QED
    BY <2>1, ConflictStep DEF Next
<1>3. StoredSpellings /\ WholeAmounts => (StoredSpellings /\ WholeAmounts)'
  BY DEF StoredSpellings, WholeAmounts
<1> QED
  BY <1>1, <1>2, <1>3, TypeInvInit, TypeInvStep, ReferenceInvHolds, AnswerInvHolds, PTL DEF Spec
-----------------------------------------------------------------------------
(***************************************************************************)
(* Waiting.  A request that waits for a row it wants holds at most the row *)
(* it locked first, which sorts before the one it wants; and it waits for  *)
(* an insert only with both rows locked, for a request that waits no more. *)
(***************************************************************************)

WaitSound(p) ==
    /\ tPc[p] \notin {"idle"} \cup Answered => tReq[p].source # tReq[p].destination
    /\ \A a \in Accounts : lock[a] = p =>
          \/ tPc[p] = "lockSecond" /\ a = FirstRow(p)
          \/ tPc[p] \in Posting \cup {"rollback"}
    /\ tPc[p] \in {"lockFirst", "lockSecond", "insert"} => pend[p].transfers = {}

WaitInv == \A p \in TransferRequests : WaitSound(p)

LEMMA WaitSoundStep ==
    ASSUME TypeInv, NothingHeldOutsideTransaction, NEW p \in TransferRequests, WaitSound(p),
           TransferStep(p)
    PROVE  WaitSound(p)'
<1>1. DbTypeOK /\ TransferTypeOK /\ p \in Sessions
  BY TransferAssumption DEF TypeInv, TypeOK
<1>2. tPc'[p] \notin {"idle"} \cup Answered => tReq'[p].source # tReq'[p].destination
  BY <1>1, TwoSpellings DEF WaitSound
<1>3. CASE Commit(p) \/ Abort(p)
  <2>1. HoldsNothing(p)'
    BY <1>1, <1>3, EndHoldsNothing
  <2> QED
    BY <1>2, <2>1 DEF HoldsNothing, WaitSound, NothingPending
<1>4. CASE /\ tPc[p] \notin {"lockSecond", "rollback"} \cup Posting
           /\ tPc'[p] \notin {"lockFirst", "lockSecond", "insert"} /\ UNCHANGED lock
  BY <1>2, <1>4 DEF WaitSound
<1>5. CASE /\ tPc[p] \in Posting /\ tPc'[p] \in Inserted
           /\ \A a \in Accounts : lock'[a] = p => lock[a] = p \/ tPc[p] \in Posting
  BY <1>2, <1>5 DEF WaitSound, Inserted, Posting
<1> USE DEF TransferTypeOK, Goto, Finish, Throw, StatementError, AnswerFrom, Posting, Inserted
<1>6. CASE Receive(p) \/ Lookup(p) \/ Relookup(p) \/ Respond(p) \/ CallFails(p)
  BY <1>1, <1>4, <1>6 DEF Receive, Lookup, Relookup, Respond, CallFails, dbVars
<1>7. CASE Begin(p)
  <2>1. pend[p] = NothingPending /\ \A a \in Accounts : lock[a] # p
    BY <1>7 DEF Begin, NothingHeldOutsideTransaction, Statements
  <2> QED
    BY <1>1, <1>2, <1>7, <2>1 DEF Begin, dbVars, WaitSound, NothingPending
<1>8. CASE LockFirst(p)
  <2>1. tPc'[p] = "lockSecond" /\ tPc[p] = "lockFirst" /\ UNCHANGED <<pend, tReq>>
    BY <1>1, <1>8 DEF LockFirst
  <2>2. FirstRow(p)' = FirstRow(p)
    BY <2>1 DEF FirstRow, FirstId
  <2>3. \A a \in Accounts : lock'[a] = p => a = FirstRow(p)
    BY <1>1, <1>8, <2>1 DEF LockFirst, Lock, DbTypeOK, WaitSound, FirstRow
  <2> QED
    BY <1>2, <2>1, <2>2, <2>3 DEF WaitSound
<1>9. CASE LockSecond(p)
  BY <1>1, <1>2, <1>9 DEF LockSecond, WaitSound
<1>10. CASE InsertTransfer(p) \/ InsertEntries(p) \/ InsertAudit(p)
  BY <1>1, <1>3, <1>5, <1>10 DEF InsertTransfer, InsertEntries, InsertAudit
<1>11. CASE DebitRead(p) \/ CreditRead(p)
  BY <1>1, <1>5, <1>11 DEF DebitRead, CreditRead, ReadBalances
<1>12. CASE DebitWrite(p) \/ CreditWrite(p)
  BY <1>1, <1>3, <1>5, <1>12 DEF DebitWrite, CreditWrite, WriteBalances
<1>13. CASE Rollback(p) \/ DeadlockVictim(p) \/ StatementFails(p) \/ RollbackFails(p) \/ Crash(p)
           \/ CommitTransfer(p) \/ CommitFails(p)
  BY <1>3, <1>13 DEF Rollback, EndTransaction, DeadlockVictim, StatementFails, RollbackFails,
                     Crash, CommitTransfer, CommitFails
<1> QED
  BY <1>6, <1>7, <1>8, <1>9, <1>10, <1>11, <1>12, <1>13
     DEF TransferStep, TransferProgress, TransferFault

LEMMA WaitSoundStays ==
    ASSUME NEW q \in TransferRequests, WaitSound(q), tPc'[q] = tPc[q], tReq'[q] = tReq[q],
           Isolated(q)
    PROVE  WaitSound(q)'
<1>1. FirstRow(q)' = FirstRow(q)
  BY DEF FirstRow, FirstId
<1> QED
  BY <1>1 DEF WaitSound, Isolated

LEMMA WaitInvStep ==
    ASSUME TypeInv, NothingHeldOutsideTransaction, WaitInv, NEW p \in TransferRequests,
           TransferStep(p)
    PROVE  WaitInv'
<1> SUFFICES ASSUME NEW q \in TransferRequests PROVE WaitSound(q)'
  BY DEF WaitInv
<1>1. CASE q = p
  BY <1>1, WaitSoundStep DEF WaitInv
<1>2. CASE q # p
  <2>1. tPc'[q] = tPc[q] /\ tReq'[q] = tReq[q] /\ Isolated(q)
    BY <1>2, OthersUntouched, StepIsolated, TransferAssumption DEF TypeInv, TypeOK
  <2> QED
    BY <2>1, WaitSoundStays DEF WaitInv
<1> QED
  BY <1>1, <1>2

LEMMA WaitInvInit == DbInit /\ TransferInit => WaitInv
BY TransferAssumption, TablesAssumption DEF DbInit, TransferInit, WaitInv, WaitSound, Posting

LEMMA WaitInvHolds == Spec => []WaitInv
<1>1. Init => WaitInv
  BY WaitInvInit DEF Init
<1>2. TypeInv /\ NothingHeldOutsideTransaction /\ WaitInv /\ [Next]_vars => WaitInv'
  <2>1. WaitInv /\ UNCHANGED vars => WaitInv'
    BY WaitSoundStays DEF WaitInv, Isolated, vars, dbVars, transferVars
  <2> QED
    BY <2>1, WaitInvStep DEF Next
<1> QED
  BY <1>1, <1>2, TypeInvInit, TypeInvStep, TransactionsEnd, PTL DEF Spec

\* Every member of a cycle of waits holds its first row and wants its second.
LEMMA CycleMember ==
    ASSUME TypeInv, WaitInv, NEW C \in SUBSET TransferRequests, WaitCycle(C), NEW q \in C
    PROVE  tPc[q] = "lockSecond" /\ \E p \in C : SecondRow(p) = FirstRow(q)
<1>1. \A p \in C : tPc[p] \in {"lockFirst", "lockSecond", "insert"}
  BY DEF WaitCycle, WaitsFor
<1>2. \A p \in C : tPc[p] # "insert"
  <2> SUFFICES ASSUME NEW p \in C, tPc[p] = "insert" PROVE FALSE
    OBVIOUS
  <2>1. PICK o \in C : o \in InsertersOf(p, tReq[p].reference)
    BY DEF WaitCycle, WaitsFor
  <2> QED
    BY <1>1, <2>1 DEF InsertersOf, WaitInv, WaitSound
<1>3. ASSUME NEW r \in C
      PROVE  \E p \in C : \/ tPc[p] = "lockFirst" /\ lock[FirstRow(p)] = r
                          \/ tPc[p] = "lockSecond" /\ lock[SecondRow(p)] = r
  <2>1. PICK p \in C : r \in WaitsFor(p)
    BY DEF WaitCycle
  <2> QED
    BY <1>1, <1>2, <2>1 DEF WaitsFor, FirstRow, SecondRow
<1>4. ASSUME NEW r \in C
      PROVE  tPc[r] = "lockSecond" /\ \A a \in Accounts : lock[a] = r => a = FirstRow(r)
  <2>1. PICK p \in C : \/ tPc[p] = "lockFirst" /\ lock[FirstRow(p)] = r
                       \/ tPc[p] = "lockSecond" /\ lock[SecondRow(p)] = r
    BY <1>3
  <2>2. FirstRow(p) \in Accounts /\ SecondRow(p) \in Accounts
    BY <2>1, BodyTyped DEF FirstRow, SecondRow
  <2> QED
    BY <1>1, <1>2, <2>1, <2>2 DEF WaitInv, WaitSound, Posting
<1>5. PICK p \in C : \/ tPc[p] = "lockFirst" /\ lock[FirstRow(p)] = q
                     \/ tPc[p] = "lockSecond" /\ lock[SecondRow(p)] = q
  BY <1>3
<1>6. tPc[p] = "lockSecond" /\ tPc[p] # "idle"
  BY <1>4
<1>7. SecondRow(p) \in Accounts
  BY <1>6, BodyTyped DEF SecondRow
<1> QED
  BY <1>4, <1>5, <1>6, <1>7

LEMMA WaitsAreOrdered ==
    ASSUME StoredSpellings, TypeInv, WaitInv
    PROVE  NoWaitCycle
<1> SUFFICES ASSUME NEW C \in SUBSET TransferRequests, WaitCycle(C)
             PROVE  FALSE
  BY DEF NoWaitCycle
<1>1. ASSUME NEW q \in C
      PROVE  /\ SecondRow(q) \in Nat
             /\ \E p \in C : SecondRow(p) < SecondRow(q)
  <2>1. tPc[q] = "lockSecond" /\ \E p \in C : SecondRow(p) = FirstRow(q)
    BY CycleMember
  <2>2. tReq[q] \in Bodies /\ tReq[q].source # tReq[q].destination
    BY <2>1 DEF TypeInv, RequestSound, WaitInv, WaitSound, Answered
  <2>3. /\ FirstRow(q) = FirstId(q) /\ SecondRow(q) = SecondId(q)
        /\ tReq[q].source \in Nat /\ tReq[q].destination \in Nat
    BY <2>2, TransferAssumption, HandlersAssumption
       DEF StoredSpellings, FirstRow, SecondRow, FirstId, SecondId, LockOrder, Body
  <2>4. FirstId(q) < SecondId(q) /\ SecondId(q) \in Nat
    BY <2>2, <2>3 DEF FirstId, SecondId, LockOrder
  <2> QED
    BY <2>1, <2>3, <2>4
<1> DEFINE W == {SecondRow(q) : q \in C}
<1>2. W \subseteq Nat /\ W # {}
  BY <1>1 DEF WaitCycle
<1> HIDE DEF W
<1>3. PICK n \in W : \A m \in W : ~(m < n)
  BY <1>2, LeastMember, Zenon
<1> USE DEF W
<1>4. PICK q \in C : n = SecondRow(q)
  BY <1>3
<1>5. PICK p \in C : SecondRow(p) < SecondRow(q)
  BY <1>1
<1>6. SecondRow(p) \in W
  OBVIOUS
<1> QED
  BY <1>1, <1>3, <1>4, <1>5, <1>6

\* No circle of waiting transfers ever closes, so PostgreSQL never has to kill
\* one: the sort of the two ids orders every wait (TransferService.ts:57-60,
\* README.md:434).
THEOREM SortedLocksNeverDeadlock == StoredSpellings /\ Spec => []NoWaitCycle
<1>1. StoredSpellings => StoredSpellings'
  BY DEF StoredSpellings
<1> QED
  BY <1>1, TypeInvInit, TypeInvStep, WaitInvHolds, WaitsAreOrdered, PTL DEF Spec
=============================================================================
