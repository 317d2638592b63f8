-------------------------- MODULE TransferApiProofs --------------------------
(***************************************************************************)
(* The API as a whole.  What holds of transfers alone still holds beside   *)
(* top-ups, status changes and new accounts, because none of those touches *)
(* a row that a transfer has locked; and a top-up is to its own row what a *)
(* transfer is to its two.                                                 *)
(***************************************************************************)
EXTENDS TransferApi, AnswerProofs, FiniteSetTheorems
-----------------------------------------------------------------------------
(***************************************************************************)
(* Top-ups.                                                                *)
(***************************************************************************)

TopUpStep(p) == ReceiveTopUp(p) \/ TopUpProgress(p) \/ TopUpFault(p)

\* The calls made with the account locked and found ACTIVE, and those made
\* after its balances are written.
Raising == {"read", "write", "entry", "commit"}
Raised == {"entry", "commit"}

RaisedRow(p) == [uSeen[p] EXCEPT !.available = ToNumeric(@ + uReq[p].amount),
                                 !.ledger = ToNumeric(@ + uReq[p].amount)]

TopUpEntry(p) == [transfer |-> None, type |-> "CREDIT", amount |-> ToNumeric(uReq[p].amount),
                  balance_after |-> ToNumeric(uSeen[p].available + uReq[p].amount)]

HasRaised(p) ==
    /\ \A a \in Accounts :
          /\ pend[p].rows[a] = IF uPc[p] \in Raised /\ a = Topped(p) THEN RaisedRow(p) ELSE NoRow
          /\ pend[p].entries[a] = IF uPc[p] = "commit" /\ a = Topped(p) THEN <<TopUpEntry(p)>>
                                                                        ELSE <<>>
    /\ pend[p].transfers = {} /\ pend[p].audit = {}

\* It holds the row, the row is as it was read, and what has been written is
\* computed from it.
TopUpSound(p) ==
    /\ uPc[p] # "idle" => uReq[p] \in TopUps
    /\ uPc[p] \in Raising =>
          /\ lock[Topped(p)] = p /\ accounts[Topped(p)] = uSeen[p]
          /\ uSeen[p] \in Row /\ uSeen[p].status = "ACTIVE"
    /\ uPc[p] = "write" => uRead[p] = uSeen[p]
    /\ uPc[p] \in Raised => Fits(uSeen[p].available + uReq[p].amount)
    /\ HasRaised(p)

LEMMA TopUpBody ==
    ASSUME NEW p \in TopUpRequests, uReq[p] \in TopUps
    PROVE  Topped(p) \in Accounts /\ uReq[p].amount \in Nat /\ p \in Sessions
BY TopUpAssumption, HandlersAssumption DEF Topped

LEMMA TopUpIsolated ==
    ASSUME DbTypeOK, NEW p \in TopUpRequests, TopUpSound(p), TopUpStep(p),
           NEW q \in Sessions, q # p
    PROVE  Isolated(q)
<1>1. p \in Sessions /\ (uPc[p] # "idle" => Topped(p) \in Accounts)
  BY TopUpAssumption, TopUpBody DEF TopUpSound
<1>2. CASE Commit(p) \/ Abort(p)
  BY <1>1, <1>2, EndIsolated
<1>3. CASE UNCHANGED <<lock, pend>>
  BY <1>3 DEF Isolated
<1> USE DEF TopUpError
<1>4. CASE ReceiveTopUp(p) \/ BeginTopUp(p) \/ ReadTopped(p) \/ ReadBack(p) \/ TopUpCallFails(p)
  BY <1>3, <1>4 DEF ReceiveTopUp, BeginTopUp, ReadTopped, ReadBack, TopUpCallFails, dbVars
<1>5. CASE LockAccount(p)
  <2>1. uPc[p] # "idle" /\ RowFree(p, Topped(p)) /\ lock' = Lock(p, Topped(p)) /\ pend' = pend
    BY <1>5 DEF LockAccount
  <2> QED
    BY <1>1, <2>1, LockIsolated
<1>6. CASE WriteTopped(p)
  <2>1. uPc[p] # "idle" /\ (Abort(p) \/ \E x, y : UpdateBalanceColumns(p, Topped(p), x, y))
    BY <1>6 DEF WriteTopped
  <2> QED
    BY <1>1, <1>2, <2>1, UpdateIsolated
<1>7. CASE InsertTopUpEntry(p)
  <2>1. lock' = lock /\ \E e : pend' = [pend EXCEPT ![p] = e]
    BY <1>7 DEF InsertTopUpEntry
  <2> QED
    BY <1>1, <2>1 DEF Isolated, DbTypeOK
<1>8. CASE CommitTopUp(p) \/ RollbackTopUp(p) \/ TopUpStatementFails(p) \/ TopUpCommitFails(p)
           \/ TopUpRollbackFails(p) \/ TopUpCrash(p)
  BY <1>2, <1>8 DEF CommitTopUp, RollbackTopUp, TopUpStatementFails, TopUpCommitFails,
                    TopUpRollbackFails, TopUpCrash
<1> QED
  BY <1>4, <1>5, <1>6, <1>7, <1>8 DEF TopUpStep, TopUpProgress, TopUpFault

LEMMA TopUpMovesAtCommit ==
    ASSUME NEW p \in TopUpRequests, TopUpStep(p)
    PROVE  UNCHANGED tables \/ (uPc[p] = "commit" /\ Commit(p))
<1> USE DEF TopUpError, Abort, UpdateBalanceColumns, dbVars
<1>1. CASE ReceiveTopUp(p) \/ BeginTopUp(p) \/ LockAccount(p) \/ ReadTopped(p) \/ WriteTopped(p)
  BY <1>1 DEF ReceiveTopUp, BeginTopUp, LockAccount, ReadTopped, WriteTopped
<1>2. CASE InsertTopUpEntry(p) \/ CommitTopUp(p) \/ ReadBack(p) \/ RollbackTopUp(p)
  BY <1>2 DEF InsertTopUpEntry, CommitTopUp, ReadBack, RollbackTopUp
<1>3. CASE TopUpFault(p)
  BY <1>3 DEF TopUpFault, TopUpStatementFails, TopUpCallFails, TopUpCommitFails,
              TopUpRollbackFails, TopUpCrash
<1> QED
  BY <1>1, <1>2, <1>3 DEF TopUpStep, TopUpProgress

\* A top-up commits only the row it has locked.
LEMMA TopUpUndisturbs ==
    ASSUME DbTypeOK, NEW p \in TopUpRequests, TopUpSound(p), TopUpStep(p),
           NEW q \in Sessions, q # p
    PROVE  Undisturbed(q)
<1>1. Isolated(q)
  BY TopUpIsolated
<1>2. ASSUME NEW a \in Accounts, lock[a] = q
      PROVE  accounts'[a] = accounts[a]
  <2>1. CASE UNCHANGED tables
    BY <2>1 DEF tables
  <2>2. CASE uPc[p] = "commit" /\ Commit(p)
    BY <1>2, <2>2 DEF TopUpSound, HasRaised, Raising, Raised, Commit, Visible
  <2> QED
    BY <2>1, <2>2, TopUpMovesAtCommit
<1> QED
  BY <1>1, <1>2 DEF Undisturbed

LEMMA OtherTopUps ==
    ASSUME TopUpTypeOK, NEW p \in TopUpRequests, TopUpStep(p), NEW q \in TopUpRequests, q # p
    PROVE  /\ uPc'[q] = uPc[q] /\ uReq'[q] = uReq[q] /\ uSeen'[q] = uSeen[q]
           /\ uRead'[q] = uRead[q] /\ uOutcome'[q] = uOutcome[q]
<1> USE DEF TopUpTypeOK, TopUpGoto, TopUpEnds, TopUpError
<1>1. CASE ReceiveTopUp(p) \/ BeginTopUp(p) \/ ReadTopped(p)
  BY <1>1 DEF ReceiveTopUp, BeginTopUp, ReadTopped
<1>2. CASE LockAccount(p)
  BY <1>2 DEF LockAccount
<1>3. CASE WriteTopped(p)
  BY <1>3 DEF WriteTopped
<1>4. CASE InsertTopUpEntry(p) \/ CommitTopUp(p) \/ ReadBack(p) \/ RollbackTopUp(p)
  BY <1>4 DEF InsertTopUpEntry, CommitTopUp, ReadBack, RollbackTopUp
<1>5. CASE TopUpFault(p)
  BY <1>5 DEF TopUpFault, TopUpStatementFails, TopUpCallFails, TopUpCommitFails,
              TopUpRollbackFails, TopUpCrash
<1> QED
  BY <1>1, <1>2, <1>3, <1>4, <1>5 DEF TopUpStep, TopUpProgress

LEMMA TopUpSoundStays ==
    ASSUME NEW q \in TopUpRequests, TopUpSound(q), Undisturbed(q),
           uPc'[q] = uPc[q], uReq'[q] = uReq[q], uSeen'[q] = uSeen[q], uRead'[q] = uRead[q]
    PROVE  TopUpSound(q)'
<1>1. /\ Topped(q)' = Topped(q) /\ RaisedRow(q)' = RaisedRow(q) /\ TopUpEntry(q)' = TopUpEntry(q)
      /\ pend'[q] = pend[q]
  BY DEF Topped, RaisedRow, TopUpEntry, Undisturbed, Isolated
<1>2. HasRaised(q)'
  BY <1>1 DEF TopUpSound, HasRaised
<1>3. uPc[q] \in Raising => lock'[Topped(q)] = q /\ accounts'[Topped(q)] = accounts[Topped(q)]
  BY TopUpBody, RowIsThere DEF TopUpSound, Raising, Undisturbed, Isolated
<1> QED
  BY <1>1, <1>2, <1>3 DEF TopUpSound

\* A smaller sum of the same kind fits as well.
LEMMA SmallerFits ==
    ASSUME NEW x \in Nat, NEW y \in Nat, x <= y, Fits(y)
    PROVE  Fits(x)
BY MaxNumericAssumption DEF Fits, ToNumeric, Quantum

LEMMA RaisedNumbers ==
    ASSUME NoOverdraft, NEW p \in TopUpRequests, TopUpSound(p), uPc[p] = "entry"
    PROVE  ToNumeric(uReq[p].amount) \in Column
           /\ ToNumeric(uSeen[p].available + uReq[p].amount) \in Column
<1> DEFINE amount == uReq[p].amount
           before == uSeen[p].available
<1>1. amount \in Nat /\ Topped(p) \in Accounts
  BY TopUpBody DEF TopUpSound
<1>2. uSeen[p] = accounts[Topped(p)] /\ uSeen[p] \in Row /\ Fits(before + amount)
  BY DEF TopUpSound, Raising, Raised
<1>3. before \in Nat
  BY <1>1, <1>2, RowBalances DEF NoOverdraft
<1>4. Fits(amount)
  BY <1>1, <1>2, <1>3, SmallerFits
<1> QED
  BY <1>1, <1>2, <1>3, <1>4, RoundedIsColumn

LEMMA TopUpDbTyped ==
    ASSUME DbTypeOK, TopUpTypeOK, NoOverdraft, NEW p \in TopUpRequests, TopUpSound(p), TopUpStep(p)
    PROVE  DbTypeOK'
<1>1. p \in Sessions /\ (uPc[p] # "idle" => Topped(p) \in Accounts /\ uReq[p].amount \in Nat)
  BY TopUpAssumption, TopUpBody DEF TopUpSound
<1>2. CASE Commit(p) \/ Abort(p)
  BY <1>1, <1>2, CommitTyped, AbortTyped
<1>3. CASE UNCHANGED <<tables, lock, pend>>
  BY <1>3 DEF DbTypeOK, TablesTypeOK, tables
<1> USE DEF TopUpError
<1>4. CASE ReceiveTopUp(p) \/ BeginTopUp(p) \/ ReadTopped(p) \/ ReadBack(p) \/ TopUpCallFails(p)
  BY <1>3, <1>4 DEF ReceiveTopUp, BeginTopUp, ReadTopped, ReadBack, TopUpCallFails, dbVars
<1>5. CASE LockAccount(p)
  <2>1. uPc[p] # "idle" /\ lock' = Lock(p, Topped(p)) /\ UNCHANGED <<tables, pend>>
    BY <1>5 DEF LockAccount
  <2> QED
    BY <1>1, <2>1, LockTyped DEF DbTypeOK, TablesTypeOK, tables
<1>6. CASE WriteTopped(p)
  <2> DEFINE x == uRead[p].available + uReq[p].amount
             y == uRead[p].ledger + uReq[p].amount
  <2>1. uPc[p] # "idle" /\ uRead[p] \in Row \cup {NoRow}
    BY <1>6 DEF WriteTopped, TopUpTypeOK
  <2>2. x \in Int /\ y \in Int
    BY <1>1, <2>1, RowBalances
  <2>3. Abort(p) \/ (/\ Fits(x) /\ Fits(y)
                     /\ UpdateBalanceColumns(p, Topped(p), ToNumeric(x), ToNumeric(y)))
    BY <1>6 DEF WriteTopped
  <2> HIDE DEF x, y
  <2> QED
    BY <1>1, <1>2, <2>1, <2>2, <2>3, RoundedIsColumn, UpdateTyped
<1>7. CASE InsertTopUpEntry(p)
  <2>1. /\ Topped(p) \in Accounts /\ pend[p] \in Pending /\ UNCHANGED <<tables, lock>>
        /\ pend' = [pend EXCEPT ![p].entries[Topped(p)] = Append(@, TopUpEntry(p))]
    BY <1>1, <1>7 DEF InsertTopUpEntry, DbTypeOK, TopUpEntry
  <2>2. TopUpEntry(p) \in Entry
    BY <1>7, RaisedNumbers DEF InsertTopUpEntry, TopUpEntry, Entry
  <2>3. Append(pend[p].entries[Topped(p)], TopUpEntry(p)) \in Seq(Entry)
    BY <2>1, <2>2 DEF Pending
  <2> DEFINE e == Append(pend[p].entries[Topped(p)], TopUpEntry(p))
  <2>4. pend' = [pend EXCEPT ![p].entries[Topped(p)] = e]
    BY <2>1
  <2> HIDE DEF e
  <2>5. [pend[p] EXCEPT !.entries[Topped(p)] = e] \in Pending
    BY <2>1, <2>3 DEF Pending, e
  <2> QED
    BY <1>1, <2>1, <2>4, <2>5 DEF DbTypeOK, TablesTypeOK, tables
<1>8. CASE CommitTopUp(p) \/ RollbackTopUp(p) \/ TopUpStatementFails(p) \/ TopUpCommitFails(p)
           \/ TopUpRollbackFails(p) \/ TopUpCrash(p)
  BY <1>2, <1>8 DEF CommitTopUp, RollbackTopUp, TopUpStatementFails, TopUpCommitFails,
                    TopUpRollbackFails, TopUpCrash
<1> QED
  BY <1>4, <1>5, <1>6, <1>7, <1>8 DEF TopUpStep, TopUpProgress, TopUpFault

LEMMA TopUpTyped ==
    ASSUME DbTypeOK, TopUpTypeOK, NEW p \in TopUpRequests, TopUpSound(p), TopUpStep(p)
    PROVE  TopUpTypeOK'
<1>1. uPc[p] # "idle" => Visible(p, Topped(p)) \in Row \cup {NoRow}
  BY TopUpAssumption, TopUpBody, VisibleRow DEF TopUpSound
<1> USE DEF TopUpTypeOK, TopUpGoto, TopUpEnds, TopUpError, TopUpStatements, Answered
<1>2. CASE ReceiveTopUp(p) \/ BeginTopUp(p)
  BY <1>2 DEF ReceiveTopUp, BeginTopUp
<1>3. CASE ReadTopped(p)
  BY <1>1, <1>3 DEF ReadTopped
<1>4. CASE LockAccount(p)
  BY <1>1, <1>4 DEF LockAccount
<1>5. CASE WriteTopped(p)
  BY <1>5 DEF WriteTopped
<1>6. CASE InsertTopUpEntry(p) \/ CommitTopUp(p) \/ ReadBack(p) \/ RollbackTopUp(p)
  BY <1>6 DEF InsertTopUpEntry, CommitTopUp, ReadBack, RollbackTopUp
<1>7. CASE TopUpFault(p)
  BY <1>7 DEF TopUpFault, TopUpStatementFails, TopUpCallFails, TopUpCommitFails,
              TopUpRollbackFails, TopUpCrash
<1> QED
  BY <1>2, <1>3, <1>4, <1>5, <1>6, <1>7 DEF TopUpStep, TopUpProgress

LEMMA TopUpKeepsBody ==
    ASSUME TopUpTypeOK, NEW p \in TopUpRequests, TopUpStep(p), ~ReceiveTopUp(p)
    PROVE  uPc[p] \notin {"idle"} \cup Answered /\ uReq' = uReq
<1> USE DEF Answered
<1>1. CASE BeginTopUp(p) \/ LockAccount(p) \/ ReadTopped(p) \/ WriteTopped(p)
  BY <1>1 DEF BeginTopUp, LockAccount, ReadTopped, WriteTopped
<1>2. CASE InsertTopUpEntry(p) \/ CommitTopUp(p) \/ ReadBack(p) \/ RollbackTopUp(p)
  BY <1>2 DEF InsertTopUpEntry, CommitTopUp, ReadBack, RollbackTopUp
<1>3. CASE TopUpFault(p)
  BY <1>3 DEF TopUpFault, TopUpStatementFails, TopUpCallFails, TopUpCommitFails,
              TopUpRollbackFails, TopUpCrash, TopUpStatements
<1> QED
  BY <1>1, <1>2, <1>3 DEF TopUpStep, TopUpProgress

LEMMA TopUpPath ==
    ASSUME TopUpTypeOK, NEW p \in TopUpRequests, TopUpStep(p), uPc'[p] \in Raising
    PROVE  \/ LockAccount(p) /\ uPc'[p] = "read"
           \/ ReadTopped(p)
           \/ WriteTopped(p) /\ uPc'[p] = "entry"
           \/ InsertTopUpEntry(p)
<1> USE DEF TopUpTypeOK, TopUpGoto, TopUpEnds, TopUpError, Raising
<1>1. ~ReceiveTopUp(p) /\ ~BeginTopUp(p) /\ ~CommitTopUp(p) /\ ~ReadBack(p) /\ ~RollbackTopUp(p)
  BY DEF ReceiveTopUp, BeginTopUp, CommitTopUp, ReadBack, RollbackTopUp
<1>2. LockAccount(p) => uPc'[p] = "read"
  BY DEF LockAccount
<1>3. WriteTopped(p) => uPc'[p] = "entry"
  BY DEF WriteTopped
<1>4. ~TopUpFault(p)
  BY DEF TopUpFault, TopUpStatementFails, TopUpCallFails, TopUpCommitFails, TopUpRollbackFails,
         TopUpCrash
<1> QED
  BY <1>1, <1>2, <1>3, <1>4 DEF TopUpStep, TopUpProgress

LEMMA TopUpOutside ==
    ASSUME DbTypeOK, TopUpTypeOK, NEW p \in TopUpRequests, TopUpSound(p), TopUpStep(p),
           uPc'[p] \notin Raising
    PROVE  WroteNothing(p)'
<1>1. p \in Sessions
  BY TopUpAssumption
<1>2. CASE Commit(p) \/ Abort(p)
  BY <1>1, <1>2, OverIsEmpty
<1>3. CASE uPc[p] \notin Raised /\ UNCHANGED pend
  BY <1>3 DEF TopUpSound, HasRaised, Raised, WroteNothing
<1> USE DEF TopUpTypeOK, TopUpGoto, TopUpEnds, TopUpError, Raising, Raised
<1>4. CASE ReceiveTopUp(p) \/ BeginTopUp(p) \/ ReadTopped(p) \/ ReadBack(p) \/ TopUpCallFails(p)
  BY <1>3, <1>4 DEF ReceiveTopUp, BeginTopUp, ReadTopped, ReadBack, TopUpCallFails, dbVars
<1>5. CASE LockAccount(p)
  BY <1>3, <1>5 DEF LockAccount
<1>6. CASE WriteTopped(p) \/ InsertTopUpEntry(p)
  BY <1>2, <1>6 DEF WriteTopped, InsertTopUpEntry
<1>7. CASE CommitTopUp(p) \/ RollbackTopUp(p) \/ TopUpStatementFails(p) \/ TopUpCommitFails(p)
           \/ TopUpRollbackFails(p) \/ TopUpCrash(p)
  BY <1>2, <1>7 DEF CommitTopUp, RollbackTopUp, TopUpStatementFails, TopUpCommitFails,
                    TopUpRollbackFails, TopUpCrash
<1> QED
  BY <1>4, <1>5, <1>6, <1>7 DEF TopUpStep, TopUpProgress, TopUpFault

LEMMA LockAccountSound ==
    ASSUME DbTypeOK, TopUpTypeOK, NEW p \in TopUpRequests, TopUpSound(p), LockAccount(p),
           uPc'[p] = "read"
    PROVE  TopUpSound(p)'
<1>1. uPc[p] = "lock" /\ UNCHANGED <<tables, pend, uReq>> /\ p \in Sessions
  BY TopUpAssumption DEF LockAccount
<1>2. uReq[p] \in TopUps /\ Topped(p) \in Accounts /\ Topped(p)' = Topped(p)
  BY <1>1, TopUpBody DEF TopUpSound, Topped
<1>3. Visible(p, Topped(p)) = accounts[Topped(p)]
  BY <1>1, <1>2 DEF TopUpSound, HasRaised, Raised, Visible
<1>4. /\ uSeen'[p] = accounts[Topped(p)]
      /\ accounts[Topped(p)] # NoRow /\ accounts[Topped(p)].status = "ACTIVE"
      /\ lock' = Lock(p, Topped(p))
  BY <1>3 DEF LockAccount, TopUpTypeOK, TopUpGoto, TopUpEnds
<1>5. lock'[Topped(p)] = p /\ accounts[Topped(p)] \in Row
  BY <1>1, <1>2, <1>3, <1>4 DEF Lock, DbTypeOK, TablesTypeOK
<1>6. HasRaised(p)'
  BY <1>1 DEF TopUpSound, HasRaised, Raised
<1> QED
  BY <1>1, <1>2, <1>4, <1>5, <1>6 DEF TopUpSound, Raised, tables

LEMMA ReadToppedSound ==
    ASSUME TopUpTypeOK, NEW p \in TopUpRequests, TopUpSound(p), ReadTopped(p)
    PROVE  TopUpSound(p)'
<1>1. /\ uPc[p] = "read" /\ uPc'[p] = "write" /\ UNCHANGED <<tables, lock, pend, uReq, uSeen>>
      /\ uRead'[p] = Visible(p, Topped(p))
  BY DEF ReadTopped, dbVars, TopUpTypeOK, TopUpGoto
<1>2. Topped(p) \in Accounts /\ Topped(p)' = Topped(p)
  BY <1>1, TopUpBody DEF TopUpSound, Topped
<1>3. uRead'[p] = uSeen[p]
  BY <1>1, <1>2 DEF TopUpSound, HasRaised, Raising, Raised, Visible
<1>4. HasRaised(p)'
  BY <1>1 DEF TopUpSound, HasRaised, Raised
<1> QED
  BY <1>1, <1>2, <1>3, <1>4 DEF TopUpSound, Raising, Raised, tables

LEMMA WriteToppedSound ==
    ASSUME DbTypeOK, TopUpTypeOK, NEW p \in TopUpRequests, TopUpSound(p), WriteTopped(p),
           uPc'[p] = "entry"
    PROVE  TopUpSound(p)'
<1> DEFINE a == Topped(p)
           x == ToNumeric(uRead[p].available + uReq[p].amount)
           y == ToNumeric(uRead[p].ledger + uReq[p].amount)
<1>1. uPc[p] = "write" /\ UNCHANGED <<uReq, uSeen>> /\ p \in Sessions
  BY TopUpAssumption DEF WriteTopped
<1>2. a \in Accounts /\ a' = a
  BY <1>1, TopUpBody DEF TopUpSound, Topped
<1>3. /\ UpdateBalanceColumns(p, a, x, y) /\ Fits(uRead[p].available + uReq[p].amount)
  BY DEF WriteTopped, TopUpTypeOK, TopUpGoto, TopUpError, TopUpEnds
<1>4. /\ lock[a] = p /\ accounts[a] = uSeen[p] /\ uSeen[p] \in Row /\ uSeen[p] # NoRow
      /\ uRead[p] = uSeen[p] /\ pend[p].rows[a] = NoRow
  BY <1>1, <1>2, RowIsThere DEF TopUpSound, HasRaised, Raising, Raised
<1>5. Visible(p, a) = uSeen[p]
  BY <1>4 DEF Visible
<1> DEFINE r == [uSeen[p] EXCEPT !.available = x, !.ledger = y]
<1>6. r = RaisedRow(p)
  BY <1>4 DEF RaisedRow
<1>7. UNCHANGED tables /\ lock' = Lock(p, a) /\ pend' = [pend EXCEPT ![p].rows[a] = r]
  BY <1>3, <1>4, <1>5 DEF UpdateBalanceColumns
<1>8. pend \in [Sessions -> Pending] /\ pend[p] \in Pending
  BY <1>1 DEF DbTypeOK
<1> HIDE DEF a, r
<1>9. /\ pend'[p].rows = [pend[p].rows EXCEPT ![a] = r]
      /\ pend'[p].transfers = pend[p].transfers /\ pend'[p].entries = pend[p].entries
      /\ pend'[p].audit = pend[p].audit
  BY <1>1, <1>7, <1>8 DEF Pending
<1>10. lock'[a] = p
  BY <1>2, <1>4, <1>7 DEF Lock, DbTypeOK
<1>11. RaisedRow(p)' = RaisedRow(p)
  BY <1>1 DEF RaisedRow
<1>12. pend[p].rows \in [Accounts -> Row \cup {NoRow}]
  BY <1>8 DEF Pending
<1>13. HasRaised(p)'
  BY <1>1, <1>2, <1>6, <1>9, <1>11, <1>12 DEF TopUpSound, HasRaised, Raised, a
<1> QED
  BY <1>1, <1>2, <1>3, <1>4, <1>7, <1>10, <1>13 DEF TopUpSound, Raising, tables, a

LEMMA InsertTopUpEntrySound ==
    ASSUME DbTypeOK, TopUpTypeOK, NEW p \in TopUpRequests, TopUpSound(p), InsertTopUpEntry(p)
    PROVE  TopUpSound(p)'
<1>1. /\ uPc[p] = "entry" /\ uPc'[p] = "commit" /\ UNCHANGED <<tables, lock, uReq, uSeen>>
      /\ p \in Sessions
  BY TopUpAssumption DEF InsertTopUpEntry, TopUpTypeOK, TopUpGoto
<1>2. Topped(p) \in Accounts
  BY <1>1, TopUpBody DEF TopUpSound
<1>3. /\ Topped(p)' = Topped(p) /\ RaisedRow(p)' = RaisedRow(p) /\ TopUpEntry(p)' = TopUpEntry(p)
  BY <1>1 DEF Topped, RaisedRow, TopUpEntry
<1>4. pend \in [Sessions -> Pending] /\ pend[p] \in Pending
  BY <1>1 DEF DbTypeOK
<1>5. pend' = [pend EXCEPT ![p].entries[Topped(p)] = Append(@, TopUpEntry(p))]
  BY DEF InsertTopUpEntry, TopUpEntry
<1>6. pend[p].entries[Topped(p)] = <<>>
  BY <1>1, <1>2 DEF TopUpSound, HasRaised
<1>7. Append(<<>>, TopUpEntry(p)) = <<TopUpEntry(p)>>
  OBVIOUS
<1>8. pend' = [pend EXCEPT ![p].entries[Topped(p)] = <<TopUpEntry(p)>>]
  BY <1>5, <1>6, <1>7
<1>9. /\ pend'[p].entries = [pend[p].entries EXCEPT ![Topped(p)] = <<TopUpEntry(p)>>]
      /\ pend'[p].transfers = pend[p].transfers /\ pend'[p].rows = pend[p].rows
      /\ pend'[p].audit = pend[p].audit
  BY <1>1, <1>4, <1>8 DEF Pending
<1>10. pend[p].entries \in [Accounts -> Seq(Entry)]
  BY <1>4 DEF Pending
<1>11. HasRaised(p)'
  BY <1>1, <1>2, <1>3, <1>9, <1>10 DEF TopUpSound, HasRaised, Raised
<1> QED
  BY <1>1, <1>3, <1>11 DEF TopUpSound, Raising, Raised, tables

LEMMA TopUpSoundStep ==
    ASSUME DbTypeOK, TopUpTypeOK, NEW p \in TopUpRequests, TopUpSound(p), TopUpStep(p)
    PROVE  TopUpSound(p)'
<1>1. CASE uPc'[p] \in Raising
  BY <1>1, TopUpPath, LockAccountSound, ReadToppedSound, WriteToppedSound, InsertTopUpEntrySound
<1>2. CASE uPc'[p] \notin Raising
  <2>1. WroteNothing(p)'
    BY <1>2, TopUpOutside
  <2>2. HasRaised(p)'
    BY <1>2, <2>1 DEF WroteNothing, HasRaised, Raising, Raised
  <2>3. uPc'[p] # "idle" => uReq'[p] \in TopUps
    <3>1. CASE ReceiveTopUp(p)
      BY <3>1 DEF ReceiveTopUp, TopUpTypeOK
    <3>2. CASE ~ReceiveTopUp(p)
      BY <3>2, TopUpKeepsBody DEF TopUpSound
    <3> QED
      BY <3>1, <3>2
  <2> QED
    BY <1>2, <2>2, <2>3 DEF TopUpSound, Raising, Raised
<1> QED
  BY <1>1, <1>2

LEMMA TopUpOverdraft ==
    ASSUME DbTypeOK, NoOverdraft, NEW p \in TopUpRequests, TopUpSound(p), TopUpStep(p)
    PROVE  NoOverdraft'
<1>1. CASE UNCHANGED tables
  BY <1>1 DEF NoOverdraft, tables
<1>2. CASE uPc[p] = "commit" /\ Commit(p)
  <2>1. /\ Topped(p) \in Accounts /\ uReq[p].amount \in Nat
        /\ accounts[Topped(p)] = uSeen[p] /\ uSeen[p] \in Row
    BY <1>2, TopUpBody DEF TopUpSound, Raising
  <2>2. uSeen[p].available \in Int /\ uSeen[p].available >= 0
    BY <2>1, RowBalances DEF NoOverdraft
  <2>3. RaisedRow(p).available = ToNumeric(uSeen[p].available + uReq[p].amount)
    BY <2>1 DEF RaisedRow, Row
  <2>4. RaisedRow(p).available >= 0
    BY <2>1, <2>2, <2>3, RoundedIsFunded
  <2>5. ASSUME NEW a \in Accounts PROVE accounts'[a].available >= 0
    <3>1. accounts'[a] = Visible(p, a)
      BY <1>2 DEF Commit
    <3> QED
      BY <1>2, <2>4, <3>1 DEF NoOverdraft, TopUpSound, HasRaised, Raised, Visible
  <2> QED
    BY <2>5 DEF NoOverdraft
<1> QED
  BY <1>1, <1>2, TopUpMovesAtCommit
-----------------------------------------------------------------------------
(***************************************************************************)
(* Status changes and new accounts.                                        *)
(***************************************************************************)

PatchStep(p) == ReceivePatch(p) \/ PatchProgress(p) \/ PatchFault(p)

\* An account that has been found stays.
PatchSound(p) ==
    /\ sPc[p] # "idle" => sReq[p] \in Patches
    /\ sPc[p] \in {"update", "updating", "reread"} => accounts[Target(p)] # NoRow

LEMMA PatchBody ==
    ASSUME NEW p \in PatchRequests, sReq[p] \in Patches
    PROVE  Target(p) \in Accounts /\ sReq[p].status \in Statuses /\ p \in Sessions
BY PatchAssumption, HandlersAssumption DEF Target

\* Of the database a PATCH changes one status, and that of no row another holds.
SetsStatus(p) ==
    /\ sPc[p] = "updating" /\ sPc'[p] = "reread" /\ UNCHANGED sReq
    /\ RowFree(p, Target(p))
    /\ accounts' = [accounts EXCEPT ![Target(p)].status = sReq[p].status]
    /\ UNCHANGED <<transfers, ledger, audit, lock, pend>>

LEMMA PatchMoves ==
    ASSUME PatchTypeOK, NEW p \in PatchRequests, PatchStep(p)
    PROVE  UNCHANGED dbVars \/ SetsStatus(p)
<1>1. CASE UpdateStatus(p)
  BY <1>1 DEF UpdateStatus, SetsStatus, PatchGoto, PatchTypeOK
<1>2. CASE ReceivePatch(p) \/ FindAccount(p) \/ SendUpdate(p) \/ Reread(p) \/ PatchFault(p)
  BY <1>2 DEF ReceivePatch, FindAccount, SendUpdate, Reread, PatchFault, PatchFails, PatchCrash
<1> QED
  BY <1>1, <1>2 DEF PatchStep, PatchProgress

LEMMA SetStatusRow ==
    ASSUME DbTypeOK, NEW p \in PatchRequests, PatchSound(p), SetsStatus(p)
    PROVE  /\ Target(p) \in Accounts /\ accounts[Target(p)] \in Row
           /\ accounts'[Target(p)] = [accounts[Target(p)] EXCEPT !.status = sReq[p].status]
           /\ accounts'[Target(p)] \in Row /\ accounts'[Target(p)] # NoRow
           /\ \A a \in Accounts \ {Target(p)} : accounts'[a] = accounts[a]
           /\ accounts' \in [Accounts -> Row \cup {NoRow}]
<1>1. /\ Target(p) \in Accounts /\ sReq[p].status \in Statuses /\ accounts[Target(p)] # NoRow
      /\ accounts \in [Accounts -> Row \cup {NoRow}]
  BY PatchBody DEF PatchSound, SetsStatus, DbTypeOK, TablesTypeOK
<1>2. accounts[Target(p)] \in Row
  BY <1>1
<1>3. accounts'[Target(p)] = [accounts[Target(p)] EXCEPT !.status = sReq[p].status]
  BY <1>1 DEF SetsStatus
<1>4. [accounts[Target(p)] EXCEPT !.status = sReq[p].status] \in Row
  BY <1>1, <1>2 DEF Row
<1>5. \A a \in Accounts \ {Target(p)} : accounts'[a] = accounts[a]
  BY <1>1 DEF SetsStatus
<1>6. accounts' \in [Accounts -> Row \cup {NoRow}]
  BY <1>1, <1>4 DEF SetsStatus
<1> QED
  BY <1>1, <1>2, <1>3, <1>4, <1>5, <1>6, RowIsThere

LEMMA PatchUndisturbs ==
    ASSUME DbTypeOK, PatchTypeOK, NEW p \in PatchRequests, PatchSound(p), PatchStep(p),
           NEW q \in Sessions, q # p
    PROVE  Undisturbed(q)
<1>1. CASE UNCHANGED dbVars
  BY <1>1 DEF Undisturbed, Isolated, dbVars, tables
<1>2. CASE SetsStatus(p)
  <2>1. q # None
    BY TablesAssumption
  <2>2. \A a \in Accounts : lock[a] = q => a # Target(p)
    BY <1>2, <2>1 DEF SetsStatus, RowFree
  <2> QED
    BY <1>2, <2>2, SetStatusRow DEF Undisturbed, Isolated, SetsStatus
<1> QED
  BY <1>1, <1>2, PatchMoves

LEMMA OtherPatches ==
    ASSUME PatchTypeOK, NEW p \in PatchRequests, PatchStep(p), NEW q \in PatchRequests, q # p
    PROVE  sPc'[q] = sPc[q] /\ sReq'[q] = sReq[q] /\ sOutcome'[q] = sOutcome[q]
<1> USE DEF PatchTypeOK, PatchGoto, PatchAnswer
<1>1. CASE ReceivePatch(p) \/ FindAccount(p) \/ SendUpdate(p)
  BY <1>1 DEF ReceivePatch, FindAccount, SendUpdate
<1>2. CASE UpdateStatus(p) \/ Reread(p) \/ PatchFault(p)
  BY <1>2 DEF UpdateStatus, Reread, PatchFault, PatchFails, PatchCrash
<1> QED
  BY <1>1, <1>2 DEF PatchStep, PatchProgress

LEMMA PatchTyped ==
    ASSUME DbTypeOK, PatchTypeOK, NEW p \in PatchRequests, PatchSound(p), PatchStep(p)
    PROVE  DbTypeOK' /\ PatchTypeOK'
<1>1. DbTypeOK'
  <2>1. CASE UNCHANGED dbVars
    BY <2>1 DEF DbTypeOK, TablesTypeOK, dbVars, tables
  <2>2. CASE SetsStatus(p)
    BY <2>2, SetStatusRow DEF DbTypeOK, TablesTypeOK, SetsStatus
  <2> QED
    BY <2>1, <2>2, PatchMoves
<1>2. PatchTypeOK'
  <2> USE DEF PatchTypeOK, PatchGoto, PatchAnswer, Answered
  <2>1. CASE ReceivePatch(p)
    BY <2>1 DEF ReceivePatch
  <2>2. CASE FindAccount(p)
    BY <2>2 DEF FindAccount
  <2>3. CASE SendUpdate(p)
    BY <2>3 DEF SendUpdate
  <2>4. CASE UpdateStatus(p)
    BY <2>4 DEF UpdateStatus
  <2>5. CASE Reread(p)
    <3>1. accounts[Target(p)].status \in Statuses
      BY <2>5, PatchBody DEF Reread, PatchSound, DbTypeOK, TablesTypeOK, Row
    <3> QED
      BY <2>5, <3>1 DEF Reread
  <2>6. CASE PatchFails(p)
    BY <2>6 DEF PatchFails
  <2>7. CASE PatchCrash(p)
    BY <2>7 DEF PatchCrash
  <2> QED
    BY <2>1, <2>2, <2>3, <2>4, <2>5, <2>6, <2>7 DEF PatchStep, PatchProgress, PatchFault
<1> QED
  BY <1>1, <1>2

LEMMA PatchSoundStep ==
    ASSUME DbTypeOK, PatchTypeOK, NEW p \in PatchRequests, PatchSound(p), PatchStep(p)
    PROVE  PatchSound(p)'
<1> USE DEF PatchTypeOK, PatchGoto, PatchAnswer, Target, dbVars, tables
<1>1. CASE ReceivePatch(p)
  BY <1>1 DEF ReceivePatch, PatchSound
<1>2. CASE FindAccount(p) \/ SendUpdate(p) \/ Reread(p)
  BY <1>2 DEF FindAccount, SendUpdate, Reread, PatchSound
<1>3. CASE UpdateStatus(p)
  <2>1. SetsStatus(p)
    BY <1>3 DEF UpdateStatus, SetsStatus
  <2>2. accounts'[Target(p)] # NoRow /\ UNCHANGED sReq /\ sPc[p] # "idle"
    BY <2>1, SetStatusRow DEF SetsStatus
  <2> QED
    BY <2>2 DEF PatchSound
<1>4. CASE PatchFault(p)
  BY <1>4 DEF PatchFault, PatchFails, PatchCrash, PatchSound
<1> QED
  BY <1>1, <1>2, <1>3, <1>4 DEF PatchStep, PatchProgress

\* A new account appears where there was none.
LEMMA CreateAccountRow ==
    ASSUME DbTypeOK, NEW a \in Accounts, NEW currency \in Currencies, CreateAccount(a, currency)
    PROVE  /\ DbTypeOK'
           /\ accounts'[a] \in Row /\ accounts'[a].available = 0
           /\ \A b \in Accounts : accounts[b] # NoRow => accounts'[b] = accounts[b]
           /\ \A b \in Accounts \ {a} : accounts'[b] = accounts[b]
           /\ \A q : Undisturbed(q)
<1> DEFINE r == [available |-> 0, ledger |-> 0, currency |-> currency, status |-> "ACTIVE"]
<1>1. r \in Row
  BY MaxNumericAssumption DEF Row, Column, IsWhole, Quantum, Statuses
<1>2. /\ accounts' = [accounts EXCEPT ![a] = r] /\ accounts[a] = NoRow /\ r.available = 0
      /\ UNCHANGED <<transfers, ledger, audit, lock, pend>>
  BY DEF CreateAccount
<1>3. accounts \in [Accounts -> Row \cup {NoRow}]
  BY DEF DbTypeOK, TablesTypeOK
<1> HIDE DEF r
<1>4. accounts'[a] = r /\ \A b \in Accounts \ {a} : accounts'[b] = accounts[b]
  BY <1>2, <1>3
<1>5. DbTypeOK'
  BY <1>1, <1>2, <1>3 DEF DbTypeOK, TablesTypeOK
<1>6. \A q : Undisturbed(q)
  BY <1>2, <1>4 DEF Undisturbed, Isolated
<1> QED
  BY <1>1, <1>2, <1>4, <1>5, <1>6
-----------------------------------------------------------------------------
(***************************************************************************)
(* All of them together.                                                   *)
(***************************************************************************)

ApiInv ==
    /\ TypeInv /\ PatchTypeOK /\ TopUpTypeOK
    /\ HeldInv
    /\ \A p \in TopUpRequests : TopUpSound(p)
    /\ \A p \in PatchRequests : PatchSound(p)

\* What everything but a transfer leaves to the transfers.
Beside == /\ UNCHANGED <<transferVars, transfers>>
          /\ DbTypeOK'
          /\ \A q \in TransferRequests : Undisturbed(q)

LEMMA ApiSteps ==
    ASSUME [ApiNext]_apiVars
    PROVE  \/ \E p \in TransferRequests : TransferStep(p) /\ UNCHANGED <<patchVars, topUpVars>>
           \/ \E p \in PatchRequests : PatchStep(p) /\ UNCHANGED <<transferVars, topUpVars>>
           \/ \E p \in TopUpRequests : TopUpStep(p) /\ UNCHANGED <<transferVars, patchVars>>
           \/ /\ \E a \in Accounts : \E currency \in Currencies : CreateAccount(a, currency)
              /\ UNCHANGED <<transferVars, patchVars, topUpVars>>
           \/ UNCHANGED apiVars
BY DEF ApiNext, TransferRuns, PatchRuns, TopUpRuns, TransferStep, PatchStep, TopUpStep

LEMMA TopUpKeepsTransfers ==
    ASSUME NEW p \in TopUpRequests, TopUpSound(p), TopUpStep(p)
    PROVE  UNCHANGED <<transfers, audit>>
<1>1. pend[p].transfers = {} /\ pend[p].audit = {}
  BY DEF TopUpSound, HasRaised
<1>2. CASE Commit(p)
  BY <1>1, <1>2 DEF Commit
<1>3. CASE UNCHANGED tables
  BY <1>3 DEF tables
<1> QED
  BY <1>2, <1>3, TopUpMovesAtCommit

LEMMA NoTransferIsBeside ==
    ASSUME ApiInv, [ApiNext]_apiVars, ~\E p \in TransferRequests : TransferStep(p)
    PROVE  Beside
<1> USE DEF ApiInv, HeldInv
<1>1. DbTypeOK
  BY DEF TypeInv, TypeOK
<1>2. ASSUME NEW p \in PatchRequests, PatchStep(p), UNCHANGED transferVars
      PROVE  Beside
  <2>1. \A q \in TransferRequests : q \in Sessions /\ q # p
    BY TransferAssumption, ApiAssumption
  <2>2. UNCHANGED transfers
    BY <1>2, PatchMoves DEF SetsStatus, dbVars, tables
  <2> QED
    BY <1>1, <1>2, <2>1, <2>2, PatchUndisturbs, PatchTyped DEF Beside
<1>3. ASSUME NEW p \in TopUpRequests, TopUpStep(p), UNCHANGED transferVars
      PROVE  Beside
  <2>1. \A q \in TransferRequests : q \in Sessions /\ q # p
    BY TransferAssumption, ApiAssumption
  <2> QED
    BY <1>1, <1>3, <2>1, TopUpUndisturbs, TopUpDbTyped, TopUpKeepsTransfers DEF Beside
<1>4. ASSUME NEW a \in Accounts, NEW currency \in Currencies, CreateAccount(a, currency),
             UNCHANGED transferVars
      PROVE  Beside
  BY <1>1, <1>4, CreateAccountRow DEF Beside, CreateAccount
<1>5. CASE UNCHANGED apiVars
  BY <1>1, <1>5 DEF Beside, Undisturbed, Isolated, DbTypeOK, TablesTypeOK, apiVars, dbVars, tables
<1> QED
  BY <1>2, <1>3, <1>4, <1>5, ApiSteps

LEMMA TypeInvBeside ==
    ASSUME TypeInv, Beside
    PROVE  TypeInv'
<1>1. TransferTypeOK'
  BY DEF TypeInv, TypeOK, Beside, transferVars, TransferTypeOK
<1>2. \A q \in TransferRequests : RequestSound(q)'
  BY SoundStays DEF TypeInv, Beside, transferVars
<1> QED
  BY <1>1, <1>2 DEF TypeInv, TypeOK, Beside

LEMMA HeldBeside ==
    ASSUME TypeInv, Beside, NEW q \in TransferRequests, HeldSound(q)
    PROVE  HeldSound(q)'
BY HeldSoundStays DEF Beside, SameRequest, transferVars

\* No account ever disappears.
LEMMA RowsRemain ==
    ASSUME ApiInv, [ApiNext]_apiVars, NEW a \in Accounts, accounts[a] # NoRow
    PROVE  accounts'[a] # NoRow
<1> USE DEF ApiInv
<1>1. DbTypeOK
  BY DEF TypeInv, TypeOK
<1>2. CASE UNCHANGED tables
  BY <1>2 DEF tables
<1>3. ASSUME NEW s \in Sessions, Commit(s)
      PROVE  accounts'[a] # NoRow
  BY <1>1, <1>3, CommitAppends
<1>4. ASSUME NEW p \in PatchRequests, PatchStep(p)
      PROVE  accounts'[a] # NoRow
  BY <1>1, <1>2, <1>4, PatchMoves, SetStatusRow DEF dbVars
<1>5. ASSUME NEW b \in Accounts, NEW currency \in Currencies, CreateAccount(b, currency)
      PROVE  accounts'[a] # NoRow
  BY <1>1, <1>5, CreateAccountRow
<1> QED
  BY <1>2, <1>3, <1>4, <1>5, ApiSteps, TablesMoveAtCommit, TopUpMovesAtCommit,
     TransferAssumption, TopUpAssumption DEF apiVars, dbVars

LEMMA ApiInvInit == ApiInit => ApiInv
<1> SUFFICES ASSUME ApiInit PROVE ApiInv
  OBVIOUS
<1>1. TypeInv
  BY TypeInvInit DEF ApiInit, Init
<1>2. HeldInv
  BY HeldInvInit DEF ApiInit
<1>3. PatchTypeOK /\ \A p \in PatchRequests : PatchSound(p)
  BY DEF ApiInit, PatchInit, PatchTypeOK, PatchSound
<1>4. TopUpTypeOK /\ \A p \in TopUpRequests : TopUpSound(p)
  BY TopUpAssumption
     DEF ApiInit, DbInit, TopUpInit, TopUpTypeOK, TopUpSound, HasRaised, Raising, Raised,
         NothingPending
<1> QED
  BY <1>1, <1>2, <1>3, <1>4 DEF ApiInv

LEMMA ApiInvStep ==
    ASSUME ApiInv, [ApiNext]_apiVars
    PROVE  ApiInv'
<1> USE DEF ApiInv
<1>1. DbTypeOK /\ TransferTypeOK
  BY DEF TypeInv, TypeOK
<1>2. TypeInv'
  <2>1. ASSUME NEW p \in TransferRequests, TransferStep(p) PROVE TypeInv'
    BY <2>1, TypeInvStep DEF Next
  <2> QED
    BY <2>1, NoTransferIsBeside, TypeInvBeside
<1>3. \A q \in TransferRequests : HeldSound(q)'
  <2>1. ASSUME NEW p \in TransferRequests, TransferStep(p)
        PROVE  \A q \in TransferRequests : HeldSound(q)'
    BY <2>1, HeldInvStep DEF HeldInv
  <2> QED
    BY <2>1, NoTransferIsBeside, HeldBeside DEF HeldInv
<1>4. NoOverdraft'
  <2>1. CASE \E p \in TransferRequests : TransferStep(p)
    BY <2>1, OverdraftStep DEF HeldInv
  <2>2. ASSUME NEW p \in PatchRequests, PatchStep(p)
        PROVE  NoOverdraft'
    <3>1. CASE UNCHANGED dbVars
      BY <3>1 DEF NoOverdraft, HeldInv, dbVars, tables
    <3>2. CASE SetsStatus(p)
      <4>1. /\ Target(p) \in Accounts /\ accounts[Target(p)] \in Row
            /\ accounts'[Target(p)] = [accounts[Target(p)] EXCEPT !.status = sReq[p].status]
            /\ \A a \in Accounts \ {Target(p)} : accounts'[a] = accounts[a]
        BY <1>1, <2>2, <3>2, SetStatusRow
      <4>2. accounts'[Target(p)].available = accounts[Target(p)].available
        BY <4>1 DEF Row
      <4> QED
        BY <4>1, <4>2 DEF NoOverdraft, HeldInv
    <3> QED
      BY <2>2, <3>1, <3>2, PatchMoves
  <2>3. CASE \E p \in TopUpRequests : TopUpStep(p)
    BY <1>1, <2>3, TopUpOverdraft DEF HeldInv
  <2>4. ASSUME NEW a \in Accounts, NEW currency \in Currencies, CreateAccount(a, currency)
        PROVE  NoOverdraft'
    BY <1>1, <2>4, CreateAccountRow DEF NoOverdraft, HeldInv
  <2>5. CASE UNCHANGED apiVars
    BY <2>5 DEF NoOverdraft, HeldInv, apiVars, dbVars, tables
  <2> QED
    BY <2>1, <2>2, <2>3, <2>4, <2>5, ApiSteps
<1>5. TopUpTypeOK' /\ \A q \in TopUpRequests : TopUpSound(q)'
  <2>1. ASSUME UNCHANGED topUpVars, NEW q \in TopUpRequests, Undisturbed(q)
        PROVE  TopUpSound(q)'
    BY <2>1, TopUpSoundStays DEF topUpVars
  <2>2. UNCHANGED topUpVars => TopUpTypeOK'
    BY DEF topUpVars, TopUpTypeOK
  <2>3. ASSUME NEW p \in TransferRequests, TransferStep(p), UNCHANGED topUpVars,
               NEW q \in TopUpRequests
        PROVE  TopUpSound(q)'
    BY <2>1, <2>3, OthersUndisturbed, ApiAssumption, TopUpAssumption DEF HeldInv
  <2>4. ASSUME NEW p \in PatchRequests, PatchStep(p), UNCHANGED topUpVars,
               NEW q \in TopUpRequests
        PROVE  TopUpSound(q)'
    BY <1>1, <2>1, <2>4, PatchUndisturbs, ApiAssumption, TopUpAssumption
  <2>5. ASSUME NEW a \in Accounts, NEW currency \in Currencies, CreateAccount(a, currency),
               UNCHANGED topUpVars, NEW q \in TopUpRequests
        PROVE  TopUpSound(q)'
    BY <1>1, <2>1, <2>5, CreateAccountRow
  <2>6. ASSUME NEW p \in TopUpRequests, TopUpStep(p)
        PROVE  TopUpTypeOK' /\ \A q \in TopUpRequests : TopUpSound(q)'
    <3>1. TopUpTypeOK' /\ TopUpSound(p)'
      BY <1>1, <2>6, TopUpTyped, TopUpSoundStep
    <3>2. ASSUME NEW q \in TopUpRequests, q # p
          PROVE  TopUpSound(q)'
      BY <1>1, <2>6, <3>2, OtherTopUps, TopUpUndisturbs, TopUpSoundStays, TopUpAssumption
    <3> QED
      BY <3>1, <3>2
  <2>7. CASE UNCHANGED apiVars
    BY <2>1, <2>2, <2>7 DEF apiVars, dbVars, tables, Undisturbed, Isolated
  <2> QED
    BY <2>2, <2>3, <2>4, <2>5, <2>6, <2>7, ApiSteps
<1>6. PatchTypeOK' /\ \A q \in PatchRequests : PatchSound(q)'
  <2>1. ASSUME NEW q \in PatchRequests, sPc'[q] = sPc[q], sReq'[q] = sReq[q]
        PROVE  PatchSound(q)'
    <3>1. sPc[q] # "idle" => Target(q) \in Accounts
      BY PatchBody DEF PatchSound
    <3> QED
      BY <2>1, <3>1, RowsRemain DEF PatchSound, Target
  <2>2. CASE UNCHANGED patchVars
    BY <2>1, <2>2 DEF patchVars, PatchTypeOK
  <2>3. ASSUME NEW p \in PatchRequests, PatchStep(p)
        PROVE  PatchTypeOK' /\ \A q \in PatchRequests : PatchSound(q)'
    BY <1>1, <2>1, <2>3, OtherPatches, PatchTyped, PatchSoundStep
  <2> QED
    BY <2>2, <2>3, ApiSteps DEF apiVars
<1> QED
  BY <1>2, <1>3, <1>4, <1>5, <1>6 DEF HeldInv

LEMMA ApiInvHolds == ApiSpec => []ApiInv
BY ApiInvInit, ApiInvStep, PTL DEF ApiSpec

\* Every variable of every endpoint keeps its type, and no value is ever wider
\* than its column (AccountRepository.ts:71).
THEOREM ApiTypes == ApiSpec => []ApiTypeOK
<1>1. ApiInv => ApiTypeOK
  BY DEF ApiInv, TypeInv, ApiTypeOK
<1> QED
  BY <1>1, ApiInvHolds, PTL

\* No account is overdrawn, whatever runs beside the transfers
\* (TransferService.ts:84).
THEOREM ApiNeverOverdrawn == ApiSpec => []NoOverdraft
<1>1. ApiInv => NoOverdraft
  BY DEF ApiInv, HeldInv
<1> QED
  BY <1>1, ApiInvHolds, PTL

\* A transfer is refused for what its accounts are, whatever a PATCH or a top-up
\* does between its two locks (TransferService.ts:61-86).
THEOREM ApiRefusalsAreForCause == ApiSpec => []RefusalsAreDue
<1>1. ApiInit => RefusalInv
  BY RefusalInvInit DEF ApiInit
<1>2. ApiInv /\ RefusalInv /\ [ApiNext]_apiVars => RefusalInv'
  <2> SUFFICES ASSUME ApiInv, RefusalInv, [ApiNext]_apiVars PROVE RefusalInv'
    OBVIOUS
  <2>1. ASSUME NEW p \in TransferRequests, TransferStep(p) PROVE RefusalInv'
    BY <2>1, RefusalInvStep DEF ApiInv
  <2>2. CASE Beside
    BY <2>2, RefusalStays DEF ApiInv, RefusalInv, Beside, SameRequest, transferVars
  <2> QED
    BY <2>1, <2>2, NoTransferIsBeside
<1>3. ApiInv /\ RefusalInv => RefusalsAreDue
  BY RowsRefused DEF ApiInv
<1> QED
  BY <1>1, <1>2, <1>3, ApiInvHolds, PTL DEF ApiSpec
-----------------------------------------------------------------------------
(***************************************************************************)
(* What the clients of transfers rely on, with everything else going on.   *)
(***************************************************************************)

ClientInv == /\ NothingHeldOutsideTransaction /\ UniqueConflictFindsWinner
             /\ ReferenceInv /\ AnswerInv /\ WaitInv

LEMMA ClientBeside ==
    ASSUME TypeInv, ClientInv, Beside
    PROVE  ClientInv'
<1>1. /\ UNCHANGED <<transferVars, transfers>>
      /\ \A q \in TransferRequests : Undisturbed(q) /\ Isolated(q) /\ pend'[q] = pend[q]
  BY DEF Beside, Undisturbed, Isolated
<1>2. NothingHeldOutsideTransaction'
  BY <1>1 DEF ClientInv, NothingHeldOutsideTransaction, Isolated, transferVars
<1>3. UniqueConflictFindsWinner'
  BY <1>1 DEF ClientInv, UniqueConflictFindsWinner, ReferenceTaken, transferVars
<1>4. ReferenceInv'
  <2>1. \A t \in transfers' : CreatorOver(t)'
    BY <1>1 DEF ClientInv, ReferenceInv, CreatorOver, transferVars
  <2>2. \A p \in TransferRequests : PendingSound(p)'
    BY <1>1 DEF ClientInv, ReferenceInv, PendingSound, NewTransfer, ReferenceTaken, transferVars
  <2> QED
    BY <1>1, <2>1, <2>2 DEF ClientInv, ReferenceInv, UniqueReference
<1>5. AnswerInv'
  BY <1>1, AnswerInvStays DEF ClientInv
<1>6. WaitInv'
  BY <1>1, WaitSoundStays DEF ClientInv, WaitInv, transferVars
<1> QED
  BY <1>2, <1>3, <1>4, <1>5, <1>6 DEF ClientInv

LEMMA ClientInvStep ==
    ASSUME ApiInv, ClientInv, [ApiNext]_apiVars
    PROVE  ClientInv'
<1>1. TypeInv
  BY DEF ApiInv
<1>2. ASSUME NEW p \in TransferRequests, TransferStep(p) PROVE ClientInv'
  <2>1. [Next]_vars
    BY <1>2 DEF Next
  <2>2. NothingHeldOutsideTransaction' /\ UniqueConflictFindsWinner'
    BY <1>1, <2>1, NothingHeldStep, WinnerStep DEF ClientInv
  <2>3. ReferenceInv' /\ AnswerInv' /\ WaitInv'
    BY <1>1, <1>2, ReferenceInvStep, AnswerInvStep, WaitInvStep DEF ClientInv
  <2> QED
    BY <2>2, <2>3 DEF ClientInv
<1> QED
  BY <1>1, <1>2, NoTransferIsBeside, ClientBeside

LEMMA ClientInvInit == ApiInit => ClientInv
<1> SUFFICES ASSUME DbInit, TransferInit PROVE ClientInv
  BY DEF ApiInit
<1>1. NothingHeldOutsideTransaction
  BY TablesAssumption, TransferAssumption DEF DbInit, TransferInit, NothingHeldOutsideTransaction
<1>2. UniqueConflictFindsWinner
  BY DEF TransferInit, UniqueConflictFindsWinner
<1>3. ReferenceInv
  BY TransferAssumption DEF DbInit, TablesInit, TransferInit, ReferenceInv, PendingSound,
                            UniqueReference, NothingPending
<1> QED
  BY <1>1, <1>2, <1>3, AnswerInvInit, WaitInvInit DEF ClientInv

LEMMA ClientInvHolds == ApiSpec => []ClientInv
BY ClientInvInit, ClientInvStep, ApiInvHolds, PTL DEF ApiSpec

\* Top-ups, status changes and new accounts take nothing away from what is
\* proved of transfers alone: references stay unique, answers stay true, and
\* every path of the catch block ends its transaction (TransferService.ts:153-174).
THEOREM ApiKeepsItsWord ==
    ApiSpec => [](/\ UniqueReference /\ SuccessIsDurable /\ RejectionLeavesNoTrace
                  /\ NothingHeldOutsideTransaction /\ UniqueConflictFindsWinner)
<1>1. ClientInv => /\ UniqueReference /\ SuccessIsDurable
                   /\ NothingHeldOutsideTransaction /\ UniqueConflictFindsWinner
  BY DEF ClientInv, ReferenceInv, AnswerInv
<1>2. ClientInv => RejectionLeavesNoTrace
  <2> SUFFICES ASSUME ClientInv, NEW p \in TransferRequests, tPc[p] = "done",
                      tOutcome[p].kind \notin {"COMPLETED", "INTERNAL_ERROR"},
                      NEW t \in transfers, t.id = p
               PROVE  FALSE
    BY DEF RejectionLeavesNoTrace
  <2> QED
    BY DEF ClientInv, ReferenceInv, CreatorOver
<1> QED
  BY <1>1, <1>2, ClientInvHolds, PTL

\* Nor do they close a circle of waits: a top-up and a PATCH wait for one row,
\* and hold none when they do (TestHelpersService.ts:33, AccountRepository.ts:52).
THEOREM ApiNeverDeadlocks == StoredSpellings /\ ApiSpec => []NoWaitCycle
<1>1. ApiInv => TypeInv
  BY DEF ApiInv
<1>2. ClientInv => WaitInv
  BY DEF ClientInv
<1>3. StoredSpellings => StoredSpellings'
  BY DEF StoredSpellings
<1> QED
  BY <1>1, <1>2, <1>3, ApiInvHolds, ClientInvHolds, WaitsAreOrdered, PTL
-----------------------------------------------------------------------------
(***************************************************************************)
(* Entries are written to ACTIVE accounts only.                            *)
(***************************************************************************)

\* A transfer has entries to commit only after its fourth write, for its own
\* two accounts.
OwnEntries(p) == \A a \in Accounts : pend[p].entries[a] = WrittenEntries(p, a)

LEMMA EntriesStay ==
    ASSUME NEW q \in TransferRequests, OwnEntries(q), SameRequest(q), Undisturbed(q)
    PROVE  OwnEntries(q)'
BY SameNames DEF OwnEntries, WrittenEntries, SameRequest, Undisturbed, Isolated

LEMMA EntriesStep ==
    ASSUME TypeInv, NEW p \in TransferRequests, OwnEntries(p), TransferStep(p)
    PROVE  OwnEntries(p)'
<1>1. /\ DbTypeOK /\ TransferTypeOK /\ p \in Sessions
      /\ pend \in [Sessions -> Pending] /\ pend[p] \in Pending
  BY TransferAssumption DEF TypeInv, TypeOK, DbTypeOK
<1>2. CASE WroteNothing(p)' /\ tPc'[p] \notin Entered
  BY <1>2 DEF OwnEntries, WroteNothing, WrittenEntries
<1>3. CASE pend'[p].entries = pend[p].entries /\ tPc[p] \notin Entered /\ tPc'[p] \notin Entered
  BY <1>3 DEF OwnEntries, WrittenEntries
<1>4. CASE tPc'[p] \notin Posting
  BY <1>2, <1>3, <1>4, OutsideStep DEF Entered, Posting
<1>5. /\ (\E t : pend' = [pend EXCEPT ![p].transfers = t]) => pend'[p].entries = pend[p].entries
      /\ (\E x : pend' = [pend EXCEPT ![p].audit = x]) => pend'[p].entries = pend[p].entries
      /\ (\E a, r : pend' = [pend EXCEPT ![p].rows[a] = r]) => pend'[p].entries = pend[p].entries
      /\ \A e : pend' = [pend EXCEPT ![p].entries = e] => pend'[p].entries = e
  BY <1>1 DEF Pending
<1> USE DEF TransferTypeOK, Goto, Entered, Posting
<1>6. CASE LockFirst(p) \/ (LockSecond(p) /\ tPc'[p] = "insert")
  BY <1>1, <1>3, <1>6 DEF LockFirst, LockSecond
<1>7. CASE InsertTransfer(p) /\ tPc'[p] = "debitRead"
  <2>1. tPc[p] = "insert" /\ \E t : pend' = [pend EXCEPT ![p].transfers = t]
    BY <1>1, <1>7 DEF InsertTransfer, StatementError, Throw
  <2> QED
    BY <1>3, <1>5, <1>7, <2>1
<1>8. CASE DebitRead(p) \/ CreditRead(p)
  BY <1>1, <1>3, <1>8 DEF DebitRead, CreditRead, ReadBalances, dbVars
<1>9. CASE (DebitWrite(p) /\ tPc'[p] = "creditRead") \/ (CreditWrite(p) /\ tPc'[p] = "entries")
  <2>1. /\ tPc[p] \in {"debitWrite", "creditWrite"} /\ tPc'[p] \in {"creditRead", "entries"}
        /\ \E a, r : pend' = [pend EXCEPT ![p].rows[a] = r]
    BY <1>1, <1>9 DEF DebitWrite, CreditWrite, WriteBalances, UpdateBalanceColumns, StatementError,
                      Throw
  <2> QED
    BY <1>3, <1>5, <2>1
<1>10. CASE InsertEntries(p) /\ tPc'[p] = "audit"
  <2> DEFINE e == [a \in Accounts |-> (IF a = Source(p) THEN <<Debit(p)>> ELSE <<>>)
                                      \o (IF a = Dest(p) THEN <<Credit(p)>> ELSE <<>>)]
  <2>1. pend' = [pend EXCEPT ![p].entries = e] /\ UNCHANGED <<tReq, tSeen>>
    BY <1>1, <1>10 DEF InsertEntries, StatementError, Throw, Source, Dest
  <2> HIDE DEF e
  <2>2. pend'[p].entries = e
    BY <1>5, <2>1
  <2>3. /\ Source(p)' = Source(p) /\ Dest(p)' = Dest(p)
        /\ Debit(p)' = Debit(p) /\ Credit(p)' = Credit(p)
    BY <2>1, SameNames
  <2> QED
    BY <1>10, <2>2, <2>3 DEF OwnEntries, WrittenEntries, e
<1>11. CASE InsertAudit(p)
  <2>1. /\ tPc[p] = "audit" /\ tPc'[p] = "commit" /\ UNCHANGED <<tReq, tSeen>>
        /\ \E x : pend' = [pend EXCEPT ![p].audit = x]
    BY <1>1, <1>11 DEF InsertAudit
  <2>2. pend'[p].entries = pend[p].entries
    BY <1>5, <2>1
  <2> QED
    BY <2>1, <2>2, SameNames DEF OwnEntries, WrittenEntries
<1> QED
  BY <1>1, <1>4, <1>6, <1>7, <1>8, <1>9, <1>10, <1>11, PostingPath

EntriesInv == \A p \in TransferRequests : OwnEntries(p)

LEMMA EntriesInvStep ==
    ASSUME ApiInv, EntriesInv, [ApiNext]_apiVars
    PROVE  EntriesInv'
<1> SUFFICES ASSUME NEW q \in TransferRequests PROVE OwnEntries(q)'
  BY DEF EntriesInv
<1>1. OwnEntries(q) /\ TypeInv /\ TransferTypeOK
  BY DEF EntriesInv, ApiInv, TypeInv, TypeOK
<1>2. CASE Beside
  BY <1>1, <1>2, EntriesStay DEF Beside, SameRequest, transferVars
<1>3. ASSUME NEW p \in TransferRequests, TransferStep(p) PROVE OwnEntries(q)'
  <2>1. CASE q = p
    BY <1>1, <1>3, <2>1, EntriesStep
  <2>2. CASE q # p
    <3>1. SameRequest(q)
      BY <1>1, <1>3, <2>2, OthersUntouched DEF SameRequest
    <3>2. Undisturbed(q)
      BY <1>1, <1>3, <2>2, OthersUndisturbed, TransferAssumption DEF ApiInv, HeldInv
    <3> QED
      BY <1>1, <3>1, <3>2, EntriesStay
  <2> QED
    BY <2>1, <2>2
<1> QED
  BY <1>2, <1>3, NoTransferIsBeside

LEMMA EntriesInvHolds == ApiSpec => []EntriesInv
<1>1. ApiInit => EntriesInv
  BY TransferAssumption DEF ApiInit, DbInit, TransferInit, EntriesInv, OwnEntries, WrittenEntries,
                            Entered, NothingPending
<1> QED
  BY <1>1, EntriesInvStep, ApiInvHolds, PTL DEF ApiSpec

\* A session that commits entries for an account found it ACTIVE, and still
\* holds its row.
LEMMA CommitIsActive ==
    ASSUME ApiInv, EntriesInv, [ApiNext]_apiVars, NEW a \in Accounts, ledger'[a] # ledger[a]
    PROVE  accounts[a].status = "ACTIVE" /\ accounts'[a].status = "ACTIVE"
<1>1. DbTypeOK
  BY DEF ApiInv, TypeInv, TypeOK
<1>2. ASSUME NEW s \in Sessions, Commit(s)
      PROVE  pend[s].entries[a] # <<>> /\ accounts'[a] = Visible(s, a)
  <2>1. ledger[a] \in Seq(Entry) /\ ledger'[a] = ledger[a] \o pend[s].entries[a]
    BY <1>1, <1>2 DEF DbTypeOK, TablesTypeOK, Commit
  <2>2. ledger[a] \o <<>> = ledger[a]
    BY <2>1, ConcatEmptySeq
  <2>3. accounts'[a] = Visible(s, a)
    BY <1>2 DEF Commit
  <2> QED
    BY <2>1, <2>2, <2>3
<1>3. ASSUME NEW p \in TransferRequests, TransferStep(p)
      PROVE  accounts[a].status = "ACTIVE" /\ accounts'[a].status = "ACTIVE"
  <2>1. tPc[p] = "commit" /\ Commit(p)
    BY <1>3, TablesMoveAtCommit DEF tables
  <2>2. pend[p].entries[a] # <<>> /\ accounts'[a] = Visible(p, a)
    BY <1>2, <2>1, TransferAssumption
  <2>3. a \in {Source(p), Dest(p)}
    <3> SUFFICES ASSUME a \notin {Source(p), Dest(p)} PROVE FALSE
      OBVIOUS
    <3>1. pend[p].entries[a] = <<>> \o <<>>
      BY <2>1 DEF EntriesInv, OwnEntries, WrittenEntries, Entered
    <3>2. <<>> \o <<>> = <<>>
      BY ConcatEmptySeq
    <3> QED
      BY <2>2, <3>1, <3>2
  <2>4. accounts[a].status = "ACTIVE"
    BY <2>1, <2>3, PostingKnows DEF ApiInv, HeldInv, Posting
  <2> QED
    BY <2>2, <2>4 DEF Visible, ApiInv, HeldInv, HeldSound
<1>4. ASSUME NEW p \in TopUpRequests, TopUpStep(p)
      PROVE  accounts[a].status = "ACTIVE" /\ accounts'[a].status = "ACTIVE"
  <2>1. uPc[p] = "commit" /\ Commit(p) /\ TopUpSound(p)
    BY <1>4, TopUpMovesAtCommit DEF tables, ApiInv
  <2>2. pend[p].entries[a] # <<>> /\ accounts'[a] = Visible(p, a)
    BY <1>2, <2>1, TopUpAssumption
  <2>3. a = Topped(p)
    BY <2>1, <2>2 DEF TopUpSound, HasRaised
  <2>4. accounts[a] = uSeen[p] /\ uSeen[p] \in Row /\ uSeen[p].status = "ACTIVE"
    BY <2>1, <2>3 DEF TopUpSound, Raising
  <2>5. accounts'[a] = RaisedRow(p) \/ accounts'[a] = accounts[a]
    BY <2>1, <2>2, <2>3 DEF TopUpSound, HasRaised, Raised, Visible
  <2> QED
    BY <2>4, <2>5 DEF RaisedRow, Row
<1>5. ASSUME NEW p \in PatchRequests, PatchStep(p)
      PROVE  FALSE
  BY <1>5, PatchMoves DEF ApiInv, SetsStatus, dbVars, tables
<1>6. ASSUME NEW b \in Accounts, NEW currency \in Currencies, CreateAccount(b, currency)
      PROVE  FALSE
  BY <1>6 DEF CreateAccount
<1> QED
  BY <1>3, <1>4, <1>5, <1>6, ApiSteps DEF apiVars, dbVars, tables

\* Whatever a PATCH does between the check and the commit, money moves only on
\* accounts that are ACTIVE when it moves, and leaves them ACTIVE
\* (TransferService.ts:72-77, TestHelpersService.ts:36).
THEOREM ApiMovesActiveAccounts == ApiSpec => OnlyActiveAccountsMove
<1>1. ApiInv /\ EntriesInv /\ [ApiNext]_apiVars =>
         [\A a \in Accounts : ledger'[a] # ledger[a] =>
              accounts[a].status = "ACTIVE" /\ accounts'[a].status = "ACTIVE"]_tables
  BY CommitIsActive
<1> QED
  BY <1>1, ApiInvHolds, EntriesInvHolds, PTL DEF ApiSpec, OnlyActiveAccountsMove

\* No step of any endpoint changes or removes what is committed
\* (README.md:240).
THEOREM ApiAppends == ApiSpec => AppendOnly
<1>1. ApiInv /\ [ApiNext]_apiVars =>
         [/\ transfers \subseteq transfers'
          /\ audit \subseteq audit'
          /\ \A a \in Accounts :
                /\ Len(ledger[a]) <= Len(ledger'[a])
                /\ \A i \in 1..Len(ledger[a]) : ledger'[a][i] = ledger[a][i]
                /\ accounts[a] # NoRow => accounts'[a] # NoRow]_tables
  <2> SUFFICES ASSUME ApiInv, [ApiNext]_apiVars
               PROVE  /\ transfers \subseteq transfers'
                      /\ audit \subseteq audit'
                      /\ \A a \in Accounts :
                            /\ Len(ledger[a]) <= Len(ledger'[a])
                            /\ \A i \in 1..Len(ledger[a]) : ledger'[a][i] = ledger[a][i]
                            /\ accounts[a] # NoRow => accounts'[a] # NoRow
    OBVIOUS
  <2>1. DbTypeOK
    BY DEF ApiInv, TypeInv, TypeOK
  <2>2. (\E s \in Sessions : Commit(s)) \/ UNCHANGED <<transfers, ledger, audit>>
    <3>1. ASSUME NEW p \in PatchRequests, PatchStep(p) PROVE UNCHANGED <<transfers, ledger, audit>>
      BY <3>1, PatchMoves DEF ApiInv, SetsStatus, dbVars, tables
    <3> QED
      BY <3>1, ApiSteps, TablesMoveAtCommit, TopUpMovesAtCommit, TransferAssumption,
         TopUpAssumption DEF CreateAccount, apiVars, dbVars, tables
  <2>3. CASE \E s \in Sessions : Commit(s)
    BY <2>1, <2>3, CommitAppends
  <2>4. CASE UNCHANGED <<transfers, ledger, audit>>
    <3>1. \A a \in Accounts : Len(ledger[a]) \in Nat
      BY <2>1, LenProperties DEF DbTypeOK, TablesTypeOK
    <3> QED
      BY <2>4, <3>1, RowsRemain
  <2> QED
    BY <2>2, <2>3, <2>4
<1> QED
  BY <1>1, ApiInvHolds, PTL DEF ApiSpec, AppendOnly
-----------------------------------------------------------------------------
(***************************************************************************)
(* The API is the bank.  A transfer or a top-up happens at its COMMIT, a   *)
(* status change and a new account at their one statement.                 *)
(***************************************************************************)

\* The amounts of the top-ups are ones a column keeps unchanged.
WholeTopUps == \A r \in TopUps : IsWhole(r.amount)

Full == INSTANCE AtomicBankProofs WITH
    Orders <- {OrderOf(b) : b \in Bodies},
    TopUpOrders <- {[account |-> Uuid[r.id], amount |-> r.amount] : r \in TopUps},
    StatusOrders <- {[account |-> Uuid[r.id], status |-> r.status] : r \in Patches}

LEMMA ApiPostingStep ==
    ASSUME PlainBodies, ApiInv, PostingInv, [ApiNext]_apiVars
    PROVE  PostingInv'
<1>1. TypeInv /\ HeldInv
  BY DEF ApiInv
<1>2. ASSUME NEW p \in TransferRequests, TransferStep(p) PROVE PostingInv'
  BY <1>1, <1>2, PostingInvStep
<1>3. CASE Beside
  BY <1>1, <1>3, PostingSoundStays DEF Beside, PostingInv, HeldInv, SameRequest, transferVars
<1> QED
  BY <1>2, <1>3, NoTransferIsBeside

LEMMA ApiPostingHolds == PlainBodies /\ ApiSpec => []PostingInv
<1>1. ApiInit => PostingInv
  BY PostingInvInit DEF ApiInit
<1>2. PlainBodies => PlainBodies'
  BY DEF PlainBodies, ApartSpellings, WholeAmounts
<1> QED
  BY <1>1, <1>2, ApiPostingStep, ApiInvHolds, PTL DEF ApiSpec

LEMMA TransferIsMove ==
    ASSUME PlainBodies, ApiInv, ReferenceInv, PostingInv, NEW p \in TransferRequests,
           TransferStep(p)
    PROVE  \/ UNCHANGED tables
           \/ \E id \in Sessions : \E o \in {OrderOf(b) : b \in Bodies} : Full!Move(id, o)
<1>1. \A id, o : Books!Move(id, o) => Full!Move(id, o)
  BY DEF Books!Move, Books!RulesAllow, Books!Holds, Books!Adjusted, Full!Move, Full!RulesAllow,
         Full!Holds, Full!Adjusted
<1> QED
  BY <1>1, StepIsMove DEF ApiInv

LEMMA CommitIsTopUp ==
    ASSUME WholeTopUps, ApiInv, NEW p \in TopUpRequests, uPc[p] = "commit", Commit(p)
    PROVE  \E u \in {[account |-> Uuid[r.id], amount |-> r.amount] : r \in TopUps} : Full!TopUp(u)
<1> DEFINE a == Topped(p)
           amount == uReq[p].amount
           u == [account |-> a, amount |-> amount]
           e == [transfer |-> None, type |-> "CREDIT", amount |-> amount,
                 balance_after |-> accounts[a].available + amount]
<1>1. TopUpSound(p) /\ DbTypeOK /\ p \in Sessions /\ uReq[p] \in TopUps
  BY TopUpAssumption DEF ApiInv, TypeInv, TypeOK, TopUpSound
<1>2. a \in Accounts /\ amount \in Nat /\ IsWhole(amount)
  BY <1>1, TopUpBody DEF WholeTopUps
<1>3. accounts[a] = uSeen[p] /\ accounts[a] \in Row /\ accounts[a].status = "ACTIVE"
  BY <1>1 DEF TopUpSound, Raising
<1>4. /\ accounts[a].available \in Int /\ accounts[a].ledger \in Int
      /\ IsWhole(accounts[a].available + amount) /\ IsWhole(accounts[a].ledger + amount)
  BY <1>2, <1>3 DEF Row, Column, IsWhole, Quantum
<1>5. /\ ToNumeric(accounts[a].available + amount) = accounts[a].available + amount
      /\ ToNumeric(accounts[a].ledger + amount) = accounts[a].ledger + amount
      /\ ToNumeric(amount) = amount
  BY <1>2, <1>4, WholeIsExact
<1>6. RaisedRow(p) = Full!Adjusted(a, amount) /\ TopUpEntry(p) = e
  BY <1>3, <1>5 DEF RaisedRow, TopUpEntry, Full!Adjusted
<1>7. /\ pend[p].rows[a] = Full!Adjusted(a, amount) /\ pend[p].entries[a] = <<e>>
      /\ \A b \in Accounts \ {a} : pend[p].rows[b] = NoRow /\ pend[p].entries[b] = <<>>
      /\ pend[p].transfers = {} /\ pend[p].audit = {}
  BY <1>1, <1>2, <1>6 DEF TopUpSound, HasRaised, Raised
<1>8. /\ Full!Adjusted(a, amount).available = accounts[a].available + amount
      /\ Full!Adjusted(a, amount).ledger = accounts[a].ledger + amount
      /\ Full!Adjusted(a, amount) # NoRow
  BY <1>3 DEF Full!Adjusted, Row, NoRow
<1>9. Full!Adjusted(a, amount) \in Row
  BY <1>1, <1>2, <1>7, <1>8 DEF DbTypeOK, Pending
<1>10. Full!Holds(a, amount)
  BY <1>8, <1>9 DEF Full!Holds, Row, Column
<1>11. accounts' = [accounts EXCEPT ![a] = Full!Adjusted(a, amount)]
  <2>1. /\ accounts' = [b \in Accounts |-> Visible(p, b)]
        /\ accounts \in [Accounts -> Row \cup {NoRow}]
    BY <1>1 DEF Commit, DbTypeOK, TablesTypeOK
  <2>2. Visible(p, a) = Full!Adjusted(a, amount)
        /\ \A b \in Accounts \ {a} : Visible(p, b) = accounts[b]
    BY <1>7, <1>8 DEF Visible
  <2> QED
    BY <1>2, <2>1, <2>2
<1>12. ledger' = [ledger EXCEPT ![a] = Append(@, e)]
  <2>1. /\ ledger \in [Accounts -> Seq(Entry)] /\ pend[p].entries \in [Accounts -> Seq(Entry)]
        /\ ledger' = [b \in Accounts |-> ledger[b] \o pend[p].entries[b]]
    BY <1>1 DEF DbTypeOK, TablesTypeOK, Pending, Commit
  <2>2. e \in Entry
    <3>1. <<e>> \in Seq(Entry) /\ Len(<<e>>) = 1 /\ <<e>>[1] = e
      BY <1>2, <1>7, <2>1
    <3> QED
      BY <3>1, ElementOfSeq
  <2>3. ledger'[a] = Append(ledger[a], e)
        /\ \A b \in Accounts \ {a} : ledger'[b] = ledger[b]
    <3> HIDE DEF e
    <3>1. ledger[a] \in Seq(Entry) /\ ledger[a] \o <<e>> = Append(ledger[a], e)
      BY <1>2, <2>1, <2>2, AppendIsConcat
    <3>2. ASSUME NEW b \in Accounts \ {a} PROVE ledger'[b] = ledger[b]
      <4>1. ledger'[b] = ledger[b] \o <<>> /\ ledger[b] \in Seq(Entry)
        BY <1>7, <2>1
      <4> QED
        BY <4>1, ConcatEmptySeq
    <3> QED
      BY <1>2, <1>7, <2>1, <3>1, <3>2
  <2> QED
    BY <1>2, <2>1, <2>3
<1>13. transfers' = transfers /\ audit' = audit
  BY <1>7 DEF Commit
<1> HIDE DEF a, amount
<1>14. Full!TopUp(u)
  BY <1>3, <1>10, <1>11, <1>12, <1>13 DEF Full!TopUp
<1>15. u \in {[account |-> Uuid[r.id], amount |-> r.amount] : r \in TopUps}
  BY <1>1 DEF a, amount, Topped
<1> QED
  BY <1>14, <1>15

LEMMA ApiStepIsBank ==
    ASSUME PlainBodies, WholeTopUps, ApiInv, ReferenceInv, PostingInv, [ApiNext]_apiVars
    PROVE  [Full!BankNext]_(Full!tables)
<1>1. CASE UNCHANGED tables
  BY <1>1 DEF tables, Full!tables
<1>2. ASSUME NEW p \in TransferRequests, TransferStep(p) PROVE [Full!BankNext]_(Full!tables)
  BY <1>1, <1>2, TransferIsMove DEF Full!BankNext
<1>3. ASSUME NEW p \in TopUpRequests, TopUpStep(p) PROVE [Full!BankNext]_(Full!tables)
  BY <1>1, <1>3, TopUpMovesAtCommit, CommitIsTopUp DEF Full!BankNext
<1>4. ASSUME NEW p \in PatchRequests, PatchStep(p) PROVE [Full!BankNext]_(Full!tables)
  <2>1. CASE UNCHANGED dbVars
    BY <1>1, <2>1 DEF dbVars
  <2>2. CASE SetsStatus(p)
    <3>1. accounts[Target(p)] # NoRow /\ sReq[p] \in Patches
      BY <2>2 DEF SetsStatus, ApiInv, PatchSound
    <3> DEFINE r == [account |-> Target(p), status |-> sReq[p].status]
    <3>2. r \in {[account |-> Uuid[q.id], status |-> q.status] : q \in Patches}
      BY <3>1 DEF Target
    <3>3. Full!SetStatus(r.account, r.status)
      BY <2>2, <3>1 DEF SetsStatus, Full!SetStatus, NoRow, Full!NoRow
    <3> QED
      BY <3>2, <3>3 DEF Full!BankNext
  <2> QED
    BY <1>4, <2>1, <2>2, PatchMoves DEF ApiInv
<1>5. ASSUME NEW a \in Accounts, NEW currency \in Currencies, CreateAccount(a, currency)
      PROVE  [Full!BankNext]_(Full!tables)
  BY <1>5 DEF CreateAccount, Full!Open, Full!BankNext, NoRow, Full!NoRow
<1> QED
  BY <1>1, <1>2, <1>3, <1>4, <1>5, ApiSteps DEF apiVars, dbVars

LEMMA FullAssumptions ==
    PlainBodies /\ WholeTopUps =>
        Full!BankAssumption /\ Full!TablesAssumption /\ Full!MaxNumericAssumption
<1> SUFFICES ASSUME PlainBodies, WholeTopUps
             PROVE  Full!BankAssumption /\ Full!TablesAssumption /\ Full!MaxNumericAssumption
  OBVIOUS
<1>1. \A b \in Bodies : OrderOf(b) \in Full!Order
  BY BooksAssumptions DEF Books!BankAssumption, Books!Order, Books!Amount, Books!IsWhole,
     Books!Quantum, Full!Order, Full!Amount, Full!IsWhole, Full!Quantum
<1>2. \A r \in TopUps : [account |-> Uuid[r.id], amount |-> r.amount]
                            \in [account : Accounts, amount : Full!Amount]
  BY TopUpAssumption, HandlersAssumption
     DEF WholeTopUps, Full!Amount, IsWhole, Full!IsWhole, Quantum, Full!Quantum
<1>3. \A r \in Patches : [account |-> Uuid[r.id], status |-> r.status]
                            \in [account : Accounts, status : Full!Statuses]
  BY PatchAssumption, HandlersAssumption DEF Statuses, Full!Statuses
<1>4. Full!BankAssumption
  BY <1>1, <1>2, <1>3 DEF Full!BankAssumption
<1>5. Full!TablesAssumption /\ Full!MaxNumericAssumption
  BY TablesAssumption, MaxNumericAssumption
     DEF IsFiniteSet, Full!IsFiniteSet, Full!TablesAssumption,
         Full!MaxNumericAssumption, Row, NoRow, Column, Statuses, IsWhole,
         Quantum, Full!Row, Full!NoRow, Full!Column, Full!Statuses, Full!IsWhole, Full!Quantum
<1> QED
  BY <1>4, <1>5

LEMMA ApiIsBank == PlainBodies /\ WholeTopUps /\ ApiSpec => Full!BankSpec
<1>1. ApiInit => Full!TablesInit
  BY DEF ApiInit, DbInit, TablesInit, Full!TablesInit, OpeningEntry, Full!OpeningEntry, NoRow,
         Full!NoRow
<1>2. PlainBodies /\ WholeTopUps /\ ApiInv /\ ReferenceInv /\ PostingInv /\ [ApiNext]_apiVars
         => [Full!BankNext]_(Full!tables)
  BY ApiStepIsBank
<1>3. PlainBodies /\ WholeTopUps => (PlainBodies /\ WholeTopUps)'
  BY DEF PlainBodies, ApartSpellings, WholeAmounts, WholeTopUps
<1>4. ClientInv => ReferenceInv
  BY DEF ClientInv
<1> QED
  BY <1>1, <1>2, <1>3, <1>4, ApiInvHolds, ClientInvHolds, ApiPostingHolds, PTL
     DEF ApiSpec, Full!BankSpec

\* Whatever requests of every kind are under way, and whatever fails, the
\* tables change as if each transfer, top-up, status change and new account
\* happened in one step (TransferService.ts:54-151, TestHelpersService.ts:30-52,
\* AccountRepository.ts:50-53).
THEOREM ApiIsAtomic == PlainBodies /\ WholeTopUps /\ ApiSpec => ImplementsAtomicBank
<1>1. Full!TablesInit <=> Bank!TablesInit
  BY DEF Full!TablesInit, Bank!TablesInit, Full!OpeningEntry, Bank!OpeningEntry, Full!NoRow,
         Bank!NoRow
<1>2. Full!BankNext => Bank!BankNext
  <2>1. \A id, o : Full!Move(id, o) => Bank!Move(id, o)
    BY DEF Full!Move, Full!RulesAllow, Full!Holds, Full!Adjusted, Bank!Move, Bank!RulesAllow,
           Bank!Holds, Bank!Adjusted
  <2>2. \A u : Full!TopUp(u) => Bank!TopUp(u)
    BY DEF Full!TopUp, Full!Holds, Full!Adjusted, Bank!TopUp, Bank!Holds, Bank!Adjusted
  <2>3. \A a, x : Full!SetStatus(a, x) => Bank!SetStatus(a, x)
    BY DEF Full!SetStatus, Bank!SetStatus, Full!NoRow, Bank!NoRow
  <2>4. \A a, x : Full!Open(a, x) => Bank!Open(a, x)
    BY DEF Full!Open, Bank!Open, Full!NoRow, Bank!NoRow
  <2> QED
    BY <2>1, <2>2, <2>3, <2>4 DEF Full!BankNext, Bank!BankNext, OrderOf
<1>3. UNCHANGED Full!tables => UNCHANGED Bank!tables
  BY DEF Full!tables, Bank!tables
<1> QED
  BY <1>1, <1>2, <1>3, ApiIsBank, PTL DEF ImplementsAtomicBank, Full!BankSpec, Bank!BankSpec

\* Every promise of the tables holds in every state of the API.
THEOREM ApiKeepsTheBooks ==
    PlainBodies /\ WholeTopUps /\ ApiSpec =>
        [](/\ BalanceMatchesLedger /\ LedgerChain /\ DoubleEntry
           /\ AuditAgreesWithLedger /\ NoOverdraft)
<1>1. PlainBodies /\ WholeTopUps => (Full!BankSpec => []Full!BankInv)
  BY FullAssumptions, Full!BankCorrect
<1>2. Full!BankInv => /\ BalanceMatchesLedger /\ LedgerChain /\ DoubleEntry
                      /\ AuditAgreesWithLedger /\ NoOverdraft
  BY DEF Full!BankInv, BalanceMatchesLedger, LastBalance, LedgerChain, BalanceBefore, DoubleEntry,
         HasEntry, AuditAgreesWithLedger, NoOverdraft, Full!BalanceMatchesLedger, Full!LastBalance,
         Full!LedgerChain, Full!BalanceBefore, Full!DoubleEntry, Full!HasEntry,
         Full!AuditAgreesWithLedger, Full!NoOverdraft
<1> QED
  BY <1>1, <1>2, ApiIsBank, PTL

\* No money comes into being or is lost in the API either: the balances add up
\* to what the seeder and the top-ups have credited (TransferService.ts:101-135,
\* TestHelpersService.ts:39-44).
THEOREM ApiMoneyIsIssued == PlainBodies /\ WholeTopUps /\ ApiSpec => []DepositsAreIssued
<1>1. PlainBodies /\ WholeTopUps => (Full!BankSpec => []Full!DepositsAreIssued)
  BY FullAssumptions, Full!BankMoneyIsIssued
<1>2. Full!DepositsAreIssued => DepositsAreIssued
  BY DEF Full!DepositsAreIssued, Full!Deposits, Full!Issued, Full!SumFunction,
         Full!SumFunctionOnSet, Full!FoldFunctionOnSet, Full!MapThenFoldSet, DepositsAreIssued,
         Deposits, Issued, SumFunction, SumFunctionOnSet, FoldFunctionOnSet, MapThenFoldSet
<1> QED
  BY <1>1, <1>2, ApiIsBank, PTL
-----------------------------------------------------------------------------
(***************************************************************************)
(* The answers of a PATCH and of a transfer that is refused.               *)
(***************************************************************************)

\* Only a PATCH changes the status of an account: a COMMIT writes back the one
\* it read under its lock.
LEMMA StatusStays ==
    ASSUME ApiInv, [ApiNext]_apiVars, NEW a \in Accounts, accounts[a] # NoRow,
           \A p \in PatchRequests : SetsStatus(p) => Target(p) # a
    PROVE  accounts'[a].status = accounts[a].status
<1> USE DEF ApiInv
<1>1. DbTypeOK
  BY DEF TypeInv, TypeOK
<1>2. CASE UNCHANGED tables
  BY <1>2 DEF tables
<1>3. ASSUME NEW p \in TransferRequests, Commit(p)
      PROVE  accounts'[a].status = accounts[a].status
  BY <1>3 DEF Commit, Visible, HeldInv, HeldSound
<1>4. ASSUME NEW p \in TopUpRequests, uPc[p] = "commit", Commit(p)
      PROVE  accounts'[a].status = accounts[a].status
  <2>1. accounts'[a] = Visible(p, a)
    BY <1>4 DEF Commit
  <2>2. CASE a = Topped(p)
    <3>1. accounts[a] = uSeen[p] /\ uSeen[p] \in Row /\ pend[p].rows[a] = RaisedRow(p)
      BY <1>4, <2>2 DEF TopUpSound, HasRaised, Raising, Raised
    <3>2. RaisedRow(p).status = uSeen[p].status
      BY <3>1 DEF RaisedRow, Row
    <3> QED
      BY <2>1, <3>1, <3>2 DEF Visible
  <2>3. CASE a # Topped(p)
    <3>1. HasRaised(p)
      BY DEF TopUpSound
    <3>2. pend[p].rows[a] = NoRow
      BY <2>3, <3>1 DEF HasRaised
    <3> QED
      BY <2>1, <3>2 DEF Visible
  <2> QED
    BY <2>2, <2>3
<1>5. ASSUME NEW p \in PatchRequests, PatchStep(p)
      PROVE  accounts'[a].status = accounts[a].status
  BY <1>1, <1>2, <1>5, PatchMoves, SetStatusRow DEF dbVars
<1>6. ASSUME NEW b \in Accounts, NEW currency \in Currencies, CreateAccount(b, currency)
      PROVE  accounts'[a].status = accounts[a].status
  BY <1>1, <1>6, CreateAccountRow
<1> QED
  BY <1>2, <1>3, <1>4, <1>5, <1>6, ApiSteps, TablesMoveAtCommit, TopUpMovesAtCommit
     DEF apiVars, dbVars

\* Some PATCH whose UPDATE may have run asked to give a this status.
PatchedTo(a, status) ==
    \E q \in PatchRequests : /\ sPc[q] \in {"reread"} \cup Answered
                             /\ Target(q) = a /\ status = sReq[q].status

Shown == Statuses \cup {"ABSENT"}

\* What a PATCH is about to read, and what one has answered, some PATCH has set.
PatchedInv ==
    \A p \in PatchRequests :
        /\ sOutcome[p].kind = "OK" => sPc[p] # "idle"
        /\ \A a \in Accounts, status \in Shown :
              /\ sPc[p] = "reread" /\ Target(p) = a /\ accounts[a].status = status
                    => PatchedTo(a, status)
              /\ sOutcome[p].kind = "OK" /\ Target(p) = a /\ sOutcome[p].status = status
                    => PatchedTo(a, status)

LEMMA PatchKeepsBody ==
    ASSUME PatchTypeOK, NEW p \in PatchRequests, PatchStep(p)
    PROVE  /\ sPc[p] # "idle" => sReq'[p] = sReq[p]
           /\ sPc[p] \in {"reread"} \cup Answered => sPc'[p] \in Answered
           /\ sPc'[p] # "idle" /\ sPc[p] \notin Answered
           /\ sPc'[p] = "reread" => SetsStatus(p)
           /\ sOutcome'[p] = sOutcome[p] \/ sOutcome'[p].kind # "OK"
                \/ (/\ sPc[p] = "reread" /\ sReq'[p] = sReq[p]
                    /\ sOutcome'[p].status = accounts[Target(p)].status)
<1> USE DEF PatchTypeOK, PatchGoto, PatchAnswer, Answered
<1>1. CASE ReceivePatch(p) \/ FindAccount(p) \/ SendUpdate(p)
  BY <1>1 DEF ReceivePatch, FindAccount, SendUpdate
<1>2. CASE UpdateStatus(p)
  BY <1>2 DEF UpdateStatus, SetsStatus
<1>3. CASE Reread(p) \/ PatchFault(p)
  BY <1>3 DEF Reread, PatchFault, PatchFails, PatchCrash
<1> QED
  BY <1>1, <1>2, <1>3 DEF PatchStep, PatchProgress

\* A PATCH that has set a status has set it for ever.
LEMMA PatchedStays ==
    ASSUME ApiInv, [ApiNext]_apiVars, NEW a, NEW status, PatchedTo(a, status)
    PROVE  PatchedTo(a, status)'
<1>1. PICK q \in PatchRequests : /\ sPc[q] \in {"reread"} \cup Answered
                                 /\ Target(q) = a /\ status = sReq[q].status
  BY DEF PatchedTo
<1>2. CASE UNCHANGED patchVars
  BY <1>1, <1>2 DEF PatchedTo, Target, patchVars
<1>3. ASSUME NEW p \in PatchRequests, PatchStep(p)
      PROVE  sPc'[q] \in {"reread"} \cup Answered /\ sReq'[q] = sReq[q]
  <2>1. PatchTypeOK
    BY DEF ApiInv
  <2> QED
    BY <1>1, <1>3, <2>1, PatchKeepsBody, OtherPatches DEF Answered
<1> QED
  BY <1>1, <1>2, <1>3, ApiSteps DEF apiVars, PatchedTo, Target

\* The status of an account some PATCH has set is again one some PATCH has set.
LEMMA StatusIsPatched ==
    ASSUME ApiInv, [ApiNext]_apiVars, NEW a \in Accounts, NEW status, accounts[a] # NoRow,
           accounts'[a].status = status,
           \/ PatchedTo(a, status) \/ accounts[a].status # status
           \/ \E p \in PatchRequests : SetsStatus(p) /\ Target(p) = a
    PROVE  PatchedTo(a, status)'
<1>1. DbTypeOK
  BY DEF ApiInv, TypeInv, TypeOK
<1>2. ASSUME NEW p \in PatchRequests, SetsStatus(p), Target(p) = a
      PROVE  PatchedTo(a, status)'
  <2>1. accounts[a] \in Row /\ accounts'[a] = [accounts[a] EXCEPT !.status = sReq[p].status]
    BY <1>1, <1>2, SetStatusRow DEF ApiInv
  <2>2. status = sReq'[p].status
    BY <1>2, <2>1 DEF SetsStatus, Row
  <2>3. sPc'[p] = "reread" /\ Target(p)' = a
    BY <1>2 DEF SetsStatus, Target
  <2> QED
    BY <2>2, <2>3 DEF PatchedTo
<1>3. CASE ~\E p \in PatchRequests : SetsStatus(p) /\ Target(p) = a
  <2>1. accounts'[a].status = accounts[a].status
    BY <1>3, StatusStays
  <2> QED
    BY <1>3, <2>1, PatchedStays
<1> QED
  BY <1>2, <1>3

LEMMA PatchedInvStep ==
    ASSUME ApiInv, PatchedInv, [ApiNext]_apiVars
    PROVE  PatchedInv'
<1> SUFFICES ASSUME NEW p \in PatchRequests
             PROVE  /\ sOutcome'[p].kind = "OK" => sPc'[p] # "idle"
                    /\ \A a \in Accounts, status \in Shown :
                          /\ sPc'[p] = "reread" /\ Target(p)' = a /\ accounts'[a].status = status
                                => PatchedTo(a, status)'
                          /\ (/\ sOutcome'[p].kind = "OK" /\ Target(p)' = a
                              /\ sOutcome'[p].status = status) => PatchedTo(a, status)'
  BY DEF PatchedInv
<1>1. PatchTypeOK /\ PatchSound(p) /\ (sOutcome[p].kind = "OK" => sPc[p] # "idle")
  BY DEF ApiInv, PatchedInv
<1>2. PatchStep(p) \/ (sPc'[p] = sPc[p] /\ sReq'[p] = sReq[p] /\ sOutcome'[p] = sOutcome[p])
  BY <1>1, OtherPatches, ApiSteps DEF patchVars, apiVars
<1>3. sOutcome'[p].kind = "OK" => sPc'[p] # "idle"
  BY <1>1, <1>2, PatchKeepsBody
<1>4. ASSUME NEW a \in Accounts, NEW status \in Shown,
             sPc'[p] = "reread", Target(p)' = a, accounts'[a].status = status
      PROVE  PatchedTo(a, status)'
  <2>1. SetsStatus(p) \/ (sPc[p] = "reread" /\ sReq'[p] = sReq[p])
    BY <1>1, <1>2, <1>4, PatchKeepsBody
  <2>2. Target(p) = a /\ sPc[p] # "idle" /\ accounts[a] # NoRow
    BY <1>1, <1>4, <2>1 DEF SetsStatus, Target, PatchSound
  <2>3. SetsStatus(p) \/ (accounts[a].status = status => PatchedTo(a, status))
    BY <2>1, <2>2 DEF PatchedInv
  <2> QED
    BY <1>4, <2>2, <2>3, StatusIsPatched
<1>5. ASSUME NEW a \in Accounts, NEW status \in Shown,
             sOutcome'[p].kind = "OK", Target(p)' = a, sOutcome'[p].status = status
      PROVE  PatchedTo(a, status)'
  <2>1. \/ sOutcome'[p] = sOutcome[p] /\ sPc[p] # "idle"
        \/ sPc[p] = "reread" /\ status = accounts[Target(p)].status
    BY <1>1, <1>2, <1>5, PatchKeepsBody
  <2>2. Target(p) = a
    BY <1>1, <1>2, <1>5, <2>1, PatchKeepsBody DEF Target
  <2>3. PatchedTo(a, status)
    BY <1>5, <2>1, <2>2 DEF PatchedInv
  <2> QED
    BY <2>3, PatchedStays
<1> QED
  BY <1>3, <1>4, <1>5

\* A client that is told its status change worked is shown a status that was
\* asked for: a transfer that held the row meanwhile does not bring the old one
\* back (AccountRepository.ts:50-53).
THEOREM PatchesLast == ApiSpec => []PatchShowsSetStatus
<1>1. ApiInit => PatchedInv
  BY DEF ApiInit, PatchInit, PatchedInv
<1>2. ApiInv /\ PatchedInv => PatchShowsSetStatus
  <2> SUFFICES ASSUME ApiInv, PatchedInv, NEW p \in PatchRequests, sOutcome[p].kind = "OK"
               PROVE  PatchedTo(Target(p), sOutcome[p].status)
    BY DEF PatchShowsSetStatus, PatchedTo
  <2>1. sOutcome[p].status \in Shown /\ Target(p) \in Accounts
    BY PatchBody DEF ApiInv, PatchTypeOK, PatchSound, PatchedInv, Shown
  <2> QED
    BY <2>1 DEF PatchedInv
<1> QED
  BY <1>1, <1>2, PatchedInvStep, ApiInvHolds, PTL DEF ApiSpec

\* A transfer is refused with 409 only for a reference some other body has
\* used, whatever else goes on (TransferService.ts:39-47, README.md:299).
THEOREM ApiConflictsAreReal ==
    (StoredSpellings /\ WholeAmounts) /\ ApiSpec => []NoFalseConflict
<1>1. ApiInit => NoFalseConflict
  BY DEF ApiInit, TransferInit, NoFalseConflict, NoOutcome
<1>2. StoredSpellings /\ WholeAmounts /\ ApiInv /\ ClientInv /\ NoFalseConflict
         /\ [ApiNext]_apiVars => NoFalseConflict'
  <2>1. Beside /\ NoFalseConflict => NoFalseConflict'
    BY DEF Beside, NoFalseConflict, transferVars
  <2>2. ApiInv /\ ClientInv => TypeInv /\ ReferenceInv /\ AnswerInv
    BY DEF ApiInv, ClientInv
  <2> QED
    BY <2>1, <2>2, NoTransferIsBeside, ConflictStep
<1>3. StoredSpellings /\ WholeAmounts => (StoredSpellings /\ WholeAmounts)'
  BY DEF StoredSpellings, WholeAmounts
<1> QED
  BY <1>1, <1>2, <1>3, ApiInvHolds, ClientInvHolds, PTL DEF ApiSpec
-----------------------------------------------------------------------------
(***************************************************************************)
(* The top-ups in the ledger are the ones that committed.  An account has  *)
(* one entry without a transfer for its opening, and one for each member   *)
(* of a set of requests that has every one answered 200 and none that      *)
(* certainly failed.                                                       *)
(***************************************************************************)

\* The request has committed; it may have.
Sure(p) == uPc[p] = "readBack" \/ uOutcome[p] = "OK"
Perhaps(p) == uPc[p] \in Answered /\ uOutcome[p] \in {"NONE", "INTERNAL_ERROR"}
ToppedUp(p, a) == uReq[p] # NoTopUp /\ Topped(p) = a

TopUpEntries(a) == {i \in 1..Len(ledger[a]) : ledger[a][i].transfer = None}
Opened(a) == IF Opening[a] = NoRow THEN 0 ELSE 1

\* The requests of K have committed, and no others have.
Committed(a, K) ==
    /\ \A p \in TopUpRequests : Sure(p) /\ ToppedUp(p, a) => p \in K
    /\ \A p \in K : (Sure(p) \/ Perhaps(p)) /\ ToppedUp(p, a)
    /\ Cardinality(TopUpEntries(a)) = Opened(a) + Cardinality(K)

CountInv ==
    /\ \A p \in TopUpRequests : uOutcome[p] = "OK" => uPc[p] = "done"
    /\ \A a \in Accounts : \E K \in SUBSET TopUpRequests : Committed(a, K)

LEMMA TopUpEntriesFinite ==
    ASSUME DbTypeOK, NEW a \in Accounts
    PROVE  IsFiniteSet(TopUpEntries(a))
<1>1. Len(ledger[a]) \in Int
  BY LenProperties DEF DbTypeOK, TablesTypeOK
<1>2. IsFiniteSet(1..Len(ledger[a]))
  BY <1>1, FS_Interval
<1>3. TopUpEntries(a) \in SUBSET (1..Len(ledger[a]))
  BY DEF TopUpEntries
<1> QED
  BY <1>2, <1>3, FS_Subset, Zenon

\* Entries of a transfer are no top-ups.
LEMMA OtherEntries ==
    ASSUME DbTypeOK, NEW a \in Accounts, NEW t \in Seq(Entry), ledger'[a] = ledger[a] \o t,
           \A i \in 1..Len(t) : t[i].transfer # None
    PROVE  TopUpEntries(a)' = TopUpEntries(a)
<1> DEFINE s == ledger[a]
<1>1. s \in Seq(Entry) /\ Len(s) \in Nat /\ Len(t) \in Nat
  BY LenProperties DEF DbTypeOK, TablesTypeOK
<1> HIDE DEF s
<1>2. /\ Len(s \o t) = Len(s) + Len(t)
      /\ \A i \in 1..Len(s) + Len(t) : (s \o t)[i] = IF i <= Len(s) THEN s[i] ELSE t[i - Len(s)]
  BY <1>1, ConcatProperties
<1>3. {i \in 1..Len(s \o t) : (s \o t)[i].transfer = None}
         = {i \in 1..Len(s) : s[i].transfer = None}
  <2>1. ASSUME NEW i \in 1..Len(s) + Len(t), (s \o t)[i].transfer = None
        PROVE  i \in 1..Len(s) /\ s[i].transfer = None
    <3>1. CASE i <= Len(s)
      BY <1>1, <1>2, <2>1, <3>1
    <3>2. CASE ~(i <= Len(s))
      <4>1. i - Len(s) \in 1..Len(t) /\ (s \o t)[i] = t[i - Len(s)]
        BY <1>1, <1>2, <3>2
      <4> QED
        BY <2>1, <4>1
    <3> QED
      BY <3>1, <3>2
  <2>2. ASSUME NEW i \in 1..Len(s), s[i].transfer = None
        PROVE  i \in 1..Len(s) + Len(t) /\ (s \o t)[i].transfer = None
    BY <1>1, <1>2, <2>2
  <2> QED
    BY <1>2, <2>1, <2>2
<1> QED
  BY <1>3 DEF TopUpEntries, s

\* The entry of a top-up is one more.
LEMMA OneTopUpEntry ==
    ASSUME DbTypeOK, NEW a \in Accounts, NEW e \in Entry, ledger'[a] = Append(ledger[a], e),
           e.transfer = None
    PROVE  Cardinality(TopUpEntries(a)') = Cardinality(TopUpEntries(a)) + 1
<1> DEFINE s == ledger[a]
<1>1. s \in Seq(Entry) /\ Len(s) \in Nat
  BY LenProperties DEF DbTypeOK, TablesTypeOK
<1> HIDE DEF s
<1>2. /\ Len(Append(s, e)) = Len(s) + 1
      /\ \A i \in 1..Len(s) : Append(s, e)[i] = s[i]
      /\ Append(s, e)[Len(s) + 1] = e
  BY <1>1, AppendProperties
<1>3. {i \in 1..Len(Append(s, e)) : Append(s, e)[i].transfer = None}
         = {i \in 1..Len(s) : s[i].transfer = None} \cup {Len(s) + 1}
  BY <1>1, <1>2
<1>4. TopUpEntries(a)' = TopUpEntries(a) \cup {Len(s) + 1} /\ Len(s) + 1 \notin TopUpEntries(a)
  BY <1>1, <1>3 DEF TopUpEntries, s
<1> QED
  BY <1>4, TopUpEntriesFinite, FS_AddElement

\* A transfer commits entries that name it.
LEMMA WrittenName ==
    ASSUME TypeInv, NEW p \in TransferRequests, OwnEntries(p), NEW a \in Accounts
    PROVE  /\ pend[p].entries[a] \in Seq(Entry)
           /\ \A i \in 1..Len(pend[p].entries[a]) : pend[p].entries[a][i].transfer = p
<1>1. pend[p].entries[a] \in Seq(Entry)
  BY TransferAssumption DEF TypeInv, TypeOK, DbTypeOK, Pending
<1>2. Debit(p).transfer = p /\ Credit(p).transfer = p
  BY DEF Debit, Credit
<1> DEFINE d == Debit(p)
           c == Credit(p)
<1>3. pend[p].entries[a] \in Seq({d, c})
  <2> HIDE DEF d, c
  <2>1. <<d>> \in Seq({d, c}) /\ <<c>> \in Seq({d, c}) /\ <<>> \in Seq({d, c})
    OBVIOUS
  <2>2. \A s, t \in Seq({d, c}) : s \o t \in Seq({d, c})
    BY ConcatProperties
  <2> USE DEF d, c
  <2>3. \/ pend[p].entries[a] = <<>>
        \/ \E s, t \in {<<>>, <<d>>, <<c>>} : pend[p].entries[a] = s \o t
    BY DEF OwnEntries, WrittenEntries
  <2> HIDE DEF d, c
  <2> QED
    BY <2>1, <2>2, <2>3
<1> HIDE DEF d, c
<1>4. \A i \in 1..Len(pend[p].entries[a]) : pend[p].entries[a][i] \in {d, c}
  BY <1>3, ElementOfSeq
<1> QED
  BY <1>1, <1>2, <1>4 DEF d, c

-----------------------------------------------------------------------------
\* What a step of its own does to the standing of a top-up.
LEMMA TopUpStanding ==
    ASSUME TopUpTypeOK, NEW p \in TopUpRequests, TopUpStep(p),
           uOutcome[p] = "OK" => uPc[p] = "done"
    PROVE  /\ uOutcome'[p] = "OK" => uPc'[p] = "done"
           /\ Sure(p) \/ Perhaps(p) => (Sure(p) \/ Perhaps(p))' /\ uReq'[p] = uReq[p]
           /\ \/ UNCHANGED tables /\ (Sure(p)' => Sure(p))
              \/ /\ uPc[p] = "commit" /\ Commit(p) /\ (Sure(p) \/ Perhaps(p))'
                 /\ uReq'[p] = uReq[p]
<1> USE DEF TopUpTypeOK, TopUpGoto, TopUpEnds, TopUpError, Sure, Perhaps, Answered
<1>1. CASE ReceiveTopUp(p) \/ BeginTopUp(p) \/ ReadTopped(p)
  BY <1>1 DEF ReceiveTopUp, BeginTopUp, ReadTopped, dbVars
<1>2. CASE LockAccount(p)
  BY <1>2 DEF LockAccount
<1>3. CASE WriteTopped(p)
  BY <1>3 DEF WriteTopped, UpdateBalanceColumns, Abort
<1>4. CASE InsertTopUpEntry(p)
  BY <1>4 DEF InsertTopUpEntry
<1>5. CASE ReadBack(p) \/ RollbackTopUp(p)
  BY <1>5 DEF ReadBack, RollbackTopUp, Abort, dbVars
<1>6. CASE CommitTopUp(p)
  BY <1>6 DEF CommitTopUp
<1>7. CASE TopUpCommitFails(p)
  BY <1>7 DEF TopUpCommitFails, Abort
<1>8. CASE TopUpStatementFails(p) \/ TopUpCallFails(p) \/ TopUpRollbackFails(p) \/ TopUpCrash(p)
  BY <1>8 DEF TopUpStatementFails, TopUpCallFails, TopUpRollbackFails, TopUpCrash, Abort, dbVars,
              TopUpStatements
<1> QED
  BY <1>1, <1>2, <1>3, <1>4, <1>5, <1>6, <1>7, <1>8 DEF TopUpStep, TopUpProgress, TopUpFault

\* The set of the committed stays when the ledger does.
LEMMA CommittedStays ==
    ASSUME NEW a \in Accounts, NEW K \in SUBSET TopUpRequests, Committed(a, K),
           TopUpEntries(a)' = TopUpEntries(a),
           \A q \in TopUpRequests :
              /\ (Sure(q) \/ Perhaps(q)) /\ ToppedUp(q, a) =>
                    (Sure(q) \/ Perhaps(q))' /\ ToppedUp(q, a)'
              /\ Sure(q)' /\ ToppedUp(q, a)' => Sure(q) /\ ToppedUp(q, a)
    PROVE  Committed(a, K)'
BY DEF Committed, Opened

LEMMA CountStep ==
    ASSUME IsFiniteSet(TopUpRequests), ApiInv, EntriesInv, CountInv, [ApiNext]_apiVars
    PROVE  CountInv'
<1>1. DbTypeOK /\ TypeInv /\ TopUpTypeOK
  BY DEF ApiInv, TypeInv, TypeOK
<1>2. ASSUME NEW q \in TopUpRequests, NEW a \in Accounts,
             uPc'[q] = uPc[q], uReq'[q] = uReq[q], uOutcome'[q] = uOutcome[q]
      PROVE  /\ Sure(q)' = Sure(q) /\ Perhaps(q)' = Perhaps(q)
             /\ ToppedUp(q, a)' = ToppedUp(q, a)
  BY <1>2 DEF Sure, Perhaps, ToppedUp, Topped
<1>3. ASSUME UNCHANGED topUpVars, \A a \in Accounts : TopUpEntries(a)' = TopUpEntries(a)
      PROVE  CountInv'
  <2>1. \A q \in TopUpRequests :
           uPc'[q] = uPc[q] /\ uReq'[q] = uReq[q] /\ uOutcome'[q] = uOutcome[q]
    BY <1>3 DEF topUpVars
  <2>2. ASSUME NEW a \in Accounts, NEW K \in SUBSET TopUpRequests, Committed(a, K)
        PROVE  Committed(a, K)'
    BY <1>2, <1>3, <2>1, <2>2, CommittedStays
  <2> QED
    BY <2>1, <2>2 DEF CountInv
<1>4. ASSUME NEW p \in TransferRequests, TransferStep(p), NEW a \in Accounts
      PROVE  TopUpEntries(a)' = TopUpEntries(a)
  <2>1. CASE UNCHANGED tables
    BY <2>1 DEF tables, TopUpEntries
  <2>2. CASE Commit(p)
    <3>1. /\ pend[p].entries[a] \in Seq(Entry)
          /\ \A i \in 1..Len(pend[p].entries[a]) : pend[p].entries[a][i].transfer = p
      BY <1>1, WrittenName DEF EntriesInv
    <3>2. p # None
      BY TransferAssumption, TablesAssumption
    <3>3. ledger'[a] = ledger[a] \o pend[p].entries[a]
      BY <2>2 DEF Commit
    <3> QED
      BY <1>1, <3>1, <3>2, <3>3, OtherEntries
  <2> QED
    BY <1>4, <2>1, <2>2, TablesMoveAtCommit
<1>5. ASSUME UNCHANGED ledger, NEW a \in Accounts PROVE TopUpEntries(a)' = TopUpEntries(a)
  BY <1>5 DEF TopUpEntries
<1>6. ASSUME NEW p \in PatchRequests, PatchStep(p) PROVE UNCHANGED ledger
  BY <1>6, PatchMoves DEF ApiInv, SetsStatus, dbVars, tables
<1>7. ASSUME NEW p \in TopUpRequests, TopUpStep(p) PROVE CountInv'
  <2>1. TopUpSound(p) /\ p \in Sessions
    BY TopUpAssumption DEF ApiInv
  <2>2. /\ uOutcome'[p] = "OK" => uPc'[p] = "done"
        /\ Sure(p) \/ Perhaps(p) => (Sure(p) \/ Perhaps(p))' /\ uReq'[p] = uReq[p]
        /\ \/ UNCHANGED tables /\ (Sure(p)' => Sure(p))
           \/ /\ uPc[p] = "commit" /\ Commit(p) /\ (Sure(p) \/ Perhaps(p))'
              /\ uReq'[p] = uReq[p]
    BY <1>1, <1>7, TopUpStanding DEF CountInv
  <2>3. \A q \in TopUpRequests \ {p} :
           uPc'[q] = uPc[q] /\ uReq'[q] = uReq[q] /\ uOutcome'[q] = uOutcome[q]
    BY <1>1, <1>7, OtherTopUps
  <2>4. \A q \in TopUpRequests : uOutcome'[q] = "OK" => uPc'[q] = "done"
    BY <2>2, <2>3 DEF CountInv
  <2>5. ASSUME NEW q \in TopUpRequests \ {p}, NEW a \in Accounts
        PROVE  /\ Sure(q)' = Sure(q) /\ Perhaps(q)' = Perhaps(q)
               /\ ToppedUp(q, a)' = ToppedUp(q, a)
    BY <1>2, <2>3
  <2>6. ASSUME NEW a \in Accounts, uReq'[p] = uReq[p]
        PROVE  ToppedUp(p, a)' = ToppedUp(p, a)
    BY <2>6 DEF ToppedUp, Topped
  <2>7. ASSUME NEW a \in Accounts, NEW K \in SUBSET TopUpRequests, Committed(a, K)
        PROVE  \E L \in SUBSET TopUpRequests : Committed(a, L)'
    <3>1. CASE UNCHANGED tables /\ (Sure(p)' => Sure(p))
      <4>1. TopUpEntries(a)' = TopUpEntries(a)
        BY <3>1, <1>5 DEF tables
      <4>2. Committed(a, K)'
        BY <2>2, <2>5, <2>6, <2>7, <3>1, <4>1, CommittedStays
      <4> QED
        BY <4>2
    <3>2. CASE /\ uPc[p] = "commit" /\ Commit(p) /\ (Sure(p) \/ Perhaps(p))'
               /\ uReq'[p] = uReq[p]
      <4>1. ~Sure(p) /\ ~Perhaps(p)
        BY <3>2 DEF CountInv, Sure, Perhaps, Answered
      <4>2. /\ ledger'[a] = ledger[a] \o pend[p].entries[a]
            /\ ledger[a] \in Seq(Entry) /\ pend[p].entries[a] \in Seq(Entry)
        BY <1>1, <2>1, <3>2 DEF Commit, DbTypeOK, TablesTypeOK, Pending
      <4>3. CASE a # Topped(p)
        <5>1. ledger'[a] = ledger[a]
          <6>1. pend[p].entries[a] = <<>>
            BY <2>1, <4>3 DEF TopUpSound, HasRaised
          <6> QED
            BY <4>2, <6>1, ConcatEmptySeq
        <5>2. TopUpEntries(a)' = TopUpEntries(a)
          BY <5>1 DEF TopUpEntries
        <5>3. ~ToppedUp(p, a) /\ ~ToppedUp(p, a)'
          BY <2>6, <3>2, <4>3 DEF ToppedUp
        <5>4. Committed(a, K)'
          BY <2>5, <2>7, <5>2, <5>3, CommittedStays
        <5> QED
          BY <5>4
      <4>4. CASE a = Topped(p)
        <5>1. pend[p].entries[a] = <<TopUpEntry(p)>> /\ uReq[p] \in TopUps
          BY <2>1, <3>2, <4>4 DEF TopUpSound, HasRaised
        <5>2. TopUpEntry(p) \in Entry /\ TopUpEntry(p).transfer = None
          <6>1. \A e : <<e>> \in Seq(Entry) => e \in Entry
            <7> SUFFICES ASSUME NEW e, <<e>> \in Seq(Entry) PROVE e \in Entry
              OBVIOUS
            <7>1. Len(<<e>>) = 1 /\ <<e>>[1] = e
              OBVIOUS
            <7> QED
              BY <7>1, ElementOfSeq
          <6> QED
            BY <4>2, <5>1, <6>1 DEF TopUpEntry
        <5>3. ledger'[a] = Append(ledger[a], TopUpEntry(p))
          BY <4>2, <5>1, <5>2, AppendIsConcat
        <5>4. Cardinality(TopUpEntries(a)') = Cardinality(TopUpEntries(a)) + 1
          BY <1>1, <5>2, <5>3, OneTopUpEntry
        <5>5. ToppedUp(p, a)'
          <6>1. uReq[p] # NoTopUp
            BY <5>1, TopUpAssumption DEF NoTopUp
          <6> QED
            BY <2>6, <3>2, <4>4, <6>1 DEF ToppedUp
        <5>6. p \notin K /\ IsFiniteSet(K)
          BY <2>7, <4>1, FS_Subset DEF Committed
        <5>7. Cardinality(K \cup {p}) = Cardinality(K) + 1 /\ Cardinality(K) \in Nat
          BY <5>6, FS_AddElement, FS_CardinalityType
        <5>8. Cardinality(TopUpEntries(a)') = Opened(a) + Cardinality(K \cup {p})
          BY <2>7, <5>4, <5>7 DEF Committed, Opened
        <5>9. \A q \in TopUpRequests : Sure(q)' /\ ToppedUp(q, a)' => q \in K \cup {p}
          BY <2>5, <2>7 DEF Committed
        <5>10. \A q \in K \cup {p} : (Sure(q) \/ Perhaps(q))' /\ ToppedUp(q, a)'
          BY <2>5, <2>7, <3>2, <5>5, <5>6 DEF Committed
        <5>11. Committed(a, K \cup {p})'
          BY <5>8, <5>9, <5>10 DEF Committed, Opened
        <5> QED
          BY <5>11
      <4> QED
        BY <4>3, <4>4
    <3> QED
      BY <2>2, <3>1, <3>2
  <2> QED
    BY <2>4, <2>7 DEF CountInv
<1>8. ASSUME NEW b \in Accounts, NEW currency \in Currencies, CreateAccount(b, currency)
      PROVE  UNCHANGED ledger
  BY <1>8 DEF CreateAccount
<1> QED
  BY <1>3, <1>4, <1>5, <1>6, <1>7, <1>8, ApiSteps DEF apiVars, dbVars, tables

LEMMA CountInit == ApiInit => CountInv
<1> SUFFICES ASSUME ApiInit PROVE CountInv
  OBVIOUS
<1>1. \A p \in TopUpRequests : ~Sure(p) /\ uOutcome[p] # "OK"
  BY DEF ApiInit, TopUpInit, Sure
<1>2. ASSUME NEW a \in Accounts PROVE Committed(a, {})
  <2>1. TopUpEntries(a) = IF Opening[a] = NoRow THEN {} ELSE {1}
    <3>1. ledger[a] = IF Opening[a] = NoRow THEN <<>> ELSE <<OpeningEntry(a)>>
      BY DEF ApiInit, DbInit, TablesInit
    <3>2. OpeningEntry(a).transfer = None
      BY DEF OpeningEntry
    <3> HIDE DEF OpeningEntry
    <3> QED
      BY <3>1, <3>2 DEF TopUpEntries
  <2>2. Cardinality({}) = 0 /\ Cardinality({1}) = 1
    BY FS_EmptySet, FS_Singleton
  <2> QED
    BY <1>1, <2>1, <2>2 DEF Committed, Opened
<1> QED
  BY <1>1, <1>2 DEF CountInv

\* The top-ups of an account in the ledger are those answered 200 and, at most,
\* those whose answer was cut off (TestHelpersService.ts:45-51).
THEOREM TopUpsAreNeitherLostNorDoubled ==
    IsFiniteSet(TopUpRequests) /\ ApiSpec => []TopUpsAreCounted
<1>1. IsFiniteSet(TopUpRequests) /\ CountInv => TopUpsAreCounted
  <2> SUFFICES ASSUME IsFiniteSet(TopUpRequests), CountInv, NEW a \in Accounts
               PROVE  LET for == {p \in TopUpRequests : uReq[p] # NoTopUp /\ Topped(p) = a}
                          opened == IF Opening[a] = NoRow THEN 0 ELSE 1
                          entries == Cardinality({i \in 1..Len(ledger[a]) :
                                                     ledger[a][i].transfer = None})
                          certain == {p \in for : uPc[p] = "readBack" \/ uOutcome[p] = "OK"}
                          possible == {p \in for : /\ uPc[p] \in Answered
                                                   /\ uOutcome[p] \in {"NONE", "INTERNAL_ERROR"}}
                      IN  entries \in (opened + Cardinality(certain))
                                      ..(opened + Cardinality(certain \cup possible))
    BY DEF TopUpsAreCounted
  <2> DEFINE for == {p \in TopUpRequests : uReq[p] # NoTopUp /\ Topped(p) = a}
             certain == {p \in for : uPc[p] = "readBack" \/ uOutcome[p] = "OK"}
             possible == {p \in for : uPc[p] \in Answered
                                      /\ uOutcome[p] \in {"NONE", "INTERNAL_ERROR"}}
  <2>1. PICK K \in SUBSET TopUpRequests : Committed(a, K)
    BY DEF CountInv
  <2>2. certain \subseteq K /\ K \subseteq certain \cup possible
    BY <2>1 DEF Committed, Sure, Perhaps, ToppedUp
  <2>3. IsFiniteSet(K) /\ IsFiniteSet(certain \cup possible) /\ IsFiniteSet(certain)
    BY FS_Subset
  <2>4. /\ Cardinality(certain) <= Cardinality(K)
        /\ Cardinality(K) <= Cardinality(certain \cup possible)
    BY <2>2, <2>3, FS_Subset
  <2>5. /\ Cardinality(certain) \in Nat /\ Cardinality(K) \in Nat
        /\ Cardinality(certain \cup possible) \in Nat
    BY <2>3, FS_CardinalityType
  <2>6. Cardinality(TopUpEntries(a)) = Opened(a) + Cardinality(K) /\ Opened(a) \in Nat
    BY <2>1 DEF Committed, Opened
  <2> HIDE DEF certain, possible
  <2>7. Cardinality(TopUpEntries(a)) \in (Opened(a) + Cardinality(certain))
                                         ..(Opened(a) + Cardinality(certain \cup possible))
    BY <2>4, <2>5, <2>6
  <2> QED
    BY <2>7 DEF TopUpEntries, Opened, certain, possible
<1>2. IsFiniteSet(TopUpRequests) => IsFiniteSet(TopUpRequests)'
  OBVIOUS
<1> QED
  BY <1>1, <1>2, CountInit, CountStep, ApiInvHolds, EntriesInvHolds, PTL DEF ApiSpec
-----------------------------------------------------------------------------
(***************************************************************************)
(* Waiting, for rows, for inserts and for connections.  Whoever is waited  *)
(* for is in its transaction and needs no other connection.  It waits for  *)
(* nothing itself, or for an insert, whose transaction waits for nothing,  *)
(* or, holding its first row, for its second.  So a chain of waits climbs  *)
(* the rows and ends.                                                      *)
(***************************************************************************)

LocksWhileRaising(p) ==
    \A a \in Accounts : lock[a] = p => uPc[p] \in Raising \cup {"rollback"}

\* A PATCH holds nothing, a top-up its row from the lock to the end.
LockersInv ==
    /\ \A p \in PatchRequests : pend[p].transfers = {} /\ \A a \in Accounts : lock[a] # p
    /\ \A p \in TopUpRequests : LocksWhileRaising(p)

LEMMA TopUpLocksStep ==
    ASSUME DbTypeOK, TopUpTypeOK, NEW p \in TopUpRequests, LocksWhileRaising(p), TopUpStep(p)
    PROVE  LocksWhileRaising(p)'
<1>1. p \in Sessions
  BY TopUpAssumption
<1>2. CASE Commit(p) \/ Abort(p)
  BY <1>1, <1>2, EndHoldsNothing DEF HoldsNothing, LocksWhileRaising
<1>3. CASE uPc'[p] \in Raising \cup {"rollback"}
  BY <1>3 DEF LocksWhileRaising
<1>4. CASE uPc[p] \notin Raising \cup {"rollback"} /\ lock' = lock
  BY <1>4 DEF LocksWhileRaising
<1> USE DEF TopUpTypeOK, TopUpGoto, TopUpEnds, TopUpError, Raising
<1>5. CASE ReceiveTopUp(p) \/ BeginTopUp(p) \/ ReadBack(p) \/ TopUpCallFails(p)
  BY <1>4, <1>5 DEF ReceiveTopUp, BeginTopUp, ReadBack, TopUpCallFails, dbVars
<1>6. CASE LockAccount(p)
  BY <1>3, <1>6 DEF LockAccount
<1>7. CASE ReadTopped(p) \/ WriteTopped(p) \/ InsertTopUpEntry(p)
  BY <1>2, <1>3, <1>7 DEF ReadTopped, WriteTopped, InsertTopUpEntry
<1>8. CASE CommitTopUp(p) \/ RollbackTopUp(p) \/ TopUpStatementFails(p) \/ TopUpCommitFails(p)
           \/ TopUpRollbackFails(p) \/ TopUpCrash(p)
  BY <1>2, <1>8 DEF CommitTopUp, RollbackTopUp, TopUpStatementFails, TopUpCommitFails,
                    TopUpRollbackFails, TopUpCrash
<1> QED
  BY <1>5, <1>6, <1>7, <1>8 DEF TopUpStep, TopUpProgress, TopUpFault

LEMMA LockersInit == ApiInit => LockersInv
BY TablesAssumption, PatchAssumption, TopUpAssumption
   DEF ApiInit, DbInit, NothingPending, LockersInv, LocksWhileRaising

LEMMA LockersStep ==
    ASSUME ApiInv, LockersInv, [ApiNext]_apiVars
    PROVE  LockersInv'
<1>1. DbTypeOK /\ TypeInv /\ HeldInv /\ PatchTypeOK /\ TopUpTypeOK
  BY DEF ApiInv, TypeInv, TypeOK
<1>2. ASSUME NEW q \in PatchRequests
      PROVE  Isolated(q)
  <2>1. q \in Sessions /\ q \notin TransferRequests /\ q \notin TopUpRequests
    BY PatchAssumption, ApiAssumption
  <2>2. ASSUME NEW p \in PatchRequests, PatchStep(p) PROVE Isolated(q)
    BY <1>1, <2>2, PatchMoves DEF SetsStatus, Isolated, dbVars
  <2>3. ASSUME NEW p \in TopUpRequests, TopUpStep(p) PROVE Isolated(q)
    BY <1>1, <2>1, <2>3, TopUpIsolated DEF ApiInv
  <2>4. ASSUME NEW a \in Accounts, NEW currency \in Currencies, CreateAccount(a, currency)
        PROVE  Isolated(q)
    BY <2>4 DEF CreateAccount, Isolated
  <2>5. CASE UNCHANGED apiVars
    BY <2>5 DEF apiVars, dbVars, Isolated
  <2> QED
    BY <1>1, <2>1, <2>2, <2>3, <2>4, <2>5, ApiSteps, StepIsolated
<1>3. ASSUME NEW q \in TopUpRequests
      PROVE  LocksWhileRaising(q)'
  <2>1. q \in Sessions /\ q \notin TransferRequests /\ q \notin PatchRequests
    BY TopUpAssumption, ApiAssumption
  <2>2. ASSUME Isolated(q), uPc'[q] = uPc[q] PROVE LocksWhileRaising(q)'
    BY <2>2 DEF LockersInv, LocksWhileRaising, Isolated
  <2>3. ASSUME NEW p \in TopUpRequests, TopUpStep(p) PROVE LocksWhileRaising(q)'
    <3>1. CASE p = q
      BY <1>1, <2>3, <3>1, TopUpLocksStep DEF LockersInv
    <3>2. CASE p # q
      BY <1>1, <2>1, <2>2, <2>3, <3>2, TopUpIsolated, OtherTopUps DEF ApiInv
    <3> QED
      BY <3>1, <3>2
  <2>4. ASSUME NEW p \in TransferRequests, TransferStep(p), UNCHANGED topUpVars
        PROVE  LocksWhileRaising(q)'
    BY <1>1, <2>1, <2>2, <2>4, StepIsolated DEF topUpVars
  <2>5. ASSUME NEW p \in PatchRequests, PatchStep(p), UNCHANGED topUpVars
        PROVE  LocksWhileRaising(q)'
    BY <1>1, <2>2, <2>5, PatchMoves DEF SetsStatus, Isolated, dbVars, topUpVars
  <2>6. ASSUME NEW a \in Accounts, NEW currency \in Currencies, CreateAccount(a, currency),
               UNCHANGED topUpVars
        PROVE  LocksWhileRaising(q)'
    BY <2>2, <2>6 DEF CreateAccount, Isolated, topUpVars
  <2>7. CASE UNCHANGED apiVars
    BY <2>2, <2>7 DEF apiVars, dbVars, topUpVars, Isolated
  <2> QED
    BY <2>3, <2>4, <2>5, <2>6, <2>7, ApiSteps
<1> QED
  BY <1>2, <1>3 DEF LockersInv, Isolated

LEMMA LockersHold == ApiSpec => []LockersInv
BY LockersInit, LockersStep, ApiInvHolds, PTL DEF ApiSpec

\* Request r is about to make a call that needs nothing of anyone.
Moves(r) == ApiWaitsFor(r) = {} /\ ~Acquires(NextCall(r))

\* It is a transfer that has its first row, a, and wants its second.
Climbs(r, a) == r \in TransferRequests /\ tPc[r] = "lockSecond" /\ FirstRow(r) = a

AtInsert(r) == r \in TransferRequests /\ tPc[r] = "insert"

\* Each kind of request has its own wait and its own next call.
LEMMA Waits ==
    ASSUME NEW p \in ApiRequests
    PROVE  /\ p \in TransferRequests => ApiWaitsFor(p) = WaitsFor(p) /\ NextCall(p) = tPc[p]
           /\ p \in TopUpRequests =>
                 /\ ApiWaitsFor(p) \subseteq (IF uPc[p] = "lock" THEN {lock[Topped(p)]} ELSE {})
                 /\ NextCall(p) = uPc[p]
           /\ p \in PatchRequests =>
                 /\ ApiWaitsFor(p) \subseteq (IF sPc[p] = "updating" THEN {lock[Target(p)]} ELSE {})
                 /\ NextCall(p) = sPc[p]
BY ApiAssumption DEF ApiRequests, ApiWaitsFor, NextCall

\* Who holds a row, or an uncommitted transfer.
LEMMA HolderMoves ==
    ASSUME ApiInv, ClientInv, LockersInv, NEW r \in ApiRequests, NEW a \in Accounts, lock[a] = r
    PROVE  Moves(r) \/ Climbs(r, a) \/ AtInsert(r)
<1>1. CASE r \in TransferRequests
  <2>1. (tPc[r] = "lockSecond" /\ a = FirstRow(r)) \/ tPc[r] \in Posting \cup {"rollback"}
    BY <1>1 DEF ClientInv, WaitInv, WaitSound
  <2> QED
    BY <1>1, <2>1, Waits DEF Moves, Climbs, AtInsert, Posting, WaitsFor, Acquires
<1>2. CASE r \in TopUpRequests
  BY <1>2, Waits DEF LockersInv, LocksWhileRaising, Raising, Moves, Acquires
<1>3. CASE r \in PatchRequests
  BY <1>3 DEF LockersInv
<1> QED
  BY <1>1, <1>2, <1>3 DEF ApiRequests

LEMMA InserterMoves ==
    ASSUME ApiInv, ClientInv, LockersInv, NEW r \in ApiRequests, pend[r].transfers # {}
    PROVE  Moves(r)
<1>1. r \in TransferRequests
  BY DEF ApiRequests, LockersInv, ApiInv, TopUpSound, HasRaised
<1>2. tPc[r] \in Statements \cup {"commit", "rollback"}
  BY <1>1 DEF ClientInv, NothingHeldOutsideTransaction, NothingPending
<1>3. tPc[r] \notin {"lockFirst", "lockSecond", "insert"}
  BY <1>1 DEF ClientInv, WaitInv, WaitSound
<1> QED
  BY <1>1, <1>2, <1>3, Waits DEF Moves, Statements, WaitsFor, Acquires

\* Whoever is waited for moves, or climbs from the row that is waited for.
LEMMA Awaited ==
    ASSUME ApiInv, ClientInv, LockersInv, NEW p \in ApiRequests,
           NEW r \in ApiRequests, r \in ApiWaitsFor(p)
    PROVE  \/ Moves(r) \/ AtInsert(r)
           \/ \E a \in Accounts : Climbs(r, a) /\ (tPc[p] = "lockSecond" /\ p \in TransferRequests
                                                      => a = SecondRow(p))
<1>1. CASE p \in TransferRequests
  <2>1. r \in WaitsFor(p)
    BY <1>1, Waits
  <2>2. CASE tPc[p] = "lockFirst"
    <3>1. FirstRow(p) \in Accounts /\ lock[FirstRow(p)] = r
      BY <1>1, <2>1, <2>2, BodyTyped DEF ApiInv, FirstRow, WaitsFor
    <3> QED
      BY <2>2, <3>1, HolderMoves
  <2>3. CASE tPc[p] = "lockSecond"
    <3>1. SecondRow(p) \in Accounts /\ lock[SecondRow(p)] = r
      BY <1>1, <2>1, <2>3, BodyTyped DEF ApiInv, SecondRow, WaitsFor
    <3> QED
      BY <3>1, HolderMoves
  <2>4. CASE tPc[p] = "insert"
    <3>1. pend[r].transfers # {}
      BY <2>1, <2>4 DEF WaitsFor, InsertersOf
    <3> QED
      BY <3>1, InserterMoves
  <2> QED
    BY <2>1, <2>2, <2>3, <2>4 DEF WaitsFor
<1>2. CASE p \in TopUpRequests
  <2>1. uPc[p] = "lock" /\ lock[Topped(p)] = r
    BY <1>2, Waits
  <2>2. Topped(p) \in Accounts /\ p \notin TransferRequests
    BY <1>2, <2>1, TopUpBody, ApiAssumption DEF ApiInv, TopUpSound
  <2> QED
    BY <2>1, <2>2, HolderMoves
<1>3. CASE p \in PatchRequests
  <2>1. sPc[p] = "updating" /\ lock[Target(p)] = r
    BY <1>3, Waits
  <2>2. Target(p) \in Accounts /\ p \notin TransferRequests
    BY <1>3, <2>1, PatchBody, ApiAssumption DEF ApiInv, PatchSound
  <2> QED
    BY <2>1, <2>2, HolderMoves
<1> QED
  BY <1>1, <1>2, <1>3 DEF ApiRequests

\* A transfer that climbs wants a row after the one it has.
LEMMA ClimbsUp ==
    ASSUME StoredSpellings, ApiInv, ClientInv, NEW p \in TransferRequests, tPc[p] = "lockSecond"
    PROVE  /\ FirstRow(p) \in Accounts /\ SecondRow(p) \in Accounts
           /\ FirstRow(p) \in Nat /\ SecondRow(p) \in Nat /\ FirstRow(p) < SecondRow(p)
<1>1. tReq[p] \in Bodies /\ tReq[p].source # tReq[p].destination
  BY DEF ApiInv, TypeInv, RequestSound, ClientInv, WaitInv, WaitSound, Answered
<1>2. /\ FirstRow(p) = FirstId(p) /\ SecondRow(p) = SecondId(p)
      /\ tReq[p].source \in Nat /\ tReq[p].destination \in Nat
  BY <1>1, TransferAssumption, HandlersAssumption
     DEF StoredSpellings, FirstRow, SecondRow, FirstId, SecondId, LockOrder, Body
<1>3. FirstId(p) < SecondId(p) /\ FirstId(p) \in Nat /\ SecondId(p) \in Nat
  BY <1>1, <1>2 DEF FirstId, SecondId, LockOrder
<1>4. FirstRow(p) \in Accounts /\ SecondRow(p) \in Accounts
  BY BodyTyped DEF ApiInv, FirstRow, SecondRow
<1> QED
  BY <1>2, <1>3, <1>4

LEMMA WaitsEnd ==
    ASSUME StoredSpellings, ApiInv, ClientInv, LockersInv
    PROVE  NoDeadlock
<1> SUFFICES ASSUME NEW C \in SUBSET ApiRequests, C # {}, \A p \in C : WaitsWithin(p, C)
             PROVE  FALSE
  BY DEF NoDeadlock
<1>1. ASSUME NEW r \in C, Moves(r) PROVE FALSE
  BY <1>1 DEF WaitsWithin, Moves, Granted
\* Whoever needs no connection waits for a member of C.
<1>2. ASSUME NEW p \in C, ~Acquires(NextCall(p)) PROVE \E r \in C : r \in ApiWaitsFor(p)
  BY <1>2 DEF WaitsWithin, Granted
<1>3. ASSUME NEW r \in C, AtInsert(r) PROVE FALSE
  <2>1. r \in TransferRequests /\ ApiWaitsFor(r) = WaitsFor(r) /\ ~Acquires(NextCall(r))
    BY <1>3, Waits DEF AtInsert, Acquires
  <2>2. PICK o \in C : o \in ApiWaitsFor(r)
    BY <1>2, <2>1
  <2>3. pend[o].transfers # {}
    BY <1>3, <2>1, <2>2 DEF AtInsert, WaitsFor, InsertersOf
  <2> QED
    BY <1>1, <2>3, InserterMoves
<1>4. ASSUME NEW p \in C, NEW r \in C, r \in ApiWaitsFor(p)
      PROVE  \E a \in Accounts : Climbs(r, a) /\ (tPc[p] = "lockSecond" /\ p \in TransferRequests
                                                     => a = SecondRow(p))
  BY <1>1, <1>3, <1>4, Awaited
<1> DEFINE W == {SecondRow(q) : q \in {r \in C : \E a \in Accounts : Climbs(r, a)}}
<1>5. W # {}
  <2>1. CASE \E p \in C : ApiWaitsFor(p) \cap C # {}
    BY <1>4, <2>1
  <2>2. CASE \A p \in C : ApiWaitsFor(p) \cap C = {}
    <3>1. Connected \subseteq C /\ \A p \in C : Acquires(NextCall(p))
      BY <2>2 DEF WaitsWithin, Granted
    <3>2. ~(Cardinality(Connected) < PoolSize)
      BY <2>2 DEF WaitsWithin, Granted
    <3>3. Connected # {}
      BY <3>2, ApiAssumption, FS_EmptySet
    <3>4. PICK c \in Connected : TRUE
      BY <3>3
    <3>5. ~Acquires(NextCall(c))
      BY <3>1, <3>4, Waits DEF Connected, Acquires, Statements, TopUpStatements
    <3> QED
      BY <3>1, <3>4, <3>5
  <2> QED
    BY <2>1, <2>2
<1>6. W \subseteq Nat /\ W \subseteq Accounts
  BY ClimbsUp DEF Climbs
<1>7. ASSUME NEW m \in W PROVE \E n \in W : m < n
  <2>1. PICK q \in C : m = SecondRow(q) /\ \E a \in Accounts : Climbs(q, a)
    OBVIOUS
  <2>2. q \in TransferRequests /\ tPc[q] = "lockSecond" /\ ~Acquires(NextCall(q))
    BY <2>1, Waits DEF Climbs, Acquires
  <2>3. PICK r \in C : r \in ApiWaitsFor(q)
    BY <1>2, <2>2
  <2>4. PICK a \in Accounts : Climbs(r, a) /\ a = SecondRow(q)
    BY <1>4, <2>2, <2>3
  <2>5. m < SecondRow(r)
    BY <2>1, <2>4, ClimbsUp DEF Climbs
  <2> QED
    BY <2>4, <2>5
<1>8. IsFiniteSet(W)
  BY <1>6, TablesAssumption, FS_Subset
<1> HIDE DEF W
<1>9. PICK n \in W : \A m \in W : ~(n < m)
  BY <1>5, <1>6, <1>8, GreatestMember
<1> QED
  BY <1>7, <1>9

\* No requests ever wait only for each other, with a pool of any size: not for
\* rows, since transfers take theirs in order and the others only one, and not
\* for connections, since no transaction needs a second one
\* (TransferService.ts:54-61, TestHelpersService.ts:32-33, config/database.ts:14).
THEOREM ApiNoDeadlock == StoredSpellings /\ ApiSpec => []NoDeadlock
<1>1. StoredSpellings => StoredSpellings'
  BY DEF StoredSpellings
<1> QED
  BY <1>1, ApiInvHolds, ClientInvHolds, LockersHold, WaitsEnd, PTL
=============================================================================
