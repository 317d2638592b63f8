---------------------------- MODULE ClientsProofs ----------------------------
(***************************************************************************)
(* Proofs about what clients see of requests that are not one step, for    *)
(* any number of batches of any size, readers, limits, rows and amounts.   *)
(***************************************************************************)
EXTENDS Clients, AtomicBankProofs
-----------------------------------------------------------------------------
(***************************************************************************)
(* Demo batches beside any other requests.                                 *)
(***************************************************************************)

\* Batch b has started its transfers.
Started(b) == dRunning[b] # {} \/ dResults[b] # {}

\* OwnMillisecond among the batches that have started.
OwnAmongStarted(b) == \A c \in Batches : Started(c) /\ dBase[c] = dBase[b] => c = b

\* The inductive invariant behind the second half of ResultsAreTrue.
BatchInv ==
    /\ clock \in Nat
    /\ dPc \in [Batches -> {"idle", "before", "batch", "reported", "failed"}]
    /\ dBase \in [Batches -> Nat \cup {None}]
    /\ dRunning \in [Batches -> SUBSET Tasks]
    /\ dResults = [b \in Batches |-> dResults[b]]
    /\ \A b \in Batches :
          /\ dPc[b] \in {"idle", "before"} => ~Started(b)
          /\ Started(b) => dBase[b] \in Nat
          /\ \A k \in dRunning[b] : k.batch = b
          /\ OwnAmongStarted(b) =>
                \A r \in dResults[b] : /\ r.kind = "completed" => r.transfer = r.task
                                       /\ r.kind # "IDEMPOTENCY_CONFLICT"
    /\ \A t \in transfers :
          IF t.id \in Tasks
          THEN /\ dResults[t.id.batch] # {}
               /\ t.id \notin dRunning[t.id.batch]
               /\ t.reference = ReferenceOf(t.id)
          ELSE t.reference \notin DemoReferences
-----------------------------------------------------------------------------
LEMMA MoveAddsOne ==
    ASSUME NEW id, NEW o, Move(id, o)
    PROVE  \A t \in transfers' : t \in transfers \/ (t.id = id /\ t.reference = o.reference)
<1>1. transfers' = transfers \cup
            {[id |-> id, reference |-> o.reference, source |-> o.source,
              destination |-> o.destination, amount |-> o.amount, currency |-> o.currency]}
  BY DEF Move
<1> QED
  BY <1>1

\* A batch alone in its millisecond never finds one of its references taken.
LEMMA OwnReferenceFree ==
    ASSUME BatchInv, NEW b \in Batches, NEW k \in dRunning[b], OwnAmongStarted(b),
           NEW t \in transfers
    PROVE  t.reference # ReferenceOf(k)
<1> SUFFICES ASSUME t.reference = ReferenceOf(k) PROVE FALSE
  OBVIOUS
<1>1. k \in Tasks /\ k.batch = b /\ dBase[b] \in Nat
  BY DEF BatchInv, Started
<1>2. k.direction \in Directions /\ k.index \in Nat
  BY <1>1 DEF Tasks
<1>3. ReferenceOf(k) \in DemoReferences
  BY <1>1, <1>2 DEF ReferenceOf, DemoReferences
<1>4. /\ t.id \in Tasks /\ dResults[t.id.batch] # {} /\ t.id \notin dRunning[t.id.batch]
      /\ ReferenceOf(t.id) = ReferenceOf(k)
  BY <1>3 DEF BatchInv
<1>5. t.id.batch \in Batches /\ t.id.direction = k.direction /\ t.id.index = k.index
      /\ dBase[t.id.batch] = dBase[b]
  BY <1>1, <1>4 DEF ReferenceOf, Tasks
<1>6. t.id.batch = b
  BY <1>4, <1>5 DEF OwnAmongStarted, Started
<1>7. t.id = k
  BY <1>1, <1>4, <1>5, <1>6 DEF Tasks
<1> QED
  BY <1>4, <1>6, <1>7

\* A step that ends one transfer of a batch.
LEMMA EndKeepsBatches ==
    ASSUME BatchInv, NEW b \in Batches, NEW k \in dRunning[b], NEW kind, NEW id,
           EndTask(k, kind, id), clock' = clock,
           OwnAmongStarted(b) => /\ kind = "completed" => id = k
                                 /\ kind # "IDEMPOTENCY_CONFLICT",
           \A t \in transfers' : \/ t \in transfers
                                 \/ t.id = k /\ t.reference = ReferenceOf(k)
    PROVE  BatchInv'
<1>1. k \in Tasks /\ k.batch = b
  BY DEF BatchInv
<1>2. /\ dRunning' = [dRunning EXCEPT ![b] = @ \ {k}]
      /\ dResults' = [dResults EXCEPT ![b] = @ \cup {[task |-> k, kind |-> kind, transfer |-> id]}]
      /\ UNCHANGED <<dPc, dBase>>
  BY <1>1 DEF EndTask
<1>3. /\ dRunning'[b] = dRunning[b] \ {k}
      /\ dResults'[b] = dResults[b] \cup {[task |-> k, kind |-> kind, transfer |-> id]}
      /\ \A c \in Batches \ {b} : dRunning'[c] = dRunning[c] /\ dResults'[c] = dResults[c]
  BY <1>2 DEF BatchInv
<1>4. \A c \in Batches : Started(c)' <=> Started(c)
  BY <1>3 DEF Started
<1>5. \A c \in Batches : OwnAmongStarted(c)' <=> OwnAmongStarted(c)
  BY <1>2, <1>4 DEF OwnAmongStarted
<1>6. \A j \in Tasks : ReferenceOf(j)' = ReferenceOf(j)
  BY <1>2 DEF ReferenceOf
<1>7. /\ dPc' \in [Batches -> {"idle", "before", "batch", "reported", "failed"}]
      /\ dBase' \in [Batches -> Nat \cup {None}]
      /\ dRunning' \in [Batches -> SUBSET Tasks]
      /\ dResults' = [c \in Batches |-> dResults'[c]]
      /\ clock' \in Nat
  BY <1>2 DEF BatchInv
<1>8. ASSUME NEW c \in Batches
      PROVE  /\ dPc'[c] \in {"idle", "before"} => ~Started(c)'
             /\ Started(c)' => dBase'[c] \in Nat
             /\ \A j \in dRunning'[c] : j.batch = c
  BY <1>2, <1>3, <1>4 DEF BatchInv
<1>9. ASSUME NEW c \in Batches, OwnAmongStarted(c)', NEW r \in dResults'[c]
      PROVE  (r.kind = "completed" => r.transfer = r.task) /\ r.kind # "IDEMPOTENCY_CONFLICT"
  <2>1. CASE r \in dResults[c]
    BY <1>5, <1>9, <2>1 DEF BatchInv
  <2>2. CASE c = b /\ r = [task |-> k, kind |-> kind, transfer |-> id]
    BY <1>5, <1>9, <2>2
  <2> QED
    BY <1>3, <1>9, <2>1, <2>2
<1>10. ASSUME NEW t \in transfers'
       PROVE  IF t.id \in Tasks
              THEN /\ dResults'[t.id.batch] # {}
                   /\ t.id \notin dRunning'[t.id.batch]
                   /\ t.reference = ReferenceOf(t.id)'
              ELSE t.reference \notin DemoReferences
  <2>1. CASE t \in transfers
    <3>1. t.id \in Tasks => t.id.batch \in Batches
      BY DEF Tasks
    <3> QED
      BY <1>3, <1>6, <2>1, <3>1 DEF BatchInv
  <2>2. CASE t.id = k /\ t.reference = ReferenceOf(k)
    BY <1>1, <1>3, <1>6, <2>2
  <2> QED
    BY <2>1, <2>2
<1> QED
  BY <1>7, <1>8, <1>9, <1>10 DEF BatchInv

\* A transfer of a batch ends in any of its ways.
LEMMA TaskKeepsBatches ==
    ASSUME BatchInv, NEW b \in Batches, NEW k \in dRunning[b], TaskStep(k), clock' = clock
    PROVE  BatchInv'
<1>0. OrderOf(k).reference = ReferenceOf(k)
  BY DEF OrderOf
<1>1. ASSUME Move(k, OrderOf(k))
      PROVE  \A t \in transfers' : t \in transfers \/ (t.id = k /\ t.reference = ReferenceOf(k))
  BY <1>0, <1>1, MoveAddsOne
<1>2. CASE TaskMoves(k)
  BY <1>1, <1>2, EndKeepsBatches DEF TaskMoves
<1>3. CASE TaskFindsReference(k)
  <2>1. PICK t \in transfers : t.reference = ReferenceOf(k)
    BY <1>0, <1>3 DEF TaskFindsReference
  <2>2. ~OwnAmongStarted(b)
    BY <2>1, OwnReferenceFree
  <2>3. /\ \E kind, id : EndTask(k, kind, id)
        /\ transfers' = transfers
    BY <1>3 DEF TaskFindsReference, tables
  <2> QED
    BY <2>2, <2>3, EndKeepsBatches
<1>4. CASE TaskRefused(k)
  BY <1>4, EndKeepsBatches DEF TaskRefused, tables
<1>5. CASE TaskFails(k)
  BY <1>1, <1>5, EndKeepsBatches DEF TaskFails, tables
<1> QED
  BY <1>2, <1>3, <1>4, <1>5 DEF TaskStep

\* A step that ends no transfer of a batch and leaves what has started alone.
LEMMA OthersKeepBatches ==
    ASSUME BatchInv, clock' \in Nat, UNCHANGED <<dBase, dRunning, dResults>>,
           dPc' \in [Batches -> {"idle", "before", "batch", "reported", "failed"}],
           \A b \in Batches : dPc'[b] \in {"idle", "before"} => dPc[b] \in {"idle", "before"},
           \A t \in transfers' : \/ t \in transfers
                                 \/ t.id \notin Tasks /\ t.reference \notin DemoReferences
    PROVE  BatchInv'
<1>1. \A b \in Batches : (Started(b)' <=> Started(b)) /\ (OwnAmongStarted(b)' <=> OwnAmongStarted(b))
  BY DEF Started, OwnAmongStarted
<1>2. \A k \in Tasks : ReferenceOf(k)' = ReferenceOf(k)
  BY DEF ReferenceOf
<1> QED
  BY <1>1, <1>2 DEF BatchInv

\* The last balance read before a batch starts it.
LEMMA StartKeepsBatches ==
    ASSUME BatchInv, NEW b \in Batches, dPc[b] = "before",
           dPc' = [dPc EXCEPT ![b] = "batch"], dBase' = [dBase EXCEPT ![b] = clock],
           dRunning' = [dRunning EXCEPT ![b] = TasksOf(b)],
           UNCHANGED <<dResults, clock, transfers>>
    PROVE  BatchInv'
<1>1. ~Started(b) /\ dResults[b] = {}
  BY DEF BatchInv, Started
<1>2. \A k \in TasksOf(b) : k \in Tasks /\ k.batch = b
  BY DEF TasksOf, Tasks
<1>3. ASSUME NEW c \in Batches \ {b}
      PROVE  /\ dRunning'[c] = dRunning[c] /\ dBase'[c] = dBase[c]
             /\ Started(c)' <=> Started(c)
             /\ OwnAmongStarted(c)' => OwnAmongStarted(c)
  BY <1>1, <1>3 DEF BatchInv, Started, OwnAmongStarted
<1>4. /\ dPc' \in [Batches -> {"idle", "before", "batch", "reported", "failed"}]
      /\ dBase' \in [Batches -> Nat \cup {None}]
      /\ dRunning' \in [Batches -> SUBSET Tasks]
      /\ dBase'[b] \in Nat /\ dRunning'[b] = TasksOf(b) /\ dPc'[b] = "batch"
  BY <1>2 DEF BatchInv
<1>5. ASSUME NEW c \in Batches
      PROVE  /\ dPc'[c] \in {"idle", "before"} => ~Started(c)'
             /\ Started(c)' => dBase'[c] \in Nat
             /\ \A k \in dRunning'[c] : k.batch = c
             /\ OwnAmongStarted(c)' =>
                   \A r \in dResults'[c] : /\ r.kind = "completed" => r.transfer = r.task
                                           /\ r.kind # "IDEMPOTENCY_CONFLICT"
  BY <1>1, <1>2, <1>3, <1>4 DEF BatchInv
<1>6. ASSUME NEW t \in transfers
      PROVE  IF t.id \in Tasks
             THEN /\ dResults'[t.id.batch] # {}
                  /\ t.id \notin dRunning'[t.id.batch]
                  /\ t.reference = ReferenceOf(t.id)'
             ELSE t.reference \notin DemoReferences
  <2>1. t.id \in Tasks => t.id.batch \in Batches \ {b}
    BY <1>1 DEF BatchInv, Tasks
  <2>2. t.id \in Tasks => ReferenceOf(t.id)' = ReferenceOf(t.id)
    BY <2>1, <1>3 DEF ReferenceOf
  <2> QED
    BY <1>3, <2>1, <2>2 DEF BatchInv
<1> QED
  BY <1>4, <1>5, <1>6 DEF BatchInv
LEMMA BatchInvHolds == ClientsSpec => []BatchInv
<1>1. ClientsInit => BatchInv
  BY DEF ClientsInit, ClockInit, DemoInit, TablesInit, BatchInv, Started
<1>2. ASSUME BatchInv, [ClientsNext]_clientsVars PROVE BatchInv'
  <2> USE <1>2
  <2>1. ASSUME NEW id \in Others, OtherRequest(id), UNCHANGED <<clock, demoVars>>
        PROVE  BatchInv'
    <3>1. \A t \in transfers' : t \in transfers \/ (t.id \notin Tasks /\ t.reference \notin DemoReferences)
      <4>1. ASSUME NEW o \in Orders, Move(id, o)
            PROVE  \A t \in transfers' : t \in transfers \/ (t.id = id /\ t.reference = o.reference)
        BY <4>1, MoveAddsOne
      <4>2. \A o \in Orders : o.reference \notin DemoReferences
        BY ClientsAssumption
      <4>3. id \notin Tasks
        BY <2>1, ClientsAssumption
      <4>4. ASSUME NEW o \in Orders, Move(id, o), NEW t \in transfers', t \notin transfers
            PROVE  t.id \notin Tasks /\ t.reference \notin DemoReferences
        BY <4>1, <4>2, <4>3, <4>4
      <4>5. (\E o \in Orders : Move(id, o)) \/ transfers' = transfers
        BY <2>1 DEF OtherRequest, TopUp, SetStatus, Open
      <4> QED
        BY <4>4, <4>5
    <3> QED
      BY <2>1, <3>1, OthersKeepBatches DEF demoVars, BatchInv
  <2>2. ASSUME NEW b \in Batches, DemoStep(b), UNCHANGED clock
        PROVE  BatchInv'
    <3>1. ASSUME NEW d \in DemoBodies, ReceiveDemo(b, d) PROVE BatchInv'
      BY <2>2, <3>1, OthersKeepBatches DEF ReceiveDemo, tables, BatchInv
    <3>2. ASSUME NEW side \in Sides, ReadBefore(b, side) PROVE BatchInv'
      <4>1. \/ dPc' = dPc /\ UNCHANGED <<dBase, dRunning>>
            \/ dPc' = [dPc EXCEPT ![b] = "failed"] /\ UNCHANGED <<dBase, dRunning>>
            \/ /\ dPc' = [dPc EXCEPT ![b] = "batch"] /\ dBase' = [dBase EXCEPT ![b] = clock]
               /\ dRunning' = [dRunning EXCEPT ![b] = TasksOf(b)]
        BY <3>2 DEF ReadBefore
      <4>2. dPc[b] = "before" /\ UNCHANGED <<dResults, transfers>>
        BY <3>2 DEF ReadBefore, tables
      <4>3. CASE UNCHANGED <<dBase, dRunning>> /\ (dPc' = dPc \/ dPc' = [dPc EXCEPT ![b] = "failed"])
        BY <2>2, <4>2, <4>3, OthersKeepBatches DEF BatchInv
      <4> QED
        BY <2>2, <4>1, <4>2, <4>3, StartKeepsBatches
    <3>3. ASSUME NEW side \in Sides, ReadAfter(b, side) PROVE BatchInv'
      BY <2>2, <3>3, OthersKeepBatches DEF ReadAfter, tables, BatchInv
    <3>4. ASSUME NEW k \in dRunning[b], TaskStep(k) PROVE BatchInv'
      BY <2>2, <3>4, TaskKeepsBatches
    <3>5. CASE DemoReadFails(b)
      BY <2>2, <3>5, OthersKeepBatches DEF DemoReadFails, tables, BatchInv
    <3> QED
      BY <2>2, <3>1, <3>2, <3>3, <3>4, <3>5 DEF DemoStep
  <2>3. CASE UNCHANGED <<transfers, demoVars>> /\ clock' \in Nat
    BY <2>3, OthersKeepBatches DEF demoVars, BatchInv
  <2>4. CASE Tick /\ UNCHANGED <<tables, demoVars>>
    BY <2>3, <2>4 DEF Tick, tables, BatchInv
  <2>5. CASE UNCHANGED <<tables, clock, demoVars>>
    BY <2>3, <2>5 DEF tables, BatchInv
  <2> QED
    BY <2>1, <2>2, <2>4, <2>5 DEF ClientsNext, clientsVars
<1> QED
  BY <1>1, <1>2, PTL DEF ClientsSpec

-----------------------------------------------------------------------------
(***************************************************************************)
(* The report.                                                             *)
(***************************************************************************)

\* A step writes at most one entry to the ledger of a, and it names x.
Wrote(a, x) ==
    ledger'[a] = ledger[a] \/ \E e : ledger'[a] = Append(ledger[a], e) /\ e.transfer = x

\* What has been written stays, and so do the balances between the entries.
LEMMA WrittenStays ==
    ASSUME TablesTypeOK, NEW a \in Accounts, NEW x, Wrote(a, x)
    PROVE  /\ Len(ledger[a]) \in Nat /\ Len(ledger'[a]) \in Nat
           /\ Len(ledger[a]) <= Len(ledger'[a])
           /\ \A i \in 1..Len(ledger[a]) : ledger'[a][i] = ledger[a][i]
           /\ \A i \in 1..Len(ledger'[a]) : i > Len(ledger[a]) => ledger'[a][i].transfer = x
           /\ \A i \in 1..Len(ledger[a]) + 1 : BalanceBefore(a, i)' = BalanceBefore(a, i)
<1>1. ledger[a] \in Seq(Entry) /\ Len(ledger[a]) \in Nat
  BY LenProperties DEF TablesTypeOK
<1>2. CASE ledger'[a] = ledger[a]
  BY <1>1, <1>2 DEF BalanceBefore
<1>3. ASSUME NEW e, ledger'[a] = Append(ledger[a], e), e.transfer = x
      PROVE  /\ Len(ledger'[a]) = Len(ledger[a]) + 1
             /\ \A i \in 1..Len(ledger[a]) : ledger'[a][i] = ledger[a][i]
             /\ ledger'[a][Len(ledger[a]) + 1] = e
  <2>1. ledger[a] \in Seq(Entry \cup {e})
    BY <1>1, SeqMonotonic
  <2> QED
    BY <1>3, <2>1, AppendProperties
<1>4. CASE ledger'[a] # ledger[a]
  <2>1. /\ Len(ledger'[a]) = Len(ledger[a]) + 1
        /\ \A i \in 1..Len(ledger[a]) : ledger'[a][i] = ledger[a][i]
        /\ ledger'[a][Len(ledger[a]) + 1].transfer = x
    BY <1>3, <1>4 DEF Wrote
  <2>2. \A i \in 1..Len(ledger[a]) + 1 : BalanceBefore(a, i)' = BalanceBefore(a, i)
    BY <1>1, <2>1 DEF BalanceBefore
  <2> QED
    BY <1>1, <2>1, <2>2
<1> QED
  BY <1>2, <1>4

LEMMA MoveWrites ==
    ASSUME TablesTypeOK, NEW id, NEW o \in Order, Move(id, o), NEW a \in Accounts
    PROVE  Wrote(a, id)
<1>1. ledger \in [Accounts -> Seq(Entry)] /\ o.source # o.destination
  BY DEF TablesTypeOK, Move, RulesAllow
<1>2. o.source \in Accounts /\ o.destination \in Accounts
  BY DEF Order
<1>3. CASE a = o.source
  <2>1. ledger'[a] = Append(ledger[a],
            [transfer |-> id, type |-> "DEBIT", amount |-> o.amount,
             balance_after |-> accounts[o.source].available - o.amount])
    BY <1>1, <1>2, <1>3 DEF Move
  <2> QED
    BY <2>1 DEF Wrote
<1>4. CASE a = o.destination
  <2>1. ledger'[a] = Append(ledger[a],
            [transfer |-> id, type |-> "CREDIT", amount |-> o.amount,
             balance_after |-> accounts[o.destination].available + o.amount])
    BY <1>1, <1>2, <1>4 DEF Move
  <2> QED
    BY <2>1 DEF Wrote
<1>5. CASE a \notin {o.source, o.destination}
  BY <1>1, <1>2, <1>5 DEF Move, Wrote
<1> QED
  BY <1>3, <1>4, <1>5

LEMMA TopUpWrites ==
    ASSUME TablesTypeOK, NEW u \in TopUpOrders, TopUp(u), NEW a \in Accounts
    PROVE  Wrote(a, None)
<1>1. ledger \in [Accounts -> Seq(Entry)] /\ u.account \in Accounts
  BY BankAssumption DEF TablesTypeOK
<1>2. CASE a = u.account
  <2>1. ledger'[a] = Append(ledger[a],
            [transfer |-> None, type |-> "CREDIT", amount |-> u.amount,
             balance_after |-> accounts[u.account].available + u.amount])
    BY <1>1, <1>2 DEF TopUp
  <2> QED
    BY <2>1 DEF Wrote
<1>3. CASE a # u.account
  BY <1>1, <1>3 DEF TopUp, Wrote
<1> QED
  BY <1>2, <1>3
-----------------------------------------------------------------------------
\* The entries of one-step requests are those of no batch.
LEMMA OthersWrite ==
    ASSUME BankInv, NEW id \in Others, OtherRequest(id)
    PROVE  /\ BankInv'
           /\ \A a \in Accounts : Stays(a)
           /\ \E x \in {id, None} : \A a \in Accounts : Wrote(a, x)
<1>1. id \in Sessions /\ TablesTypeOK
  BY ClientsAssumption DEF BankInv
<1>2. BankNext
  BY <1>1 DEF OtherRequest, BankNext
<1>3. BankInv' /\ \A a \in Accounts : Stays(a)
  BY <1>1, <1>2, BankStep, StepAppends
<1>4. ASSUME NEW o \in Orders, Move(id, o) PROVE \A a \in Accounts : Wrote(a, id)
  BY <1>1, <1>4, MoveWrites, BankAssumption
<1>5. ASSUME NEW u \in TopUpOrders, TopUp(u) PROVE \A a \in Accounts : Wrote(a, None)
  BY <1>1, <1>5, TopUpWrites
<1>6. ASSUME UNCHANGED ledger PROVE \A a \in Accounts : Wrote(a, None)
  BY <1>6 DEF Wrote
<1> QED
  BY <1>3, <1>4, <1>5, <1>6 DEF OtherRequest, SetStatus, Open

\* Entry k of a was written by a transfer of batch b.
OfBatch(b, a, k) == \E t \in TasksOf(b) : ledger[a][k].transfer = t

\* The balance in dBefore is one its account had before everything the batch moved.
SeenBefore(b, side) ==
    \E i \in 1..Len(ledger[AccountAt(b, side)]) + 1 :
        /\ BalanceBefore(AccountAt(b, side), i) = dBefore[b][side]
        /\ \A k \in 1..Len(ledger[AccountAt(b, side)]) :
              OfBatch(b, AccountAt(b, side), k) => i <= k

\* The balance in dAfter is one its account had after everything the batch moved.
SeenAfter(b, side) ==
    \E j \in 1..Len(ledger[AccountAt(b, side)]) + 1 :
        /\ BalanceBefore(AccountAt(b, side), j) = dAfter[b][side]
        /\ \A k \in 1..Len(ledger[AccountAt(b, side)]) :
              OfBatch(b, AccountAt(b, side), k) => k < j

\* What a batch knows while it runs.
BatchSound(b) ==
    /\ dUnread[b] \subseteq Sides
    /\ dBefore[b] = [side \in Sides |-> dBefore[b][side]]
    /\ dAfter[b] = [side \in Sides |-> dAfter[b][side]]
    /\ dPc[b] \in {"before", "batch", "reported"} => dReq[b] \in DemoBodies
    /\ dPc[b] = "idle" => dUnread[b] = Sides
    /\ dRunning[b] # {} => /\ dPc[b] = "batch" /\ dUnread[b] = Sides
                           /\ dBase[b] \in 1..MaxClock
                           /\ dRunning[b] \subseteq TasksOf(b)
    /\ \A r \in dResults[b] : r.task \in TasksOf(b)
    /\ dPc[b] = "before" => \A side \in Sides \ dUnread[b] : dBefore[b][side] # None =>
          SeenBefore(b, side) /\ accounts[AccountAt(b, side)] # NoRow
    /\ dPc[b] \in {"batch", "reported"} =>
          \A side \in Sides : SeenBefore(b, side) /\ accounts[AccountAt(b, side)] # NoRow
    /\ dPc[b] = "batch" => \A side \in Sides \ dUnread[b] : SeenAfter(b, side)
    /\ dPc[b] = "reported" => \A side \in Sides : SeenAfter(b, side)

\* The inductive invariant behind ReportSpansItsTransfers, beside BankInv and BatchInv.
ReportInv ==
    /\ clock \in 1..MaxClock
    /\ dReq = [b \in Batches |-> dReq[b]]
    /\ dUnread = [b \in Batches |-> dUnread[b]]
    /\ dBefore = [b \in Batches |-> dBefore[b]]
    /\ dAfter = [b \in Batches |-> dAfter[b]]
    /\ \A b \in Batches : BatchSound(b)

\* The accounts and the transfers of a batch.
LEMMA BatchTyped ==
    ASSUME NEW b \in Batches, dReq[b] \in DemoBodies
    PROVE  /\ \A side \in Sides : AccountAt(b, side) \in Accounts
           /\ \A k \in TasksOf(b) : k \in Tasks /\ k.batch = b /\ k \in Sessions
<1>1. dReq[b] \in DemoBody
  BY DemoAssumption
<1>2. \A side \in Sides : AccountAt(b, side) \in Accounts
  BY <1>1 DEF DemoBody, AccountAt
<1>3. ASSUME NEW k \in TasksOf(b) PROVE k \in Tasks /\ k.batch = b /\ k \in Sessions
  <2>1. PICK dir \in Directions : \E i \in 0..dReq[b].count[dir] - 1 :
            k = [batch |-> b, direction |-> dir, index |-> i]
    BY <1>3 DEF TasksOf
  <2>2. \A i \in 0..dReq[b].count[dir] - 1 : i \in Nat
    OBVIOUS
  <2> QED
    BY <2>1, <2>2, DemoAssumption DEF Tasks
<1> QED
  BY <1>2, <1>3

\* The body of a transfer of a batch is an order like any other.
LEMMA OrderTyped ==
    ASSUME NEW b \in Batches, BatchSound(b), NEW k \in dRunning[b]
    PROVE  OrderOf(k) \in Order
<1>1. dReq[b] \in DemoBodies /\ dReq[b] \in DemoBody /\ dBase[b] \in 1..MaxClock /\ k \in TasksOf(b)
  BY DemoAssumption DEF BatchSound
<1>2. PICK dir \in Directions : \E i \in 0..dReq[b].count[dir] - 1 :
          k = [batch |-> b, direction |-> dir, index |-> i]
  BY <1>1 DEF TasksOf
<1>3. ReferenceOf(k) \in References
  BY <1>1, <1>2, DemoAssumption DEF ReferenceOf
<1>4. dReq[b].amount[dir] \in Amount /\ dReq[b].source \in Accounts
      /\ dReq[b].destination \in Accounts /\ dReq[b].currency \in Currencies
  BY <1>1, <1>2 DEF DemoBody
<1>5. k.batch = b /\ k.direction = dir
  BY <1>2
<1> QED
  BY <1>3, <1>4, <1>5 DEF OrderOf, Order
-----------------------------------------------------------------------------
\* What a batch has seen stays seen, as long as none of its transfers is added to
\* what it has seen last.
LEMMA SeenStays ==
    ASSUME TablesTypeOK, NEW b \in Batches, NEW side \in Sides, NEW a \in Accounts,
           AccountAt(b, side) = a, dReq'[b] = dReq[b], dBefore'[b] = dBefore[b],
           NEW x, Wrote(a, x)
    PROVE  /\ SeenBefore(b, side) => SeenBefore(b, side)'
           /\ SeenAfter(b, side) /\ dAfter'[b] = dAfter[b] /\ x \notin TasksOf(b)
                 => SeenAfter(b, side)'
<1>1. AccountAt(b, side)' = a /\ TasksOf(b)' = TasksOf(b)
  BY DEF AccountAt, TasksOf
<1>2. /\ Len(ledger[a]) \in Nat /\ Len(ledger'[a]) \in Nat /\ Len(ledger[a]) <= Len(ledger'[a])
      /\ \A i \in 1..Len(ledger[a]) : ledger'[a][i] = ledger[a][i]
      /\ \A i \in 1..Len(ledger'[a]) : i > Len(ledger[a]) => ledger'[a][i].transfer = x
      /\ \A i \in 1..Len(ledger[a]) + 1 : BalanceBefore(a, i)' = BalanceBefore(a, i)
  BY WrittenStays
<1>3. \A k \in 1..Len(ledger[a]) : (\E t \in TasksOf(b) : ledger'[a][k].transfer = t)
                                      <=> OfBatch(b, a, k)
  BY <1>2 DEF OfBatch
<1>4. ASSUME SeenBefore(b, side) PROVE SeenBefore(b, side)'
  <2>1. PICK i \in 1..Len(ledger[a]) + 1 :
            /\ BalanceBefore(a, i) = dBefore[b][side]
            /\ \A k \in 1..Len(ledger[a]) : OfBatch(b, a, k) => i <= k
    BY <1>4 DEF SeenBefore
  <2>2. i \in 1..Len(ledger'[a]) + 1 /\ BalanceBefore(a, i)' = dBefore[b][side]
    BY <1>2, <2>1
  <2>3. ASSUME NEW k \in 1..Len(ledger'[a]), \E t \in TasksOf(b) : ledger'[a][k].transfer = t
        PROVE  i <= k
    <3>1. CASE k \in 1..Len(ledger[a])
      BY <1>3, <2>1, <2>3, <3>1
    <3>2. CASE k > Len(ledger[a])
      BY <1>2, <3>2
    <3> QED
      BY <1>2, <3>1, <3>2
  <2> QED
    BY <1>1, <2>2, <2>3 DEF SeenBefore, OfBatch
<1>5. ASSUME SeenAfter(b, side), dAfter'[b] = dAfter[b], x \notin TasksOf(b)
      PROVE  SeenAfter(b, side)'
  <2>1. PICK j \in 1..Len(ledger[a]) + 1 :
            /\ BalanceBefore(a, j) = dAfter[b][side]
            /\ \A k \in 1..Len(ledger[a]) : OfBatch(b, a, k) => k < j
    BY <1>5 DEF SeenAfter
  <2>2. j \in 1..Len(ledger'[a]) + 1 /\ BalanceBefore(a, j)' = dAfter[b][side]
    BY <1>2, <2>1
  <2>3. ASSUME NEW k \in 1..Len(ledger'[a]), \E t \in TasksOf(b) : ledger'[a][k].transfer = t
        PROVE  k < j
    <3>1. k \in 1..Len(ledger[a])
      BY <1>2, <1>5, <2>3
    <3> QED
      BY <1>3, <2>1, <2>3, <3>1
  <2> QED
    BY <1>1, <1>5, <2>2, <2>3 DEF SeenAfter, OfBatch
<1> QED
  BY <1>4, <1>5

\* A step in which batch b takes no part.
LEMMA SoundStays ==
    ASSUME TablesTypeOK, NEW b \in Batches, BatchSound(b),
           dPc'[b] = dPc[b], dReq'[b] = dReq[b], dUnread'[b] = dUnread[b],
           dBefore'[b] = dBefore[b], dAfter'[b] = dAfter[b], dBase'[b] = dBase[b],
           dRunning'[b] = dRunning[b], dResults'[b] = dResults[b],
           NEW x, \A a \in Accounts : Wrote(a, x) /\ Stays(a),
           dReq[b] \in DemoBodies => x \notin TasksOf(b)
    PROVE  BatchSound(b)'
<1>1. /\ TasksOf(b)' = TasksOf(b)
      /\ \A side \in Sides : AccountAt(b, side)' = AccountAt(b, side)
  BY DEF TasksOf, AccountAt
<1>2. CASE dReq[b] \in DemoBodies
  <2>1. ASSUME NEW side \in Sides
        PROVE  /\ SeenBefore(b, side) => SeenBefore(b, side)'
               /\ SeenAfter(b, side) => SeenAfter(b, side)'
               /\ accounts[AccountAt(b, side)] # NoRow => accounts'[AccountAt(b, side)'] # NoRow
    <3>1. AccountAt(b, side) \in Accounts
      BY <1>2, BatchTyped
    <3> QED
      BY <1>1, <1>2, <3>1, SeenStays DEF Stays
  <2> QED
    BY <1>1, <1>2, <2>1 DEF BatchSound
<1>3. CASE dReq[b] \notin DemoBodies
  BY <1>1, <1>3 DEF BatchSound
<1> QED
  BY <1>2, <1>3

\* A batch that is alone in this step.
LEMMA OneBatchSteps ==
    ASSUME BankInv, ReportInv, NEW b \in Batches, clock' = clock,
           \A c \in Batches \ {b} :
              /\ dPc'[c] = dPc[c] /\ dReq'[c] = dReq[c] /\ dUnread'[c] = dUnread[c]
              /\ dBefore'[c] = dBefore[c] /\ dAfter'[c] = dAfter[c] /\ dBase'[c] = dBase[c]
              /\ dRunning'[c] = dRunning[c] /\ dResults'[c] = dResults[c],
           dReq' = [c \in Batches |-> dReq'[c]], dUnread' = [c \in Batches |-> dUnread'[c]],
           dBefore' = [c \in Batches |-> dBefore'[c]], dAfter' = [c \in Batches |-> dAfter'[c]],
           NEW x, \A a \in Accounts : Wrote(a, x) /\ Stays(a),
           \A c \in Batches \ {b} : dReq[c] \in DemoBodies => x \notin TasksOf(c),
           BatchSound(b)'
    PROVE  ReportInv'
<1>1. TablesTypeOK
  BY DEF BankInv
<1>2. ASSUME NEW c \in Batches \ {b} PROVE BatchSound(c)'
  BY <1>1, <1>2, SoundStays DEF ReportInv
<1> QED
  BY <1>2 DEF ReportInv
-----------------------------------------------------------------------------
\* The account of a row read now has had its balance after all its entries.
LEMMA BalanceNow ==
    ASSUME BankInv, NEW a \in Accounts
    PROVE  /\ Len(ledger[a]) \in Nat
           /\ BalanceBefore(a, Len(ledger[a]) + 1) = accounts[a].available
<1>1. ledger[a] \in Seq(Entry) /\ accounts[a].available = LastBalance(a)
  BY DEF BankInv, TablesTypeOK, BalanceMatchesLedger
<1>2. Len(ledger[a]) \in Nat /\ (Len(ledger[a]) = 0 <=> ledger[a] = <<>>)
  BY <1>1, EmptySeq, LenProperties
<1>3. CASE ledger[a] = <<>>
  BY <1>1, <1>2, <1>3 DEF LastBalance, BalanceBefore
<1>4. CASE ledger[a] # <<>>
  BY <1>1, <1>2, <1>4 DEF LastBalance, BalanceBefore
<1> QED
  BY <1>3, <1>4, <1>2

\* Before a batch starts, no entry is one of its transfers.
LEMMA NothingMovedYet ==
    ASSUME BankInv, BatchInv, NEW b \in Batches, dReq[b] \in DemoBodies, ~Started(b),
           NEW a \in Accounts, NEW k \in 1..Len(ledger[a])
    PROVE  ~OfBatch(b, a, k)
<1> SUFFICES ASSUME NEW t \in TasksOf(b), ledger[a][k].transfer = t PROVE FALSE
  BY DEF OfBatch
<1>1. t \in Tasks /\ t.batch = b /\ t # None
  BY BatchTyped, TablesAssumption
<1>2. PICK u \in transfers : u.id = t
  BY <1>1 DEF BankInv, DoubleEntry
<1> QED
  BY <1>1, <1>2 DEF BatchInv, Started

\* A step that writes no table.
LEMMA QuietStep ==
    ASSUME UNCHANGED tables
    PROVE  /\ \A a \in Accounts : Wrote(a, None) /\ Stays(a)
           /\ \A c \in Batches : dReq[c] \in DemoBodies => None \notin TasksOf(c)
<1>1. UNCHANGED accounts /\ UNCHANGED ledger
  BY DEF tables
<1> QED
  BY <1>1, BatchTyped, TablesAssumption DEF Wrote, Stays

LEMMA ReceiveSound ==
    ASSUME BankInv, BatchInv, ReportInv, NEW b \in Batches, NEW d \in DemoBodies,
           ReceiveDemo(b, d), clock' = clock
    PROVE  ReportInv'
<1>1. BatchSound(b) /\ ~Started(b)
  BY DEF ReceiveDemo, ReportInv, BatchInv
<1>2. dPc'[b] = "before" /\ dReq'[b] = d
  BY DEF ReceiveDemo, ReportInv, BatchInv
<1>3. /\ UNCHANGED tables
      /\ UNCHANGED <<dUnread, dBefore, dAfter, dBase, dRunning, dResults>>
  BY DEF ReceiveDemo
<1>4. dUnread[b] = Sides /\ dRunning[b] = {} /\ dResults[b] = {}
  BY <1>1 DEF ReceiveDemo, BatchSound, Started
<1>5. BatchSound(b)'
  BY <1>1, <1>2, <1>3, <1>4 DEF BatchSound
<1>6. /\ \A c \in Batches \ {b} : dPc'[c] = dPc[c] /\ dReq'[c] = dReq[c]
      /\ dReq' = [c \in Batches |-> dReq'[c]]
  BY DEF ReceiveDemo, ReportInv, BatchInv
<1> QED
  BY <1>3, <1>5, <1>6, QuietStep, OneBatchSteps DEF ReportInv

LEMMA ReadBeforeSound ==
    ASSUME BankInv, BatchInv, ReportInv, NEW b \in Batches, NEW side \in Sides,
           ReadBefore(b, side), clock' = clock
    PROVE  ReportInv'
<1>1. /\ BatchSound(b) /\ ~Started(b) /\ dPc[b] = "before" /\ side \in dUnread[b]
      /\ dRunning[b] = {} /\ dResults[b] = {} /\ dReq[b] \in DemoBodies
  BY DEF ReadBefore, ReportInv, BatchInv, BatchSound, Started
<1>2. /\ UNCHANGED tables
      /\ UNCHANGED <<dReq, dAfter, dResults>>
      /\ dBefore' = [dBefore EXCEPT ![b][side] = IF accounts[AccountAt(b, side)] = NoRow THEN None
                                                 ELSE accounts[AccountAt(b, side)].available]
  BY DEF ReadBefore
<1>3. /\ accounts' = accounts /\ ledger' = ledger
      /\ TasksOf(b)' = TasksOf(b)
      /\ \A s \in Sides : AccountAt(b, s)' = AccountAt(b, s) /\ AccountAt(b, s) \in Accounts
  BY <1>1, <1>2, BatchTyped DEF tables, TasksOf, AccountAt
<1>4. /\ dBefore'[b] = [s \in Sides |-> dBefore'[b][s]]
      /\ dBefore'[b][side] = IF accounts[AccountAt(b, side)] = NoRow THEN None
                             ELSE accounts[AccountAt(b, side)].available
      /\ \A s \in Sides \ {side} : dBefore'[b][s] = dBefore[b][s]
      /\ \A c \in Batches \ {b} : dBefore'[c] = dBefore[c]
      /\ dBefore' = [c \in Batches |-> dBefore'[c]]
  <2>1. dBefore = [c \in Batches |-> dBefore[c]] /\ dBefore[b] = [s \in Sides |-> dBefore[b][s]]
    BY <1>1 DEF ReportInv, BatchSound
  <2> QED
    BY <1>2, <2>1
<1>5. ASSUME dBefore'[b][side] # None
      PROVE  SeenBefore(b, side)' /\ accounts[AccountAt(b, side)] # NoRow
  <2> DEFINE n == Len(ledger[AccountAt(b, side)]) + 1
  <2>1. n \in 1..n /\ BalanceBefore(AccountAt(b, side), n) = dBefore'[b][side]
    BY <1>3, <1>4, <1>5, BalanceNow
  <2>2. BalanceBefore(AccountAt(b, side), n)' = dBefore'[b][side]
    BY <1>3, <2>1 DEF BalanceBefore
  <2>3. \A k \in 1..Len(ledger[AccountAt(b, side)]) : ~OfBatch(b, AccountAt(b, side), k)
    BY <1>1, <1>3, NothingMovedYet
  <2>4. \A k \in 1..Len(ledger'[AccountAt(b, side)']) : ~OfBatch(b, AccountAt(b, side), k)'
    BY <1>3, <2>3 DEF OfBatch
  <2>5. SeenBefore(b, side)'
    BY <1>3, <2>1, <2>2, <2>4 DEF SeenBefore
  <2> QED
    BY <1>4, <1>5, <2>5
<1>6. ASSUME NEW s \in Sides \ {side}, SeenBefore(b, s) PROVE SeenBefore(b, s)'
  BY <1>3, <1>4, <1>6 DEF SeenBefore, BalanceBefore, OfBatch
<1>7. ASSUME NEW s \in Sides, s = side \/ s \notin dUnread[b], dBefore'[b][s] # None
      PROVE  SeenBefore(b, s)' /\ accounts'[AccountAt(b, s)'] # NoRow
  <2>1. CASE s = side
    BY <1>3, <1>5, <1>7, <2>1
  <2>2. CASE s # side
    <3>1. SeenBefore(b, s) /\ accounts[AccountAt(b, s)] # NoRow
      BY <1>1, <1>4, <1>7, <2>2 DEF BatchSound
    <3> QED
      BY <1>3, <1>6, <2>2, <3>1
  <2> QED
    BY <2>1, <2>2
<1>8. CASE dUnread' = [dUnread EXCEPT ![b] = @ \ {side}] /\ UNCHANGED <<dPc, dBase, dRunning>>
  <2>1. /\ dUnread'[b] = dUnread[b] \ {side}
        /\ \A c \in Batches \ {b} : dUnread'[c] = dUnread[c]
        /\ dUnread' = [c \in Batches |-> dUnread'[c]]
    BY <1>8 DEF ReportInv
  <2>2. BatchSound(b)'
    BY <1>1, <1>2, <1>3, <1>4, <1>7, <1>8, <2>1 DEF BatchSound
  <2> QED
    BY <1>2, <1>4, <1>8, <2>1, <2>2, QuietStep, OneBatchSteps DEF ReportInv
<1>9. CASE /\ dUnread[b] = {side} /\ \A s \in Sides : dBefore'[b][s] # None
           /\ dUnread' = [dUnread EXCEPT ![b] = Sides] /\ dBase' = [dBase EXCEPT ![b] = clock]
           /\ dRunning' = [dRunning EXCEPT ![b] = TasksOf(b)]
           /\ dPc' = [dPc EXCEPT ![b] = "batch"]
  <2>1. /\ dUnread'[b] = Sides /\ dBase'[b] = clock /\ dRunning'[b] = TasksOf(b)
        /\ dPc'[b] = "batch"
        /\ \A c \in Batches \ {b} : /\ dUnread'[c] = dUnread[c] /\ dBase'[c] = dBase[c]
                                    /\ dRunning'[c] = dRunning[c] /\ dPc'[c] = dPc[c]
        /\ dUnread' = [c \in Batches |-> dUnread'[c]]
    BY <1>9 DEF ReportInv, BatchInv
  <2>2. \A s \in Sides : SeenBefore(b, s)' /\ accounts'[AccountAt(b, s)'] # NoRow
    BY <1>7, <1>9
  <2>3. clock \in 1..MaxClock
    BY DEF ReportInv
  <2>4. BatchSound(b)'
    BY <1>1, <1>2, <1>3, <1>4, <1>9, <2>1, <2>2, <2>3 DEF BatchSound
  <2> QED
    BY <1>2, <1>4, <2>1, <2>4, QuietStep, OneBatchSteps DEF ReportInv
<1>10. CASE dPc' = [dPc EXCEPT ![b] = "failed"] /\ UNCHANGED <<dUnread, dBase, dRunning>>
  <2>1. dPc'[b] = "failed" /\ \A c \in Batches \ {b} : dPc'[c] = dPc[c]
    BY <1>10 DEF BatchInv
  <2>2. BatchSound(b)'
    BY <1>1, <1>2, <1>3, <1>4, <1>10, <2>1 DEF BatchSound
  <2> QED
    BY <1>2, <1>4, <1>10, <2>1, <2>2, QuietStep, OneBatchSteps DEF ReportInv
<1> QED
  BY <1>8, <1>9, <1>10 DEF ReadBefore
-----------------------------------------------------------------------------
LEMMA ReadAfterSound ==
    ASSUME BankInv, BatchInv, ReportInv, NEW b \in Batches, NEW side \in Sides,
           ReadAfter(b, side), clock' = clock
    PROVE  ReportInv'
<1>1. /\ BatchSound(b) /\ dPc[b] = "batch" /\ dRunning[b] = {} /\ side \in dUnread[b]
      /\ dReq[b] \in DemoBodies /\ accounts[AccountAt(b, side)] # NoRow
  BY DEF ReadAfter, BatchEnded, ReportInv, BatchSound
<1>2. /\ UNCHANGED tables
      /\ UNCHANGED <<dReq, dBefore, dBase, dRunning, dResults>>
      /\ dAfter' = [dAfter EXCEPT ![b][side] = accounts[AccountAt(b, side)].available]
      /\ dUnread' = [dUnread EXCEPT ![b] = @ \ {side}]
      /\ dPc' = [dPc EXCEPT ![b] = IF dUnread[b] = {side} THEN "reported" ELSE "batch"]
  BY <1>1 DEF ReadAfter
<1>3. /\ accounts' = accounts /\ ledger' = ledger
      /\ TasksOf(b)' = TasksOf(b)
      /\ \A s \in Sides : AccountAt(b, s)' = AccountAt(b, s) /\ AccountAt(b, s) \in Accounts
  BY <1>1, <1>2, BatchTyped DEF tables, TasksOf, AccountAt
<1>4. /\ dAfter'[b] = [s \in Sides |-> dAfter'[b][s]]
      /\ dAfter'[b][side] = accounts[AccountAt(b, side)].available
      /\ \A s \in Sides \ {side} : dAfter'[b][s] = dAfter[b][s]
      /\ \A c \in Batches \ {b} : dAfter'[c] = dAfter[c]
      /\ dAfter' = [c \in Batches |-> dAfter'[c]]
  <2>1. dAfter = [c \in Batches |-> dAfter[c]] /\ dAfter[b] = [s \in Sides |-> dAfter[b][s]]
    BY <1>1 DEF ReportInv, BatchSound
  <2> QED
    BY <1>2, <2>1
<1>5. SeenAfter(b, side)'
  <2> DEFINE n == Len(ledger[AccountAt(b, side)]) + 1
  <2>1. /\ n \in 1..n /\ BalanceBefore(AccountAt(b, side), n) = dAfter'[b][side]
        /\ \A k \in 1..Len(ledger[AccountAt(b, side)]) : k < n
    BY <1>3, <1>4, BalanceNow
  <2>2. BalanceBefore(AccountAt(b, side), n)' = dAfter'[b][side]
    BY <1>3, <2>1 DEF BalanceBefore
  <2> QED
    BY <1>3, <2>1, <2>2 DEF SeenAfter
<1>6. ASSUME NEW s \in Sides
      PROVE  /\ SeenBefore(b, s) => SeenBefore(b, s)'
             /\ s # side /\ SeenAfter(b, s) => SeenAfter(b, s)'
  <2>1. SeenBefore(b, s) => SeenBefore(b, s)'
    BY <1>2, <1>3 DEF SeenBefore, BalanceBefore, OfBatch
  <2>2. s # side /\ SeenAfter(b, s) => SeenAfter(b, s)'
    BY <1>3, <1>4 DEF SeenAfter, BalanceBefore, OfBatch
  <2> QED
    BY <2>1, <2>2
<1>7. /\ dUnread'[b] = dUnread[b] \ {side}
      /\ dPc'[b] = IF dUnread[b] = {side} THEN "reported" ELSE "batch"
      /\ \A c \in Batches \ {b} : dUnread'[c] = dUnread[c] /\ dPc'[c] = dPc[c]
      /\ dUnread' = [c \in Batches |-> dUnread'[c]]
  BY <1>2 DEF ReportInv, BatchInv
<1>8. BatchSound(b)'
  BY <1>1, <1>2, <1>3, <1>4, <1>5, <1>6, <1>7 DEF BatchSound
<1>9. /\ dReq' = [c \in Batches |-> dReq'[c]] /\ dBefore' = [c \in Batches |-> dBefore'[c]]
      /\ dAfter' = [c \in Batches |-> dAfter'[c]]
      /\ \A c \in Batches : /\ dReq'[c] = dReq[c] /\ dBefore'[c] = dBefore[c]
                            /\ dBase'[c] = dBase[c] /\ dRunning'[c] = dRunning[c]
                            /\ dResults'[c] = dResults[c]
  BY <1>2, <1>4 DEF ReportInv
<1> QED
  BY <1>2, <1>4, <1>7, <1>8, <1>9, QuietStep, OneBatchSteps

LEMMA ReadFailsSound ==
    ASSUME BankInv, BatchInv, ReportInv, NEW b \in Batches, DemoReadFails(b), clock' = clock
    PROVE  ReportInv'
<1>1. BatchSound(b) /\ dRunning[b] = {}
  BY DEF DemoReadFails, BatchEnded, ReportInv, BatchSound
<1>2. /\ UNCHANGED tables
      /\ UNCHANGED <<dReq, dUnread, dBefore, dAfter, dBase, dRunning, dResults>>
      /\ dPc'[b] = "failed" /\ \A c \in Batches \ {b} : dPc'[c] = dPc[c]
  BY DEF DemoReadFails, BatchInv
<1>3. TasksOf(b)' = TasksOf(b)
  BY <1>2 DEF TasksOf
<1>4. BatchSound(b)'
  BY <1>1, <1>2, <1>3 DEF BatchSound
<1> QED
  BY <1>2, <1>4, QuietStep, OneBatchSteps DEF ReportInv

\* A transfer of a batch ends, and writes entries of its own at most.
LEMMA EndSound ==
    ASSUME BankInv, ReportInv, BatchInv, NEW b \in Batches, NEW k \in dRunning[b],
           NEW kind, NEW id, EndTask(k, kind, id), clock' = clock,
           \A a \in Accounts : Wrote(a, k) /\ Stays(a)
    PROVE  ReportInv'
<1>1. /\ TablesTypeOK /\ BatchSound(b) /\ dReq[b] \in DemoBodies /\ dPc[b] = "batch"
      /\ dUnread[b] = Sides /\ k \in TasksOf(b) /\ k.batch = b
      /\ dBase[b] \in 1..MaxClock /\ dRunning[b] \subseteq TasksOf(b)
  BY BatchTyped DEF BankInv, ReportInv, BatchSound
<1>2. /\ UNCHANGED <<dPc, dReq, dUnread, dBefore, dAfter, dBase>>
      /\ dRunning'[b] = dRunning[b] \ {k}
      /\ dResults'[b] = dResults[b] \cup {[task |-> k, kind |-> kind, transfer |-> id]}
      /\ \A c \in Batches \ {b} : dRunning'[c] = dRunning[c] /\ dResults'[c] = dResults[c]
  BY <1>1 DEF EndTask, BatchInv
<1>3. TasksOf(b)' = TasksOf(b)
  BY <1>2 DEF TasksOf
<1>4. ASSUME NEW side \in Sides
      PROVE  SeenBefore(b, side)' /\ accounts'[AccountAt(b, side)'] # NoRow
  <2>1. AccountAt(b, side) \in Accounts /\ AccountAt(b, side)' = AccountAt(b, side)
    BY <1>1, <1>2, BatchTyped DEF AccountAt
  <2>2. SeenBefore(b, side) /\ accounts[AccountAt(b, side)] # NoRow
    BY <1>1 DEF BatchSound
  <2> QED
    BY <1>1, <1>2, <2>1, <2>2, SeenStays DEF Stays
<1>5. \A r \in dResults'[b] : r.task \in TasksOf(b)
  BY <1>1, <1>2 DEF BatchSound
<1>6. BatchSound(b)'
  BY <1>1, <1>2, <1>3, <1>4, <1>5 DEF BatchSound
<1>7. \A c \in Batches \ {b} : dReq[c] \in DemoBodies => k \notin TasksOf(c)
  BY <1>1, BatchTyped
<1> QED
  BY <1>2, <1>6, <1>7, OneBatchSteps DEF ReportInv

LEMMA TaskSound ==
    ASSUME BankInv, ReportInv, BatchInv, NEW b \in Batches, NEW k \in dRunning[b],
           TaskStep(k), clock' = clock
    PROVE  BankInv' /\ ReportInv'
<1>1. BatchSound(b) /\ k \in Sessions /\ OrderOf(k) \in Order /\ TablesTypeOK
  BY BatchTyped, OrderTyped DEF BankInv, ReportInv, BatchSound
<1>2. ASSUME Move(k, OrderOf(k))
      PROVE  BankInv' /\ \A a \in Accounts : Wrote(a, k) /\ Stays(a)
  BY <1>1, <1>2, MoveStep, MoveWrites, MoveAppends
<1>3. ASSUME UNCHANGED tables
      PROVE  BankInv' /\ \A a \in Accounts : Wrote(a, k) /\ Stays(a)
  BY <1>3, BankStep DEF tables, Wrote, Stays
<1>4. /\ \E kind, id : EndTask(k, kind, id)
      /\ Move(k, OrderOf(k)) \/ UNCHANGED tables
  BY DEF TaskStep, TaskMoves, TaskFindsReference, TaskRefused, TaskFails
<1> QED
  BY <1>2, <1>3, <1>4, EndSound
-----------------------------------------------------------------------------
LEMMA ReportInit == ClientsInit => ReportInv /\ BankInv
<1> SUFFICES ASSUME ClientsInit PROVE ReportInv /\ BankInv
  OBVIOUS
<1>1. BankInv
  BY BankInit DEF ClientsInit
<1>2. clock \in 1..MaxClock
  BY ClockAssumption DEF ClientsInit, ClockInit
<1>3. ASSUME NEW b \in Batches PROVE BatchSound(b)
  BY <1>3 DEF ClientsInit, DemoInit, BatchSound
<1> QED
  BY <1>1, <1>2, <1>3 DEF ClientsInit, DemoInit, ReportInv

LEMMA ClientsKeepReports ==
    BankInv /\ BatchInv /\ ReportInv /\ [ClientsNext]_clientsVars => BankInv' /\ ReportInv'
<1> SUFFICES ASSUME BankInv, BatchInv, ReportInv, [ClientsNext]_clientsVars
             PROVE  BankInv' /\ ReportInv'
  OBVIOUS
<1>1. TablesTypeOK
  BY DEF BankInv
<1>2. ASSUME clock' \in 1..MaxClock, UNCHANGED demoVars, \A a \in Accounts : Stays(a),
             NEW x, \A a \in Accounts : Wrote(a, x),
             \A b \in Batches : dReq[b] \in DemoBodies => x \notin TasksOf(b)
      PROVE  ReportInv'
  <2>1. UNCHANGED <<dPc, dReq, dUnread, dBefore, dAfter, dBase, dRunning, dResults>>
    BY <1>2 DEF demoVars
  <2>2. \A b \in Batches : BatchSound(b)'
    BY <1>1, <1>2, <2>1, SoundStays DEF ReportInv
  <2> QED
    BY <1>2, <2>1, <2>2 DEF ReportInv
<1>3. ASSUME NEW id \in Others, OtherRequest(id), UNCHANGED <<clock, demoVars>>
      PROVE  BankInv' /\ ReportInv'
  <2>1. PICK x \in {id, None} : \A a \in Accounts : Wrote(a, x)
    BY <1>3, OthersWrite
  <2>2. BankInv' /\ \A a \in Accounts : Stays(a)
    BY <1>3, OthersWrite
  <2>3. \A b \in Batches : dReq[b] \in DemoBodies => x \notin TasksOf(b)
    BY <1>3, BatchTyped, ClientsAssumption, TablesAssumption
  <2>4. clock' \in 1..MaxClock
    BY <1>3 DEF ReportInv
  <2> QED
    BY <1>2, <1>3, <2>1, <2>2, <2>3, <2>4
<1>4. ASSUME NEW b \in Batches, DemoStep(b), clock' = clock
      PROVE  BankInv' /\ ReportInv'
  <2>1. ASSUME UNCHANGED tables PROVE BankInv'
    BY <2>1, BankStep
  <2>2. ASSUME NEW d \in DemoBodies, ReceiveDemo(b, d) PROVE BankInv' /\ ReportInv'
    BY <1>4, <2>1, <2>2, ReceiveSound DEF ReceiveDemo
  <2>3. ASSUME NEW side \in Sides, ReadBefore(b, side) PROVE BankInv' /\ ReportInv'
    BY <1>4, <2>1, <2>3, ReadBeforeSound DEF ReadBefore
  <2>4. ASSUME NEW side \in Sides, ReadAfter(b, side) PROVE BankInv' /\ ReportInv'
    BY <1>4, <2>1, <2>4, ReadAfterSound DEF ReadAfter
  <2>5. ASSUME NEW k \in dRunning[b], TaskStep(k) PROVE BankInv' /\ ReportInv'
    BY <1>4, <2>5, TaskSound
  <2>6. CASE DemoReadFails(b)
    BY <1>4, <2>1, <2>6, ReadFailsSound DEF DemoReadFails
  <2> QED
    BY <1>4, <2>2, <2>3, <2>4, <2>5, <2>6 DEF DemoStep
<1>5. CASE UNCHANGED <<tables, demoVars>> /\ clock' \in 1..MaxClock
  BY <1>2, <1>5, BankStep, QuietStep
<1>6. CASE Tick /\ UNCHANGED <<tables, demoVars>>
  BY <1>5, <1>6, ClockAssumption DEF Tick, ReportInv
<1>7. CASE UNCHANGED <<tables, clock, demoVars>>
  BY <1>5, <1>7 DEF ReportInv
<1> QED
  BY <1>3, <1>4, <1>6, <1>7 DEF ClientsNext, clientsVars

LEMMA ReportInvHolds == ClientsSpec => [](BankInv /\ ReportInv)
<1>1. ClientsInit => BankInv /\ ReportInv
  BY ReportInit
<1>2. BankInv /\ BatchInv /\ ReportInv /\ [ClientsNext]_clientsVars => BankInv' /\ ReportInv'
  BY ClientsKeepReports
<1> QED
  BY <1>1, <1>2, BatchInvHolds, PTL DEF ClientsSpec

\* For each of its accounts a report shows two balances the account had, one
\* before and one after everything the batch moved, however many transfers it
\* makes and whatever others do meanwhile (concurrencyDemoController.ts:34 and 107).
THEOREM ReportsSpan == ClientsSpec => []ReportSpansItsTransfers
<1>1. ASSUME BankInv, ReportInv, NEW b \in Batches, dPc[b] = "reported", NEW side \in Sides
      PROVE  LET a == AccountAt(b, side)
                 Moments == 1..Len(ledger[a]) + 1
             IN  \E i, j \in Moments :
                     /\ BalanceBefore(a, i) = dBefore[b][side]
                     /\ BalanceBefore(a, j) = dAfter[b][side]
                     /\ \A k \in DOMAIN ledger[a] :
                           (\E r \in dResults[b] : ledger[a][k].transfer = r.task) => i <= k /\ k < j
  <2> DEFINE a == AccountAt(b, side)
  <2>1. BatchSound(b) /\ SeenBefore(b, side) /\ SeenAfter(b, side) /\ a \in Accounts
    BY <1>1, BatchTyped DEF ReportInv, BatchSound
  <2>2. ledger[a] \in Seq(Entry) /\ DOMAIN ledger[a] = 1..Len(ledger[a])
    BY <1>1, <2>1, LenProperties DEF BankInv, TablesTypeOK
  <2>3. ASSUME NEW k \in DOMAIN ledger[a], \E r \in dResults[b] : ledger[a][k].transfer = r.task
        PROVE  OfBatch(b, a, k)
    BY <2>1, <2>3 DEF BatchSound, OfBatch
  <2>4. PICK i \in 1..Len(ledger[a]) + 1 :
            /\ BalanceBefore(a, i) = dBefore[b][side]
            /\ \A k \in 1..Len(ledger[a]) : OfBatch(b, a, k) => i <= k
    BY <2>1 DEF SeenBefore
  <2>5. PICK j \in 1..Len(ledger[a]) + 1 :
            /\ BalanceBefore(a, j) = dAfter[b][side]
            /\ \A k \in 1..Len(ledger[a]) : OfBatch(b, a, k) => k < j
    BY <2>1 DEF SeenAfter
  <2> HIDE DEF a
  <2>6. \A k \in DOMAIN ledger[a] :
           (\E r \in dResults[b] : ledger[a][k].transfer = r.task) => i <= k /\ k < j
    BY <2>2, <2>3, <2>4, <2>5
  <2> QED
    BY <2>4, <2>5, <2>6 DEF a
<1>2. BankInv /\ ReportInv => ReportSpansItsTransfers
  BY <1>1 DEF ReportSpansItsTransfers
<1> QED
  BY <1>2, ReportInvHolds, PTL

\* Every promise of the tables holds beside lists and demo batches, whose
\* transfers are no different from any other.
THEOREM ClientsKeepTheBooks == ClientsSpec => []BankInv
BY ReportInvHolds, PTL
-----------------------------------------------------------------------------
(***************************************************************************)
(* What a batch has been told.                                             *)
(***************************************************************************)

\* A stored transfer keeps every column of the order it was made for.
Carries(t, o) == o = [column \in DOMAIN o |-> t[column]]

LEMMA MoveStores ==
    ASSUME NEW id, NEW k, Move(id, OrderOf(k))
    PROVE  /\ transfers \subseteq transfers'
           /\ \E t \in transfers' : t.id = id /\ Carries(t, OrderOf(k))
           /\ \A t \in transfers' : t \in transfers \/ t.id = id
<1> DEFINE o == OrderOf(k)
           t == [id |-> id, reference |-> o.reference, source |-> o.source,
                 destination |-> o.destination, amount |-> o.amount, currency |-> o.currency]
<1>1. transfers' = transfers \cup {t}
  BY DEF Move
<1>2. Carries(t, o)
  BY DEF OrderOf, Carries
<1> HIDE DEF t, o
<1>3. t.id = id
  BY DEF t
<1> QED
  BY <1>1, <1>2, <1>3 DEF o

\* The tables' transfers in any step of anybody.
LEMMA TransfersGrow ==
    ASSUME BatchInv, ReportInv, [ClientsNext]_clientsVars
    PROVE  /\ transfers \subseteq transfers'
           /\ \A t \in transfers' : \/ t \in transfers
                                   \/ t.id \notin Tasks
                                   \/ \E c \in Batches : t.id \in dRunning[c]
<1>1. ASSUME NEW id \in Others, OtherRequest(id)
      PROVE  transfers \subseteq transfers' /\ \A t \in transfers' : t \in transfers \/ t.id \notin Tasks
  <2>1. ASSUME NEW o \in Orders, Move(id, o)
        PROVE  transfers \subseteq transfers' /\ \A t \in transfers' : t \in transfers \/ t.id = id
    BY <2>1, MoveAddsOne DEF Move
  <2>2. (\E o \in Orders : Move(id, o)) \/ transfers' = transfers
    BY <1>1 DEF OtherRequest, TopUp, SetStatus, Open
  <2>3. id \notin Tasks
    BY <1>1, ClientsAssumption
  <2> QED
    BY <2>1, <2>2, <2>3
<1>2. ASSUME NEW b \in Batches, DemoStep(b)
      PROVE  /\ transfers \subseteq transfers'
             /\ \A t \in transfers' : t \in transfers \/ t.id \in dRunning[b]
  <2>1. ASSUME NEW k \in dRunning[b], TaskStep(k)
        PROVE  /\ transfers \subseteq transfers'
               /\ \A t \in transfers' : t \in transfers \/ t.id \in dRunning[b]
    <3>1. Move(k, OrderOf(k)) \/ UNCHANGED tables
      BY <2>1 DEF TaskStep, TaskMoves, TaskFindsReference, TaskRefused, TaskFails
    <3> QED
      BY <3>1, MoveStores DEF tables
  <2> QED
    BY <1>2, <2>1 DEF DemoStep, ReceiveDemo, ReadBefore, ReadAfter, DemoReadFails, tables
<1>3. CASE UNCHANGED tables
  BY <1>3 DEF tables
<1> QED
  BY <1>1, <1>2, <1>3 DEF ClientsNext, clientsVars

\* What a batch is told, beside BankInv, BatchInv and ReportInv.
ToldInv ==
    \A b \in Batches : \A r \in dResults[b] : r.kind = "completed" =>
        \E t \in transfers : t.id = r.transfer /\ Carries(t, OrderOf(r.task))

\* The orders of a batch are made when it starts.
LEMMA OrdersStay ==
    ASSUME BatchInv, ReportInv, [ClientsNext]_clientsVars, NEW b \in Batches, Started(b),
           NEW k \in Tasks, k.batch = b
    PROVE  OrderOf(k)' = OrderOf(k)
<1>1. dPc[b] \notin {"idle", "before"}
  BY DEF BatchInv
<1>2. dReq'[b] = dReq[b] /\ dBase'[b] = dBase[b]
  <2>1. ASSUME NEW c \in Batches, DemoStep(c)
        PROVE  dReq'[b] = dReq[b] /\ dBase'[b] = dBase[b]
    <3>1. ASSUME NEW d \in DemoBodies, ReceiveDemo(c, d)
          PROVE  dReq'[b] = dReq[b] /\ dBase'[b] = dBase[b]
      BY <1>1, <3>1 DEF ReceiveDemo, ReportInv
    <3>2. ASSUME NEW side \in Sides, ReadBefore(c, side)
          PROVE  dReq'[b] = dReq[b] /\ dBase'[b] = dBase[b]
      BY <1>1, <3>2 DEF ReadBefore, BatchInv
    <3>3. CASE UNCHANGED <<dReq, dBase>>
      BY <3>3
    <3> QED
      BY <2>1, <3>1, <3>2, <3>3
         DEF DemoStep, ReadAfter, DemoReadFails, TaskStep, TaskMoves, TaskFindsReference,
             TaskRefused, TaskFails, EndTask
  <2> QED
    BY <2>1 DEF ClientsNext, clientsVars, demoVars
<1> QED
  BY <1>2 DEF OrderOf, ReferenceOf

\* A result is an old one, or that of a transfer that ends.
LEMMA ResultsFrom ==
    ASSUME BatchInv, [ClientsNext]_clientsVars, NEW b \in Batches, NEW r \in dResults'[b],
           r.kind = "completed"
    PROVE  \/ r \in dResults[b]
           \/ \E k \in dRunning[b] :
                 /\ r.task = k
                 /\ \E t \in transfers' : t.id = r.transfer /\ Carries(t, OrderOf(k))
<1>1. ASSUME NEW c \in Batches, NEW k \in dRunning[c], TaskStep(k)
      PROVE  \/ r \in dResults[b]
             \/ /\ c = b /\ r.task = k
                /\ \E t \in transfers' : t.id = r.transfer /\ Carries(t, OrderOf(k))
  <2>1. k.batch = c
    BY <1>1 DEF BatchInv
  <2>2. ASSUME NEW kind, NEW id, EndTask(k, kind, id)
        PROVE  r \in dResults[b] \/ (c = b /\ r = [task |-> k, kind |-> kind, transfer |-> id])
    BY <2>1, <2>2 DEF EndTask, BatchInv
  <2>3. CASE TaskMoves(k)
    <3>1. r \in dResults[b] \/ (c = b /\ r = [task |-> k, kind |-> "completed", transfer |-> k])
      BY <2>2, <2>3 DEF TaskMoves
    <3> QED
      BY <2>3, <3>1, MoveStores DEF TaskMoves
  <2>4. CASE TaskFindsReference(k)
    <3>1. PICK t \in transfers :
              \/ EndTask(k, "completed", t.id) /\ Carries(t, OrderOf(k))
              \/ EndTask(k, "IDEMPOTENCY_CONFLICT", None)
      BY <2>4 DEF TaskFindsReference, Carries
    <3>2. t \in transfers'
      BY <2>4 DEF TaskFindsReference, tables
    <3>3. CASE EndTask(k, "completed", t.id) /\ Carries(t, OrderOf(k))
      <4>1. r \in dResults[b] \/ (c = b /\ r = [task |-> k, kind |-> "completed", transfer |-> t.id])
        BY <2>2, <3>3
      <4> QED
        BY <3>2, <3>3, <4>1
    <3>4. CASE EndTask(k, "IDEMPOTENCY_CONFLICT", None)
      <4>1. r \in dResults[b] \/ r.kind = "IDEMPOTENCY_CONFLICT"
        BY <2>2, <3>4
      <4> QED
        BY <4>1
    <3> QED
      BY <3>1, <3>3, <3>4
  <2>5. CASE TaskRefused(k)
    <3>1. r \in dResults[b] \/ r.kind = "refused"
      BY <2>2, <2>5 DEF TaskRefused
    <3> QED
      BY <3>1
  <2>6. CASE TaskFails(k)
    <3>1. r \in dResults[b] \/ r.kind = "INTERNAL_ERROR"
      BY <2>2, <2>6 DEF TaskFails
    <3> QED
      BY <3>1
  <2> QED
    BY <1>1, <2>3, <2>4, <2>5, <2>6 DEF TaskStep
<1>2. CASE UNCHANGED dResults
  BY <1>2
<1> QED
  BY <1>1, <1>2 DEF ClientsNext, clientsVars, demoVars, DemoStep, ReceiveDemo, ReadBefore,
                    ReadAfter, DemoReadFails

LEMMA ToldInvHolds == ClientsSpec => []ToldInv
<1>1. ClientsInit => ToldInv
  BY DEF ClientsInit, DemoInit, ToldInv
<1>2. BatchInv /\ ReportInv /\ ToldInv /\ [ClientsNext]_clientsVars => ToldInv'
  <2> SUFFICES ASSUME BatchInv, ReportInv, ToldInv, [ClientsNext]_clientsVars,
                      NEW b \in Batches, NEW r \in dResults'[b], r.kind = "completed"
               PROVE  \E t \in transfers' : t.id = r.transfer /\ Carries(t, OrderOf(r.task)')
    BY DEF ToldInv, Carries
  <2>1. CASE r \in dResults[b]
    <3>1. Started(b) /\ r.task \in TasksOf(b)
      BY <2>1 DEF Started, ReportInv, BatchSound
    <3>2. r.task \in Tasks /\ r.task.batch = b
      BY <3>1 DEF TasksOf, Tasks
    <3>3. OrderOf(r.task)' = OrderOf(r.task)
      BY <3>1, <3>2, OrdersStay
    <3>4. PICK t \in transfers : t.id = r.transfer /\ Carries(t, OrderOf(r.task))
      BY <2>1 DEF ToldInv
    <3> QED
      BY <3>3, <3>4, TransfersGrow
  <2>2. CASE \E k \in dRunning[b] :
                /\ r.task = k
                /\ \E t \in transfers' : t.id = r.transfer /\ Carries(t, OrderOf(k))
    <3>1. Started(b) /\ r.task \in Tasks /\ r.task.batch = b
      BY <2>2 DEF Started, BatchInv
    <3>2. OrderOf(r.task)' = OrderOf(r.task)
      BY <3>1, OrdersStay
    <3> QED
      BY <2>2, <3>2
  <2> QED
    BY <2>1, <2>2, ResultsFrom
<1> QED
  BY <1>1, <1>2, BatchInvHolds, ReportInvHolds, PTL DEF ClientsSpec

\* Whatever one-step requests, readers and other batches do, and however large a
\* batch is: what it reports as completed has been made as it asked, even when
\* batches of one millisecond share their references; alone in its millisecond
\* it reports its own transfers and is refused none of them as a conflict
\* (concurrencyDemoController.ts:47 and 81).
THEOREM BatchesAreToldTheTruth == ClientsSpec => []ResultsAreTrue
<1>1. ASSUME BatchInv, ToldInv, NEW b \in Batches, NEW r \in dResults[b]
      PROVE  /\ r.kind = "completed" =>
                   \E t \in transfers : t.id = r.transfer /\ Carries(t, OrderOf(r.task))
             /\ OwnMillisecond(b) => /\ r.kind = "completed" => r.transfer = r.task
                                     /\ r.kind # "IDEMPOTENCY_CONFLICT"
  <2>1. OwnMillisecond(b) => OwnAmongStarted(b)
    BY DEF OwnMillisecond, OwnAmongStarted
  <2> QED
    BY <1>1, <2>1 DEF BatchInv, ToldInv
<1>2. BatchInv /\ ToldInv => ResultsAreTrue
  BY <1>1 DEF ResultsAreTrue, Carries
<1> QED
  BY <1>2, BatchInvHolds, ToldInvHolds, PTL

\* Once a batch is answered, with a report or with 500, none of its transfers
\* moves money any more, however many it has made
\* (concurrencyDemoController.ts:78 and 107).
THEOREM AnswersAreFinal == ClientsSpec => NothingAfterTheAnswer
<1> DEFINE A == \A b \in Batches : dPc[b] \in {"reported", "failed"} =>
                   \A t \in transfers' : t.id \in TasksOf(b) => t \in transfers
<1>1. ASSUME BatchInv, ReportInv, [ClientsNext]_clientsVars, NEW b \in Batches,
             dPc[b] \in {"reported", "failed"}, NEW t \in transfers', t.id \in TasksOf(b)
      PROVE  t \in transfers
  <2>1. t.id \in Tasks /\ t.id.batch = b
    BY <1>1 DEF TasksOf, Tasks
  <2>2. dRunning[b] = {}
    BY <1>1 DEF ReportInv, BatchSound
  <2>3. ASSUME NEW c \in Batches, t.id \in dRunning[c] PROVE FALSE
    <3>1. c = b
      BY <1>1, <2>1, <2>3 DEF BatchInv
    <3> QED
      BY <2>2, <2>3, <3>1
  <2> QED
    BY <1>1, <2>1, <2>3, TransfersGrow
<1>2. BatchInv /\ ReportInv /\ [ClientsNext]_clientsVars => [A]_<<tables, demoVars>>
  BY <1>1
<1> QED
  BY <1>2, BatchInvHolds, ReportInvHolds, PTL DEF ClientsSpec, NothingAfterTheAnswer
-----------------------------------------------------------------------------
(***************************************************************************)
(* Lists that are read page by page.                                       *)
(***************************************************************************)

\* Every row has its created_at, and an account without a row has no entries.
StampInv ==
    /\ stamp = [a \in Accounts |-> [i \in DOMAIN ledger[a] |-> stamp[a][i]]]
    /\ \A a \in Accounts : \A i \in DOMAIN ledger[a] : stamp[a][i] \in Nat
    /\ \A a \in Accounts : accounts[a] = NoRow => ledger[a] = <<>>

\* The rows of the list that come before row i, unless they are of its millisecond.
NewerThan(l, i) == {j \in RowsOf(l) : stamp[l.account][j] > stamp[l.account][i]}

\* What a step of anybody does to the lists.
LEMMA ClientsWrite ==
    ASSUME BankInv, BatchInv, ReportInv, [ClientsNext]_clientsVars, NEW a \in Accounts
    PROVE  /\ OneEntry(a) /\ Stays(a)
           /\ StampEntries \/ (UNCHANGED stamp /\ UNCHANGED ledger)
<1>1. TablesTypeOK
  BY DEF BankInv
<1>2. ASSUME UNCHANGED tables PROVE OneEntry(a) /\ Stays(a) /\ UNCHANGED ledger
  BY <1>2 DEF tables, OneEntry, Stays
<1>3. ASSUME NEW id \in Others, OtherRequest(id) PROVE OneEntry(a) /\ Stays(a)
  <2>1. BankNext
    BY <1>3, ClientsAssumption DEF OtherRequest, BankNext
  <2> QED
    BY <1>1, <2>1, StepAppends
<1>4. ASSUME NEW b \in Batches, DemoStep(b) PROVE OneEntry(a) /\ Stays(a)
  <2>1. ASSUME NEW k \in dRunning[b], TaskStep(k) PROVE OneEntry(a) /\ Stays(a)
    <3>1. BatchSound(b) /\ k \in Sessions /\ OrderOf(k) \in Order
      BY BatchTyped, OrderTyped DEF ReportInv, BatchSound
    <3>2. Move(k, OrderOf(k)) \/ UNCHANGED tables
      BY <2>1 DEF TaskStep, TaskMoves, TaskFindsReference, TaskRefused, TaskFails
    <3> QED
      BY <1>1, <1>2, <3>1, <3>2, MoveAppends
  <2> QED
    BY <1>2, <1>4, <2>1 DEF DemoStep, ReceiveDemo, ReadBefore, ReadAfter, DemoReadFails
<1>5. CASE UNCHANGED <<tables, stamp>>
  BY <1>2, <1>5
<1> QED
  BY <1>2, <1>3, <1>4, <1>5 DEF ClientsNext, clientsVars

\* Rows and their stamps stay.
LEMMA RowsStay ==
    ASSUME TablesTypeOK, StampInv, clock \in Nat, NEW a \in Accounts, OneEntry(a), Stays(a),
           StampEntries \/ (UNCHANGED stamp /\ UNCHANGED ledger)
    PROVE  /\ DOMAIN ledger[a] = 1..Len(ledger[a]) /\ Len(ledger[a]) \in Nat
           /\ DOMAIN ledger[a] \subseteq DOMAIN ledger'[a]
           /\ \A i \in DOMAIN ledger[a] : /\ ledger'[a][i] = ledger[a][i]
                                          /\ stamp'[a][i] = stamp[a][i]
           /\ \A i \in DOMAIN ledger'[a] : stamp'[a][i] \in Nat
           /\ stamp'[a] = [i \in DOMAIN ledger'[a] |-> stamp'[a][i]]
           /\ accounts'[a] = NoRow => ledger'[a] = <<>>
<1>1. ledger[a] \in Seq(Entry) /\ DOMAIN ledger[a] = 1..Len(ledger[a]) /\ Len(ledger[a]) \in Nat
  BY LenProperties DEF TablesTypeOK
<1>2. /\ DOMAIN ledger[a] \subseteq DOMAIN ledger'[a]
      /\ \A i \in DOMAIN ledger[a] : ledger'[a][i] = ledger[a][i]
  <2>1. ASSUME NEW e, ledger'[a] = Append(ledger[a], e)
        PROVE  /\ DOMAIN ledger[a] \subseteq DOMAIN ledger'[a]
               /\ \A i \in DOMAIN ledger[a] : ledger'[a][i] = ledger[a][i]
    <3>1. ledger[a] \in Seq(Entry \cup {e})
      BY <1>1, SeqMonotonic
    <3>2. /\ Append(ledger[a], e) \in Seq(Entry \cup {e})
          /\ Len(Append(ledger[a], e)) = Len(ledger[a]) + 1
          /\ \A i \in 1..Len(ledger[a]) : Append(ledger[a], e)[i] = ledger[a][i]
      BY <3>1, AppendProperties
    <3>3. DOMAIN Append(ledger[a], e) = 1..Len(ledger[a]) + 1
      BY <3>2, LenProperties
    <3> QED
      BY <1>1, <2>1, <3>2, <3>3
  <2> QED
    BY <2>1 DEF OneEntry
<1>3. DOMAIN stamp[a] = DOMAIN ledger[a]
  BY DEF StampInv
<1>4. /\ \A i \in DOMAIN ledger[a] : stamp'[a][i] = stamp[a][i]
      /\ \A i \in DOMAIN ledger'[a] : stamp'[a][i] \in Nat
      /\ stamp'[a] = [i \in DOMAIN ledger'[a] |-> stamp'[a][i]]
  <2>1. CASE StampEntries
    <3>1. stamp'[a] = [i \in DOMAIN ledger'[a] |-> IF i \in DOMAIN stamp[a] THEN stamp[a][i]
                                                                             ELSE clock]
      BY <2>1 DEF StampEntries
    <3> QED
      BY <1>2, <1>3, <3>1 DEF StampInv
  <2>2. CASE UNCHANGED stamp /\ UNCHANGED ledger
    BY <2>2 DEF StampInv
  <2> QED
    BY <2>1, <2>2
<1>5. accounts'[a] = NoRow => ledger'[a] = <<>>
  <2>1. "ACTIVE" # NoRow.status
    BY DEF NoRow
  <2> QED
    BY <2>1 DEF StampInv, OneEntry, Stays
<1> QED
  BY <1>1, <1>2, <1>4, <1>5

LEMMA StampInvHolds == ClientsSpec => []StampInv
<1>1. ClientsInit => StampInv
  <2> SUFFICES ASSUME ClientsInit PROVE StampInv
    OBVIOUS
  <2>1. TablesInit /\ ReadsInit
    BY DEF ClientsInit
  <2>2. \A a \in Accounts : ledger[a] = IF Opening[a] = NoRow THEN <<>> ELSE <<OpeningEntry(a)>>
    BY <2>1 DEF TablesInit
  <2> QED
    BY <2>1, <2>2 DEF ReadsInit, TablesInit, StampInv
<1>2. BankInv /\ BatchInv /\ ReportInv /\ StampInv /\ [ClientsNext]_clientsVars => StampInv'
  <2> SUFFICES ASSUME BankInv, BatchInv, ReportInv, StampInv, [ClientsNext]_clientsVars
               PROVE  StampInv'
    OBVIOUS
  <2>1. TablesTypeOK /\ clock \in Nat
    BY DEF BankInv, BatchInv
  <2>2. \A a \in Accounts : OneEntry(a) /\ Stays(a)
    BY ClientsWrite
  <2>3. StampEntries \/ (UNCHANGED stamp /\ UNCHANGED ledger)
    BY DEF ClientsNext, clientsVars, ReadStep, tables
  <2>4. ASSUME NEW a \in Accounts
        PROVE  /\ \A i \in DOMAIN ledger'[a] : stamp'[a][i] \in Nat
               /\ stamp'[a] = [i \in DOMAIN ledger'[a] |-> stamp'[a][i]]
               /\ accounts'[a] = NoRow => ledger'[a] = <<>>
    BY <2>1, <2>2, <2>3, RowsStay
  <2>5. stamp' = [a \in Accounts |-> stamp'[a]]
    BY <2>3 DEF StampEntries, StampInv
  <2> QED
    BY <2>4, <2>5 DEF StampInv
<1> QED
  BY <1>1, <1>2, BatchInvHolds, ReportInvHolds, PTL DEF ClientsSpec
-----------------------------------------------------------------------------
(***************************************************************************)
(* One query.                                                              *)
(***************************************************************************)

LEMMA PlacesFinite == \A n \in Nat : IsFiniteSet(1..n)
BY FS_Interval

\* A list has finitely many rows.
LEMMA RowsFinite ==
    ASSUME TablesTypeOK, NEW l \in Lists
    PROVE  /\ IsFiniteSet(RowsOf(l)) /\ Cardinality(RowsOf(l)) \in Nat
           /\ RowsOf(l) \subseteq DOMAIN ledger[l.account]
           /\ \A i : IsFiniteSet(NewerThan(l, i)) /\ Cardinality(NewerThan(l, i)) \in Nat
<1>1. l.account \in Accounts
  BY DEF Lists
<1>2. DOMAIN ledger[l.account] = 1..Len(ledger[l.account]) /\ Len(ledger[l.account]) \in Nat
  BY <1>1, LenProperties DEF TablesTypeOK
<1>3. IsFiniteSet(DOMAIN ledger[l.account])
  BY <1>2, PlacesFinite
<1>4. RowsOf(l) \subseteq DOMAIN ledger[l.account] /\ \A i : NewerThan(l, i) \subseteq RowsOf(l)
  BY DEF RowsOf, NewerThan
<1>5. IsFiniteSet(RowsOf(l))
  BY <1>3, <1>4, FS_Subset
<1>6. \A i : IsFiniteSet(NewerThan(l, i))
  BY <1>4, <1>5, FS_Subset
<1> QED
  BY <1>4, <1>5, <1>6, FS_CardinalityType

\* As the list grows, no row gets nearer to its front, and a row that shares
\* its millisecond with none has never shared it.
LEMMA ListGrows ==
    ASSUME TablesTypeOK, TablesTypeOK', StampInv, NEW l \in Lists,
           DOMAIN ledger[l.account] \subseteq DOMAIN ledger'[l.account],
           \A i \in DOMAIN ledger[l.account] :
              /\ ledger'[l.account][i] = ledger[l.account][i]
              /\ stamp'[l.account][i] = stamp[l.account][i]
    PROVE  /\ RowsOf(l) \subseteq RowsOf(l)'
           /\ Cardinality(RowsOf(l)) \in Nat /\ Cardinality(RowsOf(l)') \in Nat
           /\ Cardinality(RowsOf(l)) <= Cardinality(RowsOf(l)')
           /\ \A i \in RowsOf(l) :
                 /\ Untied(l, i)' => Untied(l, i)
                 /\ Cardinality(NewerThan(l, i)) \in Nat /\ Cardinality(NewerThan(l, i)') \in Nat
                 /\ Cardinality(NewerThan(l, i)) <= Cardinality(NewerThan(l, i)')
<1>1. RowsOf(l) \subseteq RowsOf(l)' /\ RowsOf(l) \subseteq DOMAIN ledger[l.account]
  BY DEF RowsOf
<1>2. /\ IsFiniteSet(RowsOf(l)') /\ Cardinality(RowsOf(l)') \in Nat
      /\ \A i : IsFiniteSet(NewerThan(l, i)') /\ Cardinality(NewerThan(l, i)') \in Nat
  <2>1. l.account \in Accounts
    BY DEF Lists
  <2>2. DOMAIN ledger'[l.account] = 1..Len(ledger'[l.account]) /\ Len(ledger'[l.account]) \in Nat
    BY <2>1, LenProperties DEF TablesTypeOK
  <2>3. IsFiniteSet(DOMAIN ledger'[l.account])
    BY <2>2, PlacesFinite
  <2>4. /\ RowsOf(l)' \subseteq DOMAIN ledger'[l.account]
        /\ \A i : NewerThan(l, i)' \subseteq RowsOf(l)'
    BY DEF RowsOf, NewerThan
  <2>5. IsFiniteSet(RowsOf(l)')
    BY <2>3, <2>4, FS_Subset
  <2>6. \A i : IsFiniteSet(NewerThan(l, i)')
    BY <2>4, <2>5, FS_Subset
  <2> QED
    BY <2>5, <2>6, FS_CardinalityType
<1>3. ASSUME NEW i \in RowsOf(l)
      PROVE  /\ Untied(l, i)' => Untied(l, i)
             /\ Cardinality(NewerThan(l, i)) <= Cardinality(NewerThan(l, i)')
  <2>1. Untied(l, i)' => Untied(l, i)
    BY <1>1, <1>3 DEF Untied
  <2>2. NewerThan(l, i) \subseteq NewerThan(l, i)'
    BY <1>1, <1>3 DEF NewerThan
  <2> QED
    BY <1>2, <2>1, <2>2, FS_Subset
<1>4. Cardinality(RowsOf(l)) <= Cardinality(RowsOf(l)')
  BY <1>1, <1>2, FS_Subset
<1> QED
  BY <1>1, <1>2, <1>3, <1>4, RowsFinite

\* A query returns every row of its list once.
LEMMA SortedRows ==
    ASSUME TablesTypeOK, NEW l \in Lists, NEW s \in Sorted(l)
    PROVE  s \in Seq(RowsOf(l)) /\ Len(s) = Cardinality(RowsOf(l))
<1>1. Cardinality(RowsOf(l)) \in Nat
  BY RowsFinite
<1>2. s \in [1..Cardinality(RowsOf(l)) -> RowsOf(l)]
  BY DEF Sorted, SetToSeqs
<1> QED
  BY <1>1, <1>2, LenProperties

\* Where a row is that shares its millisecond with none.
LEMMA PlaceOfRow ==
    ASSUME TablesTypeOK, StampInv, NEW l \in Lists, NEW s \in Sorted(l),
           NEW i \in RowsOf(l), Untied(l, i)
    PROVE  /\ s \in Seq(RowsOf(l)) /\ Len(s) \in Nat
           /\ \E p \in 1..Len(s) : s[p] = i /\ Cardinality(NewerThan(l, i)) = p - 1
<1> DEFINE S == RowsOf(l)
           n == Cardinality(S)
<1>1. /\ IsFiniteSet(S) /\ n \in Nat /\ S \subseteq DOMAIN ledger[l.account]
      /\ \A j \in S : stamp[l.account][j] \in Nat
  BY RowsFinite DEF StampInv, Lists
<1>2. s \in [1..n -> S] /\ \A p, q \in 1..n : p # q => s[p] # s[q]
  BY DEF Sorted, SetToSeqs
<1>3. \A p, q \in 1..n : p < q => stamp[l.account][s[p]] >= stamp[l.account][s[q]]
  BY <1>2 DEF Sorted
<1> HIDE DEF S, n
<1>4. s \in Seq(S) /\ Len(s) = n
  BY SortedRows DEF S, n
<1>5. \A j \in S : \E q \in 1..n : s[q] = j
  <2>1. s \in Injection(1..n, S)
    BY <1>2 DEF Injection, IsInjective
  <2>2. \A k \in Nat : Cardinality(1..k) = k
    BY FS_Interval
  <2>3. Cardinality(1..n) = n
    BY <1>1, <2>2
  <2>4. Cardinality(1..n) = Cardinality(S)
    BY <2>3 DEF n
  <2>5. s \in Surjection(1..n, S)
    BY <1>1, <2>1, <2>4, FS_Injection
  <2> QED
    BY <2>5 DEF Surjection
<1>6. PICK p \in 1..n : s[p] = i
  BY <1>5 DEF S
<1>7. ASSUME NEW q \in 1..n
      PROVE  q < p <=> s[q] \in NewerThan(l, i)
  <2>1. ASSUME q < p PROVE s[q] \in NewerThan(l, i)
    <3>1. stamp[l.account][s[q]] >= stamp[l.account][i]
      BY <1>3, <1>6, <2>1
    <3>2. s[q] \in RowsOf(l) /\ s[q] # i
      BY <1>2, <1>6, <2>1 DEF S
    <3>3. stamp[l.account][s[q]] # stamp[l.account][i]
      BY <3>2 DEF Untied
    <3> QED
      BY <1>1, <3>1, <3>2, <3>3 DEF NewerThan, S
  <2>2. ASSUME ~(q < p) PROVE s[q] \notin NewerThan(l, i)
    <3>1. q = p \/ p < q
      BY <1>1, <2>2
    <3>2. stamp[l.account][i] >= stamp[l.account][s[q]]
      <4>1. stamp[l.account][i] \in Nat
        BY <1>1 DEF S
      <4> QED
        BY <1>3, <1>6, <3>1, <4>1
    <3>3. stamp[l.account][s[q]] \in Nat /\ stamp[l.account][i] \in Nat
      BY <1>1, <1>2 DEF S
    <3> QED
      BY <3>2, <3>3 DEF NewerThan
  <2> QED
    BY <2>1, <2>2
<1>8. Cardinality(NewerThan(l, i)) = p - 1
  <2> DEFINE f == [q \in 1..(p - 1) |-> s[q]]
  <2>1. p \in Nat /\ 1..(p - 1) \subseteq 1..n
    BY <1>1
  <2>2. \A j \in NewerThan(l, i) : \E q \in 1..n : s[q] = j
    BY <1>5 DEF NewerThan, S
  <2>3. f \in [1..(p - 1) -> NewerThan(l, i)]
    BY <1>7, <2>1
  <2>4. f \in Injection(1..(p - 1), NewerThan(l, i))
    BY <1>2, <2>1, <2>3 DEF Injection, IsInjective
  <2>5. \A j \in NewerThan(l, i) : \E q \in 1..(p - 1) : f[q] = j
    BY <1>7, <2>1, <2>2
  <2>6. f \in Bijection(1..(p - 1), NewerThan(l, i))
    BY <2>3, <2>4, <2>5 DEF Bijection, Surjection
  <2>7. IsFiniteSet(1..(p - 1)) /\ Cardinality(1..(p - 1)) = p - 1
    BY <2>1, FS_Interval
  <2> QED
    BY <2>6, <2>7, FS_Bijection DEF ExistsBijection
<1> QED
  BY <1>1, <1>4, <1>6, <1>8 DEF S
-----------------------------------------------------------------------------
\* A page holds the rows whose place is in its window, and is full when there
\* are rows behind it.
LEMMA PageOfWindow ==
    ASSUME NEW R, NEW s \in Seq(R), NEW limit \in Nat \ {0}, NEW offset \in Nat,
           NEW p \in 1..Len(s), offset < p
    PROVE  IF p <= offset + limit THEN s[p] \in ToSet(Window(s, limit, offset))
                                  ELSE Len(Window(s, limit, offset)) = limit
<1> DEFINE last == IF offset + limit > Len(s) THEN Len(s) ELSE offset + limit
           page == Window(s, limit, offset)
<1>1. Len(s) \in Nat /\ last \in Nat /\ offset + 1 \in Nat
  BY LenProperties
<1>2. page = SubSeq(s, offset + 1, last)
  BY DEF Window
<1> HIDE DEF last, page
<1>3. /\ page \in Seq(R) /\ Len(page) = IF offset + 1 <= last THEN last - (offset + 1) + 1 ELSE 0
      /\ \A j \in 1..(last - offset) : page[j] = s[offset + j]
  <2>1. last <= Len(s) /\ offset + 1 >= 1
    BY <1>1 DEF last
  <2>2. offset + 1 <= last
    BY <1>1 DEF last
  <2>3. /\ SubSeq(s, offset + 1, last) \in Seq(R)
        /\ Len(SubSeq(s, offset + 1, last)) = last - (offset + 1) + 1
    BY <1>1, <2>1, <2>2, SubSeqProperties
  <2>4. \A j \in 1..(last - offset) : SubSeq(s, offset + 1, last)[j] = s[offset + j]
    BY <1>1, <2>1, <2>2
  <2> QED
    BY <1>2, <2>2, <2>3, <2>4
<1>4. CASE p <= offset + limit
  <2>1. p - offset \in 1..(last - offset) /\ offset + (p - offset) = p
    BY <1>1, <1>4 DEF last
  <2>2. page[p - offset] = s[p]
    BY <1>3, <2>1
  <2>3. p - offset \in DOMAIN page
    <3>1. DOMAIN page = 1..Len(page)
      BY <1>3, LenProperties
    <3> QED
      BY <1>1, <1>3, <2>1, <3>1
  <2> QED
    BY <1>4, <2>2, <2>3 DEF ToSet, page
<1>5. CASE p > offset + limit
  BY <1>1, <1>3, <1>5 DEF last, page
<1> QED
  BY <1>4, <1>5, <1>1

\* How many rows a page has.
LEMMA WindowLength ==
    ASSUME NEW R, NEW s \in Seq(R), NEW r \in Readers, rLimit[r] \in Nat, rOffset[r] \in Nat
    PROVE  Len(Window(s, rLimit[r], rOffset[r])) = PageLength(r, Len(s))
<1> DEFINE limit == rLimit[r]
           offset == rOffset[r]
           last == IF offset + limit > Len(s) THEN Len(s) ELSE offset + limit
<1>1. Len(s) \in Nat /\ last \in Nat
  BY LenProperties
<1>2. Len(SubSeq(s, offset + 1, last)) = IF offset + 1 <= last THEN last - offset ELSE 0
  BY <1>1
<1>3. Window(s, limit, offset) = SubSeq(s, offset + 1, last)
  BY DEF Window
<1>4. (IF offset + 1 <= last THEN last - offset ELSE 0) = PageLength(r, Len(s))
  BY <1>1 DEF PageLength
<1> QED
  BY <1>2, <1>3, <1>4

LEMMA LimitsInRange ==
    /\ \A q \in LimitQueries : ParseLimit(q) \in 1..MaxLimit
    /\ \A n \in 1..MaxLimit : RepositoryLimit(n) = n /\ n \in Nat \ {0}
<1>1. ASSUME NEW q \in LimitQueries PROVE ParseLimit(q) \in 1..MaxLimit
  <2>1. CASE q = NaN \/ q = 0
    BY <2>1, ReadsAssumption DEF ParseLimit, ClampLimit
  <2>2. CASE q # NaN /\ q # 0
    BY <2>2, ReadsAssumption DEF ParseLimit, ClampLimit
  <2> QED
    BY <2>1, <2>2
<1>2. ASSUME NEW n \in 1..MaxLimit PROVE RepositoryLimit(n) = n /\ n \in Nat \ {0}
  BY ReadsAssumption DEF RepositoryLimit, ClampLimit
<1> QED
  BY <1>1, <1>2
-----------------------------------------------------------------------------
(***************************************************************************)
(* A walk.                                                                 *)
(***************************************************************************)

\* The rows reader r is owed and will not miss.
Sure(r) == {i \in rOwed[r] : Untied(rList[r], i)}

Place(r, i) == Cardinality(NewerThan(rList[r], i))

\* A row that is owed has been returned, is on the page in hand, or is still
\* ahead: behind the rows that have been skipped.
WalkSound(r) ==
    /\ rPc[r] # "idle" => /\ rList[r] \in Lists
                          /\ rLimit[r] \in 1..MaxLimit
                          /\ rOffset[r] \in Nat
                          /\ rBefore[r] \in Nat
                          /\ rBefore[r] <= Cardinality(RowsOf(rList[r]))
                          /\ rOwed[r] \subseteq RowsOf(rList[r])
    /\ rPc[r] # "list" => rTotal[r] = None /\ rPage[r] = None
    /\ rPc[r] = "idle" => rOffset[r] = 0
    /\ rTotal[r] # None => rTotal[r] \in rBefore[r]..Cardinality(RowsOf(rList[r]))
    /\ rPc[r] \in {"find", "list"} =>
          \A i \in Sure(r) : i \in rGot[r] \/ rOffset[r] <= Place(r, i)
    /\ rPage[r] # None =>
          \A i \in Sure(r) : \/ i \in rGot[r] \/ i \in ToSet(rPage[r])
                             \/ /\ rOffset[r] + rLimit[r] <= Place(r, i)
                                /\ Len(rPage[r]) = rLimit[r]
    /\ rPage[r] # None => \E n \in rBefore[r]..Cardinality(RowsOf(rList[r])) :
                             Len(rPage[r]) = PageLength(r, n)
    /\ rPc[r] = "done" => \A i \in Sure(r) : i \in rGot[r]

\* The inductive invariant of the readers, beside those of the tables.
WalkInv ==
    /\ rPc = [r \in Readers |-> rPc[r]]
    /\ rList = [r \in Readers |-> rList[r]]
    /\ rLimit = [r \in Readers |-> rLimit[r]]
    /\ rOffset = [r \in Readers |-> rOffset[r]]
    /\ rTotal = [r \in Readers |-> rTotal[r]]
    /\ rPage = [r \in Readers |-> rPage[r]]
    /\ rBefore = [r \in Readers |-> rBefore[r]]
    /\ rOwed = [r \in Readers |-> rOwed[r]]
    /\ rGot = [r \in Readers |-> rGot[r]]
    /\ \A r \in Readers : WalkSound(r)

\* Whatever others write while r does nothing.
LEMMA WalkStays ==
    ASSUME TablesTypeOK, TablesTypeOK', StampInv, NEW r \in Readers, WalkSound(r),
           rPc'[r] = rPc[r], rList'[r] = rList[r], rLimit'[r] = rLimit[r],
           rOffset'[r] = rOffset[r], rTotal'[r] = rTotal[r], rPage'[r] = rPage[r],
           rBefore'[r] = rBefore[r], rOwed'[r] = rOwed[r], rGot'[r] = rGot[r],
           \A a \in Accounts :
              /\ DOMAIN ledger[a] \subseteq DOMAIN ledger'[a]
              /\ \A i \in DOMAIN ledger[a] : /\ ledger'[a][i] = ledger[a][i]
                                             /\ stamp'[a][i] = stamp[a][i]
    PROVE  WalkSound(r)'
<1>0. CASE rPc[r] = "idle"
  BY <1>0 DEF WalkSound
<1> SUFFICES ASSUME rPc[r] # "idle" PROVE WalkSound(r)'
  BY <1>0
<1>1. PICK l \in Lists : l = rList[r]
  BY DEF WalkSound
<1>2. /\ DOMAIN ledger[l.account] \subseteq DOMAIN ledger'[l.account]
      /\ \A i \in DOMAIN ledger[l.account] :
            /\ ledger'[l.account][i] = ledger[l.account][i]
            /\ stamp'[l.account][i] = stamp[l.account][i]
  BY <1>1 DEF Lists
<1>3. /\ RowsOf(l) \subseteq RowsOf(l)'
      /\ Cardinality(RowsOf(l)) \in Nat /\ Cardinality(RowsOf(l)') \in Nat
      /\ Cardinality(RowsOf(l)) <= Cardinality(RowsOf(l)')
      /\ \A i \in RowsOf(l) :
            /\ Untied(l, i)' => Untied(l, i)
            /\ Cardinality(NewerThan(l, i)) \in Nat /\ Cardinality(NewerThan(l, i)') \in Nat
            /\ Cardinality(NewerThan(l, i)) <= Cardinality(NewerThan(l, i)')
  BY <1>2, ListGrows
<1>4. /\ RowsOf(rList[r]) = RowsOf(l) /\ RowsOf(rList[r])' = RowsOf(l)'
      /\ \A i : /\ Untied(rList[r], i) = Untied(l, i) /\ Untied(rList[r], i)' = Untied(l, i)'
                /\ NewerThan(rList[r], i) = NewerThan(l, i)
                /\ NewerThan(rList[r], i)' = NewerThan(l, i)'
  BY <1>1 DEF RowsOf, Untied, NewerThan
<1>5. rOwed[r] \subseteq RowsOf(l)
  BY <1>1 DEF WalkSound
<1>6. ASSUME NEW i \in Sure(r)'
      PROVE  /\ i \in Sure(r) /\ Place(r, i) \in Nat /\ Place(r, i)' \in Nat
             /\ Place(r, i) <= Place(r, i)'
  BY <1>3, <1>4, <1>5, <1>6 DEF Sure, Place
<1>7. /\ rBefore[r] \in Nat /\ rOffset[r] \in Nat /\ rLimit[r] \in Nat
      /\ rBefore[r] <= Cardinality(RowsOf(l)') /\ rOwed[r] \subseteq RowsOf(l)'
      /\ rTotal[r] # None => rTotal[r] \in rBefore[r]..Cardinality(RowsOf(l)')
  BY <1>1, <1>3, <1>5, ReadsAssumption DEF WalkSound
<1>8. ASSUME rPage[r] # None
      PROVE  \E n \in rBefore[r]..Cardinality(RowsOf(l)') : Len(rPage[r]) = PageLength(r, n)
  <2>1. PICK n \in rBefore[r]..Cardinality(RowsOf(l)) : Len(rPage[r]) = PageLength(r, n)
    BY <1>1, <1>8 DEF WalkSound
  <2> QED
    BY <1>3, <1>7, <2>1
<1>9. \A n : PageLength(r, n)' = PageLength(r, n)
  BY DEF PageLength
<1> QED
  BY <1>1, <1>4, <1>6, <1>7, <1>8, <1>9 DEF WalkSound
-----------------------------------------------------------------------------
\* The lists, while the tables stay.
LEMMA ListsStill ==
    ASSUME UNCHANGED <<tables, stamp>>, NEW r \in Readers, rList'[r] = rList[r]
    PROVE  /\ RowsOf(rList[r])' = RowsOf(rList[r])
           /\ \A i : /\ Untied(rList[r], i)' = Untied(rList[r], i)
                     /\ Place(r, i)' = Place(r, i)
<1>1. stamp' = stamp /\ ledger' = ledger
  BY DEF tables
<1> QED
  BY <1>1 DEF RowsOf, Untied, Place, NewerThan

LEMMA BeginSound ==
    ASSUME TablesTypeOK, WalkInv, UNCHANGED <<tables, stamp>>, NEW r \in Readers, BeginWalk(r)
    PROVE  WalkSound(r)'
<1>1. /\ WalkSound(r) /\ rPc[r] = "idle" /\ rOffset[r] = 0
  BY DEF BeginWalk, WalkInv, WalkSound
<1>2. PICK l \in Lists : /\ rList' = [rList EXCEPT ![r] = l]
                         /\ rOwed' = [rOwed EXCEPT ![r] = RowsOf(l)]
                         /\ rBefore' = [rBefore EXCEPT ![r] = Cardinality(RowsOf(l))]
  BY DEF BeginWalk
<1>3. PICK q \in LimitQueries : rLimit' = [rLimit EXCEPT ![r] = ParseLimit(q)]
  BY DEF BeginWalk
<1>4. /\ rList'[r] = l /\ rOwed'[r] = RowsOf(l) /\ rBefore'[r] = Cardinality(RowsOf(l))
      /\ rLimit'[r] \in 1..MaxLimit /\ rPc'[r] = "find"
      /\ rOffset'[r] = 0 /\ rTotal'[r] = None /\ rPage'[r] = None
  BY <1>1, <1>2, <1>3, LimitsInRange DEF BeginWalk, WalkInv, WalkSound
<1>5. stamp' = stamp /\ ledger' = ledger
  BY DEF tables
<1>6. /\ RowsOf(rList[r])' = RowsOf(l) /\ Cardinality(RowsOf(l)) \in Nat
      /\ \A i : NewerThan(rList[r], i)' = NewerThan(l, i) /\ Cardinality(NewerThan(l, i)) \in Nat
  BY <1>4, <1>5, RowsFinite DEF RowsOf, NewerThan
<1>7. \A i : 0 <= Place(r, i)'
  BY <1>6 DEF Place
<1> QED
  BY <1>4, <1>6, <1>7 DEF WalkSound

\* An account without a row has no entries, so a reader that is told 404 is owed nothing.
LEMMA FindSound ==
    ASSUME StampInv, WalkInv, UNCHANGED <<tables, stamp>>, NEW r \in Readers, FindListed(r)
    PROVE  WalkSound(r)'
<1>1. WalkSound(r) /\ rPc[r] = "find"
  BY DEF FindListed, WalkInv
<1>2. /\ rList'[r] = rList[r]
      /\ UNCHANGED <<rList, rLimit, rOffset, rTotal, rPage, rBefore, rOwed, rGot>>
      /\ rPc'[r] = IF accounts[rList[r].account] = NoRow THEN "done" ELSE "list"
  BY DEF FindListed, WalkInv
<1>3. /\ RowsOf(rList[r])' = RowsOf(rList[r])
      /\ \A i : Untied(rList[r], i)' = Untied(rList[r], i) /\ Place(r, i)' = Place(r, i)
  BY <1>2, ListsStill
<1>4. accounts[rList[r].account] = NoRow => rOwed[r] = {}
  <2>1. rList[r].account \in Accounts
    BY <1>1 DEF WalkSound, Lists
  <2>2. ASSUME accounts[rList[r].account] = NoRow PROVE ledger[rList[r].account] = <<>>
    BY <2>1, <2>2 DEF StampInv
  <2>3. DOMAIN <<>> = {}
    OBVIOUS
  <2>4. ledger[rList[r].account] = <<>> => RowsOf(rList[r]) = {}
    BY <2>3 DEF RowsOf
  <2> QED
    BY <1>1, <2>2, <2>4 DEF WalkSound
<1>5. \A i \in Sure(r)' : i \in Sure(r) /\ i \in rOwed[r]
  BY <1>2, <1>3 DEF Sure
<1> QED
  BY <1>1, <1>2, <1>3, <1>4, <1>5 DEF WalkSound

LEMMA CountSound ==
    ASSUME TablesTypeOK, WalkInv, UNCHANGED <<tables, stamp>>, NEW r \in Readers, CountRows(r)
    PROVE  WalkSound(r)'
<1>1. WalkSound(r) /\ rPc[r] = "list"
  BY DEF CountRows, WalkInv
<1>2. /\ UNCHANGED <<rPc, rList, rLimit, rOffset, rPage, rBefore, rOwed, rGot>>
      /\ rTotal'[r] = Cardinality(RowsOf(rList[r]))
  BY DEF CountRows, WalkInv
<1>3. /\ RowsOf(rList[r])' = RowsOf(rList[r]) /\ Cardinality(RowsOf(rList[r])) \in Nat
      /\ \A i : Untied(rList[r], i)' = Untied(rList[r], i) /\ Place(r, i)' = Place(r, i)
  BY <1>1, <1>2, ListsStill, RowsFinite DEF WalkSound
<1>4. Sure(r)' = Sure(r)
  BY <1>2, <1>3 DEF Sure
<1>5. rTotal'[r] \in rBefore[r]..Cardinality(RowsOf(rList[r]))
  BY <1>1, <1>2, <1>3 DEF WalkSound
<1>6. \A n : PageLength(r, n)' = PageLength(r, n)
  BY <1>2 DEF PageLength
<1> QED
  BY <1>1, <1>2, <1>3, <1>4, <1>5, <1>6 DEF WalkSound

\* A page returns every row that is not behind it.
LEMMA FetchSound ==
    ASSUME TablesTypeOK, StampInv, WalkInv, UNCHANGED <<tables, stamp>>, NEW r \in Readers,
           FetchRows(r)
    PROVE  WalkSound(r)'
<1>1. /\ WalkSound(r) /\ rPc[r] = "list" /\ rList[r] \in Lists /\ rOffset[r] \in Nat
      /\ rLimit[r] \in 1..MaxLimit /\ rLimit[r] \in Nat \ {0}
      /\ RepositoryLimit(rLimit[r]) = rLimit[r]
  BY LimitsInRange DEF FetchRows, WalkInv, WalkSound
<1>2. UNCHANGED <<rPc, rList, rLimit, rOffset, rTotal, rBefore, rOwed, rGot>>
  BY DEF FetchRows
<1>3. PICK s \in Sorted(rList[r]) : rPage'[r] = Window(s, rLimit[r], rOffset[r])
  BY <1>1 DEF FetchRows, WalkInv
<1>4. /\ RowsOf(rList[r])' = RowsOf(rList[r])
      /\ \A i : Untied(rList[r], i)' = Untied(rList[r], i) /\ Place(r, i)' = Place(r, i)
  BY <1>2, ListsStill
<1>5. Sure(r)' = Sure(r)
  BY <1>2, <1>4 DEF Sure
<1>6. ASSUME NEW i \in Sure(r), i \notin rGot[r]
      PROVE  \/ i \in ToSet(rPage'[r])
             \/ rOffset[r] + rLimit[r] <= Place(r, i) /\ Len(rPage'[r]) = rLimit[r]
  <2>1. i \in RowsOf(rList[r]) /\ Untied(rList[r], i) /\ rOffset[r] <= Place(r, i)
    BY <1>1, <1>6 DEF Sure, WalkSound
  <2>2. /\ s \in Seq(RowsOf(rList[r])) /\ Len(s) \in Nat
        /\ \E p \in 1..Len(s) : s[p] = i /\ Cardinality(NewerThan(rList[r], i)) = p - 1
    BY <1>1, <2>1, PlaceOfRow
  <2>3. PICK p \in 1..Len(s) : s[p] = i /\ Place(r, i) = p - 1
    BY <2>2 DEF Place
  <2>4. rOffset[r] < p
    BY <1>1, <2>1, <2>2, <2>3
  <2>5. IF p <= rOffset[r] + rLimit[r] THEN s[p] \in ToSet(Window(s, rLimit[r], rOffset[r]))
                                       ELSE Len(Window(s, rLimit[r], rOffset[r])) = rLimit[r]
    BY <1>1, <2>2, <2>4, PageOfWindow
  <2> QED
    BY <1>1, <1>3, <2>2, <2>3, <2>5
<1>7. \E n \in rBefore[r]..Cardinality(RowsOf(rList[r])) : Len(rPage'[r]) = PageLength(r, n)
  <2>1. /\ s \in Seq(RowsOf(rList[r])) /\ Len(s) = Cardinality(RowsOf(rList[r]))
        /\ Cardinality(RowsOf(rList[r])) \in Nat
    BY <1>1, SortedRows, RowsFinite
  <2>2. Len(rPage'[r]) = PageLength(r, Cardinality(RowsOf(rList[r])))
    BY <1>1, <1>3, <2>1, WindowLength
  <2>3. rBefore[r] \in Nat /\ rBefore[r] <= Cardinality(RowsOf(rList[r]))
    BY <1>1 DEF WalkSound
  <2> QED
    BY <2>1, <2>2, <2>3
<1>8. \A n : PageLength(r, n)' = PageLength(r, n)
  BY <1>2 DEF PageLength
<1> QED
  BY <1>1, <1>2, <1>4, <1>5, <1>6, <1>7, <1>8 DEF WalkSound

LEMMA AnswerSound ==
    ASSUME TablesTypeOK, WalkInv, UNCHANGED <<tables, stamp>>, NEW r \in Readers, AnswerPage(r)
    PROVE  WalkSound(r)'
<1>1. /\ WalkSound(r) /\ rPc[r] = "list" /\ rPage[r] # None /\ rOffset[r] \in Nat
      /\ rLimit[r] \in Nat
  BY LimitsInRange DEF AnswerPage, WalkInv, WalkSound
<1>2. /\ UNCHANGED <<rList, rLimit, rOwed>>
      /\ rGot'[r] = rGot[r] \cup ToSet(rPage[r])
      /\ rTotal'[r] = None /\ rPage'[r] = None
  BY DEF AnswerPage, WalkInv
<1>3. /\ RowsOf(rList[r])' = RowsOf(rList[r]) /\ Cardinality(RowsOf(rList[r])) \in Nat
      /\ \A i : Untied(rList[r], i)' = Untied(rList[r], i) /\ Place(r, i)' = Place(r, i)
  BY <1>1, <1>2, ListsStill, RowsFinite DEF WalkSound
<1>4. Sure(r)' = Sure(r)
  BY <1>2, <1>3 DEF Sure
<1>5. CASE /\ Len(rPage[r]) < rLimit[r]
           /\ rPc' = [rPc EXCEPT ![r] = "done"] /\ UNCHANGED <<rOffset, rBefore>>
  <2>1. rPc'[r] = "done"
    BY <1>5 DEF WalkInv
  <2>2. Len(rPage[r]) # rLimit[r]
    BY <1>1, <1>5
  <2>3. \A i \in Sure(r) : i \in rGot'[r]
    BY <1>1, <1>2, <2>2 DEF WalkSound
  <2> QED
    BY <1>1, <1>2, <1>3, <1>4, <1>5, <2>1, <2>3 DEF WalkSound
<1>6. CASE /\ rPc' = [rPc EXCEPT ![r] = "find"]
           /\ rOffset' = [rOffset EXCEPT ![r] = @ + rLimit[r]]
           /\ rBefore' = [rBefore EXCEPT ![r] = Cardinality(RowsOf(rList[r]))]
  <2>1. /\ rPc'[r] = "find" /\ rOffset'[r] = rOffset[r] + rLimit[r] /\ rOffset'[r] \in Nat
        /\ rBefore'[r] = Cardinality(RowsOf(rList[r]))
    BY <1>1, <1>6 DEF WalkInv
  <2>2. \A i \in Sure(r) : i \in rGot'[r] \/ rOffset'[r] <= Place(r, i)
    BY <1>1, <1>2, <2>1 DEF WalkSound
  <2> QED
    BY <1>1, <1>2, <1>3, <1>4, <2>1, <2>2 DEF WalkSound
<1> QED
  BY <1>5, <1>6 DEF AnswerPage
-----------------------------------------------------------------------------
\* A step of one reader is none of the others'.
LEMMA ReaderStep ==
    ASSUME TablesTypeOK, StampInv, WalkInv, UNCHANGED <<tables, stamp>>,
           NEW r \in Readers, ReadStep(r)
    PROVE  WalkInv'
<1>1. WalkSound(r)'
  BY BeginSound, FindSound, CountSound, FetchSound, AnswerSound DEF ReadStep
<1>2. /\ rPc' = [c \in Readers |-> rPc'[c]] /\ rList' = [c \in Readers |-> rList'[c]]
      /\ rLimit' = [c \in Readers |-> rLimit'[c]] /\ rOffset' = [c \in Readers |-> rOffset'[c]]
      /\ rTotal' = [c \in Readers |-> rTotal'[c]] /\ rPage' = [c \in Readers |-> rPage'[c]]
      /\ rBefore' = [c \in Readers |-> rBefore'[c]] /\ rOwed' = [c \in Readers |-> rOwed'[c]]
      /\ rGot' = [c \in Readers |-> rGot'[c]]
      /\ \A c \in Readers \ {r} :
            /\ rPc'[c] = rPc[c] /\ rList'[c] = rList[c] /\ rLimit'[c] = rLimit[c]
            /\ rOffset'[c] = rOffset[c] /\ rTotal'[c] = rTotal[c] /\ rPage'[c] = rPage[c]
            /\ rBefore'[c] = rBefore[c] /\ rOwed'[c] = rOwed[c] /\ rGot'[c] = rGot[c]
  <2>1. CASE BeginWalk(r)
    BY <2>1 DEF BeginWalk, WalkInv
  <2>2. CASE FindListed(r)
    BY <2>2 DEF FindListed, WalkInv
  <2>3. CASE CountRows(r)
    BY <2>3 DEF CountRows, WalkInv
  <2>4. CASE FetchRows(r)
    BY <2>4 DEF FetchRows, WalkInv
  <2>5. CASE AnswerPage(r)
    BY <2>5 DEF AnswerPage, WalkInv
  <2> QED
    BY <2>1, <2>2, <2>3, <2>4, <2>5 DEF ReadStep
<1>3. /\ TablesTypeOK' /\ stamp' = stamp /\ ledger' = ledger
  BY DEF tables, TablesTypeOK
<1>4. ASSUME NEW c \in Readers \ {r} PROVE WalkSound(c)'
  <2>1. WalkSound(c)
    BY DEF WalkInv
  <2> QED
    BY <1>2, <1>3, <2>1, WalkStays
<1> QED
  BY <1>1, <1>2, <1>4 DEF WalkInv

LEMMA WalkInvHolds == ClientsSpec => [](StampInv /\ WalkInv)
<1>1. ClientsInit => WalkInv
  <2> SUFFICES ASSUME ClientsInit PROVE WalkInv
    OBVIOUS
  <2>1. ReadsInit
    BY DEF ClientsInit
  <2>2. ASSUME NEW r \in Readers PROVE WalkSound(r)
    BY <2>1, <2>2 DEF ReadsInit, WalkSound
  <2> QED
    BY <2>1, <2>2 DEF ReadsInit, WalkInv
<1>2. BankInv /\ BankInv' /\ BatchInv /\ ReportInv /\ StampInv /\ WalkInv
         /\ [ClientsNext]_clientsVars => WalkInv'
  <2> SUFFICES ASSUME BankInv, BankInv', BatchInv, ReportInv, StampInv, WalkInv,
                      [ClientsNext]_clientsVars
               PROVE  WalkInv'
    OBVIOUS
  <2>1. TablesTypeOK /\ TablesTypeOK' /\ clock \in Nat
    BY DEF BankInv, BatchInv
  <2>2. ASSUME NEW r \in Readers, ReadStep(r), UNCHANGED <<tables, stamp>> PROVE WalkInv'
    BY <2>1, <2>2, ReaderStep
  <2>3. ASSUME UNCHANGED readerVars, StampEntries \/ (UNCHANGED stamp /\ UNCHANGED ledger)
        PROVE  WalkInv'
    <3>1. ASSUME NEW a \in Accounts
          PROVE  /\ DOMAIN ledger[a] \subseteq DOMAIN ledger'[a]
                 /\ \A i \in DOMAIN ledger[a] : /\ ledger'[a][i] = ledger[a][i]
                                                /\ stamp'[a][i] = stamp[a][i]
      <4>1. OneEntry(a) /\ Stays(a)
        BY ClientsWrite
      <4> QED
        BY <2>1, <2>3, <4>1, RowsStay
    <3>2. /\ rPc' = rPc /\ rList' = rList /\ rLimit' = rLimit /\ rOffset' = rOffset
          /\ rTotal' = rTotal /\ rPage' = rPage /\ rBefore' = rBefore
          /\ rOwed' = rOwed /\ rGot' = rGot
      BY <2>3 DEF readerVars
    <3>3. \A r \in Readers : WalkSound(r)'
      BY <2>1, <3>1, <3>2, WalkStays DEF WalkInv
    <3> QED
      BY <3>2, <3>3 DEF WalkInv
  <2> QED
    BY <2>2, <2>3 DEF ClientsNext, clientsVars, tables
<1> QED
  BY <1>1, <1>2, BatchInvHolds, ReportInvHolds, StampInvHolds, PTL DEF ClientsSpec

\* A client that reads a list page after page, with any limit, is given every
\* row it had when it began, however many are inserted meanwhile; only rows of
\* one millisecond may be missed (TransferRepository.ts:65,
\* LedgerEntryRepository.ts:73).
THEOREM WalksMissNothing == ClientsSpec => []WalkMissesNothing
<1>1. WalkInv => WalkMissesNothing
  BY DEF WalkInv, WalkSound, WalkMissesNothing, Sure
<1> QED
  BY <1>1, WalkInvHolds, PTL

\* meta.total and the rows of a page are each those of the list at some moment
\* of the request, though two statements read them: they differ by no more than
\* the rows inserted during it (TransferRepository.ts:58, LedgerEntryRepository.ts:73).
THEOREM PagesFitTotals == ClientsSpec => []PageFitsTotal
<1>1. WalkInv => PageFitsTotal
  <2> SUFFICES ASSUME WalkInv, NEW r \in Readers, rTotal[r] # None, rPage[r] # None
               PROVE  /\ rTotal[r] \in rBefore[r]..Cardinality(RowsOf(rList[r]))
                      /\ \E n \in rBefore[r]..Cardinality(RowsOf(rList[r])) :
                            Len(rPage[r]) = PageLength(r, n)
    BY DEF PageFitsTotal
  <2> QED
    BY DEF WalkInv, WalkSound
<1> QED
  BY <1>1, WalkInvHolds, PTL
=============================================================================
