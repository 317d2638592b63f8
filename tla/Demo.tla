-------------------------------- MODULE Demo --------------------------------
(***************************************************************************)
(* POST /demo/concurrent-transfers (concurrencyDemoController.ts): read    *)
(* two balances, start a batch of transfers in both directions at once     *)
(* under references made from the time, await them all, read the balances  *)
(* again and report.                                                       *)
(*                                                                         *)
(* Each transfer of a batch is a call of executeTransfer, taken here by    *)
(* what it promises: it ends in one step, like the transfers of the bank.  *)
(***************************************************************************)
EXTENDS AtomicBank, Clock

CONSTANTS
    Batches,    \* requests, one batch each
    DemoBodies  \* bodies that pass concurrentTransfersDemoSchema

Directions == {"a2b", "b2a"}
Sides == {"source", "destination"}

DemoBody == [source : Accounts, destination : Accounts, currency : Currencies,
             count : [Directions -> Nat \ {0}], amount : [Directions -> Amount]]

\* The transfers a batch may make; each is a session of its own.
Tasks == [batch : Batches, direction : Directions, index : Nat]

\* demo-<time>-a2b-<i>
DemoReferences == [at : Nat, direction : Directions, index : Nat]

ASSUME DemoAssumption ==
    /\ DemoBodies \subseteq DemoBody
    /\ \A d \in DemoBodies : d.source # d.destination
    /\ \A b \in Batches : \A d \in DemoBodies : \A dir \in Directions :
          \A i \in 0..d.count[dir] - 1 :
             [batch |-> b, direction |-> dir, index |-> i] \in Sessions
    /\ \A at \in 1..MaxClock : \A d \in DemoBodies : \A dir \in Directions :
          \A i \in 0..d.count[dir] - 1 :
             [at |-> at, direction |-> dir, index |-> i] \in References

VARIABLES
    dPc,       \* where each request is
    dReq,      \* its body
    dUnread,   \* the balances it has asked for and not been given
    dBefore,   \* dBefore[b][side]: the balance read before the batch, None without the account
    dAfter,    \* dAfter[b][side]: the balance read after it
    dBase,     \* the time in the references
    dRunning,  \* the transfers of the batch that have not ended
    dResults   \* what the others ended with

demoVars == <<dPc, dReq, dUnread, dBefore, dAfter, dBase, dRunning, dResults>>

DemoInit ==
    /\ dPc = [b \in Batches |-> "idle"]
    /\ dReq = [b \in Batches |-> None]
    /\ dUnread = [b \in Batches |-> Sides]
    /\ dBefore = [b \in Batches |-> [side \in Sides |-> 0]]
    /\ dAfter = [b \in Batches |-> [side \in Sides |-> 0]]
    /\ dBase = [b \in Batches |-> None]
    /\ dRunning = [b \in Batches |-> {}]
    /\ dResults = [b \in Batches |-> {}]

AccountAt(b, side) == IF side = "source" THEN dReq[b].source ELSE dReq[b].destination

TasksOf(b) == UNION {{[batch |-> b, direction |-> dir, index |-> i] :
                         i \in 0..dReq[b].count[dir] - 1} : dir \in Directions}

ReferenceOf(k) == [at |-> dBase[k.batch], direction |-> k.direction, index |-> k.index]

\* The body of one transfer of the batch.
OrderOf(k) ==
    LET d == dReq[k.batch]
    IN  [source |-> IF k.direction = "a2b" THEN d.source ELSE d.destination,
         destination |-> IF k.direction = "a2b" THEN d.destination ELSE d.source,
         amount |-> d.amount[k.direction], currency |-> d.currency,
         reference |-> ReferenceOf(k)]
-----------------------------------------------------------------------------
ReceiveDemo(b, d) ==
    /\ dPc[b] = "idle"
    /\ dReq' = [dReq EXCEPT ![b] = d]
    /\ dPc' = [dPc EXCEPT ![b] = "before"]
    /\ UNCHANGED <<tables, dUnread, dBefore, dAfter, dBase, dRunning, dResults>>

\* One of the two findById before the batch.  After the later answer, an
\* account that was missing when it was read is answered 404; otherwise every
\* transfer is named and started.
ReadBefore(b, side) ==
    /\ dPc[b] = "before" /\ side \in dUnread[b]
    /\ LET row == accounts[AccountAt(b, side)]
       IN  dBefore' = [dBefore EXCEPT ![b][side] = IF row = NoRow THEN None ELSE row.available]
    /\ IF dUnread[b] # {side}
       THEN /\ dUnread' = [dUnread EXCEPT ![b] = @ \ {side}]
            /\ UNCHANGED <<dPc, dBase, dRunning>>
       ELSE IF \A s \in Sides : dBefore'[b][s] # None
       THEN /\ dUnread' = [dUnread EXCEPT ![b] = Sides]
            /\ dBase' = [dBase EXCEPT ![b] = clock]
            /\ dRunning' = [dRunning EXCEPT ![b] = TasksOf(b)]
            /\ dPc' = [dPc EXCEPT ![b] = "batch"]
       ELSE /\ dPc' = [dPc EXCEPT ![b] = "failed"]
            /\ UNCHANGED <<dUnread, dBase, dRunning>>
    /\ UNCHANGED <<tables, dReq, dAfter, dResults>>

\* A transfer ends, as try or catch records it.
EndTask(k, kind, id) ==
    /\ k \in dRunning[k.batch]
    /\ dRunning' = [dRunning EXCEPT ![k.batch] = @ \ {k}]
    /\ dResults' = [dResults EXCEPT ![k.batch] = @ \cup {[task |-> k, kind |-> kind, transfer |-> id]}]
    /\ UNCHANGED <<dPc, dReq, dUnread, dBefore, dAfter, dBase>>

TaskMoves(k) == EndTask(k, "completed", k) /\ Move(k, OrderOf(k))

\* Mutated form of TaskFindsReference: the stored transfer is returned
\* without comparing it with the body.
TaskFindsAny(k) ==
    /\ \E t \in transfers : /\ t.reference = OrderOf(k).reference
                           /\ EndTask(k, "completed", t.id)
    /\ UNCHANGED tables

\* The reference has been used: for this very transfer, or for another.
TaskFindsReference(k) ==
    /\ \E t \in transfers :
          /\ t.reference = OrderOf(k).reference
          /\ IF OrderOf(k) = [column \in DOMAIN OrderOf(k) |-> t[column]]
             THEN EndTask(k, "completed", t.id)
             ELSE EndTask(k, "IDEMPOTENCY_CONFLICT", None)
    /\ UNCHANGED tables

\* A rule is broken.  The reference may be taken too, since it was looked up.
TaskRefused(k) ==
    /\ EndTask(k, "refused", None)
    /\ ~RulesAllow(OrderOf(k))
    /\ UNCHANGED tables

\* INTERNAL_ERROR: overflow, a lost connection, deadlocks without end; if the
\* answer to COMMIT is lost, the money has moved.
TaskFails(k) ==
    /\ EndTask(k, "INTERNAL_ERROR", None)
    /\ Move(k, OrderOf(k)) \/ UNCHANGED tables

TaskStep(k) == TaskMoves(k) \/ TaskFindsReference(k) \/ TaskRefused(k) \/ TaskFails(k)

\* Mutated form of BatchEnded: no catch around each transfer, so that the first
\* rejection ends Promise.all.
AllOrOneRejected(b) == dRunning[b] = {} \/ \E r \in dResults[b] : r.kind # "completed"

\* Mutated form of BatchEnded: Promise.race instead of Promise.all.
AnyEnded(b) == dResults[b] # {}

BatchEnded(b) == dRunning[b] = {}

\* One of the two findById after the batch; the later answer completes the
\* report.  An account that is gone by now would show its old balance.
ReadAfter(b, side) ==
    /\ dPc[b] = "batch" /\ BatchEnded(b) /\ side \in dUnread[b]
    /\ LET row == accounts[AccountAt(b, side)]
       IN  dAfter' = [dAfter EXCEPT ![b][side] =
                IF row = NoRow THEN dBefore[b][side] ELSE row.available]
    /\ dUnread' = [dUnread EXCEPT ![b] = @ \ {side}]
    /\ dPc' = [dPc EXCEPT ![b] = IF dUnread[b] = {side} THEN "reported" ELSE "batch"]
    /\ UNCHANGED <<tables, dReq, dBefore, dBase, dRunning, dResults>>

\* A findById fails: 500, although after the batch the transfers are made.
DemoReadFails(b) ==
    /\ \/ dPc[b] = "before"
       \/ dPc[b] = "batch" /\ BatchEnded(b)
    /\ dPc' = [dPc EXCEPT ![b] = "failed"]
    /\ UNCHANGED <<tables, dReq, dUnread, dBefore, dAfter, dBase, dRunning, dResults>>

DemoStep(b) ==
    \/ \E d \in DemoBodies : ReceiveDemo(b, d)
    \/ \E side \in Sides : ReadBefore(b, side) \/ ReadAfter(b, side)
    \/ \E k \in dRunning[b] : TaskStep(k)
    \/ DemoReadFails(b)
-----------------------------------------------------------------------------
\* No other batch has its references.
OwnMillisecond(b) == \A c \in Batches : dBase[c] = dBase[b] => c = b

\* A transfer reported as completed has been made, and as the batch asked for
\* it, even if it is one of another batch that began in the same millisecond and
\* has the same references.  Without such a batch it is this batch's own, and
\* none is refused as a conflict (concurrencyDemoController.ts:47 and 81).
ResultsAreTrue ==
    \A b \in Batches : \A r \in dResults[b] :
        /\ r.kind = "completed" =>
              \E t \in transfers :
                  /\ t.id = r.transfer
                  /\ OrderOf(r.task) = [column \in DOMAIN OrderOf(r.task) |-> t[column]]
        /\ OwnMillisecond(b) => /\ r.kind = "completed" => r.transfer = r.task
                                /\ r.kind # "IDEMPOTENCY_CONFLICT"

\* However a batch is answered, even 500 because a read after it has failed, no
\* transfer of it is still under way: what the client then finds is what the
\* batch has done (concurrencyDemoController.ts:78 and 107).
NothingAfterTheAnswer ==
    [][\A b \in Batches : dPc[b] \in {"reported", "failed"} =>
          \A t \in transfers' : t.id \in TasksOf(b) => t \in transfers]_<<tables, demoVars>>

\* For each of its accounts a report shows two balances the account had, the
\* first before and the second after everything the batch itself moved, whatever
\* others did meanwhile (concurrencyDemoController.ts:34 and 107).
ReportSpansItsTransfers ==
    \A b \in Batches : dPc[b] = "reported" =>
        \A side \in Sides :
            LET a == AccountAt(b, side)
                Moments == 1..Len(ledger[a]) + 1
            IN  \E i, j \in Moments :
                    /\ BalanceBefore(a, i) = dBefore[b][side]
                    /\ BalanceBefore(a, j) = dAfter[b][side]
                    /\ \A k \in DOMAIN ledger[a] :
                          (\E r \in dResults[b] : ledger[a][k].transfer = r.task) => i <= k /\ k < j
=============================================================================
