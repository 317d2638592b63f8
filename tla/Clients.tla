------------------------------ MODULE Clients ------------------------------
(***************************************************************************)
(* What clients see of the bank in requests that are not one step: lists   *)
(* read page by page (Reads) and demo batches (Demo), while other requests *)
(* move money, top up, open accounts and change statuses.                  *)
(***************************************************************************)
EXTENDS Reads, Demo

CONSTANTS
    Others,  \* sessions of the requests that take one step
    Casts    \* bound: the sets of clients that come together

\* Sessions of other requests are no transfers of a batch, and clients leave the
\* references that begin with "demo-" to the batches.
ASSUME ClientsAssumption ==
    /\ Others \subseteq Sessions
    /\ \A id \in Others : id \notin Tasks
    /\ \A o \in Orders : o.reference \notin DemoReferences
    /\ Casts \subseteq SUBSET (Others \cup Readers \cup Batches)

VARIABLE cast   \* the clients that come, without the others that have been served

clientsVars == <<tables, clock, stamp, readerVars, demoVars, cast>>

ClientsInit == TablesInit /\ ClockInit /\ ReadsInit /\ DemoInit /\ cast \in Casts

OtherRequest(id) ==
    /\ id \in cast
    /\ cast' = cast \ {id}
    /\ \/ \E o \in Orders : Move(id, o)
       \/ \E u \in TopUpOrders : TopUp(u)
       \/ \E r \in StatusOrders : SetStatus(r.account, r.status)
       \/ \E a \in Accounts : \E currency \in Currencies : Open(a, currency)

\* Everybody has been answered.
AllServed ==
    /\ cast \cap Others = {} /\ clock = MaxClock
    /\ \A b \in cast \cap Batches : dPc[b] \in {"reported", "failed"}
    /\ \A r \in cast \cap Readers : rPc[r] = "done"

\* A request that may change the tables stamps what it inserts.
ClientsNext ==
    \/ /\ \E id \in Others : OtherRequest(id)
       /\ StampEntries
       /\ UNCHANGED <<clock, readerVars, demoVars>>
    \/ /\ \E b \in Batches \cap cast : DemoStep(b)
       /\ StampEntries
       /\ UNCHANGED <<clock, readerVars, cast>>
    \/ /\ \E r \in Readers \cap cast : ReadStep(r)
       /\ UNCHANGED <<tables, clock, stamp, demoVars, cast>>
    \/ /\ Tick
       /\ UNCHANGED <<tables, stamp, readerVars, demoVars, cast>>
    \/ AllServed /\ UNCHANGED clientsVars

ClientsSpec == ClientsInit /\ [][ClientsNext]_clientsVars
=============================================================================
