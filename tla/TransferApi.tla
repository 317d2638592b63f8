----------------------------- MODULE TransferApi -----------------------------
(***************************************************************************)
(* The write side of the HTTP API: transfers, top-ups, status changes and  *)
(* new accounts, all at once over one database.                            *)
(***************************************************************************)
EXTENDS TransferService, AccountService, TestHelpersService

CONSTANT PoolSize  \* connections of the pool: 10 in the code

apiVars == <<dbVars, transferVars, patchVars, topUpVars>>

ASSUME ApiAssumption ==
    /\ PoolSize \in Nat \ {0}
    /\ TransferRequests \cap PatchRequests = {}
    /\ TransferRequests \cap TopUpRequests = {}
    /\ PatchRequests \cap TopUpRequests = {}

ApiTypeOK == TypeOK /\ PatchTypeOK /\ TopUpTypeOK

ApiInit == DbInit /\ TransferInit /\ PatchInit /\ TopUpInit

\* Every request has been answered; accounts may still be created.
ApiIdle ==
    /\ TransfersOver
    /\ \A p \in PatchRequests : sPc[p] \in Answered
    /\ \A p \in TopUpRequests : uPc[p] \in Answered

\* The requests that hold a connection: through a transaction, from
\* getTransaction() to COMMIT or ROLLBACK, and while an UPDATE waits for its row.
Connected ==
    {p \in TransferRequests : tPc[p] \in Statements \cup {"commit", "rollback"}}
    \cup {p \in TopUpRequests : uPc[p] \in TopUpStatements \cup {"commit", "rollback"}}
    \cup {p \in PatchRequests : sPc[p] = "updating"}

\* Mutated form of Acquires: the audit row is inserted without its transaction.
AcquiresForAudit(pc) ==
    pc \in {"lookup", "begin", "relookup", "find", "update", "reread", "readBack", "audit"}

\* The calls that take a connection from the pool: the start of a transaction,
\* and every statement outside one.
Acquires(pc) == pc \in {"lookup", "begin", "relookup", "find", "update", "reread", "readBack"}

\* A call at pc finds what it needs of the pool.
Granted(pc) == Acquires(pc) => Cardinality(Connected) < PoolSize

TransferRuns(p) == TransferProgress(p) /\ Granted(tPc[p]) /\ UNCHANGED <<patchVars, topUpVars>>
PatchRuns(p) == PatchProgress(p) /\ Granted(sPc[p]) /\ UNCHANGED <<transferVars, topUpVars>>
TopUpRuns(p) == TopUpProgress(p) /\ Granted(uPc[p]) /\ UNCHANGED <<transferVars, patchVars>>

ApiNext ==
    \/ \E p \in TransferRequests :
          \/ TransferRuns(p)
          \/ (Receive(p) \/ TransferFault(p)) /\ UNCHANGED <<patchVars, topUpVars>>
    \/ \E p \in PatchRequests :
          \/ PatchRuns(p)
          \/ (ReceivePatch(p) \/ PatchFault(p)) /\ UNCHANGED <<transferVars, topUpVars>>
    \/ \E p \in TopUpRequests :
          \/ TopUpRuns(p)
          \/ (ReceiveTopUp(p) \/ TopUpFault(p)) /\ UNCHANGED <<transferVars, patchVars>>
    \/ \E a \in Accounts : \E currency \in Currencies :
          /\ CreateAccount(a, currency) /\ Cardinality(Connected) < PoolSize
          /\ UNCHANGED <<transferVars, patchVars, topUpVars>>
    \/ ApiIdle /\ UNCHANGED apiVars

ApiSpec == ApiInit /\ [][ApiNext]_apiVars

ApiFairSpec ==
    /\ ApiSpec
    /\ \A p \in TransferRequests : WF_apiVars(TransferRuns(p))
    /\ \A p \in PatchRequests : WF_apiVars(PatchRuns(p))
    /\ \A p \in TopUpRequests : WF_apiVars(TopUpRuns(p))
-----------------------------------------------------------------------------
(***************************************************************************)
(* The services implement the atomic bank: a transfer or a top-up happens  *)
(* when its transaction commits, a status change at its UPDATE, and every  *)
(* other step leaves the tables alone.                                     *)
(***************************************************************************)
Bank == INSTANCE AtomicBank WITH
    Orders <- {[source |-> Uuid[b.source], destination |-> Uuid[b.destination],
                amount |-> b.amount, currency |-> b.currency,
                reference |-> b.reference] : b \in Bodies},
    TopUpOrders <- {[account |-> Uuid[r.id], amount |-> r.amount] : r \in TopUps},
    StatusOrders <- {[account |-> Uuid[r.id], status |-> r.status] : r \in Patches}

ImplementsAtomicBank == Bank!BankSpec
-----------------------------------------------------------------------------
\* A top-up answered 200 is in the ledger and one answered 404 or 422 is not:
\* an account has at least as many top-up entries as 200s, and at most as many
\* as 200s and requests that were cut off (TestHelpersService.ts:45-51).
TopUpsAreCounted ==
    \A a \in Accounts :
        LET for == {p \in TopUpRequests : uReq[p] # NoTopUp /\ Topped(p) = a}
            opened == IF Opening[a] = NoRow THEN 0 ELSE 1
            entries == Cardinality({i \in 1..Len(ledger[a]) : ledger[a][i].transfer = None})
            certain == {p \in for : uPc[p] = "readBack" \/ uOutcome[p] = "OK"}
            possible == {p \in for : uPc[p] \in Answered /\ uOutcome[p] \in {"NONE", "INTERNAL_ERROR"}}
        IN  entries \in (opened + Cardinality(certain))
                        ..(opened + Cardinality(certain \cup possible))

\* A PATCH is answered with a status that a PATCH of the account has set, its own
\* or a later one: no transfer that held the row brings the old status back
\* (AccountRepository.ts:50-53).
PatchShowsSetStatus ==
    \A p \in PatchRequests : sOutcome[p].kind = "OK" =>
        \E q \in PatchRequests : /\ sPc[q] \in {"reread"} \cup Answered
                                 /\ Target(q) = Target(p)
                                 /\ sOutcome[p].status = sReq[q].status

ApiRequests == TransferRequests \cup PatchRequests \cup TopUpRequests

\* The call request p makes next.
NextCall(p) == CASE p \in TransferRequests -> tPc[p]
                 [] p \in PatchRequests -> sPc[p]
                 [] p \in TopUpRequests -> uPc[p]

\* WaitsFor of every kind of request: a top-up and a PATCH wait for one row.
ApiWaitsFor(p) ==
    CASE p \in TransferRequests -> WaitsFor(p)
      [] p \in TopUpRequests /\ uPc[p] = "lock" -> {lock[Topped(p)]} \ {None, p}
      [] p \in PatchRequests /\ sPc[p] = "updating" -> {lock[Target(p)]} \ {None, p}
      [] OTHER -> {}

\* Request p waits, and nobody outside C can end that: for a transaction of C,
\* or for a connection, when C has them all.
WaitsWithin(p, C) ==
    \/ ApiWaitsFor(p) \cap C # {}
    \/ ~Granted(NextCall(p)) /\ Connected \subseteq C

\* No requests wait only for each other, not even through the pool: a
\* transaction asks for no second connection, so the locks it holds are handed
\* on whatever the pool's other users wait for (TransferService.ts:54-151 and
\* config/database.ts:14).
NoDeadlock ==
    \A C \in SUBSET ApiRequests : C # {} => \E p \in C : ~WaitsWithin(p, C)

\* Every request that arrives at any endpoint is answered, unless its process
\* dies: no one waits for a row for ever.
EveryApiRequestAnswered ==
    /\ EveryRequestAnswered
    /\ \A p \in PatchRequests : sPc[p] # "idle" ~> sPc[p] \in Answered
    /\ \A p \in TopUpRequests : uPc[p] # "idle" ~> uPc[p] \in Answered
=============================================================================
