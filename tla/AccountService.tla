--------------------------- MODULE AccountService ---------------------------
(***************************************************************************)
(* PATCH /api/v1/accounts/:id: updateStatus of AccountService.ts and of    *)
(* AccountRepository.ts.  Three statements, each a transaction of its own. *)
(***************************************************************************)
EXTENDS Handlers

CONSTANTS
    PatchRequests,  \* PATCH requests, each made once
    Patches         \* validated requests: an id and the status to set

ASSUME PatchAssumption ==
    /\ PatchRequests \subseteq Sessions
    /\ Patches \subseteq [id : Ids, status : Statuses]

VARIABLES
    sPc,       \* the call each request makes next
    sReq,      \* the request
    sOutcome   \* its answer: the kind, and the status shown to the client

patchVars == <<sPc, sReq, sOutcome>>

NoPatch == [id |-> 0, status |-> "ABSENT"]

PatchTypeOK ==
    /\ sPc \in [PatchRequests -> {"idle", "find", "update", "updating", "reread"}
                                \cup Answered]
    /\ sReq \in [PatchRequests -> Patches \cup {NoPatch}]
    /\ sOutcome \in [PatchRequests ->
            [kind : {"NONE", "OK", "ACCOUNT_NOT_FOUND", "INTERNAL_ERROR"},
             status : Statuses \cup {"ABSENT"}]]

PatchInit ==
    /\ sPc = [p \in PatchRequests |-> "idle"]
    /\ sReq = [p \in PatchRequests |-> NoPatch]
    /\ sOutcome = [p \in PatchRequests |-> [kind |-> "NONE", status |-> "ABSENT"]]
-----------------------------------------------------------------------------
Target(p) == Uuid[sReq[p].id]

PatchGoto(p, pc) == sPc' = [sPc EXCEPT ![p] = pc] /\ UNCHANGED <<sReq, sOutcome>>

PatchAnswer(p, kind, status) ==
    /\ sPc' = [sPc EXCEPT ![p] = "done"]
    /\ sOutcome' = [sOutcome EXCEPT ![p] = [kind |-> kind, status |-> status]]
    /\ UNCHANGED sReq

ReceivePatch(p) ==
    /\ sPc[p] = "idle"
    /\ \E r \in Patches : sReq' = [sReq EXCEPT ![p] = r]
    /\ sPc' = [sPc EXCEPT ![p] = "find"]
    /\ UNCHANGED <<dbVars, sOutcome>>

FindAccount(p) ==
    /\ sPc[p] = "find"
    /\ IF accounts[Target(p)] = NoRow
       THEN PatchAnswer(p, "ACCOUNT_NOT_FOUND", "ABSENT")
       ELSE PatchGoto(p, "update")
    /\ UNCHANGED dbVars

\* A connection for the UPDATE, which keeps it until it has the row.
SendUpdate(p) == sPc[p] = "update" /\ PatchGoto(p, "updating") /\ UNCHANGED dbVars

\* Mutated form of UpdateStatus: it does not wait for the transaction that holds the row.
UpdateStatusUnlocked(p) ==
    /\ sPc[p] = "updating"
    /\ accounts' = [accounts EXCEPT ![Target(p)].status = sReq[p].status]
    /\ PatchGoto(p, "reread")
    /\ UNCHANGED <<transfers, ledger, audit, lock, pend>>

\* UPDATE accounts SET status WHERE id: waits for the row lock, commits at once.
UpdateStatus(p) ==
    /\ sPc[p] = "updating"
    /\ RowFree(p, Target(p))
    /\ accounts' = [accounts EXCEPT ![Target(p)].status = sReq[p].status]
    /\ PatchGoto(p, "reread")
    /\ UNCHANGED <<transfers, ledger, audit, lock, pend>>

\* The account is read again for the answer; it may have changed since.
Reread(p) ==
    /\ sPc[p] = "reread"
    /\ PatchAnswer(p, "OK", accounts[Target(p)].status)
    /\ UNCHANGED dbVars

\* A statement fails.  An UPDATE whose answer is lost looks to the client
\* like a reread that fails.
PatchFails(p) ==
    /\ "statement" \in Faults
    /\ sPc[p] \in {"find", "update", "updating", "reread"}
    /\ PatchAnswer(p, "INTERNAL_ERROR", "ABSENT")
    /\ UNCHANGED dbVars

PatchCrash(p) ==
    /\ "crash" \in Faults
    /\ sPc[p] \in {"find", "update", "updating", "reread"}
    /\ PatchGoto(p, "dead")
    /\ UNCHANGED dbVars

PatchProgress(p) == FindAccount(p) \/ SendUpdate(p) \/ UpdateStatus(p) \/ Reread(p)

PatchFault(p) == PatchFails(p) \/ PatchCrash(p)
=============================================================================
