------------------------------ MODULE Handlers ------------------------------
(***************************************************************************)
(* What the request handlers share: how a body names an account, and the   *)
(* failures they are exposed to.                                           *)
(*                                                                         *)
(* An id in a request is a spelling of a UUID: the validators accept       *)
(* either letter case, PostgreSQL stores one of them, and JavaScript       *)
(* compares and sorts the spellings.  Spellings are numbered in the order  *)
(* JavaScript sorts them.                                                  *)
(***************************************************************************)
EXTENDS Postgres

CONSTANTS
    Ids,     \* spellings of account ids
    Uuid,    \* Uuid[i]: the account that spelling i names
    Faults   \* which failures happen, a subset of FaultKinds

\* A statement, COMMIT or ROLLBACK whose call throws; the end of the process.
FaultKinds == {"statement", "commit", "rollback", "crash"}

ASSUME HandlersAssumption ==
    /\ Ids \subseteq Nat
    /\ Accounts \subseteq Ids
    /\ Uuid \in [Ids -> Accounts]
    /\ \A a \in Accounts : Uuid[a] = a     \* a stored id is its own spelling
    /\ Faults \subseteq FaultKinds

\* The two ends of a request: it got an answer, or its process died.
Answered == {"done", "dead"}
=============================================================================
