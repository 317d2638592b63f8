------------------------------ MODULE Postgres ------------------------------
(***************************************************************************)
(* The database as the services use it: the four tables, READ COMMITTED    *)
(* transactions, row locks, the unique index on transfers.reference and    *)
(* the deadlock detector.                                                  *)
(*                                                                         *)
(* The tables hold committed data only.  What an open transaction has      *)
(* written is in pend, seen by its own session, and reaches the tables in  *)
(* one step at COMMIT.  A session stands for one HTTP request: it runs one *)
(* transaction at a time, creates at most one transfer that commits, and   *)
(* its name serves as that transfer's id.                                  *)
(*                                                                         *)
(* Foreign keys add nothing to wait for: an insert into transfers or       *)
(* ledger_entries locks (FOR KEY SHARE) accounts its own transaction has   *)
(* already locked FOR UPDATE.                                              *)
(***************************************************************************)
EXTENDS Tables

VARIABLES
    lock,        \* lock[a]: the session that holds the row lock
    pend         \* pend[s]: uncommitted writes of session s

dbVars == <<tables, lock, pend>>
-----------------------------------------------------------------------------
NothingPending == [rows      |-> [a \in Accounts |-> NoRow],
                   transfers |-> {},
                   entries   |-> [a \in Accounts |-> <<>>],
                   audit     |-> {}]

Pending == [rows : [Accounts -> Row \cup {NoRow}], transfers : SUBSET Transfer,
            entries : [Accounts -> Seq(Entry)], audit : SUBSET AuditRow]

DbTypeOK ==
    /\ TablesTypeOK
    /\ lock \in [Accounts -> Sessions \cup {None}]
    /\ pend \in [Sessions -> Pending]

DbInit ==
    /\ TablesInit
    /\ lock = [a \in Accounts |-> None]
    /\ pend = [s \in Sessions |-> NothingPending]
-----------------------------------------------------------------------------
\* The version of a row that a statement of session s reads: its own
\* uncommitted one, else the last committed one.
Visible(s, a) == IF pend[s].rows[a] = NoRow THEN accounts[a] ELSE pend[s].rows[a]

\* No other transaction holds the row: a SELECT ... FOR UPDATE or an UPDATE
\* of session s does not have to wait.
RowFree(s, a) == lock[a] \in {None, s}

\* Mutated form of Lock: SELECT without FOR UPDATE.
NoLock(s, a) == lock

\* The locks once session s has locked the row of a, if there is one.
Lock(s, a) == [lock EXCEPT ![a] = IF Visible(s, a) = NoRow THEN @ ELSE s]

Unlock(s) == [a \in Accounts |-> IF lock[a] = s THEN None ELSE lock[a]]

\* Mutated form of UpdateBalanceColumns: sent outside the transaction.
UpdateBalanceColumnsNow(s, a, available, led) ==
    /\ accounts' = [accounts EXCEPT ![a].available = available, ![a].ledger = led]
    /\ UNCHANGED <<transfers, ledger, audit, lock, pend>>

\* UPDATE accounts SET available_balance, ledger_balance WHERE id = a.  The
\* other columns keep the values of the version that is updated.
UpdateBalanceColumns(s, a, available, led) ==
    /\ RowFree(s, a)
    /\ lock' = Lock(s, a)
    /\ pend' = [pend EXCEPT ![s].rows[a] =
                    IF Visible(s, a) = NoRow THEN @
                    ELSE [Visible(s, a) EXCEPT !.available = available, !.ledger = led]]
    /\ UNCHANGED tables

\* Mutated form of InsertersOf: the unique index is missing.
NoInserters(s, reference) == {}

\* Sessions whose uncommitted insert of this reference an insert waits for.
InsertersOf(s, reference) ==
    {o \in Sessions \ {s} : \E t \in pend[o].transfers : t.reference = reference}

ReferenceTaken(reference) == \E t \in transfers : t.reference = reference

\* The single row findOne({where: {reference}}) can return.
ByReference(reference) == CHOOSE t \in transfers : t.reference = reference

Commit(s) ==
    /\ accounts' = [a \in Accounts |-> Visible(s, a)]
    /\ transfers' = transfers \cup pend[s].transfers
    /\ ledger' = [a \in Accounts |-> ledger[a] \o pend[s].entries[a]]
    /\ audit' = audit \cup pend[s].audit
    /\ lock' = Unlock(s)
    /\ pend' = [pend EXCEPT ![s] = NothingPending]

\* Mutated form of Abort: the rows stay locked.
AbortHoldingLocks(s) == pend' = [pend EXCEPT ![s] = NothingPending] /\ UNCHANGED <<tables, lock>>

\* ROLLBACK, a statement that fails, or a connection that goes away: the
\* transaction's writes vanish and its locks are released.
Abort(s) ==
    /\ lock' = Unlock(s)
    /\ pend' = [pend EXCEPT ![s] = NothingPending]
    /\ UNCHANGED tables
=============================================================================
