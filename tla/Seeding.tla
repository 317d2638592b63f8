------------------------------ MODULE Seeding ------------------------------
(***************************************************************************)
(* The seeder of database/seeders: four statements, each a transaction of  *)
(* its own, that replace the demo accounts and their ledger entries.       *)
(* Nothing records that it has run, so every start runs it again.          *)
(*                                                                         *)
(* It runs beside requests.  Those are the atomic steps of AtomicBank: a   *)
(* statement of the seeder that touches a row a request has locked waits   *)
(* for its COMMIT, and one that touches no such row commutes with it.      *)
(***************************************************************************)
EXTENDS AtomicBank

\* The accounts the seeder writes.
Demo == {a \in Accounts : Opening[a] # NoRow}

DeleteEntries ==
    /\ ledger' = [a \in Accounts |-> IF a \in Demo THEN <<>> ELSE ledger[a]]
    /\ UNCHANGED <<accounts, transfers, audit>>

DemoTransfers == {t \in transfers : {t.source, t.destination} \cap Demo # {}}

\* Mutated form of DemoReferenced: transfers may outlive their accounts.
DemoReferencedByEntries == \E a \in Demo : ledger[a] # <<>>

\* The foreign keys of transfers and ledger_entries are ON DELETE RESTRICT;
\* audit_logs has none.
DemoReferenced ==
    \/ DemoTransfers # {}
    \/ \E a \in Demo : ledger[a] # <<>>

DeleteAccounts ==
    /\ accounts' = [a \in Accounts |-> IF a \in Demo THEN NoRow ELSE accounts[a]]
    /\ UNCHANGED <<transfers, ledger, audit>>

\* No primary key is taken.
DemoAbsent == \A a \in Demo : accounts[a] = NoRow

InsertAccounts ==
    /\ accounts' = [a \in Accounts |-> IF a \in Demo THEN Opening[a] ELSE accounts[a]]
    /\ UNCHANGED <<transfers, ledger, audit>>

\* Mutated form of InsertOpeningEntries: stamped when it is inserted.
AppendOpeningEntries ==
    /\ ledger' = [a \in Accounts |-> IF a \in Demo THEN ledger[a] \o <<OpeningEntry(a)>>
                                                   ELSE ledger[a]]
    /\ UNCHANGED <<accounts, transfers, audit>>

\* The entries are stamped with the time the seeder started: before any entry
\* that a request has written since the accounts were inserted.
InsertOpeningEntries ==
    /\ ledger' = [a \in Accounts |-> IF a \in Demo THEN <<OpeningEntry(a)>> \o ledger[a]
                                                   ELSE ledger[a]]
    /\ UNCHANGED <<accounts, transfers, audit>>

\* The foreign key of the entries.
DemoPresent == \A a \in Demo : accounts[a] # NoRow
=============================================================================
