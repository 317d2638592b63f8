------------------------------- MODULE Tables -------------------------------
(***************************************************************************)
(* The four tables of the database, as committed: their columns, their     *)
(* content after the demo accounts are seeded, and what they promise       *)
(* together.  The promises are stated here once, for the abstract bank     *)
(* (AtomicBank) and for the services that run over PostgreSQL.             *)
(***************************************************************************)
EXTENDS Money, Sequences, FiniteSets, Functions

CONSTANTS
    Accounts,    \* ids of account rows, present or not, as PostgreSQL prints them
    Sessions,    \* one per HTTP request that talks to the database
    Currencies,
    References,  \* values of transfers.reference
    Opening,     \* the seeded row of each account, or NoRow
    None         \* no session, no transfer

VARIABLES
    accounts,    \* accounts[a]: the row of a
    transfers,   \* set of rows; a transfer's id is the session that created it
    ledger,      \* ledger[a]: the ledger_entries of account a, in order
    audit        \* set of audit_logs rows

tables == <<accounts, transfers, ledger, audit>>
-----------------------------------------------------------------------------
Statuses == {"ACTIVE", "FROZEN", "CLOSED"}

\* A value of a DECIMAL(20, 4) column.
Column == {x \in (-MaxNumeric)..MaxNumeric : IsWhole(x)}

Row == [available : Column, ledger : Column, currency : Currencies, status : Statuses]

\* The answer of a query that finds no row.
NoRow == [available |-> 0, ledger |-> 0, currency |-> "NONE", status |-> "ABSENT"]

Transfer == [id : Sessions, reference : References, source : Accounts,
             destination : Accounts, amount : Column, currency : Currencies]

Entry == [transfer : Sessions \cup {None}, type : {"DEBIT", "CREDIT"},
          amount : Column, balance_after : Column]

AuditRow == [transfer : Sessions, source_before : Column, source_after : Column,
             dest_before : Column, dest_after : Column]

TablesTypeOK ==
    /\ accounts \in [Accounts -> Row \cup {NoRow}]
    /\ transfers \subseteq Transfer
    /\ ledger \in [Accounts -> Seq(Entry)]
    /\ audit \subseteq AuditRow

\* Ids are UUIDs, so there are finitely many; the accounts seeded, and, as the
\* seeder writes it, one CREDIT for each.
ASSUME TablesAssumption ==
    /\ IsFiniteSet(Accounts)
    /\ None \notin Sessions
    /\ Opening \in [Accounts -> Row \cup {NoRow}]
    /\ \A a \in Accounts : Opening[a].available = Opening[a].ledger
                           /\ Opening[a].available >= 0

OpeningEntry(a) == [transfer |-> None, type |-> "CREDIT",
                    amount |-> Opening[a].available,
                    balance_after |-> Opening[a].available]

TablesInit ==
    /\ accounts = Opening
    /\ transfers = {}
    /\ ledger = [a \in Accounts |-> IF Opening[a] = NoRow THEN <<>> ELSE <<OpeningEntry(a)>>]
    /\ audit = {}
-----------------------------------------------------------------------------
(***************************************************************************)
(* What the tables promise together.                                       *)
(***************************************************************************)

LastBalance(a) == IF ledger[a] = <<>> THEN 0 ELSE ledger[a][Len(ledger[a])].balance_after

\* The balance an account had before its entry i.
BalanceBefore(a, i) == IF i = 1 THEN 0 ELSE ledger[a][i - 1].balance_after

\* Both balances of an account are the balance_after of its newest ledger
\* entry: the row and the ledger are written by one transaction
\* (TransferService.ts:101-135, TestHelpersService.ts:39-44) and never diverge.
BalanceMatchesLedger ==
    \A a \in Accounts : accounts[a].available = LastBalance(a)
                        /\ accounts[a].ledger = LastBalance(a)

\* Replaying an account's entries from zero gives every balance_after: no
\* entry was computed from a balance another transaction had changed.
LedgerChain ==
    \A a \in Accounts : \A i \in 1..Len(ledger[a]) :
        ledger[a][i].balance_after =
            IF ledger[a][i].type = "CREDIT" THEN BalanceBefore(a, i) + ledger[a][i].amount
                                            ELSE BalanceBefore(a, i) - ledger[a][i].amount

\* No account is ever overdrawn: the balance checked at TransferService.ts:84
\* is still the balance when the debit commits.
NoOverdraft == \A a \in Accounts : accounts[a].available >= 0

\* One logical transfer per reference (the goal of README.md:228).
UniqueReference == \A t, u \in transfers : t.reference = u.reference => t = u

HasEntry(a, id, type) == \E i \in 1..Len(ledger[a]) : ledger[a][i].transfer = id
                                                      /\ ledger[a][i].type = type

\* Every transfer has exactly one DEBIT, of its source, and one CREDIT, of its
\* destination, for its amount; and no entry names a transfer that did not
\* commit (README.md:240).
DoubleEntry ==
    /\ \A t \in transfers : HasEntry(t.source, t.id, "DEBIT")
                            /\ HasEntry(t.destination, t.id, "CREDIT")
    /\ \A a \in Accounts : \A i \in 1..Len(ledger[a]) : ledger[a][i].transfer # None =>
          /\ \E t \in transfers : /\ t.id = ledger[a][i].transfer
                                  /\ t.amount = ledger[a][i].amount
                                  /\ a = IF ledger[a][i].type = "DEBIT" THEN t.source
                                                                        ELSE t.destination
          /\ \A j \in 1..Len(ledger[a]) : (/\ ledger[a][j].transfer = ledger[a][i].transfer
                                           /\ ledger[a][j].type = ledger[a][i].type) => j = i

\* There is exactly one audit row per transfer, and it records the balances
\* its two ledger entries moved between (README.md:448).
AuditAgreesWithLedger ==
    /\ \A t \in transfers : \E w \in audit : w.transfer = t.id
    /\ \A w, x \in audit : w.transfer = x.transfer => w = x
    /\ \A w \in audit :
          /\ \E t \in transfers : t.id = w.transfer
          /\ \A a \in Accounts : \A i \in 1..Len(ledger[a]) :
                ledger[a][i].transfer = w.transfer =>
                    IF ledger[a][i].type = "DEBIT"
                    THEN /\ w.source_before = BalanceBefore(a, i)
                         /\ w.source_after = ledger[a][i].balance_after
                    ELSE /\ w.dest_before = BalanceBefore(a, i)
                         /\ w.dest_after = ledger[a][i].balance_after

\* The money in a table of accounts.
Deposits(rows) == SumFunction([a \in Accounts |-> rows[a].available])

\* The money the entries of an account have brought in: the CREDITs of its
\* seeding and of its top-ups, which belong to no transfer.
Issued(entries) ==
    SumFunctionOnSet([i \in DOMAIN entries |-> entries[i].amount],
                     {i \in DOMAIN entries : entries[i].transfer = None})

\* All money there is was once issued: no order, failure or retry of transfers
\* and top-ups makes or destroys any (TransferService.ts:101-135,
\* TestHelpersService.ts:39-44).
DepositsAreIssued ==
    Deposits(accounts) = SumFunction([a \in Accounts |-> Issued(ledger[a])])

\* Transfers, ledger entries and audit rows are never changed or removed and
\* no account disappears (README.md:240: "Ledger rows are append-only").
AppendOnly ==
    [][/\ transfers \subseteq transfers'
       /\ audit \subseteq audit'
       /\ \A a \in Accounts :
             /\ Len(ledger[a]) <= Len(ledger'[a])
             /\ \A i \in 1..Len(ledger[a]) : ledger'[a][i] = ledger[a][i]
             /\ accounts[a] # NoRow => accounts'[a] # NoRow]_tables

\* Entries are written only to accounts that are ACTIVE when they commit,
\* whatever a PATCH does between the check and the commit
\* (TransferService.ts:72-77, TestHelpersService.ts:36).
OnlyActiveAccountsMove ==
    [][\A a \in Accounts : ledger'[a] # ledger[a] =>
            accounts[a].status = "ACTIVE" /\ accounts'[a].status = "ACTIVE"]_tables
=============================================================================
