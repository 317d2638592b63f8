--------------------------- MODULE StartupProofs ---------------------------
(***************************************************************************)
(* Proofs about Startup, for any number of instances, restarts, accounts   *)
(* and requests.                                                           *)
(***************************************************************************)
EXTENDS Startup, SequenceTheorems, TLAPS
-----------------------------------------------------------------------------
(***************************************************************************)
(* The migrations.                                                         *)
(***************************************************************************)

\* SequelizeMeta names a migration only once all its statements have taken
\* effect.
RecordedIsComplete == \A m \in recorded : Complete(m)

\* What instance i knows while it migrates: whatever it no longer has to do
\* is recorded, and it has sent the statements before its position.
MigratorSound(i) ==
    /\ Migrations \ todo[i] \subseteq recorded
    /\ todo[i] # {} =>
          \A k \in 1..Len(Script[Current(i)]) : k < position[i] => <<Current(i), k>> \in applied

\* The inductive invariant behind ListeningHasSchema.
SchemaInv ==
    /\ todo \in [Instances -> SUBSET Migrations]
    /\ position \in [Instances -> Nat]
    /\ pc \in [Instances -> Pcs]
    /\ RecordedIsComplete
    /\ \A i \in Instances : pc[i] = "migrate" => MigratorSound(i)
    /\ \A i \in Instances : pc[i] \in SeedingPcs \cup {"listening"} => Migrations \subseteq recorded

\* There are seven migrations, each a sequence of statements (database/migrations).
LEMMA ScriptTyped ==
    /\ Migrations = 1..7
    /\ \A m \in Migrations : Len(Script[m]) \in Nat
<1>1. Len(Script) = 7
  BY DEF Script
<1>2. ASSUME NEW m \in 1..7 PROVE Len(Script[m]) \in Nat
  BY DEF Script, CreateUuidExtension, CreateAccounts, CreateTransfers, CreateLedgerEntries,
         CreateAuditLog, AllowNullTransferId, DropNotNull
<1> QED
  BY <1>1, <1>2 DEF Migrations

\* An instance with something to do is at one of its pending migrations.
LEMMA CurrentPending ==
    ASSUME NEW i \in Instances, todo[i] \subseteq Migrations, todo[i] # {}
    PROVE  Current(i) \in todo[i]
<1>1. \E m \in todo[i] : \A n \in todo[i] : m <= n
  <2>1. todo[i] \subseteq 1..7
    BY ScriptTyped
  <2> QED
    BY <2>1
<1> QED
  BY <1>1 DEF Current

\* What an instance knows stays true while others send and record.
LEMMA SoundStays ==
    ASSUME NEW i \in Instances, MigratorSound(i),
           todo'[i] = todo[i], position'[i] = position[i],
           applied \subseteq applied', recorded \subseteq recorded'
    PROVE  MigratorSound(i)'
<1>1. Current(i)' = Current(i)
  BY DEF Current
<1> QED
  BY <1>1 DEF MigratorSound

\* A step that only moves one instance to another place of start() or out of it.
LEMMA MoveKeepsSchema ==
    ASSUME SchemaInv, UNCHANGED migrationVars,
           NEW i \in Instances, NEW next \in Pcs \ {"migrate"}, Goto(i, next),
           next \in SeedingPcs \cup {"listening"} => Migrations \subseteq recorded
    PROVE  SchemaInv'
<1>1. ASSUME NEW j \in Instances, pc'[j] = "migrate" PROVE MigratorSound(j)'
  <2>1. MigratorSound(j)
    BY <1>1 DEF Goto, SchemaInv
  <2> QED
    BY <2>1, SoundStays DEF migrationVars
<1>2. RecordedIsComplete'
  BY DEF SchemaInv, migrationVars, RecordedIsComplete, Complete
<1>3. ASSUME NEW j \in Instances, pc'[j] \in SeedingPcs \cup {"listening"}
      PROVE  Migrations \subseteq recorded
  BY <1>3 DEF Goto, SchemaInv
<1> QED
  BY <1>1, <1>2, <1>3 DEF Goto, SchemaInv, migrationVars

\* Sending a statement and recording a migration keep the knowledge of the
\* instance that does it, and of the others.
LEMMA MigrateKeepsSchema ==
    ASSUME SchemaInv, NEW i \in Instances, Migrate(i)
    PROVE  SchemaInv'
<1> DEFINE m == Current(i)
<1>1. /\ pc[i] = "migrate" /\ todo[i] # {} /\ MigratorSound(i)
      /\ m \in Migrations /\ Len(Script[m]) \in Nat
      /\ position[i] \in Nat
  BY CurrentPending, ScriptTyped DEF Migrate, SchemaInv
<1>2. CASE Goto(i, "down") /\ UNCHANGED migrationVars
  BY <1>2, MoveKeepsSchema DEF Pcs, SeedingPcs
<1>3. CASE StatementsSent(i) /\ Record(i) /\ UNCHANGED pc
  <2>1. Complete(m)
    BY <1>1, <1>3 DEF MigratorSound, StatementsSent, Complete
  <2>2. RecordedIsComplete'
    BY <1>3, <2>1 DEF Record, SchemaInv, RecordedIsComplete, Complete
  <2>3. MigratorSound(i)'
    <3>1. Migrations \ todo'[i] \subseteq recorded'
      BY <1>1, <1>3 DEF Record, SchemaInv, MigratorSound
    <3>2. position'[i] = 1
      BY <1>3 DEF Record, SchemaInv
    <3>3. ASSUME NEW k \in 1..Len(Script[Current(i)'])
          PROVE  ~(k < position'[i])
      BY <3>2
    <3> HIDE DEF m
    <3> QED
      BY <3>1, <3>3 DEF MigratorSound
  <2>4. ASSUME NEW j \in Instances \ {i}, pc[j] = "migrate" PROVE MigratorSound(j)'
    BY <1>3, <2>4, SoundStays DEF Record, SchemaInv
  <2> QED
    BY <1>3, <2>2, <2>3, <2>4 DEF Record, SchemaInv
<1>4. CASE ApplyStatement(i) /\ UNCHANGED pc
  <2>1. RecordedIsComplete'
    BY <1>4 DEF ApplyStatement, SchemaInv, RecordedIsComplete, Complete
  <2>2. MigratorSound(i)'
    <3>1. Current(i)' = m
      BY <1>4 DEF ApplyStatement, Current
    <3>2. ASSUME NEW k \in 1..Len(Script[m]), k < position'[i] PROVE <<m, k>> \in applied'
      <4>1. k < position[i] \/ k = position[i]
        BY <1>1, <1>4, <3>2 DEF ApplyStatement, SchemaInv
      <4> QED
        BY <1>1, <1>4, <4>1 DEF ApplyStatement, SchemaInv, MigratorSound
    <3> QED
      BY <1>1, <1>4, <3>1, <3>2 DEF ApplyStatement, SchemaInv, MigratorSound
  <2>3. ASSUME NEW j \in Instances \ {i}, pc[j] = "migrate" PROVE MigratorSound(j)'
    BY <1>4, <2>3, SoundStays DEF ApplyStatement, SchemaInv
  <2> QED
    BY <1>1, <1>4, <2>1, <2>2, <2>3 DEF ApplyStatement, SchemaInv
<1> QED
  BY <1>2, <1>3, <1>4 DEF Migrate

\* Every step of the system.
LEMMA StartupKeepsSchema ==
    ASSUME SchemaInv, [StartupNext]_startupVars
    PROVE  SchemaInv'
<1>1. ASSUME NEW i \in Instances, Connect(i) PROVE SchemaInv'
  <2>1. Goto(i, "pending") /\ UNCHANGED migrationVars
    BY <1>1 DEF Connect
  <2> QED
    BY <2>1, MoveKeepsSchema DEF Pcs, SeedingPcs
<1>2. ASSUME NEW i \in Instances, PlanMigrations(i) PROVE SchemaInv'
  <2>1. RecordedIsComplete'
    BY <1>2 DEF PlanMigrations, ReadPending, SchemaInv, RecordedIsComplete, Complete
  <2>2. MigratorSound(i)'
    <3>1. Migrations \ todo'[i] \subseteq recorded' /\ position'[i] = 1
      BY <1>2 DEF PlanMigrations, ReadPending, SchemaInv
    <3>2. ASSUME NEW k \in 1..Len(Script[Current(i)'])
          PROVE  ~(k < position'[i])
      BY <3>1
    <3> QED
      BY <3>1, <3>2 DEF MigratorSound
  <2>3. ASSUME NEW j \in Instances \ {i}, pc[j] = "migrate" PROVE MigratorSound(j)'
    BY <1>2, <2>3, SoundStays DEF PlanMigrations, ReadPending, SchemaInv
  <2> QED
    BY <1>2, <2>1, <2>2, <2>3 DEF PlanMigrations, ReadPending, Goto, SchemaInv, Pcs, SeedingPcs
<1>3. ASSUME NEW i \in Instances, Migrate(i) PROVE SchemaInv'
  BY <1>3, MigrateKeepsSchema
<1>4. ASSUME NEW i \in Instances, Migrated(i) PROVE SchemaInv'
  <2>1. Migrations \subseteq recorded
    BY <1>4 DEF Migrated, SchemaInv, MigratorSound
  <2>2. /\ UNCHANGED migrationVars
        /\ \E next \in {"deleteEntries", "listening"} : Goto(i, next)
    BY <1>4 DEF Migrated
  <2> QED
    BY <2>1, <2>2, MoveKeepsSchema DEF Pcs, SeedingPcs
<1>5. ASSUME NEW i \in Instances, SeedStep(i) PROVE SchemaInv'
  <2>1. /\ pc[i] \in SeedingPcs /\ UNCHANGED migrationVars
        /\ \E next \in SeedingPcs \cup {"listening", "down"} : Goto(i, next)
    BY <1>5 DEF SeedStep, SeedDeleteEntries, SeedDeleteAccounts, SeedInsertAccounts,
                SeedInsertEntries, SeedStatement, SeedingPcs
  <2>2. Migrations \subseteq recorded
    BY <2>1 DEF SchemaInv
  <2> QED
    BY <2>1, <2>2, MoveKeepsSchema DEF Pcs, SeedingPcs
<1>6. ASSUME NEW i \in Instances, Exit(i) PROVE SchemaInv'
  <2>1. Goto(i, "down") /\ UNCHANGED migrationVars
    BY <1>6 DEF Exit
  <2> QED
    BY <2>1, MoveKeepsSchema DEF Pcs, SeedingPcs
<1>7. CASE UNCHANGED <<migrationVars, pc>>
  <2>1. ASSUME NEW j \in Instances, pc[j] = "migrate" PROVE MigratorSound(j)'
    BY <1>7, <2>1, SoundStays DEF migrationVars, SchemaInv
  <2>2. RecordedIsComplete'
    BY <1>7 DEF SchemaInv, migrationVars, RecordedIsComplete, Complete
  <2> QED
    BY <1>7, <2>1, <2>2 DEF SchemaInv, migrationVars
<1>8. CASE Request
  BY <1>7, <1>8 DEF Request
<1>9. CASE UNCHANGED startupVars
  BY <1>7, <1>9 DEF startupVars
<1> QED
  BY <1>1, <1>2, <1>3, <1>4, <1>5, <1>6, <1>8, <1>9 DEF StartupNext, StartStep

LEMMA SchemaInvariant == StartupSpec => []SchemaInv
<1>1. StartupInit => SchemaInv
  BY DEF StartupInit, MigrationsInit, SchemaInv, RecordedIsComplete, Pcs, SeedingPcs
<1>2. SchemaInv /\ [StartupNext]_startupVars => SchemaInv'
  BY StartupKeepsSchema
<1> QED
  BY <1>1, <1>2, PTL DEF StartupSpec

\* However many instances migrate at once, and wherever each is killed, one
\* that listens has every migration recorded and complete (index.ts:37-48).
THEOREM ListenersHaveSchema == StartupSpec => []ListeningHasSchema
<1>1. SchemaInv => ListeningHasSchema
  BY DEF SchemaInv, RecordedIsComplete, ListeningHasSchema, AppListening, SchemaReady
<1> QED
  BY <1>1, SchemaInvariant, PTL

-----------------------------------------------------------------------------
(***************************************************************************)
(* The foreign keys.                                                       *)
(***************************************************************************)

StoredRow == [available : Int, ledger : Int, currency : Currencies \cup {"NONE"},
              status : Statuses \cup {"ABSENT"}]

\* The inductive invariant behind NamedAccountsExist.
NamesInv ==
    /\ accounts \in [Accounts -> StoredRow]
    /\ ledger = [a \in Accounts |-> ledger[a]]
    /\ \A t \in transfers : t.source \in Accounts /\ t.destination \in Accounts
    /\ NamedAccountsExist

\* No row disappears.
RowsStay == \A a \in Accounts : accounts[a] # NoRow => accounts'[a] # NoRow

\* The seeded rows are rows, and so are the ones that are absent.
LEMMA OpeningStored == NoRow \in StoredRow /\ \A a \in Accounts : Opening[a] \in StoredRow
<1>1. \A x \in Column : x \in Int
  BY MaxNumericAssumption DEF Column
<1> QED
  BY <1>1, TablesAssumption DEF Row, NoRow, StoredRow, Statuses

\* A row that has a status is a row.
LEMMA StatusMeansRow == \A r \in StoredRow : r.status \in Statuses => r # NoRow
BY DEF StoredRow, NoRow, Statuses

\* A step that removes no row and writes entries only to accounts that exist.
LEMMA WritesKeepNames ==
    ASSUME NamesInv, accounts' \in [Accounts -> StoredRow], RowsStay,
           ledger' = [a \in Accounts |-> ledger'[a]],
           \A a \in Accounts : ledger'[a] = ledger[a] \/ accounts[a] # NoRow,
           \A t \in transfers' : \/ t \in transfers
                                 \/ /\ t.source \in Accounts /\ accounts[t.source] # NoRow
                                    /\ t.destination \in Accounts /\ accounts[t.destination] # NoRow
    PROVE  NamesInv'
BY DEF NamesInv, NamedAccountsExist, RowsStay

\* Adjusting the balances of a row leaves a row of the same status.
LEMMA AdjustedStored ==
    ASSUME NEW a \in Accounts, NEW delta \in Int, accounts[a] \in StoredRow
    PROVE  Adjusted(a, delta) \in StoredRow /\ Adjusted(a, delta).status = accounts[a].status
<1> DEFINE row == accounts[a]
           available == row.available + delta
           led == row.ledger + delta
<1>1. row \in StoredRow /\ available \in Int /\ led \in Int
  BY DEF StoredRow
<1>2. Adjusted(a, delta) = [row EXCEPT !.available = available, !.ledger = led]
  BY DEF Adjusted
<1> HIDE DEF row, available, led
<1>3. /\ [row EXCEPT !.available = available, !.ledger = led] \in StoredRow
      /\ [row EXCEPT !.available = available, !.ledger = led].status = row.status
  BY <1>1 DEF StoredRow
<1> QED
  BY <1>2, <1>3 DEF row

LEMMA MoveKeepsNames ==
    ASSUME NamesInv, NEW id \in Sessions, NEW o \in Orders, Move(id, o)
    PROVE  NamesInv' /\ RowsStay
<1>1. /\ o.source \in Accounts /\ o.destination \in Accounts /\ o.amount \in Int
      /\ o.source # o.destination
  BY BankAssumption DEF Order, Amount, Move, RulesAllow
<1>2. \A a \in {o.source, o.destination} : accounts[a] \in StoredRow /\ accounts[a].status = "ACTIVE"
  BY <1>1 DEF NamesInv, Move, RulesAllow
<1>3. \A a \in {o.source, o.destination} : accounts[a] # NoRow
  BY <1>2, StatusMeansRow DEF Statuses
<1>4. /\ Adjusted(o.source, -o.amount) \in StoredRow
      /\ Adjusted(o.destination, o.amount) \in StoredRow
      /\ Adjusted(o.source, -o.amount).status = "ACTIVE"
      /\ Adjusted(o.destination, o.amount).status = "ACTIVE"
  BY <1>1, <1>2, AdjustedStored
<1>5. /\ Adjusted(o.source, -o.amount) # NoRow
      /\ Adjusted(o.destination, o.amount) # NoRow
  BY <1>4, StatusMeansRow DEF Statuses
<1>6. accounts' \in [Accounts -> StoredRow] /\ RowsStay
  BY <1>1, <1>4, <1>5 DEF Move, NamesInv, RowsStay
<1>7. \A t \in transfers' : t \in transfers \/ (t.source = o.source /\ t.destination = o.destination)
  BY DEF Move
<1>8. /\ ledger' = [a \in Accounts |-> ledger'[a]]
      /\ \A a \in Accounts \ {o.source, o.destination} : ledger'[a] = ledger[a]
  BY DEF Move, NamesInv
<1> QED
  BY <1>1, <1>3, <1>6, <1>7, <1>8, WritesKeepNames

LEMMA TopUpKeepsNames ==
    ASSUME NamesInv, NEW u \in TopUpOrders, TopUp(u)
    PROVE  NamesInv' /\ RowsStay
<1>1. u.account \in Accounts /\ u.amount \in Int
  BY BankAssumption DEF Amount
<1>2. accounts[u.account] \in StoredRow /\ accounts[u.account].status = "ACTIVE"
  BY <1>1 DEF NamesInv, TopUp
<1>3. accounts[u.account] # NoRow
  BY <1>2, StatusMeansRow DEF Statuses
<1>4. Adjusted(u.account, u.amount) \in StoredRow /\ Adjusted(u.account, u.amount).status = "ACTIVE"
  BY <1>1, <1>2, AdjustedStored
<1>5. Adjusted(u.account, u.amount) # NoRow
  BY <1>4, StatusMeansRow DEF Statuses
<1>6. accounts' \in [Accounts -> StoredRow] /\ RowsStay
  BY <1>1, <1>4, <1>5 DEF TopUp, NamesInv, RowsStay
<1>7. /\ ledger' = [a \in Accounts |-> ledger'[a]]
      /\ \A a \in Accounts \ {u.account} : ledger'[a] = ledger[a]
  BY DEF TopUp, NamesInv
<1> QED
  BY <1>1, <1>3, <1>6, <1>7, WritesKeepNames DEF TopUp

LEMMA SetStatusKeepsNames ==
    ASSUME NamesInv, NEW r \in StatusOrders, SetStatus(r.account, r.status)
    PROVE  NamesInv' /\ RowsStay
<1>1. r.account \in Accounts /\ r.status \in Statuses
  BY BankAssumption
<1>2. /\ [accounts[r.account] EXCEPT !.status = r.status] \in StoredRow
      /\ [accounts[r.account] EXCEPT !.status = r.status].status = r.status
  BY <1>1 DEF NamesInv, StoredRow
<1>3. [accounts[r.account] EXCEPT !.status = r.status] # NoRow
  BY <1>1, <1>2, StatusMeansRow
<1>4. accounts' = [accounts EXCEPT ![r.account] = [accounts[r.account] EXCEPT !.status = r.status]]
  BY DEF SetStatus
<1>5. accounts' \in [Accounts -> StoredRow] /\ RowsStay
  BY <1>1, <1>2, <1>3, <1>4 DEF NamesInv, RowsStay
<1> QED
  BY <1>5, WritesKeepNames DEF SetStatus, NamesInv

LEMMA OpenKeepsNames ==
    ASSUME NamesInv, NEW a \in Accounts, NEW currency \in Currencies, Open(a, currency)
    PROVE  NamesInv' /\ RowsStay
<1> DEFINE row == [available |-> 0, ledger |-> 0, currency |-> currency, status |-> "ACTIVE"]
<1>1. row \in StoredRow /\ row # NoRow
  BY StatusMeansRow DEF StoredRow, Statuses
<1>2. accounts' = [accounts EXCEPT ![a] = row]
  BY DEF Open
<1> HIDE DEF row
<1>3. accounts' \in [Accounts -> StoredRow] /\ RowsStay
  BY <1>1, <1>2 DEF NamesInv, RowsStay
<1> QED
  BY <1>3, WritesKeepNames DEF Open, NamesInv

\* The statements of the seeder, each under the condition the database gives it.
LEMMA SeedKeepsNames ==
    ASSUME NamesInv, NEW i \in Instances, SeedStep(i)
    PROVE  NamesInv'
<1>1. CASE UNCHANGED tables
  BY <1>1 DEF tables, NamesInv, NamedAccountsExist
<1>2. CASE DeleteEntries
  BY <1>2 DEF DeleteEntries, NamesInv, NamedAccountsExist
<1>3. CASE ~DemoReferenced /\ DeleteAccounts
  <2>1. accounts' \in [Accounts -> StoredRow]
    BY <1>3, OpeningStored DEF DeleteAccounts, NamesInv
  <2>2. \A t \in transfers : t.source \notin Demo /\ t.destination \notin Demo
    BY <1>3 DEF DemoReferenced, DemoTransfers
  <2>3. \A a \in Demo : ledger[a] = <<>>
    BY <1>3 DEF DemoReferenced
  <2> QED
    BY <1>3, <2>1, <2>2, <2>3 DEF DeleteAccounts, NamesInv, NamedAccountsExist
<1>4. CASE InsertAccounts
  <2>1. accounts' \in [Accounts -> StoredRow] /\ RowsStay
    BY <1>4, OpeningStored DEF InsertAccounts, NamesInv, Demo, RowsStay
  <2> QED
    BY <1>4, <2>1, WritesKeepNames DEF InsertAccounts, NamesInv
<1>5. CASE DemoPresent /\ InsertOpeningEntries
  BY <1>5, WritesKeepNames DEF DemoPresent, InsertOpeningEntries, NamesInv, RowsStay
<1> QED
  BY <1>1, <1>2, <1>3, <1>4, <1>5 DEF SeedStep, SeedDeleteEntries, SeedDeleteAccounts,
     SeedInsertAccounts, SeedInsertEntries, SeedStatement

LEMMA NamesInvHolds == StartupSpec => []NamesInv
<1>1. StartupInit => NamesInv
  BY OpeningStored DEF StartupInit, NamesInv, NamedAccountsExist
<1>2. ASSUME NamesInv, [StartupNext]_startupVars PROVE NamesInv'
  <2>1. CASE UNCHANGED tables
    BY <1>2, <2>1 DEF tables, NamesInv, NamedAccountsExist
  <2>2. ASSUME NEW i \in Instances, StartStep(i) \/ Exit(i) PROVE NamesInv'
    BY <1>2, <2>1, <2>2, SeedKeepsNames DEF StartStep, Exit, Connect, PlanMigrations, Migrate, Migrated
  <2>3. CASE Request
    BY <1>2, <2>3, MoveKeepsNames, TopUpKeepsNames, SetStatusKeepsNames, OpenKeepsNames
       DEF Request
  <2> QED
    BY <1>2, <2>1, <2>2, <2>3 DEF StartupNext, startupVars
<1> QED
  BY <1>1, <1>2, PTL DEF StartupSpec

\* Whatever the seeders of any number of instances delete and insert, in any
\* order and beside any requests, no transfer and no ledger entry is left
\* without its account (the foreign keys of create-transfers.js and
\* create-ledger-entries.js).
THEOREM NoDanglingNames == StartupSpec => []NamedAccountsExist
<1>1. NamesInv => NamedAccountsExist
  BY DEF NamesInv
<1> QED
  BY <1>1, NamesInvHolds, PTL
-----------------------------------------------------------------------------
(***************************************************************************)
(* Seeding again.                                                          *)
(***************************************************************************)

\* Instance i is not past the seeder's second delete.
BeforeDelete(i) == pc[i] \in {"down", "pending", "migrate", "deleteEntries", "deleteAccounts"}

\* Transfers are never removed.
LEMMA TransfersStay ==
    ASSUME [StartupNext]_startupVars PROVE transfers \subseteq transfers'
BY DEF StartupNext, startupVars, tables, StartStep, Connect, PlanMigrations, Migrate, Migrated,
       SeedStep, SeedDeleteEntries, SeedDeleteAccounts, SeedInsertAccounts, SeedInsertEntries,
       SeedStatement, DeleteEntries, DeleteAccounts, InsertAccounts, InsertOpeningEntries,
       Exit, Request, Move, TopUp, SetStatus, Open

\* A seeding instance does not get past that delete while transfers name demo accounts.
LEMMA DeleteRefused ==
    ASSUME SchemaInv, NEW i \in Seeders, BeforeDelete(i), DemoTransfers # {},
           [StartupNext]_startupVars
    PROVE  BeforeDelete(i)' /\ (DemoTransfers # {})'
<1>1. (DemoTransfers # {})'
  BY TransfersStay DEF DemoTransfers, Demo
<1>2. i \in Instances /\ pc \in [Instances -> Pcs]
  BY StartupAssumption DEF SchemaInv
<1>3. ASSUME NEW j \in Instances, StartStep(j) PROVE BeforeDelete(i)'
  BY <1>2, <1>3 DEF StartStep, Connect, PlanMigrations, Migrate, Migrated, SeedStep,
     SeedDeleteEntries, SeedDeleteAccounts, SeedInsertAccounts, SeedInsertEntries,
     SeedStatement, Goto, BeforeDelete, DemoReferenced
<1>4. ASSUME NEW j \in Instances, Exit(j) PROVE BeforeDelete(i)'
  BY <1>2, <1>4 DEF Exit, Goto, BeforeDelete
<1>5. CASE UNCHANGED pc
  BY <1>1, <1>5 DEF BeforeDelete
<1>6. CASE Request
  BY <1>5, <1>6 DEF Request
<1>7. CASE UNCHANGED startupVars
  BY <1>5, <1>7 DEF startupVars
<1> QED
  BY <1>1, <1>3, <1>4, <1>6, <1>7 DEF StartupNext

\* Whatever the requests and the other instances do: an instance that seeds
\* and goes down after a transfer has named a demo account stays out of
\* service for good (demo-accounts.js:16-19).
THEOREM ReseedingIsOver == StartupSpec => ReferencedNeverReseeds
<1>1. ASSUME NEW i \in Seeders
      PROVE  StartupSpec => [](pc[i] = "down" /\ DemoTransfers # {} => [](pc[i] # "listening"))
  <2> DEFINE P == BeforeDelete(i) /\ DemoTransfers # {}
  <2>1. SchemaInv /\ P /\ [StartupNext]_startupVars => P'
    BY DeleteRefused
  <2>2. pc[i] = "down" /\ DemoTransfers # {} => P
    BY DEF BeforeDelete
  <2>3. P => pc[i] # "listening"
    BY DEF BeforeDelete
  <2> HIDE DEF P
  <2> QED
    BY <2>1, <2>2, <2>3, SchemaInvariant, PTL DEF StartupSpec
<1> QED
  BY <1>1 DEF ReferencedNeverReseeds
-----------------------------------------------------------------------------
(***************************************************************************)
(* The books behind a seeding instance.                                    *)
(*                                                                         *)
(* While the seeder is under way the demo accounts break every promise of  *)
(* the tables.  The promises hold of the tables as they count: without the *)
(* demo accounts until these are inserted anew, and with the entries that  *)
(* are still to be inserted from then on.                                  *)
(***************************************************************************)

\* The code leaves it to the deployment: docker-compose.yml starts one instance.
OneSeeder == \A i, j \in Seeders : i = j

\* The demo accounts count: a seeder has deleted the old ones.
Kept == \E i \in Seeders : pc[i] \in {"insertAccounts", "insertEntries", "listening"}

\* Their opening entries are still to come.
Inserting == \E i \in Seeders : pc[i] = "insertEntries"

RowThatCounts(a, row) == IF a \in Demo /\ ~Kept THEN NoRow ELSE row

EntriesThatCount(a, s) ==
    IF a \in Demo THEN IF Kept THEN IF Inserting THEN <<OpeningEntry(a)>> \o s ELSE s
                               ELSE <<>>
                  ELSE s

CountedAccounts == [a \in Accounts |-> RowThatCounts(a, accounts[a])]
CountedLedger == [a \in Accounts |-> EntriesThatCount(a, ledger[a])]

Counted == INSTANCE AtomicBankProofs WITH accounts <- CountedAccounts, ledger <- CountedLedger

\* An entry of any numbers.
WideEntry == [transfer : Sessions \cup {None}, type : {"DEBIT", "CREDIT"},
              amount : Int, balance_after : Int]

\* The inductive invariant behind SeederVouches, beside SchemaInv and NamesInv.
BooksInv ==
    /\ ledger \in [Accounts -> Seq(WideEntry)]
    /\ \A i \in Instances \ Seeders : pc[i] \notin SeedingPcs
    /\ \A i \in Seeders : pc[i] = "insertAccounts" => DemoAbsent
    /\ \A i \in Seeders : pc[i] \in {"insertEntries", "listening"} => DemoPresent
    /\ Kept \/ DemoTransfers = {} => Counted!BankInv

LEMMA CountedAssumptions ==
    Counted!BankAssumption /\ Counted!TablesAssumption /\ Counted!MaxNumericAssumption
<1>1. Counted!BankAssumption
  BY BankAssumption
     DEF Counted!BankAssumption, Order, Amount, Statuses, IsWhole, Quantum,
         Counted!Order, Counted!Amount, Counted!Statuses, Counted!IsWhole, Counted!Quantum
<1>2. Counted!TablesAssumption /\ Counted!MaxNumericAssumption
  BY TablesAssumption, MaxNumericAssumption
     DEF IsFiniteSet, Counted!IsFiniteSet, Counted!TablesAssumption,
         Counted!MaxNumericAssumption, Row, NoRow, Column, Statuses,
         IsWhole, Quantum,
         Counted!Row, Counted!NoRow, Counted!Column, Counted!Statuses, Counted!IsWhole,
         Counted!Quantum
<1> QED
  BY <1>1, <1>2

\* What counts of an account that a request may write is written alike.
LEMMA CountedAppend ==
    ASSUME NEW a \in Accounts, Kept \/ a \notin Demo,
           NEW s \in Seq(WideEntry), NEW e \in WideEntry
    PROVE  /\ EntriesThatCount(a, Append(s, e)) = Append(EntriesThatCount(a, s), e)
           /\ \A row : RowThatCounts(a, row) = row
<1>1. <<OpeningEntry(a)>> \o Append(s, e) = Append(<<OpeningEntry(a)>> \o s, e)
  <2> DEFINE S == WideEntry \cup {OpeningEntry(a)}
             o == <<OpeningEntry(a)>>
  <2>1. s \in Seq(S) /\ e \in S
    BY SeqMonotonic
  <2>2. OpeningEntry(a) \in S
    OBVIOUS
  <2> HIDE DEF S
  <2>3. o \in Seq(S) /\ <<e>> \in Seq(S)
    BY <2>1, <2>2
  <2> HIDE DEF o
  <2>4. o \o s \in Seq(S)
    BY <2>1, <2>3, ConcatProperties
  <2>5. Append(s, e) = s \o <<e>> /\ Append(o \o s, e) = (o \o s) \o <<e>>
    BY <2>1, <2>4, AppendIsConcat
  <2>6. o \o (s \o <<e>>) = (o \o s) \o <<e>>
    BY <2>1, <2>3, ConcatAssociative
  <2> QED
    BY <2>5, <2>6 DEF o
<1> QED
  BY <1>1 DEF EntriesThatCount, RowThatCounts

\* Where the seeder stands is all that decides what counts.
LEMMA CountedStill ==
    ASSUME Kept' = Kept, Inserting' = Inserting, NEW a, NEW row, NEW s
    PROVE  /\ RowThatCounts(a, row)' = RowThatCounts(a, row)
           /\ EntriesThatCount(a, s)' = EntriesThatCount(a, s)
BY DEF RowThatCounts, EntriesThatCount, Demo, NoRow, OpeningEntry

\* A transfer that touches no demo account that does not count is one on the
\* tables that count.
LEMMA MoveCounts ==
    ASSUME NamesInv, ledger \in [Accounts -> Seq(WideEntry)], pc' = pc,
           NEW id \in Sessions, NEW o \in Orders, Move(id, o),
           \A a \in {o.source, o.destination} : Kept \/ a \notin Demo
    PROVE  Counted!Move(id, o)
<1> DEFINE s == o.source
           d == o.destination
           debit == [transfer |-> id, type |-> "DEBIT", amount |-> o.amount,
                     balance_after |-> accounts[s].available - o.amount]
           credit == [transfer |-> id, type |-> "CREDIT", amount |-> o.amount,
                      balance_after |-> accounts[d].available + o.amount]
<1>1. /\ s \in Accounts /\ d \in Accounts /\ s # d /\ o.amount \in Int
      /\ accounts[s].available \in Int /\ accounts[d].available \in Int
  <2>1. o \in Order
    BY BankAssumption
  <2> QED
    BY <2>1 DEF Order, Amount, Move, RulesAllow, NamesInv, StoredRow
<1>2. debit \in WideEntry /\ credit \in WideEntry
  BY <1>1 DEF WideEntry
<1>3. /\ accounts' = [accounts EXCEPT ![s] = Adjusted(s, -o.amount), ![d] = Adjusted(d, o.amount)]
      /\ ledger' = [ledger EXCEPT ![s] = Append(@, debit), ![d] = Append(@, credit)]
      /\ accounts \in [Accounts -> StoredRow]
  BY DEF Move, NamesInv
<1>4. Kept' = Kept /\ Inserting' = Inserting
  BY DEF Kept, Inserting
<1>5. /\ CountedAccounts[s] = accounts[s] /\ CountedAccounts[d] = accounts[d]
      /\ CountedLedger[s] = EntriesThatCount(s, ledger[s])
      /\ CountedLedger[d] = EntriesThatCount(d, ledger[d])
  BY <1>1 DEF CountedAccounts, CountedLedger, RowThatCounts
<1>6. CountedAccounts' = [CountedAccounts EXCEPT ![s] = Adjusted(s, -o.amount),
                                                 ![d] = Adjusted(d, o.amount)]
  <2>1. ASSUME NEW a \in Accounts
        PROVE  CountedAccounts'[a] = IF a = d THEN Adjusted(d, o.amount)
                                     ELSE IF a = s THEN Adjusted(s, -o.amount)
                                     ELSE CountedAccounts[a]
    <3>1. CountedAccounts'[a] = RowThatCounts(a, accounts'[a])
      BY <1>4, CountedStill DEF CountedAccounts, RowThatCounts, Demo, NoRow
    <3>2. accounts'[a] = IF a = d THEN Adjusted(d, o.amount)
                         ELSE IF a = s THEN Adjusted(s, -o.amount) ELSE accounts[a]
      BY <1>1, <1>3
    <3> QED
      BY <3>1, <3>2 DEF CountedAccounts, RowThatCounts
  <2> QED
    BY <1>1, <2>1 DEF CountedAccounts
<1>7. CountedLedger' = [CountedLedger EXCEPT ![s] = Append(@, debit), ![d] = Append(@, credit)]
  <2>1. ASSUME NEW a \in Accounts
        PROVE  CountedLedger'[a] = IF a = d THEN Append(CountedLedger[a], credit)
                                   ELSE IF a = s THEN Append(CountedLedger[a], debit)
                                   ELSE CountedLedger[a]
    <3>1. CountedLedger'[a] = EntriesThatCount(a, ledger'[a])
      BY <1>4 DEF CountedLedger, EntriesThatCount, Demo, NoRow, OpeningEntry
    <3>2. ledger'[a] = IF a = d THEN Append(ledger[a], credit)
                       ELSE IF a = s THEN Append(ledger[a], debit) ELSE ledger[a]
      BY <1>1, <1>3
    <3>3. a = d => EntriesThatCount(a, Append(ledger[a], credit)) = Append(CountedLedger[a], credit)
      BY <1>2, CountedAppend DEF CountedLedger
    <3>4. a = s => EntriesThatCount(a, Append(ledger[a], debit)) = Append(CountedLedger[a], debit)
      BY <1>2, CountedAppend DEF CountedLedger
    <3>5. EntriesThatCount(a, ledger[a]) = CountedLedger[a]
      BY DEF CountedLedger
    <3> HIDE DEF debit, credit
    <3> QED
      BY <3>1, <3>2, <3>3, <3>4, <3>5
  <2> HIDE DEF debit, credit
  <2> QED
    BY <1>1, <2>1 DEF CountedLedger
<1>8. /\ Counted!Adjusted(s, -o.amount) = Adjusted(s, -o.amount)
      /\ Counted!Adjusted(d, o.amount) = Adjusted(d, o.amount)
  BY <1>1, <1>5 DEF Counted!Adjusted, Adjusted, CountedAccounts
<1>9. /\ Counted!RulesAllow(o)
      /\ Counted!Holds(s, -o.amount) /\ Counted!Holds(d, o.amount)
  BY <1>1, <1>5 DEF Counted!RulesAllow, RulesAllow, Counted!Holds, Holds, CountedAccounts, Move
<1> QED
  BY <1>5, <1>6, <1>7, <1>8, <1>9 DEF Counted!Move, Move, CountedAccounts, CountedLedger

\* So is a top-up of an account that counts.
LEMMA TopUpCounts ==
    ASSUME NamesInv, ledger \in [Accounts -> Seq(WideEntry)], pc' = pc,
           NEW u \in TopUpOrders, TopUp(u), Kept \/ u.account \notin Demo
    PROVE  Counted!TopUp(u)
<1> DEFINE b == u.account
           credit == [transfer |-> None, type |-> "CREDIT", amount |-> u.amount,
                      balance_after |-> accounts[b].available + u.amount]
<1>1. b \in Accounts /\ u.amount \in Int /\ accounts[b].available \in Int
  BY BankAssumption DEF Amount, NamesInv, StoredRow
<1>2. credit \in WideEntry
  BY <1>1 DEF WideEntry
<1>3. /\ accounts' = [accounts EXCEPT ![b] = Adjusted(b, u.amount)]
      /\ ledger' = [ledger EXCEPT ![b] = Append(@, credit)]
      /\ accounts \in [Accounts -> StoredRow]
  BY DEF TopUp, NamesInv
<1>4. Kept' = Kept /\ Inserting' = Inserting
  BY DEF Kept, Inserting
<1>5. /\ CountedAccounts[b] = accounts[b]
      /\ CountedLedger[b] = EntriesThatCount(b, ledger[b])
  BY <1>1 DEF CountedAccounts, CountedLedger, RowThatCounts
<1>6. CountedAccounts' = [CountedAccounts EXCEPT ![b] = Adjusted(b, u.amount)]
  <2>1. ASSUME NEW a \in Accounts
        PROVE  CountedAccounts'[a] = IF a = b THEN Adjusted(b, u.amount) ELSE CountedAccounts[a]
    <3>1. CountedAccounts'[a] = RowThatCounts(a, accounts'[a])
      BY <1>4 DEF CountedAccounts, RowThatCounts, Demo, NoRow
    <3>2. accounts'[a] = IF a = b THEN Adjusted(b, u.amount) ELSE accounts[a]
      BY <1>1, <1>3
    <3> QED
      BY <3>1, <3>2 DEF CountedAccounts, RowThatCounts
  <2> QED
    BY <1>1, <2>1 DEF CountedAccounts
<1>7. CountedLedger' = [CountedLedger EXCEPT ![b] = Append(@, credit)]
  <2>1. ASSUME NEW a \in Accounts
        PROVE  CountedLedger'[a] = IF a = b THEN Append(CountedLedger[a], credit)
                                   ELSE CountedLedger[a]
    <3>1. CountedLedger'[a] = EntriesThatCount(a, ledger'[a])
      BY <1>4 DEF CountedLedger, EntriesThatCount, Demo, NoRow, OpeningEntry
    <3>2. ledger'[a] = IF a = b THEN Append(ledger[a], credit) ELSE ledger[a]
      BY <1>1, <1>3
    <3>3. a = b => EntriesThatCount(a, Append(ledger[a], credit)) = Append(CountedLedger[a], credit)
      BY <1>2, CountedAppend DEF CountedLedger
    <3>4. EntriesThatCount(a, ledger[a]) = CountedLedger[a]
      BY DEF CountedLedger
    <3> HIDE DEF credit
    <3> QED
      BY <3>1, <3>2, <3>3, <3>4
  <2> HIDE DEF credit
  <2> QED
    BY <1>1, <2>1 DEF CountedLedger
<1>8. Counted!Adjusted(b, u.amount) = Adjusted(b, u.amount)
  BY <1>1, <1>5 DEF Counted!Adjusted, Adjusted, CountedAccounts
<1>9. Counted!Holds(b, u.amount)
  BY <1>1, <1>5 DEF Counted!Holds, Holds, CountedAccounts, TopUp
<1> QED
  BY <1>5, <1>6, <1>7, <1>8, <1>9 DEF Counted!TopUp, TopUp, CountedAccounts, CountedLedger

\* So is a change of status.
LEMMA SetStatusCounts ==
    ASSUME NamesInv, pc' = pc, NEW r \in StatusOrders, SetStatus(r.account, r.status),
           Kept \/ r.account \notin Demo
    PROVE  Counted!SetStatus(r.account, r.status)
<1> DEFINE b == r.account
<1>1. b \in Accounts
  BY BankAssumption
<1>2. Kept' = Kept /\ Inserting' = Inserting
  BY DEF Kept, Inserting
<1>3. CountedAccounts[b] = accounts[b]
  BY <1>1 DEF CountedAccounts, RowThatCounts
<1>4. CountedAccounts' = [CountedAccounts EXCEPT ![b].status = r.status]
  <2>1. ASSUME NEW a \in Accounts
        PROVE  CountedAccounts'[a] = IF a = b THEN [accounts[b] EXCEPT !.status = r.status]
                                              ELSE CountedAccounts[a]
    <3>1. CountedAccounts'[a] = RowThatCounts(a, accounts'[a])
      BY <1>2 DEF CountedAccounts, RowThatCounts, Demo, NoRow
    <3>2. accounts'[a] = IF a = b THEN [accounts[b] EXCEPT !.status = r.status] ELSE accounts[a]
      BY <1>1 DEF SetStatus, NamesInv
    <3> QED
      BY <3>1, <3>2 DEF CountedAccounts, RowThatCounts
  <2> QED
    BY <1>1, <1>3, <2>1 DEF CountedAccounts
<1>5. CountedLedger' = CountedLedger
  BY <1>2 DEF CountedLedger, EntriesThatCount, Demo, NoRow, OpeningEntry, SetStatus
<1> QED
  BY <1>3, <1>4, <1>5
     DEF Counted!SetStatus, SetStatus, CountedAccounts, CountedLedger, Counted!NoRow, NoRow

\* So is a new account: requests never open a demo account.
LEMMA OpenCounts ==
    ASSUME NamesInv, pc' = pc, NEW b \in Accounts \ Demo, NEW currency \in Currencies,
           Open(b, currency)
    PROVE  Counted!Open(b, currency)
<1> DEFINE row == [available |-> 0, ledger |-> 0, currency |-> currency, status |-> "ACTIVE"]
<1>1. Kept' = Kept /\ Inserting' = Inserting
  BY DEF Kept, Inserting
<1>2. CountedAccounts[b] = accounts[b]
  BY DEF CountedAccounts, RowThatCounts
<1>3. CountedAccounts' = [CountedAccounts EXCEPT ![b] = row]
  <2>1. ASSUME NEW a \in Accounts
        PROVE  CountedAccounts'[a] = IF a = b THEN row ELSE CountedAccounts[a]
    <3>1. CountedAccounts'[a] = RowThatCounts(a, accounts'[a])
      BY <1>1 DEF CountedAccounts, RowThatCounts, Demo, NoRow
    <3>2. accounts'[a] = IF a = b THEN row ELSE accounts[a]
      BY DEF Open, NamesInv
    <3> QED
      BY <3>1, <3>2 DEF CountedAccounts, RowThatCounts
  <2> QED
    BY <2>1 DEF CountedAccounts
<1>4. CountedLedger' = CountedLedger
  BY <1>1 DEF CountedLedger, EntriesThatCount, Demo, NoRow, OpeningEntry, Open
<1> QED
  BY <1>2, <1>3, <1>4 DEF Counted!Open, Open, CountedAccounts, CountedLedger, Counted!NoRow, NoRow

\* While the tables that count stay as they are, so do their promises.
LEMMA CountedSame ==
    ASSUME Counted!BankInv, UNCHANGED <<CountedAccounts, CountedLedger, transfers, audit>>
    PROVE  Counted!BankInv'
<1>1. UNCHANGED Counted!tables
  BY DEF Counted!tables, CountedAccounts, CountedLedger
<1> QED
  BY <1>1, CountedAssumptions, Counted!BankStep

\* Nothing counts of a demo account that is about to be replaced.
LEMMA UncountedSame ==
    ASSUME Kept' = Kept, Inserting' = Inserting, ~Kept,
           ledger = [a \in Accounts |-> ledger[a]], ledger' = [a \in Accounts |-> ledger'[a]],
           \A a \in Accounts \ Demo : accounts'[a] = accounts[a] /\ ledger'[a] = ledger[a]
    PROVE  UNCHANGED <<CountedAccounts, CountedLedger>>
BY DEF CountedAccounts, CountedLedger, RowThatCounts, EntriesThatCount, Demo, NoRow, OpeningEntry

\* An account that is not there is not ACTIVE.
LEMMA NoRowMovesNothing == NoRow.status # "ACTIVE"
BY DEF NoRow

\* What a request writes of the ledger, and the demo rows it leaves alone.
LEMMA RequestWrites ==
    ASSUME NamesInv, ledger \in [Accounts -> Seq(WideEntry)], Request
    PROVE  /\ ledger' \in [Accounts -> Seq(WideEntry)]
           /\ RowsStay
           /\ \A a \in Demo : accounts[a] = NoRow => accounts'[a] = NoRow
<1>1. ASSUME NEW id \in Sessions, NEW o \in Orders, Move(id, o)
      PROVE  /\ ledger' \in [Accounts -> Seq(WideEntry)]
             /\ \A a \in Demo : accounts[a] = NoRow => accounts'[a] = NoRow
  <2> DEFINE debit == [transfer |-> id, type |-> "DEBIT", amount |-> o.amount,
                       balance_after |-> accounts[o.source].available - o.amount]
             credit == [transfer |-> id, type |-> "CREDIT", amount |-> o.amount,
                        balance_after |-> accounts[o.destination].available + o.amount]
  <2>1. /\ o.source \in Accounts /\ o.destination \in Accounts /\ o.amount \in Int
        /\ o.source # o.destination
        /\ accounts[o.source].status = "ACTIVE" /\ accounts[o.destination].status = "ACTIVE"
    BY <1>1, BankAssumption DEF Order, Amount, Move, RulesAllow
  <2>2. accounts[o.source].available \in Int /\ accounts[o.destination].available \in Int
    BY <2>1 DEF NamesInv, StoredRow
  <2>3. debit \in WideEntry /\ credit \in WideEntry
    BY <2>1, <2>2 DEF WideEntry
  <2>4. ledger' = [ledger EXCEPT ![o.source] = Append(@, debit),
                                 ![o.destination] = Append(@, credit)]
    BY <1>1 DEF Move
  <2>5. ledger' \in [Accounts -> Seq(WideEntry)]
    <3> HIDE DEF debit, credit
    <3>1. ASSUME NEW a \in Accounts PROVE ledger'[a] \in Seq(WideEntry)
      <4>1. \A e \in WideEntry : Append(ledger[a], e) \in Seq(WideEntry)
        BY AppendProperties
      <4>2. \/ ledger'[a] = ledger[a]
            \/ ledger'[a] = Append(ledger[a], debit)
            \/ ledger'[a] = Append(ledger[a], credit)
        BY <2>1, <2>4
      <4> QED
        BY <2>3, <4>1, <4>2
    <3> QED
      BY <2>4, <3>1
  <2>6. \A a \in Accounts \ {o.source, o.destination} : accounts'[a] = accounts[a]
    BY <1>1, <2>1 DEF Move, NamesInv
  <2> QED
    BY <2>1, <2>5, <2>6, NoRowMovesNothing DEF Demo
<1>2. ASSUME NEW u \in TopUpOrders, TopUp(u)
      PROVE  /\ ledger' \in [Accounts -> Seq(WideEntry)]
             /\ \A a \in Demo : accounts[a] = NoRow => accounts'[a] = NoRow
  <2> DEFINE credit == [transfer |-> None, type |-> "CREDIT", amount |-> u.amount,
                        balance_after |-> accounts[u.account].available + u.amount]
  <2>1. /\ u.account \in Accounts /\ u.amount \in Int /\ accounts[u.account].available \in Int
        /\ accounts[u.account].status = "ACTIVE"
    BY <1>2, BankAssumption DEF Amount, NamesInv, StoredRow, TopUp
  <2>2. credit \in WideEntry
    BY <2>1 DEF WideEntry
  <2>3. ledger' = [ledger EXCEPT ![u.account] = Append(@, credit)]
    BY <1>2 DEF TopUp
  <2>4. ledger' \in [Accounts -> Seq(WideEntry)]
    <3> HIDE DEF credit
    <3> QED
      BY <2>1, <2>2, <2>3
  <2>5. \A a \in Accounts \ {u.account} : accounts'[a] = accounts[a]
    BY <1>2 DEF TopUp, NamesInv
  <2> QED
    BY <2>1, <2>4, <2>5, NoRowMovesNothing DEF Demo
<1>3. ASSUME NEW r \in StatusOrders, SetStatus(r.account, r.status)
      PROVE  /\ ledger' \in [Accounts -> Seq(WideEntry)]
             /\ \A a \in Demo : accounts[a] = NoRow => accounts'[a] = NoRow
  BY <1>3 DEF SetStatus, NamesInv, Demo
<1>4. ASSUME NEW b \in Accounts \ Demo, NEW currency \in Currencies, Open(b, currency)
      PROVE  /\ ledger' \in [Accounts -> Seq(WideEntry)]
             /\ \A a \in Demo : accounts[a] = NoRow => accounts'[a] = NoRow
  BY <1>4 DEF Open, NamesInv, Demo
<1>5. RowsStay
  BY MoveKeepsNames, TopUpKeepsNames, SetStatusKeepsNames, OpenKeepsNames DEF Request
<1> QED
  BY <1>1, <1>2, <1>3, <1>4, <1>5 DEF Request

\* A request keeps the promises of the tables that count, or is a transfer
\* that ends the seeding for good.
LEMMA RequestKeepsBooks ==
    ASSUME NamesInv, BooksInv, Request
    PROVE  BooksInv'
<1>1. /\ pc' = pc /\ ledger \in [Accounts -> Seq(WideEntry)]
      /\ Kept' = Kept /\ Inserting' = Inserting
  BY DEF Request, BooksInv, Kept, Inserting
<1>2. /\ ledger' \in [Accounts -> Seq(WideEntry)] /\ RowsStay
      /\ \A a \in Demo : accounts[a] = NoRow => accounts'[a] = NoRow
  BY <1>1, RequestWrites
<1>3. ASSUME Kept \/ DemoTransfers' = {}
      PROVE  Counted!BankInv'
  <2>1. transfers \subseteq transfers'
    BY DEF Request, Move, TopUp, SetStatus, Open
  <2>2. Counted!BankInv
    BY <1>3, <2>1 DEF BooksInv, DemoTransfers, Demo
  <2>3. ASSUME NEW id \in Sessions, NEW o \in Orders, Move(id, o)
        PROVE  Counted!BankInv'
    <3>1. \A a \in {o.source, o.destination} : Kept \/ a \notin Demo
      <4> DEFINE t == [id |-> id, reference |-> o.reference, source |-> o.source,
                       destination |-> o.destination, amount |-> o.amount,
                       currency |-> o.currency]
      <4>1. t \in transfers' /\ t.source = o.source /\ t.destination = o.destination
        BY <2>3 DEF Move
      <4> HIDE DEF t
      <4>2. DemoTransfers' = {} => o.source \notin Demo /\ o.destination \notin Demo
        BY <4>1 DEF DemoTransfers, Demo, NoRow
      <4> QED
        BY <1>3, <4>2
    <3>2. Counted!Move(id, o)
      BY <1>1, <2>3, <3>1, MoveCounts
    <3>3. Counted!BankNext
      BY <3>2 DEF Counted!BankNext
    <3> QED
      BY <2>2, <3>3, CountedAssumptions, Counted!BankStep
  <2>4. ASSUME NEW u \in TopUpOrders, TopUp(u)
        PROVE  Counted!BankInv'
    <3>1. CASE Kept \/ u.account \notin Demo
      <4>1. Counted!TopUp(u)
        BY <1>1, <2>4, <3>1, TopUpCounts
      <4>2. Counted!BankNext
        BY <4>1 DEF Counted!BankNext
      <4> QED
        BY <2>2, <4>2, CountedAssumptions, Counted!BankStep
    <3>2. CASE ~Kept /\ u.account \in Demo
      <4>1. \A a \in Accounts \ Demo : accounts'[a] = accounts[a] /\ ledger'[a] = ledger[a]
        BY <1>1, <2>4, <3>2 DEF TopUp, NamesInv
      <4>2. UNCHANGED <<CountedAccounts, CountedLedger>>
        BY <1>1, <1>2, <3>2, <4>1, UncountedSame
      <4> QED
        BY <2>2, <2>4, <4>2, CountedSame DEF TopUp
    <3> QED
      BY <3>1, <3>2
  <2>5. ASSUME NEW r \in StatusOrders, SetStatus(r.account, r.status)
        PROVE  Counted!BankInv'
    <3>1. CASE Kept \/ r.account \notin Demo
      <4>1. Counted!SetStatus(r.account, r.status)
        BY <1>1, <2>5, <3>1, SetStatusCounts
      <4>2. Counted!BankNext
        BY <4>1 DEF Counted!BankNext
      <4> QED
        BY <2>2, <4>2, CountedAssumptions, Counted!BankStep
    <3>2. CASE ~Kept /\ r.account \in Demo
      <4>1. \A a \in Accounts \ Demo : accounts'[a] = accounts[a] /\ ledger'[a] = ledger[a]
        BY <1>1, <2>5, <3>2 DEF SetStatus, NamesInv
      <4>2. UNCHANGED <<CountedAccounts, CountedLedger>>
        BY <1>1, <1>2, <3>2, <4>1, UncountedSame
      <4> QED
        BY <2>2, <2>5, <4>2, CountedSame DEF SetStatus
    <3> QED
      BY <3>1, <3>2
  <2>6. ASSUME NEW b \in Accounts \ Demo, NEW currency \in Currencies, Open(b, currency)
        PROVE  Counted!BankInv'
    <3>1. Counted!Open(b, currency)
      BY <1>1, <2>6, OpenCounts
    <3>2. Counted!BankNext
      BY <3>1 DEF Counted!BankNext
    <3> QED
      BY <2>2, <3>2, CountedAssumptions, Counted!BankStep
  <2> QED
    BY <2>3, <2>4, <2>5, <2>6 DEF Request
<1>4. \A i \in Seeders : pc'[i] = "insertAccounts" => DemoAbsent'
  BY <1>1, <1>2 DEF BooksInv, DemoAbsent, Demo, NoRow
<1>5. \A i \in Seeders : pc'[i] \in {"insertEntries", "listening"} => DemoPresent'
  BY <1>1, <1>2 DEF BooksInv, DemoPresent, Demo, NoRow, RowsStay
<1>6. Kept' \/ DemoTransfers' = {} => Counted!BankInv'
  BY <1>1, <1>3
<1>7. ledger' \in [Accounts -> Seq(WideEntry)]'
  BY <1>2 DEF WideEntry
<1> QED
  BY <1>1, <1>4, <1>5, <1>6, <1>7 DEF BooksInv

\* A step of the seeder that takes the demo accounts away, or puts their
\* seeded rows and entries in their place, while no transfer names one.
LEMMA DemoReset ==
    ASSUME Counted!BankInv, UNCHANGED <<transfers, audit>>, DemoTransfers = {},
           \A a \in Accounts \ Demo : accounts'[a] = accounts[a] /\ ledger'[a] = ledger[a],
           \A a \in Demo : \/ CountedAccounts'[a] = NoRow /\ CountedLedger'[a] = <<>>
                           \/ /\ CountedAccounts'[a] = Opening[a]
                              /\ CountedLedger'[a] = <<OpeningEntry(a)>>
    PROVE  Counted!BankInv'
<1>1. \A t \in transfers : t.source \notin Demo /\ t.destination \notin Demo
  BY DEF DemoTransfers
<1>2. /\ CountedAccounts' = [a \in Accounts |-> CountedAccounts'[a]]
      /\ CountedLedger' = [a \in Accounts |-> CountedLedger'[a]]
  BY DEF CountedAccounts, CountedLedger
<1>3. \A a \in Accounts \ Demo : /\ CountedAccounts'[a] = CountedAccounts[a]
                                 /\ CountedLedger'[a] = CountedLedger[a]
  BY DEF CountedAccounts, CountedLedger, RowThatCounts, EntriesThatCount, Demo, NoRow
<1>4. \A a \in Demo : \/ CountedAccounts'[a] = Counted!NoRow /\ CountedLedger'[a] = <<>>
                      \/ /\ Opening[a] # Counted!NoRow /\ CountedAccounts'[a] = Opening[a]
                         /\ CountedLedger'[a] = <<Counted!OpeningEntry(a)>>
  BY DEF NoRow, Counted!NoRow, OpeningEntry, Counted!OpeningEntry, Demo
<1>5. Demo \in SUBSET Accounts
  BY DEF Demo
<1> QED
  BY <1>1, <1>2, <1>3, <1>4, <1>5, CountedAssumptions, Counted!AccountsReset
     DEF CountedAccounts, CountedLedger

\* Wherever a seeder goes down, and whatever it has deleted.
LEMMA DownKeepsBooks ==
    ASSUME BooksInv, ~Kept', UNCHANGED <<transfers, audit>>, DemoTransfers = {},
           \A a \in Accounts \ Demo : accounts'[a] = accounts[a] /\ ledger'[a] = ledger[a]
    PROVE  Counted!BankInv'
<1>1. Counted!BankInv
  BY DEF BooksInv
<1>2. \A a \in Demo : CountedAccounts'[a] = NoRow /\ CountedLedger'[a] = <<>>
  BY DEF CountedAccounts, CountedLedger, RowThatCounts, EntriesThatCount, Demo, NoRow
<1> QED
  BY <1>1, <1>2, DemoReset

\* The opening entries are entries.
LEMMA OpeningEntryWide == \A a \in Accounts : OpeningEntry(a) \in WideEntry
<1>1. \A x \in Column : x \in Int
  BY MaxNumericAssumption DEF Column
<1> QED
  BY <1>1, TablesAssumption DEF Row, NoRow, OpeningEntry, WideEntry

\* The step that inserts them.
LEMMA EntriesKeepBooks ==
    ASSUME BooksInv, InsertOpeningEntries, Kept, Inserting, Kept', ~Inserting'
    PROVE  /\ Counted!BankInv'
           /\ ledger' \in [Accounts -> Seq(WideEntry)]
<1>1. ASSUME NEW a \in Accounts
      PROVE  <<OpeningEntry(a)>> \o ledger[a] \in Seq(WideEntry)
  <2>1. <<OpeningEntry(a)>> \in Seq(WideEntry) /\ ledger[a] \in Seq(WideEntry)
    BY OpeningEntryWide DEF BooksInv
  <2> QED
    BY <2>1, ConcatProperties
<1>2. ledger' \in [Accounts -> Seq(WideEntry)]
  BY <1>1 DEF InsertOpeningEntries, BooksInv
<1>3. UNCHANGED <<CountedAccounts, CountedLedger, transfers, audit>>
  BY DEF InsertOpeningEntries, CountedAccounts, CountedLedger, RowThatCounts,
         EntriesThatCount, Demo, NoRow, OpeningEntry
<1>4. Counted!BankInv
  BY DEF BooksInv
<1> QED
  BY <1>2, <1>3, <1>4, CountedSame

\* A step of the one instance that seeds.
LEMMA SeederKeepsBooks ==
    ASSUME OneSeeder, SchemaInv, NamesInv, BooksInv,
           NEW i \in Seeders, StartStep(i) \/ Exit(i)
    PROVE  BooksInv'
<1>1. /\ i \in Instances /\ \A j \in Seeders : j = i
      /\ pc \in [Instances -> Pcs]
  BY StartupAssumption DEF OneSeeder, SchemaInv
<1>2. \A j \in Instances \ {i} : pc'[j] = pc[j]
  BY <1>1 DEF StartStep, Connect, PlanMigrations, Migrate, Migrated, SeedStep,
     SeedDeleteEntries, SeedDeleteAccounts, SeedInsertAccounts, SeedInsertEntries,
     SeedStatement, Exit, Goto
<1>3. /\ Kept <=> pc[i] \in {"insertAccounts", "insertEntries", "listening"}
      /\ Kept' <=> pc'[i] \in {"insertAccounts", "insertEntries", "listening"}
      /\ Inserting <=> pc[i] = "insertEntries"
      /\ Inserting' <=> pc'[i] = "insertEntries"
  BY <1>1 DEF Kept, Inserting
<1>4. \A j \in Instances \ Seeders : pc'[j] \notin SeedingPcs
  BY <1>1, <1>2 DEF BooksInv
<1>5. SUFFICES /\ ledger' \in [Accounts -> Seq(WideEntry)]
               /\ pc'[i] = "insertAccounts" => DemoAbsent'
               /\ pc'[i] \in {"insertEntries", "listening"} => DemoPresent'
               /\ Kept' \/ DemoTransfers' = {} => Counted!BankInv'
  <2>1. ledger' \in [Accounts -> Seq(WideEntry)] => (ledger \in [Accounts -> Seq(WideEntry)])'
    BY DEF WideEntry
  <2> QED
    BY <1>1, <1>4, <2>1 DEF BooksInv
<1>6. CASE /\ pc'[i] \in {"down", "pending", "migrate", "deleteEntries", "deleteAccounts"}
           /\ UNCHANGED tables \/ DeleteEntries
  <2>1. /\ UNCHANGED <<transfers, audit>>
        /\ \A a \in Accounts \ Demo : accounts'[a] = accounts[a] /\ ledger'[a] = ledger[a]
        /\ ledger' \in [Accounts -> Seq(WideEntry)]
    <3>1. CASE UNCHANGED tables
      BY <3>1 DEF tables, BooksInv
    <3>2. CASE DeleteEntries
      <4>1. ledger' = [a \in Accounts |-> IF a \in Demo THEN <<>> ELSE ledger[a]]
        BY <3>2 DEF DeleteEntries
      <4>2. ledger' \in [Accounts -> Seq(WideEntry)]
        BY <4>1 DEF BooksInv
      <4> QED
        BY <3>2, <4>1, <4>2 DEF DeleteEntries
    <3> QED
      BY <1>6, <3>1, <3>2
  <2>2. DemoTransfers' = DemoTransfers
    BY <2>1 DEF DemoTransfers, Demo, NoRow
  <2>3. DemoTransfers = {} => Counted!BankInv'
    BY <1>3, <1>6, <2>1, DownKeepsBooks
  <2> QED
    BY <1>3, <1>6, <2>1, <2>2, <2>3
<1>7. CASE /\ pc[i] = "deleteAccounts" /\ pc'[i] = "insertAccounts"
           /\ ~DemoReferenced /\ DeleteAccounts
  <2>1. DemoTransfers = {} /\ \A a \in Demo : ledger[a] = <<>>
    BY <1>7 DEF DemoReferenced
  <2>2. /\ UNCHANGED <<transfers, ledger, audit>>
        /\ \A a \in Accounts \ Demo : accounts'[a] = accounts[a]
        /\ \A a \in Demo : accounts'[a] = NoRow
    BY <1>7 DEF DeleteAccounts, Demo
  <2>3. \A a \in Demo : CountedAccounts'[a] = NoRow /\ CountedLedger'[a] = <<>>
    BY <1>3, <1>7, <2>1, <2>2
       DEF CountedAccounts, CountedLedger, RowThatCounts, EntriesThatCount, Demo, NoRow
  <2>4. Counted!BankInv
    BY <2>1 DEF BooksInv
  <2>5. Counted!BankInv'
    BY <2>1, <2>2, <2>3, <2>4, DemoReset
  <2>6. DemoAbsent'
    BY <2>2 DEF DemoAbsent, Demo, NoRow
  <2> QED
    BY <1>7, <2>2, <2>5, <2>6 DEF BooksInv
<1>8. CASE /\ pc[i] = "insertAccounts" /\ pc'[i] = "insertEntries"
           /\ InsertAccounts
  <2>1. DemoTransfers = {} /\ \A a \in Demo : ledger[a] = <<>>
    BY <1>8 DEF BooksInv, NamesInv, NamedAccountsExist, DemoAbsent, DemoTransfers, Demo
  <2>2. /\ UNCHANGED <<transfers, ledger, audit>>
        /\ \A a \in Accounts \ Demo : accounts'[a] = accounts[a]
        /\ \A a \in Demo : accounts'[a] = Opening[a]
    BY <1>8 DEF InsertAccounts, Demo
  <2>3. ASSUME NEW a \in Demo
        PROVE  CountedAccounts'[a] = Opening[a] /\ CountedLedger'[a] = <<OpeningEntry(a)>>
    <3>1. CountedAccounts'[a] = Opening[a]
      BY <1>3, <1>8, <2>2 DEF CountedAccounts, RowThatCounts, Demo, NoRow
    <3>2. CountedLedger'[a] = <<OpeningEntry(a)>> \o <<>>
      BY <1>3, <1>8, <2>1, <2>2 DEF CountedLedger, EntriesThatCount, Demo, NoRow, OpeningEntry
    <3>3. <<OpeningEntry(a)>> \in Seq(WideEntry)
      BY OpeningEntryWide DEF Demo
    <3> QED
      BY <3>1, <3>2, <3>3, ConcatEmptySeq
  <2>4. Counted!BankInv
    BY <2>1 DEF BooksInv
  <2>5. Counted!BankInv'
    BY <2>1, <2>2, <2>3, <2>4, DemoReset
  <2>6. DemoPresent'
    BY <2>2 DEF DemoPresent, Demo, NoRow
  <2> QED
    BY <1>8, <2>2, <2>5, <2>6 DEF BooksInv
<1>9. CASE /\ pc[i] = "insertEntries" /\ pc'[i] = "listening"
           /\ DemoPresent /\ InsertOpeningEntries
  <2>1. Counted!BankInv' /\ ledger' \in [Accounts -> Seq(WideEntry)]
    BY <1>3, <1>9, EntriesKeepBooks
  <2>2. DemoPresent'
    BY <1>9 DEF DemoPresent, InsertOpeningEntries, Demo, NoRow
  <2> QED
    BY <1>9, <2>1, <2>2
<1>10. \/ /\ pc'[i] \in {"down", "pending", "migrate", "deleteEntries", "deleteAccounts"}
          /\ UNCHANGED tables \/ DeleteEntries
       \/ /\ pc[i] = "deleteAccounts" /\ pc'[i] = "insertAccounts"
          /\ ~DemoReferenced /\ DeleteAccounts
       \/ pc[i] = "insertAccounts" /\ pc'[i] = "insertEntries" /\ InsertAccounts
       \/ /\ pc[i] = "insertEntries" /\ pc'[i] = "listening"
          /\ DemoPresent /\ InsertOpeningEntries
  BY <1>1 DEF StartStep, Connect, PlanMigrations, Migrate, Migrated, SeedStep,
     SeedDeleteEntries, SeedDeleteAccounts, SeedInsertAccounts, SeedInsertEntries,
     SeedStatement, Exit, Goto
<1> QED
  BY <1>6, <1>7, <1>8, <1>9, <1>10

\* A step that leaves the tables and the seeders where they are.
LEMMA ElsewhereKeepsBooks ==
    ASSUME BooksInv, UNCHANGED tables, \A i \in Seeders : pc'[i] = pc[i],
           \A i \in Instances \ Seeders : pc'[i] \notin SeedingPcs
    PROVE  BooksInv'
<1>1. UNCHANGED <<accounts, transfers, ledger, audit>>
  BY DEF tables
<1>2. Kept' = Kept /\ Inserting' = Inserting
  BY DEF Kept, Inserting
<1>3. UNCHANGED <<CountedAccounts, CountedLedger>>
  BY <1>1, <1>2 DEF CountedAccounts, CountedLedger, RowThatCounts, EntriesThatCount,
                    Demo, NoRow, OpeningEntry
<1>4. DemoTransfers' = DemoTransfers /\ DemoAbsent' = DemoAbsent /\ DemoPresent' = DemoPresent
  BY <1>1 DEF DemoTransfers, DemoAbsent, DemoPresent, Demo, NoRow
<1>5. Counted!BankInv => Counted!BankInv'
  BY <1>1, <1>3, CountedSame
<1>6. (ledger \in [Accounts -> Seq(WideEntry)])'
  BY <1>1 DEF BooksInv, WideEntry
<1> QED
  BY <1>2, <1>4, <1>5, <1>6 DEF BooksInv

\* A step of an instance that does not seed.
LEMMA OthersKeepBooks ==
    ASSUME SchemaInv, BooksInv, NEW i \in Instances \ Seeders, StartStep(i) \/ Exit(i)
    PROVE  BooksInv'
<1>1. pc[i] \notin SeedingPcs /\ pc \in [Instances -> Pcs] /\ Seeders \subseteq Instances
  BY StartupAssumption DEF BooksInv, SchemaInv
<1>2. /\ UNCHANGED tables
      /\ pc'[i] \notin SeedingPcs /\ \A j \in Instances \ {i} : pc'[j] = pc[j]
  BY <1>1 DEF StartStep, Connect, PlanMigrations, Migrate, Migrated, SeedStep,
     SeedDeleteEntries, SeedDeleteAccounts, SeedInsertAccounts, SeedInsertEntries,
     SeedStatement, Exit, Goto, SeedingPcs
<1> QED
  BY <1>1, <1>2, ElsewhereKeepsBooks DEF BooksInv

\* The empty database keeps every promise.
LEMMA EmptyBooks == StartupInit => BooksInv
<1> SUFFICES ASSUME StartupInit PROVE BooksInv
  OBVIOUS
<1>1. /\ accounts = [a \in Accounts |-> NoRow] /\ ledger = [a \in Accounts |-> <<>>]
      /\ transfers = {} /\ audit = {} /\ pc = [i \in Instances |-> "down"]
      /\ Seeders \subseteq Instances
  BY StartupAssumption DEF StartupInit
<1>2. ~Kept
  BY <1>1 DEF Kept
<1>3. /\ CountedAccounts = [a \in Accounts |-> Counted!NoRow]
      /\ CountedLedger = [a \in Accounts |-> <<>>]
  BY <1>1, <1>2 DEF CountedAccounts, CountedLedger, RowThatCounts, EntriesThatCount,
                    NoRow, Counted!NoRow
<1>4. \A a \in Accounts : Counted!LastBalance(a) = 0 /\ Len(CountedLedger[a]) = 0
  BY <1>3 DEF Counted!LastBalance, CountedLedger
<1>5. Counted!TablesTypeOK
  <2>1. CountedAccounts \in [Accounts -> Counted!Row \cup {Counted!NoRow}]
    BY <1>3
  <2>2. CountedLedger \in [Accounts -> Seq(Counted!Entry)]
    BY <1>3
  <2> QED
    BY <1>1, <2>1, <2>2 DEF Counted!TablesTypeOK, CountedAccounts, CountedLedger
<1>6. Counted!BalanceMatchesLedger /\ Counted!NoOverdraft
  BY <1>3, <1>4 DEF Counted!BalanceMatchesLedger, Counted!NoOverdraft, Counted!NoRow,
                    CountedAccounts
<1>7. Counted!LedgerChain /\ Counted!UniqueReference
  BY <1>1, <1>4 DEF Counted!LedgerChain, Counted!UniqueReference, CountedLedger
<1>8. Counted!DoubleEntry /\ Counted!AuditAgreesWithLedger
  BY <1>1, <1>4 DEF Counted!DoubleEntry, Counted!AuditAgreesWithLedger, CountedLedger
<1>9. Counted!BankInv
  BY <1>1, <1>5, <1>6, <1>7, <1>8 DEF Counted!BankInv
<1>10. \A i \in Instances : pc[i] = "down"
  BY <1>1
<1>11. ledger \in [Accounts -> Seq(WideEntry)]
  BY <1>1
<1> QED
  BY <1>1, <1>9, <1>10, <1>11 DEF BooksInv, SeedingPcs

LEMMA BooksKept ==
    ASSUME OneSeeder, SchemaInv, NamesInv, BooksInv, [StartupNext]_startupVars
    PROVE  BooksInv'
<1>1. ASSUME NEW i \in Instances, StartStep(i) \/ Exit(i) PROVE BooksInv'
  BY <1>1, SeederKeepsBooks, OthersKeepBooks
<1>2. CASE UNCHANGED startupVars
  <2>1. UNCHANGED tables /\ pc' = pc
    BY <1>2 DEF startupVars
  <2>2. \A i \in Instances \ Seeders : pc'[i] \notin SeedingPcs
    BY <2>1 DEF BooksInv
  <2> QED
    BY <2>1, <2>2, ElsewhereKeepsBooks
<1> QED
  BY <1>1, <1>2, RequestKeepsBooks DEF StartupNext

\* When a seeding instance listens, every row and every entry counts.
LEMMA ListeningCounts ==
    ASSUME OneSeeder, NamesInv, BooksInv, NEW i \in Seeders, pc[i] = "listening"
    PROVE  DemoPresent /\ BankInv
<1>1. Kept /\ ~Inserting
  BY DEF OneSeeder, Kept, Inserting
<1>2. CountedAccounts = accounts /\ CountedLedger = ledger
  BY <1>1 DEF CountedAccounts, CountedLedger, RowThatCounts, EntriesThatCount, NamesInv
<1>3. DemoPresent /\ Counted!BankInv
  BY <1>1 DEF BooksInv
<1>4. TablesTypeOK
  BY <1>2, <1>3
     DEF Counted!BankInv, Counted!TablesTypeOK, TablesTypeOK, CountedAccounts, CountedLedger,
         Counted!Row, Counted!NoRow, Counted!Transfer, Counted!Entry, Counted!AuditRow,
         Counted!Column, Counted!IsWhole, Counted!Quantum, Counted!Statuses,
         Row, NoRow, Transfer, Entry, AuditRow, Column, IsWhole, Quantum, Statuses
<1>5. BalanceMatchesLedger /\ NoOverdraft
  BY <1>2, <1>3
     DEF Counted!BankInv, Counted!BalanceMatchesLedger, Counted!NoOverdraft, Counted!LastBalance,
         BalanceMatchesLedger, NoOverdraft, LastBalance, CountedAccounts, CountedLedger
<1>6. LedgerChain
  BY <1>2, <1>3 DEF Counted!BankInv, Counted!LedgerChain, Counted!BalanceBefore,
                    LedgerChain, BalanceBefore, CountedLedger
<1>7. UniqueReference /\ DoubleEntry
  BY <1>2, <1>3 DEF Counted!BankInv, Counted!UniqueReference, Counted!DoubleEntry,
                    Counted!HasEntry, UniqueReference, DoubleEntry, HasEntry, CountedLedger
<1>8. AuditAgreesWithLedger
  BY <1>2, <1>3 DEF Counted!BankInv, Counted!AuditAgreesWithLedger, Counted!BalanceBefore,
                    AuditAgreesWithLedger, BalanceBefore, CountedLedger
<1> QED
  BY <1>3, <1>4, <1>5, <1>6, <1>7, <1>8 DEF BankInv, Counted!BankInv

\* One instance seeds, as docker-compose.yml deploys it, beside any number that
\* do not: wherever its seeding is cut off or refused, and whatever requests
\* are served meanwhile, once it listens the demo accounts are there and the
\* books are in order (index.ts:41-43, demo-accounts.js).
THEOREM TheSeederVouches == OneSeeder /\ StartupSpec => []SeederVouches
<1>1. OneSeeder => OneSeeder'
  BY DEF OneSeeder
<1>2. OneSeeder /\ SchemaInv /\ NamesInv /\ BooksInv /\ [StartupNext]_startupVars => BooksInv'
  BY BooksKept
<1>3. OneSeeder /\ NamesInv /\ BooksInv => SeederVouches
  BY ListeningCounts DEF SeederVouches
<1> QED
  BY <1>1, <1>2, <1>3, EmptyBooks, SchemaInvariant, NamesInvHolds, PTL DEF StartupSpec
-----------------------------------------------------------------------------
(***************************************************************************)
(* A migration that was cut off.                                           *)
(***************************************************************************)

\* Instance i is on its way to migration m, or has not looked yet.
Before(i, m) == pc[i] \in {"down", "pending"} \/ (pc[i] = "migrate" /\ m \in todo[i])

\* Statement k of m, a CREATE INDEX, was sent, and nobody who knows is left:
\* whoever migrates is at k of m or before it.
CutAt(m, k) ==
    /\ m \notin recorded /\ Script[m][k] = "once" /\ <<m, k>> \in applied
    /\ \A i \in Instances :
          pc[i] = "migrate" /\ m \in todo[i] /\ Current(i) = m => position[i] <= k

LEMMA CutOffIsCutAt ==
    ASSUME SchemaInv, NEW m \in Migrations
    PROVE  CutOff(m) <=> \E k \in 1..Len(Script[m]) : CutAt(m, k)
<1>1. \A i \in Instances : position[i] \in Nat
  BY DEF SchemaInv
<1>2. Len(Script[m]) \in Nat
  BY ScriptTyped
<1>3. \A i \in Instances : \A k \in 1..Len(Script[m]) : position[i] <= k <=> ~(position[i] > k)
  BY <1>1, <1>2
<1> QED
  BY <1>3 DEF CutOff, CutAt

\* No step records m, or takes anyone past its statement k.
LEMMA CutAtStays ==
    ASSUME SchemaInv, NEW m \in Migrations, NEW k \in 1..Len(Script[m]), CutAt(m, k),
           NEW i \in Instances, Before(i, m), [StartupNext]_startupVars
    PROVE  CutAt(m, k)' /\ Before(i, m)'
<1>1. /\ k \in Nat /\ 1 <= k /\ k <= Len(Script[m]) /\ Len(Script[m]) \in Nat
      /\ \A j \in Instances : /\ todo[j] \subseteq Migrations
                              /\ position[j] \in Nat
                              /\ todo[j] # {} => Current(j) \in todo[j]
      /\ todo \in [Instances -> SUBSET Migrations] /\ position \in [Instances -> Nat]
      /\ pc \in [Instances -> Pcs]
  <2>1. /\ todo \in [Instances -> SUBSET Migrations] /\ position \in [Instances -> Nat]
        /\ pc \in [Instances -> Pcs]
    BY DEF SchemaInv
  <2>2. ASSUME NEW j \in Instances
        PROVE  /\ todo[j] \subseteq Migrations /\ position[j] \in Nat
               /\ todo[j] # {} => Current(j) \in todo[j]
    BY <2>1, CurrentPending
  <2>3. Len(Script[m]) \in Nat
    BY ScriptTyped
  <2> QED
    BY <2>1, <2>2, <2>3
<1>2. CASE UNCHANGED <<migrationVars, pc>>
  BY <1>2 DEF CutAt, Before, Current, migrationVars
<1>3. ASSUME NEW j \in Instances, pc'[j] # "migrate", UNCHANGED migrationVars,
             \A l \in Instances \ {j} : pc'[l] = pc[l]
      PROVE  CutAt(m, k)'
  BY <1>3 DEF CutAt, Current, migrationVars
<1>4. ASSUME NEW j \in Instances, Connect(j) PROVE CutAt(m, k)' /\ Before(i, m)'
  <2>1. pc'[j] = "pending" /\ UNCHANGED migrationVars /\ \A l \in Instances \ {j} : pc'[l] = pc[l]
    BY <1>1, <1>4 DEF Connect, Goto
  <2> QED
    BY <1>3, <2>1 DEF Before, migrationVars
<1>5. ASSUME NEW j \in Instances, PlanMigrations(j) PROVE CutAt(m, k)' /\ Before(i, m)'
  <2>1. /\ todo'[j] = Migrations \ recorded /\ position'[j] = 1 /\ UNCHANGED <<applied, recorded>>
        /\ pc'[j] = "migrate"
        /\ \A l \in Instances \ {j} : pc'[l] = pc[l] /\ todo'[l] = todo[l] /\ position'[l] = position[l]
    BY <1>1, <1>5 DEF PlanMigrations, ReadPending, Goto
  <2> QED
    BY <1>1, <2>1 DEF CutAt, Before, Current
<1>6. ASSUME NEW j \in Instances, Migrate(j) PROVE CutAt(m, k)' /\ Before(i, m)'
  <2>1. pc[j] = "migrate" /\ todo[j] # {} /\ Current(j) \in todo[j]
    BY <1>1, <1>6 DEF Migrate
  <2>2. CASE Goto(j, "down") /\ UNCHANGED migrationVars
    <3>1. pc'[j] = "down" /\ \A l \in Instances \ {j} : pc'[l] = pc[l]
      BY <1>1, <2>2 DEF Goto
    <3> QED
      BY <1>3, <2>2, <3>1 DEF Before, migrationVars
  <2>3. CASE StatementsSent(j) /\ Record(j) /\ UNCHANGED pc
    <3>1. Current(j) # m
      BY <1>1, <2>1, <2>3 DEF StatementsSent, CutAt
    <3>2. /\ recorded' = recorded \cup {Current(j)} /\ applied' = applied
          /\ todo'[j] = todo[j] \ {Current(j)} /\ position'[j] = 1
          /\ \A l \in Instances \ {j} : todo'[l] = todo[l] /\ position'[l] = position[l]
      BY <1>1, <2>3 DEF Record
    <3> QED
      BY <1>1, <2>3, <3>1, <3>2 DEF CutAt, Before, Current
  <2>4. CASE ~StatementRefused(j) /\ ApplyStatement(j) /\ UNCHANGED pc
    <3>1. Current(j) = m => position[j] # k
      BY <2>1, <2>4 DEF StatementRefused, CutAt
    <3>2. /\ recorded' = recorded /\ applied \subseteq applied' /\ todo' = todo
          /\ position'[j] = position[j] + 1
          /\ \A l \in Instances \ {j} : position'[l] = position[l]
      BY <1>1, <2>4 DEF ApplyStatement
    <3>3. Current(j) = m => position'[j] <= k
      BY <1>1, <2>1, <3>1, <3>2 DEF CutAt
    <3> QED
      BY <2>4, <3>2, <3>3 DEF CutAt, Before, Current
  <2> QED
    BY <1>6, <2>2, <2>3, <2>4 DEF Migrate
<1>7. ASSUME NEW j \in Instances, Migrated(j) PROVE CutAt(m, k)' /\ Before(i, m)'
  <2>1. /\ pc[j] = "migrate" /\ todo[j] = {} /\ pc'[j] \in {"deleteEntries", "listening"}
        /\ UNCHANGED migrationVars /\ \A l \in Instances \ {j} : pc'[l] = pc[l]
    BY <1>1, <1>7 DEF Migrated, Goto
  <2> QED
    BY <1>3, <2>1 DEF Before, migrationVars
<1>8. ASSUME NEW j \in Instances, SeedStep(j) PROVE CutAt(m, k)' /\ Before(i, m)'
  <2>1. /\ pc[j] \in SeedingPcs /\ pc'[j] # "migrate"
        /\ UNCHANGED migrationVars /\ \A l \in Instances \ {j} : pc'[l] = pc[l]
    BY <1>1, <1>8 DEF SeedStep, SeedDeleteEntries, SeedDeleteAccounts, SeedInsertAccounts,
       SeedInsertEntries, SeedStatement, Goto, SeedingPcs
  <2> QED
    BY <1>3, <2>1 DEF Before, migrationVars, SeedingPcs
<1>9. ASSUME NEW j \in Instances, Exit(j) PROVE CutAt(m, k)' /\ Before(i, m)'
  <2>1. pc'[j] = "down" /\ UNCHANGED migrationVars /\ \A l \in Instances \ {j} : pc'[l] = pc[l]
    BY <1>1, <1>9 DEF Exit, Goto
  <2> QED
    BY <1>3, <2>1 DEF Before, migrationVars
<1>10. CASE Request \/ UNCHANGED startupVars
  BY <1>2, <1>10 DEF Request, startupVars
<1> QED
  BY <1>2, <1>4, <1>5, <1>6, <1>7, <1>8, <1>9, <1>10 DEF StartupNext, StartStep

\* A process that ends between a CREATE INDEX and the record of its migration
\* is the end of the deployment: no instance that is down then, or goes down
\* later, ever listens, until someone repairs the database by hand
\* (create-accounts.js:39-40, index.ts:50-53).
THEOREM CutOffIsForGood == StartupSpec => CutOffNeverListens
<1>1. ASSUME NEW i \in Instances
      PROVE  StartupSpec =>
                [](pc[i] = "down" /\ (\E m \in Migrations : CutOff(m)) => [](pc[i] # "listening"))
  <2> DEFINE P == \E m \in Migrations : Before(i, m) /\ \E k \in 1..Len(Script[m]) : CutAt(m, k)
  <2>1. SchemaInv /\ P /\ [StartupNext]_startupVars => P'
    BY CutAtStays
  <2>2. SchemaInv /\ pc[i] = "down" /\ (\E m \in Migrations : CutOff(m)) => P
    BY CutOffIsCutAt DEF Before
  <2>3. P => pc[i] # "listening"
    BY DEF Before
  <2> HIDE DEF P
  <2> QED
    BY <2>1, <2>2, <2>3, SchemaInvariant, PTL DEF StartupSpec
<1> QED
  BY <1>1 DEF CutOffNeverListens
=============================================================================
