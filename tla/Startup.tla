------------------------------ MODULE Startup ------------------------------
(***************************************************************************)
(* start() of src/index.ts: connect, migrate, seed, listen; any error ends *)
(* the process, and Docker starts it again (restart: unless-stopped).      *)
(* Several instances may do so at once over one database.                  *)
(*                                                                         *)
(* RUN_MIGRATIONS_ON_START is taken to be set: the image migrates before   *)
(* it starts Node in any case.                                             *)
(***************************************************************************)
EXTENDS Migrations, Seeding

CONSTANTS
    Seeders,    \* instances with RUN_SEED_ON_START
    MaxExits,   \* bound: how often an instance is ended from outside
    ExitPcs     \* where that may happen

SeedingPcs == {"deleteEntries", "deleteAccounts", "insertAccounts", "insertEntries"}

Pcs == {"down", "pending", "migrate", "listening"} \cup SeedingPcs

ASSUME StartupAssumption ==
    /\ Seeders \subseteq Instances
    /\ MaxExits \in Nat
    /\ ExitPcs \subseteq Pcs \ {"down"}

VARIABLES
    pc,     \* pc[i]: what instance i does next
    exits   \* how often an instance was ended from outside

startupVars == <<tables, migrationVars, pc, exits>>

\* The database is empty and nothing runs.
StartupInit ==
    /\ accounts = [a \in Accounts |-> NoRow]
    /\ transfers = {}
    /\ ledger = [a \in Accounts |-> <<>>]
    /\ audit = {}
    /\ MigrationsInit
    /\ pc = [i \in Instances |-> "down"]
    /\ exits = 0

Goto(i, next) == pc' = [pc EXCEPT ![i] = next]

AppListening == \E i \in Instances : pc[i] = "listening"
-----------------------------------------------------------------------------
(***************************************************************************)
(* One start.                                                              *)
(***************************************************************************)

\* sequelize.authenticate()
Connect(i) ==
    /\ pc[i] = "down"
    /\ Goto(i, "pending")
    /\ UNCHANGED <<tables, migrationVars, exits>>

PlanMigrations(i) ==
    /\ pc[i] = "pending"
    /\ ReadPending(i)
    /\ Goto(i, "migrate")
    /\ UNCHANGED <<tables, exits>>

\* The next statement or record of the first pending migration.
Migrate(i) ==
    /\ pc[i] = "migrate" /\ todo[i] # {}
    /\ IF StatementsSent(i)
       THEN IF RecordRefused(i) THEN Goto(i, "down") /\ UNCHANGED migrationVars
                                ELSE Record(i) /\ UNCHANGED pc
       ELSE IF StatementRefused(i) THEN Goto(i, "down") /\ UNCHANGED migrationVars
                                   ELSE ApplyStatement(i) /\ UNCHANGED pc
    /\ UNCHANGED <<tables, exits>>

\* runMigrations() has returned.
Migrated(i) ==
    /\ pc[i] = "migrate" /\ todo[i] = {}
    /\ Goto(i, IF i \in Seeders THEN "deleteEntries" ELSE "listening")
    /\ UNCHANGED <<tables, migrationVars, exits>>

\* A statement of the seeder: it is refused, or it takes effect.
SeedStatement(i, this, next, allowed, Effect) ==
    /\ pc[i] = this
    /\ IF allowed THEN Effect /\ Goto(i, next)
                  ELSE Goto(i, "down") /\ UNCHANGED tables
    /\ UNCHANGED <<migrationVars, exits>>

SeedDeleteEntries(i) ==
    SeedStatement(i, "deleteEntries", "deleteAccounts", TRUE, DeleteEntries)

\* Mutated form of SeedDeleteAccounts: it goes on with the accounts it finds.
SeedKeepAccounts(i) ==
    /\ pc[i] = "deleteAccounts"
    /\ IF DemoReferenced THEN UNCHANGED tables /\ Goto(i, "insertEntries")
                         ELSE DeleteAccounts /\ Goto(i, "insertAccounts")
    /\ UNCHANGED <<migrationVars, exits>>

SeedDeleteAccounts(i) ==
    SeedStatement(i, "deleteAccounts", "insertAccounts", ~DemoReferenced, DeleteAccounts)

SeedInsertAccounts(i) ==
    SeedStatement(i, "insertAccounts", "insertEntries", DemoAbsent, InsertAccounts)

\* The last statement; then app.listen().
SeedInsertEntries(i) ==
    SeedStatement(i, "insertEntries", "listening", DemoPresent, InsertOpeningEntries)

SeedStep(i) ==
    \/ SeedDeleteEntries(i)
    \/ SeedDeleteAccounts(i)
    \/ SeedInsertAccounts(i)
    \/ SeedInsertEntries(i)

StartStep(i) == Connect(i) \/ PlanMigrations(i) \/ Migrate(i) \/ Migrated(i) \/ SeedStep(i)

\* The process ends: killed, deployed again, or a call fails for a reason of its own.
Exit(i) ==
    /\ pc[i] \in ExitPcs /\ exits < MaxExits
    /\ Goto(i, "down")
    /\ exits' = exits + 1
    /\ UNCHANGED <<tables, migrationVars>>

\* A request served by an instance that listens.  createAccount makes ids of
\* its own, never those of the demo accounts.
Request ==
    /\ AppListening
    /\ \/ \E id \in Sessions : \E o \in Orders : Move(id, o)
       \/ \E u \in TopUpOrders : TopUp(u)
       \/ \E r \in StatusOrders : SetStatus(r.account, r.status)
       \/ \E a \in Accounts \ Demo : \E currency \in Currencies : Open(a, currency)
    /\ UNCHANGED <<migrationVars, pc, exits>>

StartupNext ==
    \/ \E i \in Instances : StartStep(i)
    \/ \E i \in Instances : Exit(i)
    \/ Request
    \/ (\A i \in Instances : pc[i] = "listening") /\ UNCHANGED startupVars

StartupSpec == StartupInit /\ [][StartupNext]_startupVars

\* A start goes on until it listens or ends, and Docker makes the next one.
StartupFairSpec == StartupSpec /\ \A i \in Instances : WF_startupVars(StartStep(i))
-----------------------------------------------------------------------------
\* An instance that listens has a database with every table, index and
\* constraint, whoever else was migrating it (index.ts:37-39).
ListeningHasSchema == AppListening => SchemaReady

\* Transfers and ledger entries name accounts that exist, whenever the seeder
\* deletes and inserts them (ON DELETE RESTRICT, create-transfers.js:12-25).
NamedAccountsExist ==
    /\ \A t \in transfers : accounts[t.source] # NoRow /\ accounts[t.destination] # NoRow
    /\ \A a \in Accounts : ledger[a] # <<>> => accounts[a] # NoRow

\* The instance that seeds listens only when the demo accounts exist and every
\* promise of the tables holds, whatever requests another instance served
\* and wherever an earlier seeding was cut off (index.ts:41-43).
SeederVouches ==
    \A i \in Seeders : pc[i] = "listening" => DemoPresent /\ BankInv

\* Once a transfer names a demo account, an instance that seeds and goes down
\* never listens again: the seeder deletes the ledger entries and is then
\* refused the accounts, at every restart (demo-accounts.js:16-19).
ReferencedNeverReseeds ==
    \A i \in Seeders : [](pc[i] = "down" /\ DemoTransfers # {} => [](pc[i] # "listening"))

\* Migration m was cut off after a CREATE INDEX: nobody can send it again, and
\* nobody is left to record the migration.
CutOff(m) ==
    /\ m \notin recorded
    /\ \E k \in 1..Len(Script[m]) :
          /\ Script[m][k] = "once" /\ <<m, k>> \in applied
          /\ \A i \in Instances : ~(/\ pc[i] = "migrate" /\ m \in todo[i]
                                   /\ Current(i) = m /\ position[i] > k)

\* Once that has happened, an instance that goes down never listens again: every
\* start sends the CREATE INDEX again and is refused (create-accounts.js:39-40,
\* index.ts:50-53).
CutOffNeverListens ==
    \A i \in Instances :
        [](pc[i] = "down" /\ (\E m \in Migrations : CutOff(m)) => [](pc[i] # "listening"))

Wedged(i) == (\E m \in Migrations : CutOff(m)) \/ (i \in Seeders /\ DemoTransfers # {})

\* Every start, or a later one, gets to listen, unless a migration was cut
\* off or the seeder can no longer run: instances that migrate at the same time
\* refuse each other for a while only.
EveryStartSettles ==
    \A i \in Instances : pc[i] = "down" ~> pc[i] = "listening" \/ Wedged(i)

\* A service that is started again comes up again (demo-accounts.js:15: "so
\* restart re-seeds cleanly").
EveryStartListens == \A i \in Instances : pc[i] = "down" ~> pc[i] = "listening"
=============================================================================
