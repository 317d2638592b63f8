----------------------------- MODULE Migrations -----------------------------
(***************************************************************************)
(* The migrations of database/migrations as `sequelize-cli db:migrate`     *)
(* runs them: it reads once which of them SequelizeMeta does not name, and *)
(* then, for each in turn, sends its statements and records its name.      *)
(* Every statement is a transaction of its own.                            *)
(*                                                                         *)
(* What a statement creates matters here only by whether the statement can *)
(* be sent again: CREATE ... IF NOT EXISTS and ALTER COLUMN can, the       *)
(* CREATE INDEX of addIndex cannot.                                        *)
(***************************************************************************)
EXTENDS Integers, Sequences

CONSTANT Instances   \* of the service; each migrates when it starts

VARIABLES
    applied,    \* the statements that have taken effect, as <<migration, position>>
    recorded,   \* the migrations SequelizeMeta names
    todo,       \* todo[i]: the migrations i found pending and has not finished
    position    \* position[i]: its next statement within the first of them

migrationVars == <<applied, recorded, todo, position>>
-----------------------------------------------------------------------------
CreateUuidExtension == <<"repeatable">>
CreateAccounts      == <<"repeatable", "once", "once">>
CreateTransfers     == <<"repeatable", "once", "once", "once">>
CreateLedgerEntries == <<"repeatable", "once", "once", "once">>
CreateAuditLog      == <<"repeatable", "once", "once">>
AllowNullTransferId == <<"repeatable">>
DropNotNull         == <<"repeatable">>   \* sent only while the column is NOT NULL

\* The migrations in the order of their file names.
Script == <<CreateUuidExtension, CreateAccounts, CreateTransfers, CreateLedgerEntries,
            CreateAuditLog, AllowNullTransferId, DropNotNull>>

Migrations == 1..Len(Script)

Complete(m) == \A k \in 1..Len(Script[m]) : <<m, k>> \in applied

SchemaReady == \A m \in Migrations : m \in recorded /\ Complete(m)

MigrationsInit ==
    /\ applied = {}
    /\ recorded = {}
    /\ todo = [i \in Instances |-> {}]
    /\ position = [i \in Instances |-> 1]
-----------------------------------------------------------------------------
\* Mutated form of ReadPending: nothing is ever remembered.
ForgetRecorded(i) ==
    /\ todo' = [todo EXCEPT ![i] = Migrations]
    /\ position' = [position EXCEPT ![i] = 1]
    /\ UNCHANGED <<applied, recorded>>

ReadPending(i) ==
    /\ todo' = [todo EXCEPT ![i] = Migrations \ recorded]
    /\ position' = [position EXCEPT ![i] = 1]
    /\ UNCHANGED <<applied, recorded>>

\* The migration i is at.
Current(i) == CHOOSE m \in todo[i] : \A n \in todo[i] : m <= n

\* Mutated form of StatementsSent: one too few.
StatementsAlmostSent(i) == position[i] >= Len(Script[Current(i)])

StatementsSent(i) == position[i] > Len(Script[Current(i)])

\* Mutated form of StatementRefused: CREATE INDEX IF NOT EXISTS.
StatementRepeated(i) == FALSE

\* relation "..." already exists
StatementRefused(i) ==
    /\ Script[Current(i)][position[i]] = "once"
    /\ <<Current(i), position[i]>> \in applied

ApplyStatement(i) ==
    /\ applied' = applied \cup {<<Current(i), position[i]>>}
    /\ position' = [position EXCEPT ![i] = @ + 1]
    /\ UNCHANGED <<recorded, todo>>

\* The name is the primary key of SequelizeMeta.
RecordRefused(i) == Current(i) \in recorded

Record(i) ==
    /\ recorded' = recorded \cup {Current(i)}
    /\ todo' = [todo EXCEPT ![i] = @ \ {Current(i)}]
    /\ position' = [position EXCEPT ![i] = 1]
    /\ UNCHANGED applied
=============================================================================
