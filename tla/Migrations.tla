----------------------------- MODULE Migrations -----------------------------
(***************************************************************************)
(* The migration runner: lib/db/src/migrate.js (deploy, reset), compare.js,*)
(* drift.js and cli.js, over schema/migrations.                            *)
(*                                                                         *)
(* Every CREATE TABLE commits by itself and every ledger row is a          *)
(* statement of its own, so a deploy that dies leaves what it had done.    *)
(* Nothing keeps two deploys apart.  Columns are abstracted: a table is in *)
(* the schema as the registry wants it, or it is one the registry lacks.   *)
(***************************************************************************)
EXTENDS Integers, FiniteSets

CONSTANTS
    LastMigration,  \* the migrations are 1 .. LastMigration, in name order
    Creates,        \* the tables each one creates
    Foreign,        \* a table the column registry does not have
    Deploy          \* runs of the command line, one after another or at once

Migration == 1 .. LastMigration
Registry == UNION {Creates[m] : m \in Migration}

ASSUME MigrationsAssumption ==
    /\ LastMigration \in Nat \ {0}
    /\ DOMAIN Creates = Migration
    /\ Foreign \notin Registry
    /\ \A m, n \in Migration : m # n => Creates[m] \cap Creates[n] = {}

VARIABLES
    schema,   \* the tables of the database
    ledger,   \* rows of _kosply_migrations
    running,  \* where each deploy stands, or how it ended
    applied,  \* the ledger as it read it
    doing,    \* the migration it is at
    created   \* the tables of that migration it has created

migrationVars == <<schema, ledger, running, applied, doing, created>>

Ended == {"done", "refused", "exists", "recorded", "dead"}

MigrationsTypeOK ==
    /\ schema \subseteq Registry \cup {Foreign}
    /\ ledger \subseteq Migration
    /\ running \in [Deploy -> {"not", "plan", "adopt", "apply"} \cup Ended]
    /\ applied \in [Deploy -> SUBSET Migration]
    /\ doing \in [Deploy -> 1 .. LastMigration + 1]
    /\ created \in [Deploy -> SUBSET Registry]

\* A new database, one that was migrated before the ledger existed, or another one.
MigrationsInit ==
    /\ schema \in {{}, Registry, Registry \cup {Foreign}}
    /\ ledger = {}
    /\ running = [d \in Deploy |-> "not"]
    /\ applied = [d \in Deploy |-> {}]
    /\ doing = [d \in Deploy |-> 1]
    /\ created = [d \in Deploy |-> {}]

At(d, to) == running' = [running EXCEPT ![d] = to]

\* LEDGER_DDL, and the read of the ledger.
ReadLedger(d) ==
    /\ running[d] = "not"
    /\ At(d, "plan")
    /\ applied' = [applied EXCEPT ![d] = ledger]
    /\ UNCHANGED <<schema, ledger, doing, created>>

\* compare: the tables and the registry agree in both directions.
Agrees == schema = Registry

\* An empty ledger over existing tables is adopted when the two agree and
\* ADOPT is not 0; otherwise what the ledger lacks is to be applied.
Plan(d) ==
    /\ running[d] = "plan"
    /\ IF applied[d] = {} /\ schema # {}
       THEN At(d, "refused") \/ (Agrees /\ At(d, "adopt"))
       ELSE At(d, "apply")
    /\ UNCHANGED <<schema, ledger, applied, doing, created>>

\* The next migration of d; past the last one come the checks, which are idempotent.
Advance(d, next) ==
    /\ doing' = [doing EXCEPT ![d] = next]
    /\ created' = [created EXCEPT ![d] = {}]
    /\ running' = [running EXCEPT ![d] = IF next > LastMigration THEN "done" ELSE @]

\* The ledger row of d's migration; its name is the primary key.
WriteRow(d) ==
    IF doing[d] \in ledger
    THEN At(d, "recorded") /\ UNCHANGED <<ledger, doing, created>>
    ELSE ledger' = ledger \cup {doing[d]} /\ Advance(d, doing[d] + 1)

AdoptRow(d) ==
    /\ running[d] = "adopt"
    /\ WriteRow(d)
    /\ UNCHANGED <<schema, applied>>

\* `applied` has it: nothing to run.
Skip(d) ==
    /\ running[d] = "apply" /\ doing[d] \in applied[d]
    /\ Advance(d, doing[d] + 1)
    /\ UNCHANGED <<schema, ledger, applied>>

\* One CREATE TABLE of the file, which fails when the table is there.
CreateTable(d) ==
    /\ running[d] = "apply" /\ doing[d] \notin applied[d]
    /\ \E t \in Creates[doing[d]] \ created[d] :
         IF t \in schema
         THEN At(d, "exists") /\ UNCHANGED <<schema, created>>
         ELSE /\ schema' = schema \cup {t}
              /\ created' = [created EXCEPT ![d] = @ \cup {t}]
              /\ running' = running
    /\ UNCHANGED <<ledger, applied, doing>>

\* Mutant: the row is written before the file has run.
Record_Early(d) ==
    /\ running[d] = "apply" /\ doing[d] \notin applied[d]
    /\ WriteRow(d)
    /\ UNCHANGED <<schema, applied>>

Record(d) ==
    /\ running[d] = "apply" /\ doing[d] \notin applied[d]
    /\ created[d] = Creates[doing[d]]
    /\ WriteRow(d)
    /\ UNCHANGED <<schema, applied>>

\* The process dies, or loses its connection, between two statements.
Die(d) ==
    /\ running[d] \in {"plan", "adopt", "apply"}
    /\ At(d, "dead")
    /\ UNCHANGED <<schema, ledger, applied, doing, created>>

\* reset, in a development database nobody else deploys to: every table is
\* dropped, the ledger's too, and a deploy follows.
Reset(d) ==
    /\ running[d] = "not" /\ \A e \in Deploy : running[e] \in Ended \cup {"not"}
    /\ schema' = {} /\ ledger' = {}
    /\ At(d, "plan")
    /\ UNCHANGED <<applied, doing, created>>

MigrationsNext ==
    \E d \in Deploy :
        \/ ReadLedger(d) \/ Plan(d) \/ AdoptRow(d) \/ Skip(d)
        \/ CreateTable(d) \/ Record(d) \/ Die(d) \/ Reset(d)

MigrationsSpec == MigrationsInit /\ [][MigrationsNext]_migrationVars

-----------------------------------------------------------------------------
\* Whatever deploys died or ran at once, the ledger names the first migrations,
\* and only ones whose tables are all there (migrate.js:187-229).
LedgerTrue == \A m \in ledger : Creates[m] \subseteq schema /\ 1 .. m \subseteq ledger

\* Why: a deploy has behind it only rows the ledger has, and tables the schema has.
DeploysSound ==
    \A d \in Deploy :
        /\ running[d] = "not" => applied[d] = {}
        /\ running[d] \in {"not", "plan"} => doing[d] = 1 /\ created[d] = {}
        /\ running[d] \in {"plan", "apply"} => applied[d] \subseteq ledger
        /\ running[d] = "adopt" => Registry \subseteq schema
        /\ running[d] = "apply" => created[d] \subseteq schema
        /\ running[d] \in {"adopt", "apply"} =>
               doing[d] \in Migration /\ 1 .. (doing[d] - 1) \subseteq ledger

MigrationsInv == MigrationsTypeOK /\ DeploysSound /\ LedgerTrue
=============================================================================
