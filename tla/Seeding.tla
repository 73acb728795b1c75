------------------------------- MODULE Seeding -------------------------------
(***************************************************************************)
(* The demo seeds: seed/index.js, accounts.js, dashboard.js, guard.js and  *)
(* lib/db/schema/seed.js.  Runs follow one another; each may carry another *)
(* revision of the fixtures and die between two statements.  Fixtures are  *)
(* upserted on a stable key, in the order of their foreign keys: an insert *)
(* writes every column, an update of a row that is there only the columns  *)
(* its patch names.  The tool log is cleared and inserted again, row by    *)
(* row, under generated ids.                                               *)
(***************************************************************************)
EXTENDS Integers, FiniteSets

CONSTANTS
    LastRevision,  \* revisions of the fixtures: 1 .. LastRevision
    LogRows,       \* rows TOOL_PLAN generates in each revision, ids 1 .. LogRows[v]
    Fixtures,      \* the fixtures, in the order they are written, are 1 .. Fixtures
    Markets,       \* those of the other script: buyer, seller, verification, products
    Field,         \* the columns of a fixture, those written together being one
    Password,      \* the one with the hash of the password
    Patch          \* Patch[f][v]: the columns the update of fixture f names in revision v

\* seedAccounts names the password in the updates of both its rows.
ASSUME SeedingAssumption ==
    /\ LastRevision \in Nat \ {0} /\ Fixtures \in Nat /\ Fixtures > 2 /\ Markets \in Nat \ {0}
    /\ LogRows \in [1 .. LastRevision -> Nat]
    /\ Patch \in [1 .. Fixtures -> [1 .. LastRevision -> SUBSET Field]]
    /\ Password \in Field /\ \A f \in 1 .. 2, v \in 1 .. LastRevision : Password \in Patch[f][v]

Absent == 0
Fixture == 1 .. Fixtures
Operator == 1 .. 2    \* the rows of seedAccounts: users, then admins
Market == 1 .. Markets
Id == UNION {1 .. LogRows[v] : v \in 1 .. LastRevision}

VARIABLES
    target,    \* the database the run is pointed at, as its environment says; allowed
               \* when its name is listed, or when the environment overrides that
    fixture,   \* the revision each column of a fixture's row is of
    found,     \* history: the rows that were there when the run began
    market,    \* the marketplace fixtures that are there
    log,       \* the revision of each row of the tool log
    audited,   \* the reviewed fixtures name the operator
    seeding,   \* where the run stands, or how the last one ended
    mode,      \* all, accounts or dashboard; or a run of the other script, whose
               \* environment names no operator, an admin, or a super admin
    revision,  \* the revision it writes
    next       \* the fixture, or the log row, it writes next

seedVars == <<target, fixture, found, market, log, audited, seeding, mode, revision, next>>

SeedInit ==
    /\ target \in [production : BOOLEAN, allowed : BOOLEAN]
    /\ fixture = [f \in Fixture |-> [c \in Field |-> Absent]] /\ found = {}
    /\ market = {}
    /\ log = [i \in Id |-> Absent]
    /\ audited = FALSE
    /\ seeding = "none" /\ mode = "all" /\ revision = 1 /\ next = 1

\* assertDevDatabase: nothing bypasses NODE_ENV=production.
Seedable == ~target.production /\ target.allowed

Stored == {f \in Fixture : fixture[f][Password] # Absent}

\* What an upsert writes of a row that is there; the other script rotates passwords.
Named(f) == IF mode \in {"admin", "root"} THEN {Password} ELSE Patch[f][revision]

Upsert(f) ==
    fixture' = [fixture EXCEPT ![f] =
        [c \in Field |-> IF f \notin Stored \/ c \in Named(f) THEN revision ELSE fixture[f][c]]]

\* main, once assertDevDatabase let the database pass.
StartSeed ==
    /\ Seedable
    /\ seeding \in {"none", "done", "dead"}
    /\ seeding' = "upsert"
    /\ mode' \in {"all", "accounts", "dashboard"}
    /\ revision' \in 1 .. LastRevision
    /\ next' = IF mode' = "dashboard" THEN 3 ELSE 1
    /\ found' = Stored
    /\ UNCHANGED <<target, fixture, market, log, audited>>

\* The upsert of the next fixture; the audit fields of a dashboard run take
\* whatever resolveAdminUserId finds.
UpsertFixture ==
    /\ seeding = "upsert" /\ next <= Fixtures
    /\ Upsert(next)
    /\ audited' = IF next \in Operator THEN audited ELSE 1 \in Stored
    /\ next' = next + 1
    /\ seeding' = IF mode = "accounts" /\ next = 2 THEN "done" ELSE seeding
    /\ UNCHANGED <<target, found, market, log, mode, revision>>

\* Mutant: only the ids the plan is about to write are cleared.
ClearLog_OwnIds ==
    /\ seeding = "upsert" /\ next > Fixtures /\ mode # "accounts"
    /\ log' = [i \in Id |-> IF i <= LogRows[revision] THEN Absent ELSE log[i]]
    /\ seeding' = "log" /\ next' = 1
    /\ UNCHANGED <<target, fixture, found, market, audited, mode, revision>>

\* remove('tool_invocations', { id: { startsWith: 'seed-tool-' } }).
ClearLog ==
    /\ seeding = "upsert" /\ next > Fixtures /\ mode # "accounts"
    /\ log' = [i \in Id |-> Absent]
    /\ seeding' = "log" /\ next' = 1
    /\ UNCHANGED <<target, fixture, found, market, audited, mode, revision>>

\* One insert of the log; an id that is taken ends the run.
InsertLog ==
    /\ seeding = "log" /\ next <= LogRows[revision]
    /\ IF log[next] = Absent
       THEN log' = [log EXCEPT ![next] = revision] /\ next' = next + 1 /\ seeding' = seeding
       ELSE seeding' = "dead" /\ UNCHANGED <<log, next>>
    /\ UNCHANGED <<target, fixture, found, market, audited, mode, revision>>

EndSeed ==
    /\ seeding = "log" /\ next > LogRows[revision]
    /\ seeding' = "done"
    /\ UNCHANGED <<target, fixture, found, market, log, audited, mode, revision, next>>

-----------------------------------------------------------------------------
(* lib/db/schema/seed.js. *)

\* run, behind the same guard.
StartDevSeed ==
    /\ Seedable
    /\ seeding \in {"none", "done", "dead"}
    /\ seeding' = "market" /\ next' = 1
    /\ mode' \in {"plain", "admin", "root"}
    /\ revision' \in 1 .. LastRevision
    /\ found' = Stored
    /\ UNCHANGED <<target, fixture, market, log, audited>>

\* A marketplace fixture is created when it is missing and left alone otherwise.
UpsertMarket ==
    /\ seeding = "market"
    /\ market' = market \cup {next}
    /\ IF next < Markets THEN next' = next + 1 /\ seeding' = seeding
       ELSE next' = (IF mode = "admin" THEN 2 ELSE 1) /\ seeding' = (IF mode = "plain" THEN "done" ELSE "operator")
    /\ UNCHANGED <<target, fixture, found, log, audited, mode, revision>>

\* The passwords of the environment are rotated: of the dashboard's row alone, or
\* of the account and then of the dashboard's row.
RotateOperator ==
    /\ seeding = "operator"
    /\ Upsert(next)
    /\ next' = 2 /\ seeding' = IF next = 2 THEN "done" ELSE seeding
    /\ UNCHANGED <<target, found, market, log, audited, mode, revision>>

-----------------------------------------------------------------------------
SeedDies ==
    /\ seeding \in {"upsert", "log", "market", "operator"}
    /\ seeding' = "dead"
    /\ UNCHANGED <<target, fixture, found, market, log, audited, mode, revision, next>>

SeedNext == StartSeed \/ UpsertFixture \/ ClearLog \/ InsertLog \/ EndSeed \/ SeedDies
            \/ StartDevSeed \/ UpsertMarket \/ RotateOperator

SeedSpec == SeedInit /\ [][SeedNext]_seedVars

\* The rows a run that ends well has written.
Written ==
    CASE mode = "plain" -> {}
      [] mode = "admin" -> {2}
      [] mode \in {"accounts", "root"} -> Operator
      [] mode = "dashboard" -> Fixture \ Operator
      [] mode = "all" -> Fixture

Current(f) == \A c \in Field : c \in Named(f) \/ f \notin found => fixture[f][c] = revision

\* A run that ends well leaves every row it writes there: whole at its own revision if
\* it made it, and otherwise with each column its patch names at that revision; and the
\* log exactly as its plan has it, whatever earlier runs of either script left half
\* done (seed/dashboard.js:269-355; lib/db/schema/seed.js:72-183).  A column no patch
\* names keeps what an earlier run wrote: "re-running refreshes the fixtures"
\* (seed/dashboard.js:7-9) is true of the named columns only.
Refreshed ==
    seeding = "done" =>
        /\ ~target.production
        /\ Written \subseteq Stored /\ \A f \in Written : Current(f)
        /\ mode \in {"all", "accounts", "root"} => fixture[1][Password] = fixture[2][Password]
        /\ mode \in {"plain", "admin", "root"} => Market \subseteq market
        /\ mode \in {"all", "dashboard"} =>
             /\ \A i \in Id : log[i] = IF i <= LogRows[revision] THEN revision ELSE Absent
             /\ audited = (1 \in Stored)

-----------------------------------------------------------------------------
(* The invariant behind it: a run in progress has written, at its revision, *)
(* everything that stands before `next`.                                   *)

SeedTypeOK ==
    /\ target \in [production : BOOLEAN, allowed : BOOLEAN]
    /\ fixture \in [Fixture -> [Field -> 0 .. LastRevision]] /\ found \subseteq Fixture /\ market \subseteq Market
    /\ log \in [Id -> 0 .. LastRevision] /\ audited \in BOOLEAN
    /\ seeding \in {"none", "upsert", "log", "market", "operator", "done", "dead"}
    /\ mode \in {"all", "accounts", "dashboard", "plain", "admin", "root"}
    /\ revision \in 1 .. LastRevision /\ next \in Nat \ {0}

\* The fixtures before n that the run writes are of its revision, and name the
\* operator if he is there.
WrittenBefore(n) ==
    /\ \A f \in Fixture : f < n /\ (mode = "dashboard" => f > 2) => f \in Stored /\ Current(f)
    /\ n > 3 => audited = (1 \in Stored)

Upserting ==
    /\ mode \in {"all", "accounts", "dashboard"}
    /\ next <= Fixtures + 1 /\ (mode = "dashboard" => next > 2) /\ (mode = "accounts" => next < 3)
    /\ WrittenBefore(next) /\ \A f \in Stored \ found : f < next

Logging ==
    /\ mode \in {"all", "dashboard"}
    /\ WrittenBefore(Fixtures + 1)
    /\ next <= LogRows[revision] + 1
    /\ \A i \in Id : log[i] = IF i < next THEN revision ELSE Absent

Marketing ==
    /\ mode \in {"plain", "admin", "root"}
    /\ next <= Markets /\ \A f \in Market : f < next => f \in market
    /\ Stored \subseteq found

Rotating ==
    /\ mode \in {"admin", "root"}
    /\ next \in Operator /\ (mode = "admin" => next = 2)
    /\ mode = "root" /\ next = 2 => 1 \in Stored /\ Current(1)
    /\ Market \subseteq market
    /\ \A f \in Stored \ found : f < next

SeedInv ==
    /\ SeedTypeOK /\ found \subseteq Stored
    /\ seeding # "none" => Seedable
    /\ seeding = "upsert" => Upserting
    /\ seeding = "log" => Logging
    /\ seeding = "market" => Marketing
    /\ seeding = "operator" => Rotating
    /\ Refreshed
=============================================================================
