----------------------------- MODULE MCDataLayer -----------------------------
(***************************************************************************)
(* The data layer for TLC: the pool, the row operations, the condition     *)
(* compiler, the migration runner and the seeds.  They share no state, so  *)
(* a step of one neither enables nor disables a step of another: each      *)
(* behaviour moves one of them, and their state spaces add up instead of   *)
(* multiplying.                                                            *)
(***************************************************************************)
EXTENDS ConnectionPool, Records, SqlWhere, Migrations, Seeding, TLC

VARIABLE part

Part == {"pool", "records", "where", "migrations", "seeds"}

MCCreates == 1 :> {"users", "products"} @@ 2 :> {"tool_invocations"}
MCLogRows == <<2, 1>>

\* seedAccounts updates all its rows name but the profile they were made with, or all;
\* of a dashboard fixture the update names some columns (the users) or, in the second
\* revision, one fewer than the insert (a report whose review is gone).
MCPatch ==
    LET stamped == Field \ {"origin"}
    IN  <<[v \in 1 .. 2 |-> stamped], [v \in 1 .. 2 |-> Field],
          [v \in 1 .. 2 |-> {"profile"}], <<Field, stamped>>>>

allVars == <<part, poolVars, recordVars, whereVars, migrationVars, seedVars>>

\* The parts that do not move keep one initial state each.
Init ==
    /\ part \in Part
    /\ PoolInit /\ RecordsInit /\ WhereInit /\ MigrationsInit /\ SeedInit
    /\ part # "migrations" => schema = {}
    /\ part # "seeds" => target = [production |-> FALSE, allowed |-> TRUE]

Next ==
    /\ part' = part
    /\ \/ part = "pool" /\ PoolNext /\ UNCHANGED <<recordVars, whereVars, migrationVars, seedVars>>
       \/ part = "records" /\ RecordsNext /\ UNCHANGED <<poolVars, whereVars, migrationVars, seedVars>>
       \/ part = "where" /\ WhereNext /\ UNCHANGED <<poolVars, recordVars, migrationVars, seedVars>>
       \/ part = "migrations" /\ MigrationsNext /\ UNCHANGED <<poolVars, recordVars, whereVars, seedVars>>
       \/ part = "seeds" /\ SeedNext /\ UNCHANGED <<poolVars, recordVars, whereVars, migrationVars>>

Fairness == part = "pool" => PoolFairness
Spec == Init /\ [][Next]_allVars /\ Fairness
=============================================================================
