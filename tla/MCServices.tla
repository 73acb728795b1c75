------------------------------ MODULE MCServices ------------------------------
(***************************************************************************)
(* The services around the marketplace for TLC: request admission, event   *)
(* ingest, analytics, support and notifications, accounts, the reading     *)
(* side of the chat and the proxy to the agent.  They share no state here, *)
(* so each behaviour moves one of them and their state spaces add up       *)
(* instead of multiplying.                                                 *)
(***************************************************************************)
EXTENDS RateLimit, EventDedupe, Analytics, Support, Accounts, Threads, Gateway

VARIABLE part

Part == {"admission", "ingest", "analytics", "support", "accounts", "threads", "gateway"}

MCListing == [r \in Room |-> IF r = "r1" THEN "p1" ELSE "p2"]
MCAbout == [t \in Talk |-> IF t = "k1" THEN "p1" ELSE NoGood]

allVars == <<part, limitVars, dedupeVars, analyticsVars, supportVars, accountVars, threadVars, gatewayVars>>

Init ==
    /\ part \in Part
    /\ LimitInit /\ DedupeInit /\ AnalyticsInit /\ SupportInit /\ AccountsInit /\ ThreadsInit /\ GatewayInit

\* Only the part p moves.
Keep(p, vars) == part = p \/ UNCHANGED vars

Next ==
    /\ part' = part
    /\ Keep("admission", limitVars) /\ Keep("ingest", dedupeVars) /\ Keep("analytics", analyticsVars)
    /\ Keep("support", supportVars) /\ Keep("accounts", accountVars)
    /\ Keep("threads", threadVars) /\ Keep("gateway", gatewayVars)
    /\ \/ part = "admission" /\ LimitNext
       \/ part = "ingest" /\ DedupeNext
       \/ part = "analytics" /\ AnalyticsNext
       \/ part = "support" /\ SupportNext
       \/ part = "accounts" /\ AccountsNext
       \/ part = "threads" /\ ThreadsNext
       \/ part = "gateway" /\ GatewayNext

Fairness == part = "gateway" => GatewayFairness
Spec == Init /\ [][Next]_allVars /\ Fairness
=============================================================================
