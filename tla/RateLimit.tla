------------------------------ MODULE RateLimit ------------------------------
(***************************************************************************)
(* Request admission: middlewares/rateLimit.js.  One fixed window per key, *)
(* at most MaxBuckets keys tracked, expired windows swept now and then.    *)
(***************************************************************************)
EXTENDS Integers, Sequences, FiniteSets

CONSTANTS
    Address,     \* bucket keys: client addresses, with the account for sign-in
    Limit,       \* requests allowed per window
    Window,      \* windowMs
    MaxBuckets,  \* MAX_BUCKETS
    LastMoment   \* bound of the clock

ASSUME RateLimitAssumption ==
    /\ Limit \in Nat \ {0} /\ Window \in Nat \ {0} /\ MaxBuckets \in Nat \ {0} /\ LastMoment \in Nat

VARIABLES
    buckets,  \* the tracked keys: how many requests, and until when
    moment,   \* Date.now()
    admitted  \* history: the moments of the requests admitted, by key

limitVars == <<buckets, moment, admitted>>
Tracked == DOMAIN buckets

LimitInit ==
    /\ buckets = [a \in {} |-> 0]
    /\ moment = 0
    /\ admitted = [a \in Address |-> <<>>]

\* The bucket of a as the request finds it: a new one when there is none or it expired.
Current(a) ==
    IF a \in Tracked /\ buckets[a].resetAt > moment
    THEN buckets[a] ELSE [count |-> 0, resetAt |-> moment + Window]

With(a, b) == [x \in Tracked \cup {a} |-> IF x = a THEN b ELSE buckets[x]]

\* Mutant: a new key at the cap takes the place of another.
Admit_Evicts(a) ==
    LET b == [Current(a) EXCEPT !.count = @ + 1]
    IN  /\ b.count <= Limit + 1
        /\ IF a \in Tracked \/ Cardinality(Tracked) < MaxBuckets
           THEN buckets' = With(a, b)
           ELSE \E x \in Tracked : buckets' = [y \in (Tracked \ {x}) \cup {a} |-> IF y = a THEN b ELSE buckets[y]]
        /\ admitted' = IF b.count <= Limit THEN [admitted EXCEPT ![a] = Append(@, moment)] ELSE admitted
        /\ UNCHANGED moment

\* rateLimit on a request: refused at the cap when its key is not tracked, counted otherwise,
\* and admitted while the count is within the limit.  Past the limit by one, the
\* count no longer matters.
Admit(a) ==
    LET b == [Current(a) EXCEPT !.count = @ + 1]
    IN  /\ a \in Tracked \/ Cardinality(Tracked) < MaxBuckets
        /\ b.count <= Limit + 1
        /\ buckets' = With(a, b)
        /\ admitted' = IF b.count <= Limit THEN [admitted EXCEPT ![a] = Append(@, moment)] ELSE admitted
        /\ UNCHANGED moment

\* The sweeper.
Sweep ==
    /\ buckets' = [a \in {x \in Tracked : buckets[x].resetAt > moment} |-> buckets[a]]
    /\ UNCHANGED <<moment, admitted>>

Pass == moment < LastMoment /\ moment' = moment + 1 /\ UNCHANGED <<buckets, admitted>>

LimitNext == (\E a \in Address : Admit(a)) \/ Sweep \/ Pass
LimitSpec == LimitInit /\ [][LimitNext]_limitVars

-----------------------------------------------------------------------------
\* Spreading requests over the boundary of a window gains at most one window's
\* worth, and neither the cap nor the sweep shortens a window that is running:
\* two windows' worth of requests later, a window has passed (rateLimit.js:27-46,
\* 73-106).
AtMostTwoWindows ==
    \A a \in Address : \A i \in DOMAIN admitted[a] :
        i > 2 * Limit => admitted[a][i - 2 * Limit] + Window <= admitted[a][i]

-----------------------------------------------------------------------------
(* The invariant behind it.                                                *)

LimitTypeOK ==
    /\ Tracked \subseteq Address
    /\ \A a \in Tracked : buckets[a] \in [count : 1 .. Limit + 1, resetAt : Nat]
    /\ moment \in Nat /\ admitted \in [Address -> Seq(Nat)]

\* The moments of a key are in their order, none in the future.
InOrder(a) ==
    /\ \A i \in DOMAIN admitted[a] : admitted[a][i] <= moment
    /\ \A i, j \in DOMAIN admitted[a] : i < j => admitted[a][i] <= admitted[a][j]

InWindow(a) == a \in Tracked /\ buckets[a].resetAt > moment

\* Of the requests admitted, the first n came at least a window before t.
Passed(a, n, t) == \A i \in DOMAIN admitted[a] : i <= n => admitted[a][i] + Window <= t

Smaller(m, n) == IF m < n THEN m ELSE n

\* A running window was opened after everything but what it admitted itself, and
\* the Limit requests before those had a window of their own, or more.
WindowSound(a) ==
    LET open == buckets[a].resetAt - Window
        own == Smaller(buckets[a].count, Limit)
        earlier == Len(admitted[a]) - own
    IN  /\ open <= moment /\ earlier >= 0
        /\ \A i \in DOMAIN admitted[a] : i <= earlier => admitted[a][i] <= open
        /\ Passed(a, earlier - Limit, open)

\* Outside a window, all but the last Limit requests are a window old.
LimitInv ==
    /\ LimitTypeOK
    /\ \A a \in Address :
          /\ InOrder(a)
          /\ IF InWindow(a) THEN WindowSound(a) ELSE Passed(a, Len(admitted[a]) - Limit, moment)
    /\ AtMostTwoWindows
=============================================================================
