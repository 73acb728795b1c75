-------------------------- MODULE SessionLifecycle --------------------------
(***************************************************************************)
(* What the refresh-token service promises of one session (one rotation    *)
(* family), with no rows, statements or clock: it is opened once, renewals *)
(* are accepted only while it is open, and once ended it can come back     *)
(* only through a renewal that had been accepted before the end.           *)
(***************************************************************************)
CONSTANTS Session, Request

VARIABLES
    status,     \* "none", "open" or "ended"
    renewing    \* the renewals a session has accepted and not yet completed

vars == <<status, renewing>>

TypeOK ==
    /\ status \in [Session -> {"none", "open", "ended"}]
    /\ renewing \in [Session -> SUBSET Request]

Init ==
    /\ status = [s \in Session |-> "none"]
    /\ renewing = [s \in Session |-> {}]

\* A sign-in.
Open(s) ==
    /\ status[s] = "none"
    /\ status' = [status EXCEPT ![s] = "open"]
    /\ UNCHANGED renewing

\* A refresh whose token was judged good.
Accept(s, r) ==
    /\ status[s] = "open"
    /\ renewing' = [renewing EXCEPT ![s] = @ \cup {r}]
    /\ UNCHANGED status

\* It stores its successor, in a session that may have ended meanwhile.
Renew(s, r) ==
    /\ r \in renewing[s]
    /\ status' = [status EXCEPT ![s] = "open"]
    /\ renewing' = [renewing EXCEPT ![s] = @ \ {r}]

\* It is refused, or dropped.
GiveUp(s, r) ==
    /\ r \in renewing[s]
    /\ renewing' = [renewing EXCEPT ![s] = @ \ {r}]
    /\ UNCHANGED status

\* Logout, replay, expiry and disabled account end one session, a password
\* reset or the sweep may end several at once.
End(S) ==
    /\ \A s \in S : status[s] = "open"
    /\ status' = [s \in Session |-> IF s \in S THEN "ended" ELSE status[s]]
    /\ UNCHANGED renewing

Next ==
    \/ \E s \in Session : Open(s)
    \/ \E s \in Session, r \in Request : Accept(s, r) \/ Renew(s, r) \/ GiveUp(s, r)
    \/ \E S \in SUBSET Session : End(S)

Spec == Init /\ [][Next]_vars
=============================================================================
