--------------------------- MODULE PasswordReset ---------------------------
(***************************************************************************)
(* The emailed reset code: services/auth/password.service.js (forgot,      *)
(* reset), and the sign-ins and renewals of the same account that its      *)
(* transaction cuts off.                                                   *)
(*                                                                         *)
(* A bcrypt comparison or hash, some hundred milliseconds, separates what  *)
(* a request reads from what it writes.  The two transactions are steps:   *)
(* their updates lock the account's rows and the gap behind them, so two   *)
(* of one account take turns or one is rolled back.                        *)
(***************************************************************************)
EXTENDS Integers, FiniteSets

CONSTANTS
    User,         \* rows of `users`
    Request,      \* requests the server may be handling at a time
    None,         \* an empty local
    MaxAttempts,  \* MAX_ATTEMPTS
    MaxTickets    \* bound on the codes ever requested

ASSUME BoundsAssumption == MaxAttempts \in Nat \ {0} /\ MaxTickets \in Nat
ASSUME UserAssumption == None \notin User
ASSUME RequestAssumption == IsFiniteSet(Request)

Ticket == 1 .. MaxTickets    \* rows of `password_resets`, by createdAt

VARIABLES
    issued,      \* tickets inserted so far
    owner,       \* column userId
    live,        \* tickets with consumedAt null
    expired,     \* tickets whose expiresAt has passed
    attempts,    \* column
    password,    \* users.passwordHash: how many times it has been reset
    sessions,    \* the passwords under which an unrevoked session was opened
    pc,          \* where each request stands
    user,        \* the account the request works on
    ticket,      \* the row `reset` has read
    version,     \* the password a sign-in has checked, or its session's
    guesses,     \* history: codes compared with a ticket, but for lost requests
    crossed      \* history: the passwords of sign-ins under way during a reset

tickets == <<issued, owner, live, expired, attempts>>
accounts == <<password, sessions>>
locals == <<pc, user, ticket, version>>
vars == <<tickets, accounts, locals, guesses, crossed>>

Idle == "idle"

TypeOK ==
    /\ issued \in 0 .. MaxTickets
    /\ owner \in [Ticket -> User \cup {None}]
    /\ live \subseteq 1 .. issued
    /\ expired \subseteq 1 .. issued
    /\ attempts \in [Ticket -> 0 .. MaxAttempts]
    /\ password \in [User -> Nat]
    /\ sessions \in [User -> SUBSET Nat]
    /\ pc \in [Request -> {Idle, "bump", "claim", "open"}]
    /\ user \in [Request -> User \cup {None}]
    /\ ticket \in [Request -> Ticket \cup {None}]
    /\ version \in [Request -> Nat]
    /\ guesses \in [Ticket -> Nat]
    /\ crossed \in [User -> SUBSET Nat]

Init ==
    /\ issued = 0 /\ live = {} /\ expired = {}
    /\ owner = [t \in Ticket |-> None]
    /\ attempts = [t \in Ticket |-> 0]
    /\ password = [u \in User |-> 0]
    /\ sessions = [u \in User |-> {}]
    /\ pc = [r \in Request |-> Idle]
    /\ user = [r \in Request |-> None]
    /\ ticket = [r \in Request |-> None]
    /\ version = [r \in Request |-> 0]
    /\ guesses = [t \in Ticket |-> 0]
    /\ crossed = [u \in User |-> {}]

TicketsOf(u) == {t \in 1 .. issued : owner[t] = u}
SigningIn(u) == {r \in Request : pc[r] = "open" /\ user[r] = u}

Finish(r) ==
    /\ pc' = [pc EXCEPT ![r] = Idle]
    /\ user' = [user EXCEPT ![r] = None]
    /\ ticket' = [ticket EXCEPT ![r] = None]
    /\ version' = [version EXCEPT ![r] = 0]

-----------------------------------------------------------------------------
(* POST /api/auth/forgot-password: its transaction voids and issues.       *)
\* Mutant: the older tickets stay redeemable.
ForgotAdding(u) ==
    /\ issued < MaxTickets
    /\ issued' = issued + 1
    /\ owner' = [owner EXCEPT ![issued + 1] = u]
    /\ live' = live \cup {issued + 1}
    /\ UNCHANGED <<expired, attempts, accounts, locals, guesses, crossed>>

Forgot(u) ==
    /\ issued < MaxTickets
    /\ issued' = issued + 1
    /\ owner' = [owner EXCEPT ![issued + 1] = u]
    /\ live' = (live \ TicketsOf(u)) \cup {issued + 1}
    /\ UNCHANGED <<expired, attempts, accounts, locals, guesses, crossed>>

Expire(t) ==
    /\ t \in (1 .. issued) \ expired
    /\ expired' = expired \cup {t}
    /\ UNCHANGED <<issued, owner, live, attempts, accounts, locals, guesses, crossed>>

(* POST /api/auth/reset-password: the newest ticket is read and judged,    *)
(* and the code compared.                                                  *)
Redeemable(u) == (TicketsOf(u) \cap live) \ expired
Newest(t, S) == t \in S /\ \A s \in S : s <= t

\* Mutant: the attempts are not looked at.
PresentUnlocked(r, u, t, right) ==
    /\ pc[r] = Idle
    /\ Newest(t, Redeemable(u))
    /\ pc' = [pc EXCEPT ![r] = IF right THEN "claim" ELSE "bump"]
    /\ user' = [user EXCEPT ![r] = u]
    /\ ticket' = [ticket EXCEPT ![r] = t]
    /\ guesses' = [guesses EXCEPT ![t] = @ + 1]
    /\ UNCHANGED <<tickets, accounts, version, crossed>>

Present(r, u, t, right) ==
    /\ pc[r] = Idle
    /\ Newest(t, Redeemable(u))
    /\ attempts[t] < MaxAttempts
    /\ pc' = [pc EXCEPT ![r] = IF right THEN "claim" ELSE "bump"]
    /\ user' = [user EXCEPT ![r] = u]
    /\ ticket' = [ticket EXCEPT ![r] = t]
    /\ guesses' = [guesses EXCEPT ![t] = @ + 1]
    /\ UNCHANGED <<tickets, accounts, version, crossed>>

(* The conditional increment, never past the cap.                          *)
\* Mutant: the cap is left to the check made before the comparison.
BumpUncapped(r) ==
    /\ pc[r] = "bump"
    /\ attempts' = [attempts EXCEPT ![ticket[r]] = @ + 1]
    /\ Finish(r)
    /\ UNCHANGED <<issued, owner, live, expired, accounts, guesses, crossed>>

Bump(r) ==
    /\ pc[r] = "bump"
    /\ attempts' = [attempts EXCEPT ![ticket[r]] = IF @ < MaxAttempts THEN @ + 1 ELSE @]
    /\ Finish(r)
    /\ UNCHANGED <<issued, owner, live, expired, accounts, guesses, crossed>>

(* The reset transaction: claim the ticket or roll back, write the         *)
(* password, void every other ticket and revoke every session.             *)
\* Mutant: the ticket is consumed by id, whoever consumed it before.
ClaimAgain(r) ==
    LET u == user[r]
    IN  /\ pc[r] = "claim"
        /\ password' = [password EXCEPT ![u] = @ + 1]
        /\ live' = live \ TicketsOf(u)
        /\ sessions' = [sessions EXCEPT ![u] = {}]
        /\ crossed' = [crossed EXCEPT ![u] = @ \cup {version[q] : q \in SigningIn(u)}]
        /\ Finish(r)
        /\ UNCHANGED <<issued, owner, expired, attempts, guesses>>

\* Mutant: the sessions are left alone.
ClaimQuietly(r) ==
    LET u == user[r]
    IN  /\ pc[r] = "claim"
        /\ ticket[r] \in live
        /\ password' = [password EXCEPT ![u] = @ + 1]
        /\ live' = live \ TicketsOf(u)
        /\ crossed' = [crossed EXCEPT ![u] = @ \cup {version[q] : q \in SigningIn(u)}]
        /\ Finish(r)
        /\ UNCHANGED <<issued, owner, expired, attempts, sessions, guesses>>

Claim(r) ==
    LET u == user[r]
    IN  /\ pc[r] = "claim"
        /\ ticket[r] \in live
        /\ password' = [password EXCEPT ![u] = @ + 1]
        /\ live' = live \ TicketsOf(u)
        /\ sessions' = [sessions EXCEPT ![u] = {}]
        /\ crossed' = [crossed EXCEPT ![u] = @ \cup {version[q] : q \in SigningIn(u)}]
        /\ Finish(r)
        /\ UNCHANGED <<issued, owner, expired, attempts, guesses>>

-----------------------------------------------------------------------------
(* POST /api/auth/login checks the password it has read; a refresh goes on *)
(* for the session it has read; both insert a session afterwards.          *)
BeginSession(r, u, v) ==
    /\ pc[r] = Idle
    /\ pc' = [pc EXCEPT ![r] = "open"]
    /\ user' = [user EXCEPT ![r] = u]
    /\ version' = [version EXCEPT ![r] = v]
    /\ UNCHANGED <<tickets, accounts, ticket, guesses, crossed>>

Login(r, u) == BeginSession(r, u, password[u])
Refresh(r, u) == \E v \in sessions[u] : BeginSession(r, u, v)

OpenSession(r) ==
    /\ pc[r] = "open"
    /\ sessions' = [sessions EXCEPT ![user[r]] = @ \cup {version[r]}]
    /\ Finish(r)
    /\ UNCHANGED <<tickets, password, guesses, crossed>>

(* A losing claim, a failed statement, a crash: nothing is written.        *)
Drop(r) ==
    /\ pc[r] # Idle
    /\ guesses' = IF pc[r] = "open" THEN guesses ELSE [guesses EXCEPT ![ticket[r]] = @ - 1]
    /\ Finish(r)
    /\ UNCHANGED <<tickets, accounts, crossed>>

-----------------------------------------------------------------------------
Next ==
    \/ \E u \in User : Forgot(u)
    \/ \E t \in Ticket : Expire(t)
    \/ \E r \in Request :
        \/ \E u \in User, t \in Ticket, right \in BOOLEAN : Present(r, u, t, right)
        \/ \E u \in User : Login(r, u) \/ Refresh(r, u)
        \/ Bump(r) \/ Claim(r) \/ OpenSession(r) \/ Drop(r)

Spec == Init /\ [][Next]_vars

-----------------------------------------------------------------------------
(* "Exactly one live code per user" (password.service.js:21): however      *)
(* forgot, reset and lost requests interleave, no older code survives.     *)
OneLiveCode ==
    \A t, s \in live : owner[t] = owner[s] => t = s

(* "Single-use" (password.service.js:5): of the resets presented with one  *)
(* code at a time only one writes a password, so that an account has had   *)
(* no more resets than it has spent codes.                                 *)
Spent(u) == TicketsOf(u) \ live
SingleUse == \A u \in User : password[u] <= Cardinality(Spent(u))

(* A reset only ever goes through with the newest code of its account: one *)
(* that has been voided while its bcrypt ran loses, whoever voided it.     *)
OnlyNewestResets ==
    [][\A u \in User :
          password'[u] # password[u] =>
              \E r \in Request :
                  /\ pc[r] = "claim" /\ pc'[r] = Idle /\ user[r] = u
                  /\ ticket[r] \in live /\ Newest(ticket[r], TicketsOf(u))]_vars

(* How many codes can be tried against one ticket: the cap, and one more   *)
(* for each other request that had passed the check before the last        *)
(* increment (password.service.js:86, 91).  A lost one is not counted.     *)
GuessesBounded ==
    \A t \in Ticket : guesses[t] < MaxAttempts + Cardinality(Request)

(* A reset ends every session (password.service.js:120): one that was      *)
(* opened under an older password exists only if its sign-in or renewal    *)
(* was between its check and its insert while the reset committed.         *)
ResetEndsSessions ==
    \A u \in User : \A v \in sessions[u] : v = password[u] \/ v \in crossed[u]

(* What a request has secured by the time it writes.                       *)
InFlightSound ==
    \A r \in Request :
        /\ pc[r] # Idle => user[r] \in User
        /\ pc[r] \in {"bump", "claim"} => ticket[r] \in TicketsOf(user[r])
        /\ pc[r] = "open" =>
              version[r] = password[user[r]] \/ version[r] \in crossed[user[r]]

(* A live code is the newest of its account.                               *)
LiveIsNewest == \A t \in live : owner[t] \in User /\ Newest(t, TicketsOf(owner[t]))

(* A code that can still be guessed has been compared once for each        *)
(* counted attempt and once for each request not finished yet.             *)
Presenting(t) == {r \in Request : pc[r] \in {"bump", "claim"} /\ ticket[r] = t}
GuessesCounted ==
    \A t \in Ticket :
        /\ Cardinality(Presenting(t)) <= guesses[t]
        /\ t \in live /\ attempts[t] < MaxAttempts =>
              guesses[t] = attempts[t] + Cardinality(Presenting(t))
        /\ t > issued => guesses[t] = 0 /\ attempts[t] = 0

\* The inductive invariant of PasswordResetProofs.
ResetInv ==
    /\ TypeOK
    /\ InFlightSound
    /\ LiveIsNewest
    /\ GuessesCounted
    /\ SingleUse
    /\ GuessesBounded
    /\ ResetEndsSessions

(* "Locked after 5 wrong tries" (password.service.js:6): no ticket is ever *)
(* compared with one code more.                                            *)
LockedAfterFive == \A t \in Ticket : guesses[t] <= MaxAttempts
=============================================================================
