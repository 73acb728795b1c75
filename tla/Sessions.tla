------------------------------ MODULE Sessions ------------------------------
(***************************************************************************)
(* The refresh_tokens table and the requests that work on it:              *)
(* services/auth/refresh.service.js (issue, consume, rotate, revoke,       *)
(* revokeFamily, revokeAllFor) as controllers/auth/refresh.controller.js   *)
(* drives it, and the marketplace sign-ins that open a session.            *)
(*                                                                         *)
(* Every database statement is one step.  Between two statements of one    *)
(* request the server awaits, so the statements of other requests          *)
(* interleave there, and a crash or a failed statement drops the request   *)
(* with what it has written so far in the table.                           *)
(***************************************************************************)
EXTENDS Integers

CONSTANTS
    Token,       \* row ids; each stands for one raw token and its hash
    Account,     \* rows of `users`
    Request,     \* requests the server may be handling at a time
    None,        \* the SQL NULL of replacedById, and an empty local
    Ttl,         \* refreshTokenTtlDays, in ticks
    Grace,       \* PURGE_GRACE_DAYS, in ticks
    MaxTime      \* bound of the clock

ASSUME NoneAssumption == None \notin Token
ASSUME TimeAssumption == Ttl \in Nat \ {0} /\ Grace \in Nat /\ MaxTime \in Nat

VARIABLES
    minted,        \* ids drawn so far (crypto.randomBytes never repeats one)
    stored,        \* ids whose row is in the table
    familyId,      \* column; a family is named by the id of its first row
    subjectId,     \* column
    expiresAt,     \* column
    consumed,      \* rows with consumedAt set (kept for rows since purged)
    revoked,       \* rows with revokedAt set (kept for rows since purged)
    replacedById,  \* column
    active,        \* accounts with isActive true
    now,           \* Date.now()
    pc,            \* where each request stands
    row,           \* the token row the request has read
    acct,          \* the account the request acts for
    made,          \* the row the request has inserted
    delivered,     \* tokens whose raw value was sent in a response
    parent,        \* history: the row a row was rotated from
    raced          \* history: rows `consume` accepted while another request it
                   \* had accepted the same row for was still under way

columns == <<minted, stored, familyId, subjectId, expiresAt, consumed, revoked,
             replacedById, parent, raced>>
locals == <<row, acct, made>>
vars == <<columns, active, now, pc, locals, delivered>>

Idle == "idle"
PC == {Idle, "resolve", "insert", "purge", "mark", "respond", "revoke"}

TypeOK ==
    /\ minted \subseteq Token
    /\ stored \subseteq minted
    /\ familyId \in [Token -> Token \cup {None}]
    /\ subjectId \in [Token -> Account \cup {None}]
    /\ expiresAt \in [Token -> Nat]
    /\ consumed \subseteq minted
    /\ revoked \subseteq minted
    /\ replacedById \in [Token -> Token \cup {None}]
    /\ active \subseteq Account
    /\ now \in Nat
    /\ pc \in [Request -> PC]
    /\ row \in [Request -> Token \cup {None}]
    /\ acct \in [Request -> Account \cup {None}]
    /\ made \in [Request -> Token \cup {None}]
    /\ delivered \subseteq minted
    /\ parent \in [Token -> Token \cup {None}]
    /\ raced \subseteq minted

Init ==
    /\ minted = {} /\ stored = {} /\ consumed = {} /\ revoked = {} /\ delivered = {}
    /\ raced = {}
    /\ familyId = [t \in Token |-> None]
    /\ subjectId = [t \in Token |-> None]
    /\ expiresAt = [t \in Token |-> 0]
    /\ replacedById = [t \in Token |-> None]
    /\ parent = [t \in Token |-> None]
    /\ active = Account
    /\ now = 0
    /\ pc = [r \in Request |-> Idle]
    /\ row = [r \in Request |-> None]
    /\ acct = [r \in Request |-> None]
    /\ made = [r \in Request |-> None]

-----------------------------------------------------------------------------
(* Helpers: what the WHERE clauses select.                                 *)

FamilyRows(f) == {t \in stored : familyId[t] = f}
AccountRows(a) == {t \in stored : subjectId[t] = a}
Expired(t) == expiresAt[t] <= now
\* Mutant: the sweep also takes expired rows that were never rotated.
PurgeableUnused(a) ==
    {t \in AccountRows(a) : expiresAt[t] < now - Grace \/ (Expired(t) /\ t \notin consumed)}

Purgeable(a) == {t \in AccountRows(a) : expiresAt[t] < now - Grace}

Goto(r, where) == pc' = [pc EXCEPT ![r] = where]

\* The answer is sent or the request is dropped: its locals are gone.
Finish(r) ==
    /\ Goto(r, Idle)
    /\ row' = [row EXCEPT ![r] = None]
    /\ acct' = [acct EXCEPT ![r] = None]
    /\ made' = [made EXCEPT ![r] = None]

-----------------------------------------------------------------------------
(* POST /api/auth/login and /register: the account is read and accepted,   *)
(* then `issue` runs with no family.                                       *)
SignIn(r, a) ==
    /\ pc[r] = Idle
    /\ a \in active
    /\ Goto(r, "insert")
    /\ acct' = [acct EXCEPT ![r] = a]
    /\ UNCHANGED <<columns, active, now, row, made, delivered>>

(* POST /api/auth/refresh, first statement: `consume` selects the row and  *)
(* judges it.  It writes nothing: consumedAt is set by Mark alone.         *)
Consumable(t) == t \notin consumed /\ ~Expired(t)

Accepted(r, t) == row[r] = t /\ pc[r] \in {"resolve", "insert", "purge", "mark", "respond"}

\* Mutant: the revokedAt check is missing.
ConsumeRevoked(r, t) ==
    /\ pc[r] = Idle
    /\ t \in delivered \cap stored
    /\ Goto(r, IF Consumable(t) THEN "resolve" ELSE "revoke")
    /\ row' = [row EXCEPT ![r] = t]
    /\ acct' = [acct EXCEPT ![r] = subjectId[t]]
    /\ UNCHANGED <<columns, active, now, made, delivered>>

Consume(r, t) ==
    /\ pc[r] = Idle
    /\ t \in delivered \cap stored
    /\ t \notin revoked
    /\ Goto(r, IF Consumable(t) THEN "resolve" ELSE "revoke")
    /\ row' = [row EXCEPT ![r] = t]
    /\ acct' = [acct EXCEPT ![r] = subjectId[t]]
    /\ raced' = IF Consumable(t) /\ \E q \in Request : Accepted(q, t)
                THEN raced \cup {t} ELSE raced
    /\ UNCHANGED <<minted, stored, familyId, subjectId, expiresAt, consumed, revoked,
                   replacedById, parent, active, now, made, delivered>>

(* `resolveSubject` re-reads the account; a missing or disabled one throws *)
(* and the catch closes the family.                                        *)
\* Mutant: the row is marked before its successor exists.
ResolveSubjectMarks(r) ==
    /\ pc[r] = "resolve"
    /\ Goto(r, IF acct[r] \in active THEN "insert" ELSE "revoke")
    /\ consumed' = IF acct[r] \in active THEN consumed \cup {row[r]} ELSE consumed
    /\ UNCHANGED <<minted, stored, familyId, subjectId, expiresAt, revoked, replacedById,
                   parent, raced, active, now, locals, delivered>>

ResolveSubject(r) ==
    /\ pc[r] = "resolve"
    /\ Goto(r, IF acct[r] \in active THEN "insert" ELSE "revoke")
    /\ UNCHANGED <<columns, active, now, locals, delivered>>

(* The same catch runs when the select itself fails.                       *)
ResolveFault(r) ==
    /\ pc[r] = "resolve"
    /\ Goto(r, "revoke")
    /\ UNCHANGED <<columns, active, now, locals, delivered>>

(* `issue`, the insert: into the family of the row read, or a family of    *)
(* its own.                                                                *)
\* Mutant: `rotate` forgets to pass the family on.
FamilyForNew(r, t) == t

FamilyFor(r, t) == IF row[r] = None THEN t ELSE familyId[row[r]]

\* Mutant: the lifetime is subtracted.
InsertExpired(r, t) ==
    /\ pc[r] = "insert"
    /\ t \in Token \ minted
    /\ minted' = minted \cup {t}
    /\ stored' = stored \cup {t}
    /\ familyId' = [familyId EXCEPT ![t] = FamilyFor(r, t)]
    /\ subjectId' = [subjectId EXCEPT ![t] = acct[r]]
    /\ expiresAt' = [expiresAt EXCEPT ![t] = now - Ttl]
    /\ parent' = [parent EXCEPT ![t] = row[r]]
    /\ made' = [made EXCEPT ![r] = t]
    /\ Goto(r, "purge")
    /\ UNCHANGED <<consumed, revoked, replacedById, raced, active, now, row, acct, delivered>>

Insert(r, t) ==
    /\ pc[r] = "insert"
    /\ t \in Token \ minted
    /\ minted' = minted \cup {t}
    /\ stored' = stored \cup {t}
    /\ familyId' = [familyId EXCEPT ![t] = FamilyFor(r, t)]
    /\ subjectId' = [subjectId EXCEPT ![t] = acct[r]]
    /\ expiresAt' = [expiresAt EXCEPT ![t] = now + Ttl]
    /\ parent' = [parent EXCEPT ![t] = row[r]]
    /\ made' = [made EXCEPT ![r] = t]
    /\ Goto(r, "purge")
    /\ UNCHANGED <<consumed, revoked, replacedById, raced, active, now, row, acct, delivered>>

(* `issue`, the sweep of the account's long-expired rows.                  *)
Purge(r) ==
    /\ pc[r] = "purge"
    /\ stored' = stored \ Purgeable(acct[r])
    /\ Goto(r, IF row[r] = None THEN "respond" ELSE "mark")
    /\ UNCHANGED <<minted, familyId, subjectId, expiresAt, consumed, revoked,
                   replacedById, parent, raced, active, now, locals, delivered>>

(* `rotate`, last statement: an UPDATE by id, which matches nothing when   *)
(* the row has been purged meanwhile.                                      *)
\* Mutant: consumedAt is left out of the update.
MarkLink(r) ==
    /\ pc[r] = "mark"
    /\ replacedById' = IF row[r] \in stored
                       THEN [replacedById EXCEPT ![row[r]] = made[r]] ELSE replacedById
    /\ Goto(r, "respond")
    /\ UNCHANGED <<minted, stored, familyId, subjectId, expiresAt, consumed, revoked, parent,
                   raced, active, now, locals, delivered>>

Mark(r) ==
    /\ pc[r] = "mark"
    /\ IF row[r] \in stored
       THEN /\ consumed' = consumed \cup {row[r]}
            /\ replacedById' = [replacedById EXCEPT ![row[r]] = made[r]]
       ELSE UNCHANGED <<consumed, replacedById>>
    /\ Goto(r, "respond")
    /\ UNCHANGED <<minted, stored, familyId, subjectId, expiresAt, revoked, parent,
                   raced, active, now, locals, delivered>>

Respond(r) ==
    /\ pc[r] = "respond"
    /\ delivered' = delivered \cup {made[r]}
    /\ Finish(r)
    /\ UNCHANGED <<columns, active, now>>

(* POST /api/auth/logout with a token: `revoke` finds the row, whatever    *)
(* its state, and goes on to close its family.                             *)
Logout(r, t) ==
    /\ pc[r] = Idle
    /\ t \in delivered \cap stored
    /\ Goto(r, "revoke")
    /\ row' = [row EXCEPT ![r] = t]
    /\ acct' = [acct EXCEPT ![r] = subjectId[t]]
    /\ UNCHANGED <<columns, active, now, made, delivered>>

RevokeFamily(r) ==
    /\ pc[r] = "revoke"
    /\ revoked' = revoked \cup FamilyRows(familyId[row[r]])
    /\ Finish(r)
    /\ UNCHANGED <<minted, stored, familyId, subjectId, expiresAt, consumed,
                   replacedById, parent, raced, active, now, delivered>>

(* `revokeAllFor` in one statement: "sign out everywhere", and the end of  *)
(* a password reset (whose transaction commits it together with the new    *)
(* password).  Only marketplace sessions exist: see the README on          *)
(* `issueFor`.                                                             *)
RevokeAllFor(a) ==
    /\ revoked' = revoked \cup AccountRows(a)
    /\ UNCHANGED <<minted, stored, familyId, subjectId, expiresAt, consumed,
                   replacedById, parent, raced, active, now, pc, locals, delivered>>

(* A crash, a failed statement or a lost connection: nothing is undone.    *)
Abort(r) ==
    /\ pc[r] # Idle
    /\ Finish(r)
    /\ UNCHANGED <<columns, active, now, delivered>>

(* Moderation and account administration set users.isActive.               *)
Disable(a) ==
    /\ a \in active
    /\ active' = active \ {a}
    /\ UNCHANGED <<columns, now, pc, locals, delivered>>

Enable(a) ==
    /\ a \in Account \ active
    /\ active' = active \cup {a}
    /\ UNCHANGED <<columns, now, pc, locals, delivered>>

Tick ==
    /\ now < MaxTime
    /\ now' = now + 1
    /\ UNCHANGED <<columns, active, pc, locals, delivered>>

-----------------------------------------------------------------------------
Next ==
    \/ \E r \in Request :
        \/ \E a \in Account : SignIn(r, a)
        \/ \E t \in Token : Consume(r, t) \/ Logout(r, t) \/ Insert(r, t)
        \/ ResolveSubject(r) \/ ResolveFault(r)
        \/ Purge(r) \/ Mark(r) \/ Respond(r) \/ RevokeFamily(r) \/ Abort(r)
    \/ \E a \in Account : RevokeAllFor(a) \/ Disable(a) \/ Enable(a)
    \/ Tick

Spec == Init /\ [][Next]_vars

-----------------------------------------------------------------------------
(* A row a refresh would accept, expiry aside.                             *)
Live(t) == t \in stored /\ t \notin revoked /\ t \notin consumed

(* Rotation writes the successor before it marks the presented row, so     *)
(* that a crash in between leaves a token that still works                 *)
(* (refresh.service.js:234): a session that was not revoked always has a   *)
(* live row, and one that lasts at least as long as each row it has, over  *)
(* every interleaving of renewals, purges, revocations and crashes.        *)
NeverStranded ==
    \A t \in stored \ revoked :
        \E u \in FamilyRows(familyId[t]) : Live(u) /\ expiresAt[u] >= expiresAt[t]

(* replacedById never dangles and never leaves the session: a consumed row *)
(* points to a row of the same family and account that is still in the     *)
(* table, although nothing but the order of expiry keeps the sweep of      *)
(* `issue` from deleting it first.                                         *)
SuccessorSound ==
    \A t \in stored \cap consumed :
        /\ replacedById[t] \in stored \ {t}
        /\ familyId[replacedById[t]] = familyId[t]
        /\ subjectId[replacedById[t]] = subjectId[t]
        /\ expiresAt[t] <= expiresAt[replacedById[t]]

(* Of a token that was not raced, one presentation at most is under way    *)
(* or answered, and an answered one has left its mark.                     *)
PresentationsSound ==
    /\ \A r \in Request : made[r] # None => parent[made[r]] = row[r]
    /\ \A p \in Token \ raced :
          /\ \A r, q \in Request : Accepted(r, p) /\ Accepted(q, p) => r = q
          /\ \A t \in delivered : parent[t] = p => \A r \in Request : ~Accepted(r, p)
          /\ \/ \E r \in Request : Accepted(r, p) /\ pc[r] = "respond"
             \/ \E t \in delivered : parent[t] = p
             => p \in consumed \/ p \notin stored

(* What a request in flight may rely on, whatever the others do between    *)
(* its statements: the row it inserted is known to nobody else and not     *)
(* consumed, belongs to the session and account of the row it read, lasts  *)
(* at least as long, and is purged or revoked only if that row is.         *)
InFlightSound ==
    \A r \in Request :
        /\ pc[r] = Idle => row[r] = None /\ acct[r] = None
        /\ pc[r] # Idle => acct[r] \in Account
        /\ pc[r] \in {"resolve", "mark", "revoke"} => row[r] # None
        /\ row[r] # None => row[r] \in delivered /\ subjectId[row[r]] = acct[r]
        /\ pc[r] \notin {"purge", "mark", "respond"} => made[r] = None
        /\ pc[r] \in {"purge", "mark", "respond"} =>
              /\ made[r] \in minted \ (delivered \cup consumed)
              /\ subjectId[made[r]] = acct[r]
              /\ \A q \in Request \ {r} : made[q] # made[r]
        /\ pc[r] \in {"purge", "mark"} /\ row[r] # None =>
              /\ familyId[made[r]] = familyId[row[r]]
              /\ expiresAt[row[r]] <= expiresAt[made[r]]
              /\ row[r] \in stored =>
                    made[r] \in stored /\ (made[r] \in revoked => row[r] \in revoked)

(* The rows themselves: a family is named by a row of its own and its      *)
(* account, no row outlives the one a sign-in would make now, and an id    *)
(* never drawn names nothing.                                              *)
RowsSound ==
    /\ \A t \in minted :
          /\ familyId[t] \in minted
          /\ familyId[familyId[t]] = familyId[t]
          /\ subjectId[t] \in Account
          /\ subjectId[familyId[t]] = subjectId[t]
          /\ expiresAt[t] <= now + Ttl
          /\ parent[t] \in minted \cup {None}
    /\ \A t \in Token \ minted : familyId[t] = None

(* The family is over and no renewal it has accepted is still on its way.  *)
Renewing(f) ==
    {r \in Request : pc[r] \in {"resolve", "insert"} /\ row[r] # None /\ familyId[row[r]] = f}
IsFamily(f) == familyId[f] = f
Closed(f) == IsFamily(f) /\ FamilyRows(f) \subseteq revoked /\ Renewing(f) = {}

(* A closed session stays closed: no token of it, consumed, revoked or     *)
(* purged, brings it back once the renewals in flight have drained.        *)
ClosedStaysClosed == [][\A f \in Token : Closed(f) => Closed(f)']_vars

(* "The presented one is consumed, so presenting it twice is detectable"   *)
(* (refresh.controller.js:76): no token is answered with two successors.   *)
PresentedOnce ==
    \A t, u \in delivered : parent[t] # None /\ parent[t] = parent[u] => t = u

(* What does hold of it: two successors of one token are handed out only   *)
(* if two presentations overlapped, the second being read between the      *)
(* first one's read and its mark.  Once a presentation has been answered,  *)
(* the next one of that token is refused, however it interleaves.          *)
NoSilentReplay ==
    \A t, u \in delivered :
        parent[t] # None /\ parent[t] = parent[u] /\ parent[t] \notin raced => t = u

(* "The entire family is revoked" (refresh.service.js:17): a session with  *)
(* a revoked row has no row that still works.                              *)
RevokedAsAWhole ==
    \A t \in revoked, u \in stored : familyId[t] = familyId[u] => u \in revoked

\* The inductive invariant of SessionsProofs.
SessionInv ==
    /\ TypeOK
    /\ RowsSound
    /\ InFlightSound
    /\ PresentationsSound
    /\ NeverStranded
    /\ SuccessorSound
    /\ NoSilentReplay

-----------------------------------------------------------------------------
(* What a session promises its account, without rows or statements.        *)
Status(f) ==
    IF ~IsFamily(f) THEN "none"
    ELSE IF FamilyRows(f) \subseteq revoked THEN "ended" ELSE "open"

Lifecycle == INSTANCE SessionLifecycle WITH
    Session <- Token,
    status <- [f \in Token |-> Status(f)],
    renewing <- [f \in Token |-> Renewing(f)]

ImplementsLifecycle == Lifecycle!Spec
=============================================================================
