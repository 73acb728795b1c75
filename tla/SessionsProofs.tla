--------------------------- MODULE SessionsProofs ---------------------------
(***************************************************************************)
(* SessionInv is an invariant of the refresh-token service for any number  *)
(* of rows, accounts and requests, any lifetime and any grace period; from *)
(* it follow the safety theorems of Sessions, for every instance.          *)
(***************************************************************************)
EXTENDS Sessions, TLAPS

(* The initial, empty table satisfies the invariant.                       *)
LEMMA InitSound == Init => SessionInv
<1> SUFFICES ASSUME Init PROVE SessionInv
  OBVIOUS
<1> USE NoneAssumption, TimeAssumption DEF Init
<1>1. TypeOK
  BY DEF TypeOK, PC, Idle
<1>2. RowsSound
  BY DEF RowsSound
<1>3. InFlightSound
  BY DEF InFlightSound, Idle
<1>4. NeverStranded /\ SuccessorSound /\ NoSilentReplay
  BY DEF NeverStranded, SuccessorSound, NoSilentReplay
<1>5. PresentationsSound
  BY DEF PresentationsSound, Accepted, Idle
<1> QED
  BY <1>1, <1>2, <1>3, <1>4, <1>5 DEF SessionInv

(* Types are kept by every step.                                           *)
LEMMA TypeStep == SessionInv /\ [Next]_vars => TypeOK'
<1> SUFFICES ASSUME SessionInv, [Next]_vars PROVE TypeOK'
  OBVIOUS
<1> USE NoneAssumption, TimeAssumption DEF SessionInv, TypeOK, PC, Idle, columns, locals,
        Goto, Finish
<1>1. ASSUME NEW r \in Request, NEW a \in Account, SignIn(r, a) PROVE TypeOK'
  BY <1>1 DEF SignIn
<1>2. ASSUME NEW r \in Request, NEW t \in Token, Consume(r, t) PROVE TypeOK'
  BY <1>2 DEF Consume
<1>3. ASSUME NEW r \in Request, NEW t \in Token, Logout(r, t) PROVE TypeOK'
  BY <1>3 DEF Logout
<1>4. ASSUME NEW r \in Request, NEW t \in Token, Insert(r, t) PROVE TypeOK'
  BY <1>4 DEF Insert, FamilyFor
<1>5. ASSUME NEW r \in Request, ResolveSubject(r) \/ ResolveFault(r) PROVE TypeOK'
  BY <1>5 DEF ResolveSubject, ResolveFault
<1>6. ASSUME NEW r \in Request, Purge(r) PROVE TypeOK'
  BY <1>6 DEF Purge
<1>7. ASSUME NEW r \in Request, Mark(r) PROVE TypeOK'
  BY <1>7 DEF Mark
<1>8. ASSUME NEW r \in Request, Respond(r) PROVE TypeOK'
  BY <1>8 DEF Respond, InFlightSound
<1>9. ASSUME NEW r \in Request, RevokeFamily(r) PROVE TypeOK'
  BY <1>9 DEF RevokeFamily, FamilyRows
<1>10. ASSUME NEW r \in Request, Abort(r) PROVE TypeOK'
  BY <1>10 DEF Abort
<1>11. ASSUME NEW a \in Account, RevokeAllFor(a) \/ Disable(a) \/ Enable(a) PROVE TypeOK'
  BY <1>11 DEF RevokeAllFor, AccountRows, Disable, Enable
<1>12. CASE Tick
  BY <1>12 DEF Tick
<1>13. CASE UNCHANGED vars
  BY <1>13 DEF vars
<1> QED
  BY <1>1, <1>2, <1>3, <1>4, <1>5, <1>6, <1>7, <1>8, <1>9, <1>10, <1>11, <1>12, <1>13
  DEF Next

(* The rows change in six ways only; every other step leaves the columns   *)
(* that the invariants below speak of as they are.                         *)
rowState == <<minted, stored, familyId, subjectId, expiresAt, consumed, revoked,
              replacedById, parent>>

LEMMA RowChanges ==
    [Next]_vars =>
        \/ UNCHANGED rowState /\ (UNCHANGED now \/ Tick)
        \/ \E r \in Request, t \in Token : Insert(r, t)
        \/ \E r \in Request : Purge(r) \/ Mark(r) \/ RevokeFamily(r)
        \/ \E a \in Account : RevokeAllFor(a)
<1> SUFFICES ASSUME [Next]_vars,
                    ~ \E r \in Request, t \in Token : Insert(r, t),
                    ~ \E r \in Request : Purge(r) \/ Mark(r) \/ RevokeFamily(r),
                    ~ \E a \in Account : RevokeAllFor(a)
             PROVE  UNCHANGED rowState /\ (UNCHANGED now \/ Tick)
  OBVIOUS
<1> USE DEF rowState, columns
<1>1. ASSUME NEW r \in Request, NEW a \in Account, SignIn(r, a)
      PROVE  UNCHANGED rowState /\ UNCHANGED now
  BY <1>1 DEF SignIn
<1>2. ASSUME NEW r \in Request, NEW t \in Token, Consume(r, t) \/ Logout(r, t)
      PROVE  UNCHANGED rowState /\ UNCHANGED now
  BY <1>2 DEF Consume, Logout
<1>3. ASSUME NEW r \in Request,
             ResolveSubject(r) \/ ResolveFault(r) \/ Respond(r) \/ Abort(r)
      PROVE  UNCHANGED rowState /\ UNCHANGED now
  BY <1>3 DEF ResolveSubject, ResolveFault, Respond, Abort
<1>4. ASSUME NEW a \in Account, Disable(a) \/ Enable(a)
      PROVE  UNCHANGED rowState /\ UNCHANGED now
  BY <1>4 DEF Disable, Enable
<1>5. ASSUME Tick PROVE UNCHANGED rowState
  BY <1>5 DEF Tick
<1>6. ASSUME UNCHANGED vars PROVE UNCHANGED rowState /\ UNCHANGED now
  BY <1>6 DEF vars
<1> QED
  BY <1>1, <1>2, <1>3, <1>4, <1>5, <1>6 DEF Next

(* Rows keep their family, account and bounded lifetime: only an insert    *)
(* writes those columns, and time only lengthens the bound.                *)
LEMMA RowsStep == SessionInv /\ [Next]_vars => RowsSound'
<1> SUFFICES ASSUME SessionInv, [Next]_vars PROVE RowsSound'
  OBVIOUS
<1> USE TimeAssumption DEF SessionInv, TypeOK, RowsSound
<1>1. ASSUME NEW r \in Request, NEW t \in Token, Insert(r, t) PROVE RowsSound'
  <2>1. t \notin minted /\ acct[r] \in Account
    BY <1>1 DEF Insert, InFlightSound, Idle
  <2>2. CASE row[r] = None
    BY <1>1, <2>1, <2>2 DEF Insert, FamilyFor
  <2>3. CASE row[r] # None
    <3>1. row[r] \in minted /\ subjectId[row[r]] = acct[r]
      BY <2>3 DEF InFlightSound
    <3> QED
      BY <1>1, <2>1, <2>3, <3>1 DEF Insert, FamilyFor
  <2> QED
    BY <2>2, <2>3
<1>2. ASSUME NEW r \in Request, Purge(r) \/ Mark(r) \/ RevokeFamily(r) PROVE RowsSound'
  BY <1>2 DEF Purge, Mark, RevokeFamily
<1>3. ASSUME NEW a \in Account, RevokeAllFor(a) PROVE RowsSound'
  BY <1>3 DEF RevokeAllFor
<1>4. CASE UNCHANGED rowState /\ (UNCHANGED now \/ Tick)
  BY <1>4 DEF rowState, Tick
<1> QED
  BY <1>1, <1>2, <1>3, <1>4, RowChanges

(* No step, of the request itself or of another, breaks what a request in  *)
(* flight relies on.                                                       *)
LEMMA InFlightStep == SessionInv /\ [Next]_vars => InFlightSound'
<1> SUFFICES ASSUME SessionInv, [Next]_vars PROVE InFlightSound'
  OBVIOUS
<1> USE NoneAssumption, TimeAssumption
    DEF SessionInv, TypeOK, Idle, columns, locals, Goto, Finish, InFlightSound
<1>1. ASSUME NEW r \in Request, NEW a \in Account, SignIn(r, a) PROVE InFlightSound'
  BY <1>1 DEF SignIn
<1>2. ASSUME NEW r \in Request, NEW t \in Token, Consume(r, t) PROVE InFlightSound'
  BY <1>2 DEF Consume, RowsSound
<1>3. ASSUME NEW r \in Request, NEW t \in Token, Logout(r, t) PROVE InFlightSound'
  BY <1>3 DEF Logout, RowsSound
<1>4. ASSUME NEW r \in Request, NEW t \in Token, Insert(r, t) PROVE InFlightSound'
  \* The id is new, hence nobody else's; the row read expires no later than
  \* now + Ttl, the expiry of its successor.
  BY <1>4 DEF Insert, FamilyFor, RowsSound
<1>5. ASSUME NEW r \in Request, ResolveSubject(r) \/ ResolveFault(r) PROVE InFlightSound'
  BY <1>5 DEF ResolveSubject, ResolveFault
<1>6. ASSUME NEW r \in Request, Purge(r) PROVE InFlightSound'
  \* A purged successor was due for purging later than its predecessor, of
  \* the same account, which is therefore purged by the same statement.
  BY <1>6 DEF Purge, Purgeable, AccountRows
<1>7. ASSUME NEW r \in Request, Mark(r) PROVE InFlightSound'
  \* The row marked was delivered: it is nobody's fresh row.
  BY <1>7 DEF Mark
<1>8. ASSUME NEW r \in Request, Respond(r) PROVE InFlightSound'
  BY <1>8 DEF Respond
<1>9. ASSUME NEW r \in Request, RevokeFamily(r) PROVE InFlightSound'
  \* It closes whole families, so a successor together with its predecessor.
  BY <1>9 DEF RevokeFamily, FamilyRows
<1>10. ASSUME NEW a \in Account, RevokeAllFor(a) PROVE InFlightSound'
  BY <1>10 DEF RevokeAllFor, AccountRows
<1>11. ASSUME NEW r \in Request, Abort(r) PROVE InFlightSound'
  BY <1>11 DEF Abort
<1>12. ASSUME NEW a \in Account, Disable(a) \/ Enable(a) PROVE InFlightSound'
  BY <1>12 DEF Disable, Enable
<1>13. CASE Tick \/ UNCHANGED vars
  BY <1>13 DEF Tick, vars
<1> QED
  BY <1>1, <1>2, <1>3, <1>4, <1>5, <1>6, <1>7, <1>8, <1>9, <1>10, <1>11, <1>12, <1>13
  DEF Next

(* No step strands a session.                                              *)
LEMMA StrandedStep == SessionInv /\ [Next]_vars => NeverStranded'
<1> SUFFICES ASSUME SessionInv, [Next]_vars PROVE NeverStranded'
  OBVIOUS
<1> USE DEF SessionInv, TypeOK, NeverStranded, Live, FamilyRows
<1>1. ASSUME NEW r \in Request, NEW t \in Token, Insert(r, t) PROVE NeverStranded'
  \* The new row is live, and every older row keeps its witness.
  BY <1>1, TimeAssumption DEF Insert, FamilyFor
<1>2. ASSUME NEW r \in Request, Purge(r) PROVE NeverStranded'
  <2> SUFFICES ASSUME NEW t \in stored' \ revoked'
               PROVE  \E u \in FamilyRows(familyId[t])' : Live(u)' /\ expiresAt'[u] >= expiresAt'[t]
    OBVIOUS
  <2>1. PICK u \in FamilyRows(familyId[t]) : Live(u) /\ expiresAt[u] >= expiresAt[t]
    BY <1>2 DEF Purge
  <2>2. subjectId[u] = subjectId[t]
    BY <2>1, <1>2 DEF RowsSound, Purge
  <2>3. u \notin Purgeable(acct[r])
    \* Otherwise t, which expires no later, would have been purged with it.
    BY <1>2, <2>1, <2>2, TimeAssumption DEF Purge, Purgeable, AccountRows
  <2> QED
    BY <1>2, <2>1, <2>3 DEF Purge
<1>3. ASSUME NEW r \in Request, Mark(r) PROVE NeverStranded'
  <2>1. CASE row[r] \notin stored
    BY <1>3, <2>1 DEF Mark
  <2>2. CASE row[r] \in stored
    <3>1. /\ made[r] \in stored \ consumed
          /\ made[r] # row[r]
          /\ familyId[made[r]] = familyId[row[r]]
          /\ expiresAt[row[r]] <= expiresAt[made[r]]
          /\ made[r] \in revoked => row[r] \in revoked
      BY <1>3, <2>2 DEF Mark, InFlightSound
    <3>2. consumed' = consumed \cup {row[r]}
          /\ UNCHANGED <<stored, revoked, familyId, expiresAt>>
      BY <1>3, <2>2 DEF Mark
    <3> SUFFICES ASSUME NEW t \in stored \ revoked
                 PROVE  \E u \in FamilyRows(familyId[t])' :
                            Live(u)' /\ expiresAt'[u] >= expiresAt'[t]
      BY <3>2
    <3>3. PICK u \in FamilyRows(familyId[t]) : Live(u) /\ expiresAt[u] >= expiresAt[t]
      OBVIOUS
    <3>4. CASE u # row[r]
      BY <3>2, <3>3, <3>4
    <3>5. CASE u = row[r]
      \* The successor takes over as the witness.
      BY <3>1, <3>2, <3>3, <3>5
    <3> QED
      BY <3>4, <3>5
  <2> QED
    BY <2>1, <2>2
<1>4. ASSUME NEW r \in Request, RevokeFamily(r) PROVE NeverStranded'
  BY <1>4 DEF RevokeFamily
<1>5. ASSUME NEW a \in Account, RevokeAllFor(a) PROVE NeverStranded'
  \* A witness is revoked only with its whole family, all of one account.
  BY <1>5 DEF RevokeAllFor, AccountRows, RowsSound
<1>6. CASE UNCHANGED rowState
  BY <1>6 DEF rowState
<1> QED
  BY <1>1, <1>2, <1>3, <1>4, <1>5, <1>6, RowChanges

(* No step leaves a successor link dangling or crossing sessions.          *)
LEMMA SuccessorStep == SessionInv /\ [Next]_vars => SuccessorSound'
<1> SUFFICES ASSUME SessionInv, [Next]_vars PROVE SuccessorSound'
  OBVIOUS
<1> USE DEF SessionInv, TypeOK, SuccessorSound
<1>1. ASSUME NEW r \in Request, NEW t \in Token, Insert(r, t) PROVE SuccessorSound'
  BY <1>1, TimeAssumption DEF Insert
<1>2. ASSUME NEW r \in Request, Purge(r) PROVE SuccessorSound'
  BY <1>2, TimeAssumption DEF Purge, Purgeable, AccountRows
<1>3. ASSUME NEW r \in Request, Mark(r) PROVE SuccessorSound'
  <2>1. CASE row[r] \notin stored
    BY <1>3, <2>1 DEF Mark
  <2>2. CASE row[r] \in stored
    <3>1. /\ made[r] \in stored \ {row[r]}
          /\ familyId[made[r]] = familyId[row[r]]
          /\ subjectId[made[r]] = subjectId[row[r]]
          /\ expiresAt[row[r]] <= expiresAt[made[r]]
      BY <1>3, <2>2 DEF Mark, InFlightSound
    <3> QED
      BY <1>3, <2>2, <3>1 DEF Mark
  <2> QED
    BY <2>1, <2>2
<1>4. ASSUME NEW r \in Request, RevokeFamily(r) PROVE SuccessorSound'
  BY <1>4 DEF RevokeFamily
<1>5. ASSUME NEW a \in Account, RevokeAllFor(a) PROVE SuccessorSound'
  BY <1>5 DEF RevokeAllFor
<1>6. CASE UNCHANGED rowState
  BY <1>6 DEF rowState
<1> QED
  BY <1>1, <1>2, <1>3, <1>4, <1>5, <1>6, RowChanges

(* No step lets two presentations of one token through without racing it.  *)
LEMMA PresentStep == SessionInv /\ [Next]_vars => PresentationsSound' /\ NoSilentReplay'
<1> DEFINE Goal == PresentationsSound /\ NoSilentReplay
<1> SUFFICES ASSUME SessionInv, [Next]_vars PROVE Goal'
  OBVIOUS
<1> USE NoneAssumption
    DEF SessionInv, TypeOK, Idle, columns, locals, Goto, Finish, PresentationsSound,
        NoSilentReplay, Accepted, InFlightSound
<1>1. ASSUME NEW r \in Request, NEW a \in Account, SignIn(r, a) PROVE Goal'
  BY <1>1 DEF SignIn
<1>2. ASSUME NEW r \in Request, NEW t \in Token, Consume(r, t) PROVE Goal'
  \* An answered or marked token is refused; one under way becomes raced.
  BY <1>2 DEF Consume, Consumable
<1>3. ASSUME NEW r \in Request, NEW t \in Token, Logout(r, t) PROVE Goal'
  BY <1>3 DEF Logout
<1>4. ASSUME NEW r \in Request, NEW t \in Token, Insert(r, t) PROVE Goal'
  <2>1. /\ t \notin minted
        /\ parent' = [parent EXCEPT ![t] = row[r]]
        /\ made' = [made EXCEPT ![r] = t]
        /\ pc[r] = "insert" /\ pc' = [pc EXCEPT ![r] = "purge"]
        /\ stored' = stored \cup {t}
        /\ UNCHANGED <<row, delivered, consumed, raced>>
    BY <1>4 DEF Insert
  <2>2. \A u \in delivered : parent'[u] = parent[u]
    BY <2>1
  <2>3. \A q \in Request, p \in Token : Accepted(q, p)' <=> Accepted(q, p)
    BY <2>1
  <2>4. \A q \in Request : made'[q] # None => parent'[made'[q]] = row'[q]
    BY <2>1
  <2>5. \A p \in Token \ raced :
            \/ \E q \in Request : Accepted(q, p) /\ pc'[q] = "respond"
            \/ \E u \in delivered : parent[u] = p
            => p \in consumed \/ p \notin stored'
    \* The new row is nobody's parent, and has been presented by nobody.
    BY <2>1 DEF RowsSound
  <2> QED
    BY <2>1, <2>2, <2>3, <2>4, <2>5
<1>5. ASSUME NEW r \in Request, ResolveSubject(r) \/ ResolveFault(r) PROVE Goal'
  BY <1>5 DEF ResolveSubject, ResolveFault
<1>6. ASSUME NEW r \in Request, Purge(r) PROVE Goal'
  BY <1>6 DEF Purge
<1>7. ASSUME NEW r \in Request, Mark(r) PROVE Goal'
  BY <1>7 DEF Mark
<1>8. ASSUME NEW r \in Request, Respond(r) PROVE Goal'
  BY <1>8 DEF Respond
<1>9. ASSUME NEW r \in Request, RevokeFamily(r) \/ Abort(r) PROVE Goal'
  BY <1>9 DEF RevokeFamily, Abort
<1>10. ASSUME NEW a \in Account, RevokeAllFor(a) \/ Disable(a) \/ Enable(a) PROVE Goal'
  BY <1>10 DEF RevokeAllFor, Disable, Enable
<1>11. CASE Tick \/ UNCHANGED vars
  BY <1>11 DEF Tick, vars
<1> QED
  BY <1>1, <1>2, <1>3, <1>4, <1>5, <1>6, <1>7, <1>8, <1>9, <1>10, <1>11 DEF Next

-----------------------------------------------------------------------------
(* SessionInv, the conjunction of the types, the soundness of rows, of     *)
(* requests in flight and of presentations, and the three properties,      *)
(* always holds: it is inductive, while the properties alone are not.      *)
THEOREM SessionInvariant == Spec => []SessionInv
<1>1. SessionInv /\ [Next]_vars => SessionInv'
  BY TypeStep, RowsStep, InFlightStep, StrandedStep, SuccessorStep, PresentStep
  DEF SessionInv
<1> QED
  BY InitSound, <1>1, PTL DEF Spec

(* The columns and locals always have their types.                         *)
THEOREM TypeCorrect == Spec => []TypeOK
BY SessionInvariant, PTL DEF SessionInv

(* A crash anywhere in a renewal never strands the session: an unrevoked   *)
(* row always has a live row of its family that lasts as long              *)
(* (refresh.service.js rotate, issue before mark).                         *)
THEOREM RotationNeverStrands == Spec => []NeverStranded
BY SessionInvariant, PTL DEF SessionInv

(* replacedById always names a row of the same session in the table, so    *)
(* the sweep in `issue` never deletes a successor before its predecessor.  *)
THEOREM SuccessorsStay == Spec => []SuccessorSound
BY SessionInvariant, PTL DEF SessionInv

(* Two successors of one token are handed out only if two presentations of *)
(* it overlapped: a replay after the answer is always refused.             *)
THEOREM ReplaysAreCaught == Spec => []NoSilentReplay
BY SessionInvariant, PTL DEF SessionInv

(* A step that finds a session closed, with no renewal in flight, leaves   *)
(* it so.                                                                  *)
LEMMA ClosedStep == SessionInv /\ [Next]_vars => \A f \in Token : Closed(f) => Closed(f)'
<1> SUFFICES ASSUME SessionInv, [Next]_vars, NEW f \in Token, Closed(f)
             PROVE  Closed(f)'
  OBVIOUS
<1>1. /\ familyId[f] = f /\ f \in minted
      /\ FamilyRows(f) \subseteq revoked
      /\ Renewing(f) = {}
  BY NoneAssumption DEF Closed, IsFamily, SessionInv, RowsSound
<1> USE <1>1 DEF SessionInv, TypeOK, FamilyRows
<1>2. IsFamily(f)' /\ FamilyRows(f)' \subseteq revoked'
  <2> USE DEF IsFamily
  <2>1. ASSUME NEW r \in Request, NEW t \in Token, Insert(r, t)
        PROVE  IsFamily(f)' /\ FamilyRows(f)' \subseteq revoked'
    \* No renewal of f is in flight, and a sign-in opens a family of its own.
    BY <2>1 DEF Insert, FamilyFor, Renewing
  <2>2. ASSUME NEW r \in Request, Purge(r) \/ Mark(r) \/ RevokeFamily(r)
        PROVE  IsFamily(f)' /\ FamilyRows(f)' \subseteq revoked'
    BY <2>2 DEF Purge, Mark, RevokeFamily
  <2>3. ASSUME NEW a \in Account, RevokeAllFor(a)
        PROVE  IsFamily(f)' /\ FamilyRows(f)' \subseteq revoked'
    BY <2>3 DEF RevokeAllFor
  <2>4. CASE UNCHANGED rowState
    BY <2>4 DEF rowState
  <2> QED
    BY <2>1, <2>2, <2>3, <2>4, RowChanges
<1>3. Renewing(f)' = {}
  <2> SUFFICES ASSUME NEW q \in Request, q \in Renewing(f)' PROVE FALSE
    BY DEF Renewing
  <2> USE NoneAssumption DEF Renewing, Goto, Finish, Idle, InFlightSound, columns, locals
  <2>1. ASSUME NEW r \in Request, NEW t \in Token, Consume(r, t) PROVE FALSE
    \* The rows of f are revoked: `consume` refuses them.
    BY <2>1 DEF Consume
  <2>2. ASSUME NEW r \in Request, NEW t \in Token, Insert(r, t) PROVE FALSE
    BY <2>2 DEF Insert
  <2>3. ASSUME NEW r \in Request, NEW a \in Account, SignIn(r, a) PROVE FALSE
    BY <2>3 DEF SignIn
  <2>4. ASSUME NEW r \in Request, NEW t \in Token, Logout(r, t) PROVE FALSE
    BY <2>4 DEF Logout
  <2>5. ASSUME NEW r \in Request, ResolveSubject(r) \/ ResolveFault(r) PROVE FALSE
    BY <2>5 DEF ResolveSubject, ResolveFault
  <2>6. ASSUME NEW r \in Request, Purge(r) \/ Mark(r) PROVE FALSE
    BY <2>6 DEF Purge, Mark
  <2>7. ASSUME NEW r \in Request, Respond(r) \/ RevokeFamily(r) \/ Abort(r) PROVE FALSE
    BY <2>7 DEF Respond, RevokeFamily, Abort
  <2>8. ASSUME NEW a \in Account, RevokeAllFor(a) \/ Disable(a) \/ Enable(a) PROVE FALSE
    BY <2>8 DEF RevokeAllFor, Disable, Enable
  <2>9. CASE Tick \/ UNCHANGED vars
    BY <2>9 DEF Tick, vars
  <2> QED
    BY <2>1, <2>2, <2>3, <2>4, <2>5, <2>6, <2>7, <2>8, <2>9 DEF Next
<1> QED
  BY <1>2, <1>3 DEF Closed

(* A session that was ended, by logout, replay, expiry, a password reset   *)
(* or a disabled account, stays ended once the renewals it had accepted    *)
(* have drained.                                                           *)
THEOREM EndedSessionsStayEnded == Spec => ClosedStaysClosed
<1>1. SessionInv /\ [Next]_vars => [\A f \in Token : Closed(f) => Closed(f)']_vars
  BY ClosedStep
<1> QED
  BY <1>1, SessionInvariant, PTL DEF Spec, ClosedStaysClosed

-----------------------------------------------------------------------------
(* The refinement: what SessionLifecycle sees of a state.                  *)
statusOf == [f \in Token |-> Status(f)]
renewingOf == [f \in Token |-> Renewing(f)]

(* A step that only revokes or purges rows ends the sessions that lose     *)
(* their last unrevoked row, and no other.                                 *)
LEMMA EndStep ==
    ASSUME SessionInv, UNCHANGED familyId, UNCHANGED renewingOf,
           stored' \subseteq stored, revoked \subseteq revoked'
    PROVE  Lifecycle!Next
<1> DEFINE S == {f \in Token : Status(f) = "open" /\ Status(f)' = "ended"}
<1>1. \A f \in Token : f \notin S => Status(f)' = Status(f)
  BY DEF Status, IsFamily, FamilyRows
<1>2. statusOf' = [f \in Token |-> IF f \in S THEN "ended" ELSE statusOf[f]]
  BY <1>1 DEF statusOf
<1>3. \A f \in S : statusOf[f] = "open"
  BY DEF statusOf
<1>4. Lifecycle!End(S)
  BY <1>2, <1>3 DEF Lifecycle!End, statusOf, renewingOf
<1>5. S \in SUBSET Token
  OBVIOUS
<1> QED
  BY <1>4, <1>5 DEF Lifecycle!Next

(* A step that leaves the rows alone leaves every status as it was.        *)
LEMMA StatusKept == UNCHANGED rowState => UNCHANGED statusOf
BY DEF rowState, statusOf, Status, IsFamily, FamilyRows

(* The renewals in flight change only with the request that moves.         *)
LEMMA RenewingKept ==
    ASSUME NEW r \in Request, SessionInv, UNCHANGED familyId,
           \A q \in Request \ {r} : pc'[q] = pc[q] /\ row'[q] = row[q],
           \A f \in Token : r \in Renewing(f)' <=> r \in Renewing(f)
    PROVE  UNCHANGED renewingOf
BY DEF renewingOf, Renewing

(* A renewal that leaves the stages in which it counts as in flight, the   *)
(* rows being as they were, is a GiveUp or nothing.                        *)
LEMMA LeaveStep ==
    ASSUME NEW r \in Request, SessionInv, UNCHANGED rowState,
           \A q \in Request \ {r} : pc'[q] = pc[q] /\ row'[q] = row[q],
           pc'[r] \notin {"resolve", "insert"}
    PROVE  Lifecycle!Next \/ UNCHANGED <<statusOf, renewingOf>>
<1>1. UNCHANGED statusOf /\ UNCHANGED familyId
  BY StatusKept DEF rowState
<1>2. \A f \in Token : r \notin Renewing(f)'
  BY DEF Renewing
<1>3. CASE \A f \in Token : r \notin Renewing(f)
  BY <1>1, <1>2, <1>3, RenewingKept
<1>4. CASE \E f \in Token : r \in Renewing(f)
  <2>1. PICK f \in Token : r \in Renewing(f)
    BY <1>4
  <2>2. \A g \in Token : Renewing(g)' = IF g = f THEN Renewing(g) \ {r} ELSE Renewing(g)
    BY <1>1, <1>2, <2>1 DEF Renewing
  <2>3. renewingOf' = [renewingOf EXCEPT ![f] = @ \ {r}]
    BY <2>2 DEF renewingOf
  <2>4. Lifecycle!GiveUp(f, r)
    BY <1>1, <2>1, <2>3 DEF Lifecycle!GiveUp, renewingOf, statusOf
  <2> QED
    BY <2>4 DEF Lifecycle!Next
<1> QED
  BY <1>3, <1>4

(* `consume` accepts a token of an open session: its own row is unrevoked. *)
LEMMA AcceptStep ==
    ASSUME SessionInv, NEW r \in Request, NEW t \in Token, Consume(r, t)
    PROVE  Lifecycle!Next \/ UNCHANGED <<statusOf, renewingOf>>
<1> USE DEF SessionInv, TypeOK
<1>1. /\ UNCHANGED <<statusOf, familyId>>
      /\ t \in stored \ revoked
      /\ pc[r] = Idle /\ row[r] = None
      /\ pc' = [pc EXCEPT ![r] = IF Consumable(t) THEN "resolve" ELSE "revoke"]
      /\ row' = [row EXCEPT ![r] = t]
  BY StatusKept DEF Consume, Goto, columns, rowState, InFlightSound
<1> DEFINE f == familyId[t]
<1>2. /\ f \in Token /\ familyId[f] = f
      /\ t # None
  BY <1>1, NoneAssumption DEF RowsSound
<1>3. statusOf[f] = "open"
  BY <1>1, <1>2 DEF statusOf, Status, IsFamily, FamilyRows
<1>4. \A g \in Token : r \notin Renewing(g)
  BY <1>1 DEF Renewing
<1>5. CASE Consumable(t)
  <2>1. \A g \in Token : Renewing(g)' = IF g = f THEN Renewing(g) \cup {r} ELSE Renewing(g)
    BY <1>1, <1>2, <1>5 DEF Renewing
  <2>2. renewingOf' = [renewingOf EXCEPT ![f] = @ \cup {r}]
    BY <2>1 DEF renewingOf
  <2>3. Lifecycle!Accept(f, r)
    BY <1>1, <1>3, <2>2 DEF Lifecycle!Accept, statusOf, renewingOf
  <2> QED
    BY <1>2, <2>3 DEF Lifecycle!Next
<1>6. CASE ~Consumable(t)
  <2>1. \A g \in Token : r \notin Renewing(g)'
    BY <1>1, <1>6 DEF Renewing
  <2> QED
    BY <1>1, <1>4, <2>1, RenewingKept
<1> QED
  BY <1>5, <1>6

(* An insert opens a session of its own, or completes the renewal of one.  *)
LEMMA InsertStep ==
    ASSUME SessionInv, NEW r \in Request, NEW t \in Token, Insert(r, t)
    PROVE  Lifecycle!Next
<1> USE NoneAssumption DEF SessionInv, TypeOK
<1>1. /\ t \notin minted /\ t \notin stored /\ t \notin revoked
      /\ stored' = stored \cup {t}
      /\ revoked' = revoked
      /\ familyId' = [familyId EXCEPT ![t] = FamilyFor(r, t)]
      /\ pc[r] = "insert" /\ pc' = [pc EXCEPT ![r] = "purge"]
      /\ row' = row
      /\ familyId[t] = None
      /\ \A u \in minted : familyId[u] # t
  BY DEF Insert, Goto, RowsSound
<1>2. \A q \in Request : row[q] # None => row[q] \in minted
  BY DEF InFlightSound
<1>3. CASE row[r] = None
  <2>1. \A g \in Token : Status(g)' = IF g = t THEN "open" ELSE Status(g)
    BY <1>1, <1>3 DEF Status, IsFamily, FamilyRows, FamilyFor, RowsSound
  <2>2. Status(t) = "none"
    BY <1>1 DEF Status, IsFamily
  <2>3. \A g \in Token : Renewing(g)' = Renewing(g)
    BY <1>1, <1>2, <1>3 DEF Renewing, FamilyFor
  <2>4. Lifecycle!Open(t)
    BY <2>1, <2>2, <2>3 DEF Lifecycle!Open, statusOf, renewingOf
  <2> QED
    BY <2>4 DEF Lifecycle!Next
<1>4. CASE row[r] # None
  <2> DEFINE f == familyId[row[r]]
  <2>1. f \in minted /\ familyId[f] = f /\ row[r] \in Token /\ f # t
    BY <1>1, <1>2, <1>4 DEF RowsSound
  <2>2. \A g \in Token : Status(g)' = IF g = f THEN "open" ELSE Status(g)
    BY <1>1, <1>4, <2>1 DEF Status, IsFamily, FamilyRows, FamilyFor
  <2>3. r \in Renewing(f)
    BY <1>1, <1>4 DEF Renewing
  <2>4. \A g \in Token : Renewing(g)' = IF g = f THEN Renewing(g) \ {r} ELSE Renewing(g)
    BY <1>1, <1>2, <1>4, <2>1 DEF Renewing, FamilyFor
  <2>5. Lifecycle!Renew(f, r)
    BY <2>1, <2>2, <2>3, <2>4 DEF Lifecycle!Renew, statusOf, renewingOf
  <2> QED
    BY <2>1, <2>5 DEF Lifecycle!Next
<1> QED
  BY <1>3, <1>4

(* Every step of the service is a step of SessionLifecycle or none.        *)
LEMMA LifecycleStep ==
    SessionInv /\ [Next]_vars => Lifecycle!Next \/ UNCHANGED <<statusOf, renewingOf>>
<1> SUFFICES ASSUME SessionInv, [Next]_vars
             PROVE  Lifecycle!Next \/ UNCHANGED <<statusOf, renewingOf>>
  OBVIOUS
<1> USE DEF SessionInv, TypeOK, Goto, Finish, Idle, columns, locals, rowState
<1>1. ASSUME NEW r \in Request, NEW a \in Account, SignIn(r, a)
      PROVE  UNCHANGED <<statusOf, renewingOf>>
  <2>1. \A f \in Token : r \in Renewing(f)' <=> r \in Renewing(f)
    BY <1>1 DEF SignIn, Renewing, InFlightSound
  <2> QED
    BY <1>1, <2>1, StatusKept, RenewingKept DEF SignIn
<1>2. ASSUME NEW r \in Request, NEW t \in Token, Logout(r, t)
      PROVE  Lifecycle!Next \/ UNCHANGED <<statusOf, renewingOf>>
  BY <1>2, LeaveStep DEF Logout
<1>3. ASSUME NEW r \in Request, ResolveSubject(r)
      PROVE  Lifecycle!Next \/ UNCHANGED <<statusOf, renewingOf>>
  <2>1. CASE acct[r] \in active
    <3>1. \A f \in Token : r \in Renewing(f)' <=> r \in Renewing(f)
      BY <1>3, <2>1 DEF ResolveSubject, Renewing
    <3> QED
      BY <1>3, <3>1, StatusKept, RenewingKept DEF ResolveSubject
  <2>2. CASE acct[r] \notin active
    BY <1>3, <2>2, LeaveStep DEF ResolveSubject
  <2> QED
    BY <2>1, <2>2
<1>4. ASSUME NEW r \in Request, ResolveFault(r) \/ Respond(r) \/ Abort(r)
      PROVE  Lifecycle!Next \/ UNCHANGED <<statusOf, renewingOf>>
  BY <1>4, LeaveStep DEF ResolveFault, Respond, Abort
<1>5. ASSUME NEW r \in Request, Purge(r) \/ RevokeFamily(r)
      PROVE  Lifecycle!Next
  <2>1. \A f \in Token : r \in Renewing(f)' <=> r \in Renewing(f)
    BY <1>5 DEF Purge, RevokeFamily, Renewing
  <2>2. UNCHANGED renewingOf
    BY <1>5, <2>1, RenewingKept DEF Purge, RevokeFamily
  <2> QED
    BY <1>5, <2>2, EndStep DEF Purge, RevokeFamily
<1>6. ASSUME NEW r \in Request, Mark(r)
      PROVE  UNCHANGED <<statusOf, renewingOf>>
  <2>1. UNCHANGED statusOf
    BY <1>6 DEF Mark, statusOf, Status, IsFamily, FamilyRows
  <2>2. \A f \in Token : r \in Renewing(f)' <=> r \in Renewing(f)
    BY <1>6 DEF Mark, Renewing
  <2> QED
    BY <1>6, <2>1, <2>2, RenewingKept DEF Mark
<1>7. ASSUME NEW a \in Account, RevokeAllFor(a) PROVE Lifecycle!Next
  <2>1. UNCHANGED renewingOf
    BY <1>7 DEF RevokeAllFor, renewingOf, Renewing
  <2> QED
    BY <1>7, <2>1, EndStep DEF RevokeAllFor
<1>8. ASSUME \/ \E a \in Account : Disable(a) \/ Enable(a)
             \/ Tick
             \/ UNCHANGED vars
      PROVE  UNCHANGED <<statusOf, renewingOf>>
  <2>1. UNCHANGED <<rowState, pc, row>>
    BY <1>8 DEF Disable, Enable, Tick, vars
  <2> QED
    BY <2>1, StatusKept DEF renewingOf, Renewing
<1> QED
  BY <1>1, <1>2, <1>3, <1>4, <1>5, <1>6, <1>7, <1>8, AcceptStep, InsertStep DEF Next

(* The refresh-token service implements SessionLifecycle: a session opens  *)
(* once, accepts renewals only while open, and once ended comes back only  *)
(* through a renewal accepted before its end.                              *)
THEOREM SessionsImplementLifecycle == Spec => ImplementsLifecycle
<1>1. Init => Lifecycle!Init
  BY NoneAssumption DEF Init, Lifecycle!Init, Status, IsFamily, Renewing, Idle
<1>2. SessionInv /\ [Next]_vars => [Lifecycle!Next]_(Lifecycle!vars)
  BY LifecycleStep DEF Lifecycle!vars, statusOf, renewingOf
<1> QED
  BY <1>1, <1>2, SessionInvariant, PTL DEF Spec, ImplementsLifecycle, Lifecycle!Spec
=============================================================================
