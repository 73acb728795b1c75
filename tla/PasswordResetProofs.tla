------------------------ MODULE PasswordResetProofs ------------------------
(***************************************************************************)
(* ResetInv is an invariant of the reset codes for any number of accounts, *)
(* codes and requests in flight; OneLiveCode and OnlyNewestResets follow   *)
(* from it.                                                                *)
(***************************************************************************)
EXTENDS PasswordReset, FiniteSetTheorems, TLAPS

(* Sets of requests are finite, and so are sets of tickets.                *)
LEMMA RequestsFinite ==
  ASSUME NEW S \in SUBSET Request
  PROVE  /\ IsFiniteSet(S) /\ Cardinality(S) \in Nat
         /\ Cardinality(S) <= Cardinality(Request)
<1>1. IsFiniteSet(S) /\ Cardinality(S) <= Cardinality(Request)
  BY RequestAssumption, FS_Subset
<1> QED
  BY <1>1, FS_CardinalityType

LEMMA TicketsFinite ==
  ASSUME NEW S \in SUBSET Ticket
  PROVE  IsFiniteSet(S) /\ Cardinality(S) \in Nat
<1>1. IsFiniteSet(Ticket)
  BY BoundsAssumption, FS_Interval DEF Ticket
<1>2. IsFiniteSet(S)
  BY <1>1, FS_Subset
<1> QED
  BY <1>2, FS_CardinalityType

(* Finish takes the request out of those presenting its ticket, and leaves *)
(* those presenting another one alone.                                     *)
LEMMA FinishLeaves ==
  ASSUME TypeOK, NEW r \in Request, Finish(r)
  PROVE  \A t \in Ticket :
            /\ Presenting(t)' = Presenting(t) \ {r}
            /\ r \in Presenting(t) => Cardinality(Presenting(t)') = Cardinality(Presenting(t)) - 1
            /\ r \notin Presenting(t) => Presenting(t)' = Presenting(t)
<1> SUFFICES ASSUME NEW t \in Ticket
             PROVE  /\ Presenting(t)' = Presenting(t) \ {r}
                    /\ r \in Presenting(t) =>
                          Cardinality(Presenting(t)') = Cardinality(Presenting(t)) - 1
                    /\ r \notin Presenting(t) => Presenting(t)' = Presenting(t)
  OBVIOUS
<1>1. Presenting(t)' = Presenting(t) \ {r}
  BY DEF Finish, Presenting, TypeOK, Idle
<1>2. IsFiniteSet(Presenting(t))
  BY RequestsFinite DEF Presenting
<1> QED
  BY <1>1, <1>2, FS_RemoveElement

(* Present adds the request to those presenting the ticket.                *)
LEMMA PresentAdds ==
  ASSUME TypeOK, NEW r \in Request, NEW u \in User, NEW t \in Ticket, NEW right \in BOOLEAN,
         Present(r, u, t, right)
  PROVE  /\ Cardinality(Presenting(t)') = Cardinality(Presenting(t)) + 1
         /\ Cardinality(Presenting(t)) + 1 <= Cardinality(Request)
         /\ \A s \in Ticket \ {t} : Presenting(s)' = Presenting(s)
<1>1. r \notin Presenting(t) /\ Presenting(t)' = Presenting(t) \cup {r}
  BY DEF Present, Presenting, TypeOK, Idle
<1>2. \A s \in Ticket \ {t} : Presenting(s)' = Presenting(s)
  BY DEF Present, Presenting, TypeOK, Idle
<1>3. IsFiniteSet(Presenting(t))
  BY RequestsFinite DEF Presenting
<1>4. Cardinality(Presenting(t)') = Cardinality(Presenting(t)) + 1
  BY <1>1, <1>3, FS_AddElement
<1>5. Cardinality(Presenting(t)') <= Cardinality(Request)
  BY RequestsFinite, Presenting(t)' \in SUBSET Request DEF Presenting
<1> QED
  BY <1>2, <1>4, <1>5

-----------------------------------------------------------------------------
LEMMA InitSound == Init => ResetInv
<1> SUFFICES ASSUME Init PROVE ResetInv
  OBVIOUS
<1> USE BoundsAssumption DEF Init, Ticket
<1>1. TypeOK
  BY DEF TypeOK, Idle
<1>2. \A t \in Ticket : Cardinality(Presenting(t)) = 0
  <2>1. \A t \in Ticket : Presenting(t) = {}
    BY DEF Presenting, Idle
  <2> QED
    BY <2>1, FS_EmptySet
<1>3. GuessesCounted
  BY <1>2 DEF GuessesCounted
<1>4. SingleUse
  <2>1. \A u \in User : Cardinality(Spent(u)) \in Nat
    BY TicketsFinite DEF Spent, TicketsOf
  <2> QED
    BY <2>1 DEF SingleUse
<1>5. GuessesBounded
  BY RequestAssumption, FS_CardinalityType DEF GuessesBounded
<1>6. InFlightSound /\ LiveIsNewest /\ ResetEndsSessions
  BY DEF InFlightSound, LiveIsNewest, ResetEndsSessions, Idle
<1> QED
  BY <1>1, <1>3, <1>4, <1>5, <1>6 DEF ResetInv

(* The columns and locals keep their types: the count of compared codes    *)
(* stays a natural number because a dropped request was counted in it.     *)
LEMMA TypeStep == ResetInv /\ [Next]_vars => TypeOK'
<1> SUFFICES ASSUME ResetInv, [Next]_vars PROVE TypeOK'
  OBVIOUS
<1> USE BoundsAssumption, UserAssumption
    DEF ResetInv, TypeOK, Idle, tickets, accounts, locals
<1>1. ASSUME NEW u \in User, Forgot(u) PROVE TypeOK'
  <2>1. issued + 1 \in Ticket
    BY <1>1 DEF Forgot, Ticket
  <2>2. issued' = issued + 1 /\ issued' \in 0 .. MaxTickets
    BY <1>1 DEF Forgot
  <2>3. 1 .. issued \subseteq 1 .. issued' /\ issued + 1 \in 1 .. issued'
    BY <2>2
  <2>4. live' \subseteq 1 .. issued'
    BY <1>1, <2>3 DEF Forgot
  <2>5. expired' \subseteq 1 .. issued'
    BY <1>1, <2>3 DEF Forgot
  <2>6. owner' \in [Ticket -> User \cup {None}]
    BY <1>1, <2>1 DEF Forgot
  <2> QED
    BY <1>1, <2>2, <2>4, <2>5, <2>6 DEF Forgot
<1>2. ASSUME NEW t \in Ticket, Expire(t) PROVE TypeOK'
  BY <1>2 DEF Expire
<1>3. ASSUME NEW r \in Request, NEW u \in User, NEW t \in Ticket, NEW right \in BOOLEAN,
             Present(r, u, t, right)
      PROVE  TypeOK'
  BY <1>3 DEF Present
<1>4. ASSUME NEW r \in Request, NEW u \in User, Login(r, u) PROVE TypeOK'
  BY <1>4 DEF Login, BeginSession
<1>5. ASSUME NEW r \in Request, NEW u \in User, Refresh(r, u) PROVE TypeOK'
  BY <1>5 DEF Refresh, BeginSession
<1>6. ASSUME NEW r \in Request, Bump(r) PROVE TypeOK'
  <2>1. ticket[r] \in Ticket
    BY <1>6 DEF Bump, InFlightSound, TicketsOf, Ticket
  <2>2. attempts' \in [Ticket -> 0 .. MaxAttempts]
    BY <1>6, <2>1 DEF Bump
  <2> QED
    BY <1>6, <2>2 DEF Bump, Finish
<1>7. ASSUME NEW r \in Request, Claim(r) PROVE TypeOK'
  <2>1. user[r] \in User
    BY <1>7 DEF Claim, InFlightSound
  <2>2. {version[q] : q \in SigningIn(user[r])} \subseteq Nat
    BY DEF SigningIn
  <2>3. crossed' \in [User -> SUBSET Nat]
    BY <1>7, <2>1, <2>2 DEF Claim
  <2>4. password' \in [User -> Nat] /\ sessions' \in [User -> SUBSET Nat]
    BY <1>7, <2>1 DEF Claim
  <2> QED
    BY <1>7, <2>3, <2>4 DEF Claim, Finish
<1>8. ASSUME NEW r \in Request, OpenSession(r) PROVE TypeOK'
  BY <1>8 DEF OpenSession, Finish, InFlightSound
<1>9. ASSUME NEW r \in Request, Drop(r) PROVE TypeOK'
  <2>1. CASE pc[r] = "open"
    BY <1>9, <2>1 DEF Drop, Finish
  <2>2. CASE pc[r] # "open"
    <3>1. ticket[r] \in Ticket /\ r \in Presenting(ticket[r])
      BY <1>9, <2>2 DEF Drop, InFlightSound, TicketsOf, Ticket, Presenting
    <3>2. Cardinality(Presenting(ticket[r])) \in Nat \ {0}
      BY <3>1, RequestsFinite, FS_EmptySet DEF Presenting
    <3>3. guesses[ticket[r]] - 1 \in Nat
      BY <3>1, <3>2 DEF GuessesCounted
    <3> QED
      BY <1>9, <2>2, <3>1, <3>3 DEF Drop, Finish
  <2> QED
    BY <2>1, <2>2
<1>10. CASE UNCHANGED vars
  BY <1>10 DEF vars
<1> QED
  BY <1>1, <1>2, <1>3, <1>4, <1>5, <1>6, <1>7, <1>8, <1>9, <1>10 DEF Next

-----------------------------------------------------------------------------
(* A live code stays its account's newest: a new one takes its place only  *)
(* together with the voiding of the others.                                *)
LEMMA LiveIsNewestStep == ResetInv /\ [Next]_vars => LiveIsNewest'
<1> SUFFICES ASSUME ResetInv, [Next]_vars PROVE LiveIsNewest'
  OBVIOUS
<1> USE DEF LiveIsNewest, TicketsOf, Newest
<1>1. TypeOK /\ LiveIsNewest
  BY DEF ResetInv
<1>2. ASSUME NEW u \in User, Forgot(u) PROVE LiveIsNewest'
  <2> SUFFICES ASSUME NEW t \in live'
               PROVE  owner'[t] \in User /\ Newest(t, TicketsOf(owner[t]))'
    OBVIOUS
  <2>0. issued \in Nat /\ issued + 1 \in Ticket /\ issued' = issued + 1
    BY <1>1, <1>2, BoundsAssumption DEF Forgot, TypeOK, Ticket
  <2>1. owner'[issued + 1] = u /\ \A s \in 1 .. issued : s \in Ticket /\ owner'[s] = owner[s]
    BY <1>1, <1>2, <2>0, BoundsAssumption DEF Forgot, TypeOK, Ticket
  <2>2. CASE t = issued + 1
    BY <1>2, <2>0, <2>1, <2>2 DEF Forgot
  <2>3. CASE t \in live \ TicketsOf(u)
    <3>1. t \in 1 .. issued /\ owner'[t] = owner[t] /\ owner[t] \in User \ {u}
      BY <1>1, <2>1, <2>3 DEF TypeOK
    <3>2. \A s \in 1 .. issued' : owner'[s] = owner'[t] => s \in TicketsOf(owner[t])
      BY <2>0, <2>1, <3>1
    <3> QED
      BY <1>1, <2>0, <2>3, <3>1, <3>2
  <2> QED
    BY <1>2, <2>2, <2>3 DEF Forgot
<1>3. ASSUME UNCHANGED <<issued, owner>>, live' \subseteq live PROVE LiveIsNewest'
  BY <1>1, <1>3
<1>4. ASSUME NEW t \in Ticket, Expire(t) PROVE LiveIsNewest'
  BY <1>3, <1>4 DEF Expire
<1>5. ASSUME NEW r \in Request, NEW u \in User, NEW t \in Ticket, NEW right \in BOOLEAN,
             Present(r, u, t, right)
      PROVE  LiveIsNewest'
  BY <1>3, <1>5 DEF Present, tickets
<1>6. ASSUME NEW r \in Request, NEW u \in User, Login(r, u) \/ Refresh(r, u)
      PROVE  LiveIsNewest'
  BY <1>3, <1>6 DEF Login, Refresh, BeginSession, tickets
<1>7. ASSUME NEW r \in Request, Bump(r) \/ Claim(r) PROVE LiveIsNewest'
  BY <1>3, <1>7 DEF Bump, Claim
<1>8. ASSUME NEW r \in Request, OpenSession(r) \/ Drop(r) PROVE LiveIsNewest'
  BY <1>3, <1>8 DEF OpenSession, Drop, tickets
<1>9. CASE UNCHANGED vars
  BY <1>3, <1>9 DEF vars, tickets
<1> QED
  BY <1>2, <1>4, <1>5, <1>6, <1>7, <1>8, <1>9 DEF Next

(* A request keeps what it has secured: tickets keep their owners, and a   *)
(* reset records the sign-ins it overtakes.                                *)
LEMMA InFlightStep == ResetInv /\ [Next]_vars => InFlightSound'
<1> SUFFICES ASSUME ResetInv, [Next]_vars PROVE InFlightSound'
  OBVIOUS
<1>1. TypeOK /\ InFlightSound /\ ResetEndsSessions /\ TypeOK'
  BY TypeStep DEF ResetInv
<1> USE UserAssumption DEF InFlightSound, Idle
<1>2. ASSUME NEW u \in User, Forgot(u) PROVE InFlightSound'
  <2>1. \A v \in User : TicketsOf(v) \subseteq TicketsOf(v)'
    BY SMTT(20), <1>1, <1>2, BoundsAssumption DEF Forgot, TicketsOf, TypeOK, Ticket
  <2> QED
    BY <1>1, <1>2, <2>1 DEF Forgot, accounts, locals, TypeOK
<1>3. ASSUME NEW t \in Ticket, Expire(t) PROVE InFlightSound'
  BY <1>1, <1>3 DEF Expire, accounts, locals, TicketsOf
<1>4. ASSUME NEW r \in Request, NEW u \in User, NEW t \in Ticket, NEW right \in BOOLEAN,
             Present(r, u, t, right)
      PROVE  InFlightSound'
  BY <1>1, <1>4 DEF Present, tickets, accounts, TicketsOf, TypeOK, Newest, Redeemable
<1>5. ASSUME NEW r \in Request, NEW u \in User, NEW v \in Nat, BeginSession(r, u, v),
             v = password[u] \/ v \in sessions[u]
      PROVE  InFlightSound'
  BY <1>1, <1>5 DEF BeginSession, tickets, accounts, TicketsOf, TypeOK, ResetEndsSessions
<1>6. ASSUME NEW r \in Request, NEW u \in User, Login(r, u) \/ Refresh(r, u)
      PROVE  InFlightSound'
  BY <1>1, <1>5, <1>6 DEF Login, Refresh, TypeOK
<1>7. ASSUME NEW r \in Request, Claim(r) PROVE InFlightSound'
  <2>1. \A q \in SigningIn(user[r]) : version[q] \in crossed'[user[r]]
    BY <1>1, <1>7 DEF Claim, TypeOK
  <2>2. \A u \in User : crossed[u] \subseteq crossed'[u]
    BY <1>1, <1>7 DEF Claim, TypeOK
  <2>3. \A u \in User \ {user[r]} : password'[u] = password[u]
    BY <1>1, <1>7 DEF Claim, TypeOK
  <2> QED
    BY <1>1, <1>7, <2>1, <2>2, <2>3 DEF Claim, Finish, TicketsOf, SigningIn, TypeOK
<1>8. ASSUME NEW r \in Request, Bump(r) \/ OpenSession(r) \/ Drop(r) PROVE InFlightSound'
  BY <1>1, <1>8 DEF Bump, OpenSession, Drop, Finish, tickets, accounts, TicketsOf, TypeOK
<1>9. CASE UNCHANGED vars
  BY <1>1, <1>9 DEF vars, tickets, accounts, locals, TicketsOf
<1> QED
  BY <1>2, <1>3, <1>4, <1>6, <1>7, <1>8, <1>9 DEF Next

(* What a session was opened under is the password of the moment or one    *)
(* whose sign-in a reset has overtaken.                                    *)
LEMMA SessionsStep == ResetInv /\ [Next]_vars => ResetEndsSessions'
<1> SUFFICES ASSUME ResetInv, [Next]_vars PROVE ResetEndsSessions'
  OBVIOUS
<1>1. TypeOK /\ InFlightSound /\ ResetEndsSessions
  BY DEF ResetInv
<1> USE DEF ResetEndsSessions
<1>2. ASSUME UNCHANGED <<accounts, crossed>> PROVE ResetEndsSessions'
  BY <1>1, <1>2 DEF accounts
<1>3. ASSUME NEW r \in Request, Claim(r) PROVE ResetEndsSessions'
  BY <1>1, <1>3 DEF Claim, TypeOK
<1>4. ASSUME NEW r \in Request, OpenSession(r) PROVE ResetEndsSessions'
  BY <1>1, <1>4 DEF OpenSession, InFlightSound, Idle, TypeOK
<1>5. ASSUME NEW r \in Request, Bump(r) \/ Drop(r) PROVE ResetEndsSessions'
  BY <1>2, <1>5 DEF Bump, Drop
<1>6. ASSUME NEW r \in Request, NEW u \in User, Login(r, u) \/ Refresh(r, u)
      PROVE  ResetEndsSessions'
  BY <1>2, <1>6 DEF Login, Refresh, BeginSession
<1>7. ASSUME NEW r \in Request, NEW u \in User, NEW t \in Ticket, NEW right \in BOOLEAN,
             Present(r, u, t, right)
      PROVE  ResetEndsSessions'
  BY <1>2, <1>7 DEF Present
<1>8. ASSUME NEW u \in User, Forgot(u) PROVE ResetEndsSessions'
  BY <1>2, <1>8 DEF Forgot
<1>9. ASSUME NEW t \in Ticket, Expire(t) PROVE ResetEndsSessions'
  BY <1>2, <1>9 DEF Expire
<1>10. CASE UNCHANGED vars
  BY <1>2, <1>10 DEF vars
<1> QED
  BY <1>3, <1>4, <1>5, <1>6, <1>7, <1>8, <1>9, <1>10 DEF Next

-----------------------------------------------------------------------------
(* Codes are spent and never come back, and a reset spends the one it has  *)
(* claimed: a set of spent codes that grows pays for each password.        *)
LEMMA SingleUseStep == ResetInv /\ [Next]_vars => SingleUse'
<1> SUFFICES ASSUME ResetInv, [Next]_vars PROVE SingleUse'
  OBVIOUS
<1>1. TypeOK /\ TypeOK' /\ InFlightSound /\ SingleUse
  BY TypeStep DEF ResetInv
<1>2. \A u \in User : Spent(u) \in SUBSET Ticket /\ Spent(u)' \in SUBSET Ticket
  BY <1>1, BoundsAssumption DEF Spent, TicketsOf, TypeOK, Ticket
<1>3. \A u \in User : /\ IsFiniteSet(Spent(u)) /\ Cardinality(Spent(u)) \in Nat
                      /\ IsFiniteSet(Spent(u)') /\ Cardinality(Spent(u)') \in Nat
  BY <1>2, TicketsFinite
<1>4. ASSUME NEW u \in User, Spent(u) \subseteq Spent(u)'
      PROVE  Cardinality(Spent(u)) <= Cardinality(Spent(u)')
  BY <1>3, <1>4, FS_Subset
<1>5. ASSUME NEW u \in User, Spent(u) \subseteq Spent(u)', Spent(u) # Spent(u)'
      PROVE  Cardinality(Spent(u)) + 1 <= Cardinality(Spent(u)')
  <2>1. Cardinality(Spent(u)) # Cardinality(Spent(u)')
    BY <1>3, <1>5, FS_Subset
  <2> QED
    BY <1>3, <1>4, <1>5, <2>1
<1>6. ASSUME password' = password, \A u \in User : Spent(u) \subseteq Spent(u)'
      PROVE  SingleUse'
  <2> SUFFICES ASSUME NEW u \in User PROVE password'[u] <= Cardinality(Spent(u)')
    BY DEF SingleUse
  <2>1. password[u] <= Cardinality(Spent(u)) /\ password[u] \in Nat
    BY <1>1 DEF SingleUse, TypeOK
  <2> QED
    BY <1>3, <1>4, <1>6, <2>1
<1>7. ASSUME NEW r \in Request, Claim(r) PROVE SingleUse'
  <2> SUFFICES ASSUME NEW u \in User PROVE password'[u] <= Cardinality(Spent(u)')
    BY DEF SingleUse
  <2>1. password[u] <= Cardinality(Spent(u)) /\ password[u] \in Nat /\ password'[u] \in Nat
    BY <1>1 DEF SingleUse, TypeOK
  <2>2. Spent(u) \subseteq Spent(u)'
    BY <1>7 DEF Claim, Spent, TicketsOf
  <2>3. CASE u # user[r]
    <3>1. password'[u] = password[u]
      BY <1>1, <1>7, <2>3 DEF Claim, TypeOK
    <3> QED
      BY <1>3, <1>4, <2>1, <2>2, <3>1
  <2>4. CASE u = user[r]
    <3>1. password'[u] = password[u] + 1
      BY <1>1, <1>7, <2>4 DEF Claim, TypeOK
    <3>2. ticket[r] \in Spent(u)' /\ ticket[r] \notin Spent(u)
      BY <1>1, <1>7, <2>4 DEF Claim, InFlightSound, Spent, TicketsOf, Idle, TypeOK
    <3> QED
      BY <1>3, <1>5, <2>1, <2>2, <3>1, <3>2
  <2> QED
    BY <2>3, <2>4
<1>8. ASSUME NEW u \in User, Forgot(u) PROVE SingleUse'
  <2>1. \A w \in User : Spent(w) \subseteq Spent(w)'
    BY SMTT(20), <1>1, <1>8, BoundsAssumption DEF Forgot, Spent, TicketsOf, TypeOK, Ticket
  <2> QED
    BY <1>6, <1>8, <2>1 DEF Forgot, accounts
<1>9. ASSUME UNCHANGED <<issued, owner, live, password>> PROVE SingleUse'
  BY <1>6, <1>9 DEF Spent, TicketsOf
<1>10. ASSUME NEW t \in Ticket, Expire(t) PROVE SingleUse'
  BY <1>9, <1>10 DEF Expire, accounts
<1>11. ASSUME NEW r \in Request, NEW u \in User, NEW t \in Ticket, NEW right \in BOOLEAN,
              Present(r, u, t, right)
       PROVE  SingleUse'
  BY <1>9, <1>11 DEF Present, tickets, accounts
<1>12. ASSUME NEW r \in Request, NEW u \in User, Login(r, u) \/ Refresh(r, u)
       PROVE  SingleUse'
  BY <1>9, <1>12 DEF Login, Refresh, BeginSession, tickets, accounts
<1>13. ASSUME NEW r \in Request, Bump(r) \/ OpenSession(r) \/ Drop(r) PROVE SingleUse'
  BY <1>9, <1>13 DEF Bump, OpenSession, Drop, tickets, accounts
<1>14. CASE UNCHANGED vars
  BY <1>9, <1>14 DEF vars, tickets, accounts
<1> QED
  BY <1>7, <1>8, <1>10, <1>11, <1>12, <1>13, <1>14 DEF Next

(* The count of compared codes is what the attempts and the requests in    *)
(* flight account for while the code can be guessed, and is frozen after:  *)
(* the last comparison let in found the attempts one short of the cap and  *)
(* all the other requests under way.                                       *)
LEMMA GuessesStep == ResetInv /\ [Next]_vars => (GuessesCounted /\ GuessesBounded)'
<1> SUFFICES ASSUME ResetInv, [Next]_vars PROVE (GuessesCounted /\ GuessesBounded)'
  OBVIOUS
<1> DEFINE N(t) == Cardinality(Presenting(t))
<1>1. TypeOK /\ TypeOK' /\ InFlightSound /\ GuessesCounted /\ GuessesBounded
  BY TypeStep DEF ResetInv
<1>2. \A t \in Ticket : N(t) \in Nat /\ N(t)' \in Nat
  BY RequestsFinite DEF Presenting
<1>3. Cardinality(Request) \in Nat
  BY RequestAssumption, FS_CardinalityType
<1>4. ASSUME UNCHANGED <<guesses, attempts, issued, pc, ticket>>, live' \subseteq live
      PROVE  (GuessesCounted /\ GuessesBounded)'
  BY <1>1, <1>4 DEF GuessesCounted, GuessesBounded, Presenting
<1>5. ASSUME NEW u \in User, Forgot(u) PROVE (GuessesCounted /\ GuessesBounded)'
  <2>1. \A t \in Ticket : Presenting(t)' = Presenting(t)
    BY <1>5 DEF Forgot, Presenting, locals
  <2>2. issued \in Nat /\ issued' = issued + 1 /\ issued + 1 \in Ticket
    BY <1>1, <1>5, BoundsAssumption DEF Forgot, TypeOK, Ticket
  <2>3. N(issued + 1) <= 0 /\ guesses[issued + 1] = 0 /\ attempts[issued + 1] = 0
    BY <1>1, <2>2 DEF GuessesCounted
  <2>4. N(issued + 1) = 0
    BY <1>2, <2>2, <2>3
  <2> QED
    BY <1>1, <1>5, <2>1, <2>2, <2>3, <2>4
    DEF Forgot, GuessesCounted, GuessesBounded, TypeOK, Ticket
<1>6. ASSUME NEW r \in Request, NEW u \in User, NEW t \in Ticket, NEW right \in BOOLEAN,
             Present(r, u, t, right)
      PROVE  (GuessesCounted /\ GuessesBounded)'
  <2>1. /\ N(t)' = N(t) + 1 /\ N(t) + 1 <= Cardinality(Request)
        /\ \A s \in Ticket \ {t} : Presenting(s)' = Presenting(s)
    BY <1>1, <1>6, PresentAdds
  <2>2. t \in live /\ t <= issued /\ attempts[t] < MaxAttempts
    BY <1>1, <1>6 DEF Present, Newest, Redeemable, TicketsOf, TypeOK
  <2>3. /\ guesses' = [guesses EXCEPT ![t] = @ + 1]
        /\ UNCHANGED <<issued, live, attempts>>
    BY <1>6 DEF Present, tickets
  <2>4. /\ guesses[t] = attempts[t] + N(t) /\ guesses'[t] = guesses[t] + 1
        /\ attempts[t] \in Nat /\ issued \in Nat /\ t \in Nat
    BY <1>1, <2>2, <2>3, BoundsAssumption DEF GuessesCounted, TypeOK, Ticket
  <2>5. guesses'[t] = attempts'[t] + N(t)' /\ guesses'[t] < MaxAttempts + Cardinality(Request)
    BY <1>2, <1>3, <2>1, <2>2, <2>3, <2>4, BoundsAssumption
  <2>6. \A s \in Ticket \ {t} : guesses'[s] = guesses[s]
    BY <1>1, <2>3 DEF TypeOK
  <2>7. GuessesBounded'
    BY <1>1, <2>5, <2>6 DEF GuessesBounded
  <2>8. N(t)' <= guesses'[t] /\ ~(t > issued)
    BY <1>2, <2>2, <2>3, <2>4, <2>5
  <2>9. GuessesCounted'
    BY <1>1, <2>1, <2>3, <2>5, <2>6, <2>8 DEF GuessesCounted
  <2> QED
    BY <2>7, <2>9
<1>7. ASSUME NEW r \in Request, Bump(r) \/ Claim(r) \/ OpenSession(r) \/ Drop(r)
      PROVE  (GuessesCounted /\ GuessesBounded)'
  <2>1. Finish(r) /\ issued' = issued
    BY <1>7 DEF Bump, Claim, OpenSession, Drop, tickets
  <2>2. \A t \in Ticket : /\ r \in Presenting(t) => N(t)' = N(t) - 1
                          /\ r \notin Presenting(t) => Presenting(t)' = Presenting(t)
    BY <1>1, <2>1, FinishLeaves
  <2>3. CASE pc[r] = "open"
    <3>1. \A t \in Ticket : Presenting(t)' = Presenting(t)
      BY <2>2, <2>3 DEF Presenting
    <3>2. UNCHANGED <<guesses, attempts, issued, live>>
      BY <1>7, <2>3 DEF Bump, Claim, OpenSession, Drop, tickets
    <3> QED
      BY <1>1, <3>1, <3>2 DEF GuessesCounted, GuessesBounded
  <2>4. CASE pc[r] # "open"
    <3>0. /\ ticket[r] \in Ticket /\ ticket[r] <= issued
          /\ pc[r] \in {"bump", "claim"}
      BY <1>1, <1>7, <2>4, BoundsAssumption
      DEF Bump, Claim, OpenSession, Drop, InFlightSound, TicketsOf, TypeOK, Ticket, Idle
    <3> SUFFICES ASSUME NEW t \in Ticket, t = ticket[r]
                 PROVE  (GuessesCounted /\ GuessesBounded)'
      BY <3>0
    <3>1. t <= issued /\ r \in Presenting(t)
      BY <3>0 DEF Presenting
    <3>2. \A s \in Ticket \ {t} : r \notin Presenting(s)
      BY DEF Presenting
    <3>3. N(t)' = N(t) - 1 /\ \A s \in Ticket \ {t} : Presenting(s)' = Presenting(s)
      BY <2>2, <3>1, <3>2
    <3>4. \A s \in Ticket \ {t} : guesses'[s] = guesses[s] /\ attempts'[s] = attempts[s]
      BY <1>1, <1>7 DEF Bump, Claim, OpenSession, Drop, tickets, TypeOK
    <3>5. live' \subseteq live
      BY <1>7 DEF Bump, Claim, OpenSession, Drop, tickets
    <3>6. /\ N(t)' <= guesses'[t] /\ guesses'[t] <= guesses[t]
          /\ t \in live' /\ attempts'[t] < MaxAttempts => guesses'[t] = attempts'[t] + N(t)'
      <4> USE <1>1, <1>2, <3>1, <3>3
      <4>1. /\ guesses[t] \in Nat /\ attempts[t] \in 0 .. MaxAttempts /\ N(t) <= guesses[t]
            /\ t \in live /\ attempts[t] < MaxAttempts => guesses[t] = attempts[t] + N(t)
        BY DEF GuessesCounted, TypeOK
      <4>2. CASE Bump(r)
        <5>1. /\ guesses' = guesses /\ live' = live
              /\ attempts'[t] = IF attempts[t] < MaxAttempts THEN attempts[t] + 1 ELSE attempts[t]
          BY <4>2 DEF Bump, TypeOK
        <5> QED
          BY <4>1, <5>1, BoundsAssumption
      <4>3. CASE Claim(r)
        <5>1. guesses' = guesses /\ t \notin live'
          BY <4>3 DEF Claim, InFlightSound, Idle
        <5> QED
          BY <4>1, <5>1
      <4>4. CASE Drop(r)
        <5>1. guesses'[t] = guesses[t] - 1 /\ attempts' = attempts /\ live' = live
          BY <2>4, <4>4 DEF Drop, tickets, TypeOK
        <5> QED
          BY <4>1, <5>1, BoundsAssumption
      <4> QED
        BY <1>7, <2>4, <4>2, <4>3, <4>4 DEF OpenSession
    <3>7. ~(t > issued')
      BY <1>1, <2>1, <3>1 DEF TypeOK, Ticket
    <3>8. GuessesCounted'
      BY <1>1, <2>1, <3>3, <3>4, <3>5, <3>6, <3>7 DEF GuessesCounted
    <3>9. guesses'[t] < MaxAttempts + Cardinality(Request)
      <4>1. guesses'[t] \in Nat /\ guesses[t] \in Nat
        BY <1>1, <3>1 DEF TypeOK
      <4>2. guesses[t] < MaxAttempts + Cardinality(Request)
        BY <1>1, <3>1 DEF GuessesBounded
      <4> QED
        BY <1>3, <3>6, <4>1, <4>2, BoundsAssumption
    <3>10. GuessesBounded'
      BY <1>1, <3>4, <3>9 DEF GuessesBounded
    <3> QED
      BY <3>8, <3>10
  <2> QED
    BY <2>3, <2>4
<1>8. ASSUME NEW t \in Ticket, Expire(t) PROVE (GuessesCounted /\ GuessesBounded)'
  BY <1>4, <1>8 DEF Expire, locals
<1>9. ASSUME NEW r \in Request, NEW u \in User, Login(r, u) \/ Refresh(r, u)
      PROVE  (GuessesCounted /\ GuessesBounded)'
  <2>1. \A t \in Ticket : Presenting(t)' = Presenting(t)
    BY <1>1, <1>9 DEF Login, Refresh, BeginSession, Presenting, TypeOK, Idle
  <2> QED
    BY <1>1, <1>9, <2>1
    DEF Login, Refresh, BeginSession, tickets, GuessesCounted, GuessesBounded
<1>10. CASE UNCHANGED vars
  BY <1>4, <1>10 DEF vars, tickets, locals
<1> QED
  BY <1>5, <1>6, <1>7, <1>8, <1>9, <1>10 DEF Next

-----------------------------------------------------------------------------
(* The inductive invariant: what a request has secured before its bcrypt   *)
(* still holds when it writes, whatever the others did meanwhile.          *)
THEOREM ResetInvariant == Spec => []ResetInv
<1>1. ResetInv /\ [Next]_vars => ResetInv'
  BY TypeStep, InFlightStep, LiveIsNewestStep, GuessesStep, SingleUseStep, SessionsStep
  DEF ResetInv
<1> QED
  BY InitSound, <1>1, PTL DEF Spec

(* The columns and locals of forgot and reset hold what their types say.   *)
THEOREM ResetTypeCorrect == Spec => []TypeOK
BY ResetInvariant, PTL DEF ResetInv

(* An account never has two codes that can be redeemed                     *)
(* (password.service.js:21).                                               *)
THEOREM OneCodeAtATime == Spec => []OneLiveCode
<1>1. ResetInv => OneLiveCode
  <2> SUFFICES ASSUME ResetInv, NEW t \in live, NEW s \in live, owner[t] = owner[s]
               PROVE  t = s
    BY DEF OneLiveCode
  <2>1. t \in 1 .. issued /\ s \in 1 .. issued /\ issued \in Nat
    BY BoundsAssumption DEF ResetInv, TypeOK
  <2>2. t <= s /\ s <= t
    BY <2>1 DEF ResetInv, LiveIsNewest, Newest, TicketsOf
  <2> QED
    BY <2>1, <2>2
<1> QED
  BY <1>1, ResetInvariant, PTL

(* No code writes a password twice, however many requests present it at    *)
(* once (password.service.js:5, 103).                                      *)
THEOREM CodesAreSingleUse == Spec => []SingleUse
BY ResetInvariant, PTL DEF ResetInv

(* The comparisons of one code are bounded by the cap and the number of    *)
(* requests the server handles at a time (password.service.js:86-92).      *)
THEOREM GuessesAreBounded == Spec => []GuessesBounded
BY ResetInvariant, PTL DEF ResetInv

(* A session under an old password is one whose sign-in or renewal         *)
(* straddled the reset (password.service.js:120).                          *)
THEOREM ResetsEndSessions == Spec => []ResetEndsSessions
BY ResetInvariant, PTL DEF ResetInv

(* A reset goes through only with the newest code of its account: the      *)
(* conditional claim loses to whoever voided the code during the bcrypt.   *)
THEOREM NewestCodeResets == Spec => OnlyNewestResets
<1>1. ResetInv /\ [Next]_vars =>
        [\A u \in User :
            password'[u] # password[u] =>
                \E r \in Request :
                    /\ pc[r] = "claim" /\ pc'[r] = Idle /\ user[r] = u
                    /\ ticket[r] \in live /\ Newest(ticket[r], TicketsOf(u))]_vars
  <2> SUFFICES ASSUME ResetInv, [Next]_vars, NEW u \in User, password'[u] # password[u]
               PROVE  \E r \in Request :
                         /\ pc[r] = "claim" /\ pc'[r] = Idle /\ user[r] = u
                         /\ ticket[r] \in live /\ Newest(ticket[r], TicketsOf(u))
    OBVIOUS
  <2>1. PICK r \in Request : Claim(r)
    BY DEF Next, vars, Forgot, Expire, Present, Login, Refresh, BeginSession, Bump, OpenSession,
           Drop, tickets, accounts
  <2>2. user[r] = u
    BY <2>1 DEF Claim, ResetInv, TypeOK
  <2>3. ticket[r] \in live /\ owner[ticket[r]] = u
    BY <2>1, <2>2 DEF Claim, ResetInv, InFlightSound, TicketsOf, Idle
  <2>4. Newest(ticket[r], TicketsOf(u))
    BY <2>3 DEF ResetInv, LiveIsNewest
  <2>5. pc[r] = "claim" /\ pc'[r] = Idle
    BY <2>1 DEF Claim, Finish, ResetInv, TypeOK
  <2> QED
    BY <2>2, <2>3, <2>4, <2>5
<1> QED
  BY <1>1, ResetInvariant, PTL DEF Spec, OnlyNewestResets
=============================================================================
