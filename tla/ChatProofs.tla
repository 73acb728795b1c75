----------------------------- MODULE ChatProofs -----------------------------
(***************************************************************************)
(* ChatInv is an invariant of rooms, messages and streams for any number   *)
(* of rooms, messages and requests, any page and any cap on long-polls.    *)
(***************************************************************************)
EXTENDS Chat, FiniteSetTheorems, TLAPS

(* (createdAt, id) orders the messages: of two, one comes first.           *)
LEMMA Order ==
  ASSUME createdAt \in [Message -> Nat], NEW x \in Message, NEW y \in Message, NEW z \in Message
  PROVE  /\ ~Before(x, x)
         /\ Before(x, y) => ~Before(y, x)
         /\ x = y \/ Before(x, y) \/ Before(y, x)
         /\ Before(x, y) /\ Before(y, z) => Before(x, z)
<1>1. createdAt[x] \in Nat /\ createdAt[y] \in Nat /\ createdAt[z] \in Nat
  OBVIOUS
<1>2. x \in Nat /\ y \in Nat /\ z \in Nat
  BY NumbersAssumption DEF Message
<1> QED
  BY <1>1, <1>2 DEF Before

(* A page has no gaps: what stands before one of its rows is in it.        *)
LEMMA OldestClosed ==
  ASSUME createdAt \in [Message -> Nat], NEW S \in SUBSET Message,
         NEW k \in Oldest(S), NEW m \in S, Before(m, k)
  PROVE  m \in Oldest(S)
<1> DEFINE Ahead0(y) == {x \in S : Before(x, y)}
<1>1. Ahead0(m) \subseteq Ahead0(k)
  BY Order DEF Oldest
<1>2. IsFiniteSet(S)
  <2>1. IsFiniteSet(Message)
    BY FS_Interval, NumbersAssumption DEF Message
  <2> QED
    BY <2>1, FS_Subset
<1>3. IsFiniteSet(Ahead0(k)) /\ IsFiniteSet(Ahead0(m))
  BY <1>2, FS_Subset
<1>4. Cardinality(Ahead0(m)) <= Cardinality(Ahead0(k))
  BY <1>1, <1>3, FS_Subset
<1>5. Cardinality(Ahead0(m)) \in Nat /\ Cardinality(Ahead0(k)) \in Nat
  BY <1>3, FS_CardinalityType
<1>6. Cardinality(Ahead0(k)) < PageSize
  BY DEF Oldest
<1> QED
  BY <1>4, <1>5, <1>6, NumbersAssumption DEF Oldest

-----------------------------------------------------------------------------
LEMMA InitSound == Init => ChatInv
<1> SUFFICES ASSUME Init PROVE ChatInv
  OBVIOUS
<1> USE NumbersAssumption, RoomAssumption DEF Init
<1>1. TypeOK
  BY DEF TypeOK, Idle, NoMessage
<1>2. WaitsCounted
  <2>1. {r \in Request : pc[r] = "wait"} = {}
    BY DEF Idle
  <2> QED
    BY <2>1, FS_EmptySet DEF WaitsCounted
<1>3. InFlightSound /\ DatesCover /\ RoomFresh
  BY DEF InFlightSound, DatesCover, RoomFresh, Storing, Idle
<1>4. CursorsSound /\ NothingSkipped /\ InOrderOnce
  BY DEF CursorsSound, NothingSkipped, InOrderOnce, Idle
<1> QED
  BY <1>1, <1>2, <1>3, <1>4 DEF ChatInv

(* Long-polls are counted while they wait: the request that starts one was *)
(* not waiting, and one that ends was counted.                             *)
LEMMA WaitsStep == ChatInv /\ [Next]_vars => WaitsCounted' /\ activeWaits' \in 0 .. MaxWaits
<1> SUFFICES ASSUME ChatInv, [Next]_vars
             PROVE  WaitsCounted' /\ activeWaits' \in 0 .. MaxWaits
  OBVIOUS
<1> DEFINE Waiting == {r \in Request : pc[r] = "wait"}
<1>1. TypeOK /\ activeWaits = Cardinality(Waiting)
  BY DEF ChatInv, WaitsCounted
<1>2. IsFiniteSet(Waiting) /\ activeWaits \in Nat
  BY <1>1, RequestsAssumption, FS_Subset, FS_CardinalityType
<1>3. ASSUME UNCHANGED activeWaits, Waiting' = Waiting
      PROVE  WaitsCounted' /\ activeWaits' \in 0 .. MaxWaits
  BY <1>1, <1>3 DEF WaitsCounted, TypeOK
<1>4. ASSUME NEW r \in Request, NEW where \in Writing \cup {"latest", "page", "poll", Idle},
             pc' = [pc EXCEPT ![r] = where], pc[r] # "wait", UNCHANGED activeWaits
      PROVE  WaitsCounted' /\ activeWaits' \in 0 .. MaxWaits
  <2>1. Waiting' = Waiting
    BY <1>1, <1>4 DEF TypeOK, Writing, Idle
  <2> QED
    BY <1>3, <1>4, <2>1
<1>5. ASSUME NEW r \in Request, pc[r] = "wait", Finish(r), activeWaits' = activeWaits - 1
      PROVE  WaitsCounted' /\ activeWaits' \in 0 .. MaxWaits
  <2>1. r \in Waiting /\ Waiting' = Waiting \ {r}
    BY <1>1, <1>5 DEF TypeOK, Finish, Goto, Idle
  <2>2. Cardinality(Waiting') = activeWaits - 1
    BY <1>1, <1>2, <2>1, FS_RemoveElement
  <2>3. activeWaits # 0
    BY <1>1, <1>2, <2>1, FS_EmptySet
  <2> QED
    BY <1>1, <1>2, <1>5, <2>2, <2>3, NumbersAssumption DEF WaitsCounted, TypeOK
<1>6. ASSUME NEW r \in Request, NEW c \in Room, Send(r, c) \/ Open(r, c)
      PROVE  WaitsCounted' /\ activeWaits' \in 0 .. MaxWaits
  BY <1>4, <1>6 DEF Send, Open, Goto, Writing, Idle
<1>7. ASSUME NEW r \in Request, NEW c \in Room, NEW after \in Message \cup {NoMessage},
             Stream(r, c, after)
      PROVE  WaitsCounted' /\ activeWaits' \in 0 .. MaxWaits
  BY <1>4, <1>7 DEF Stream, Goto, Idle
<1>8. ASSUME NEW r \in Request, NEW c \in Room, NEW after \in Message \cup {NoMessage},
             Wait(r, c, after)
      PROVE  WaitsCounted' /\ activeWaits' \in 0 .. MaxWaits
  <2>1. r \notin Waiting /\ Waiting' = Waiting \cup {r}
    BY <1>1, <1>8 DEF TypeOK, Wait, Goto, Idle
  <2>2. Cardinality(Waiting') = activeWaits + 1
    BY <1>1, <1>2, <2>1, FS_AddElement
  <2> QED
    BY <1>1, <1>2, <1>8, <2>2, NumbersAssumption DEF WaitsCounted, Wait, TypeOK
<1>9. ASSUME NEW r \in Request, NEW message \in BOOLEAN, Create(r, message)
      PROVE  WaitsCounted' /\ activeWaits' \in 0 .. MaxWaits
  BY <1>4, <1>9 DEF Create, Goto, Writing
<1>10. ASSUME NEW r \in Request, NEW m \in Message, Stamp(r, m)
       PROVE  WaitsCounted' /\ activeWaits' \in 0 .. MaxWaits
  BY <1>4, <1>10 DEF Stamp, Goto, Writing
<1>11. ASSUME NEW r \in Request, Settle(r) \/ Insert(r) \/ Date(r) \/ Commit(r) \/ Notify(r)
       PROVE  WaitsCounted' /\ activeWaits' \in 0 .. MaxWaits
  <2>1. PICK where \in Writing \cup {Idle} :
             pc' = [pc EXCEPT ![r] = where] /\ pc[r] # "wait" /\ UNCHANGED activeWaits
    BY <1>11 DEF Settle, Insert, Date, Commit, Notify, Finish, Goto, Writing
  <2> QED
    BY <1>4, <2>1
<1>12. ASSUME NEW r \in Request, Latest(r) \/ Page(r)
       PROVE  WaitsCounted' /\ activeWaits' \in 0 .. MaxWaits
  BY <1>4, <1>12 DEF Latest, Page, Goto
<1>13. ASSUME NEW r \in Request, Poll(r)
       PROVE  WaitsCounted' /\ activeWaits' \in 0 .. MaxWaits
  BY <1>3, <1>13 DEF Poll
<1>14. ASSUME NEW r \in Request, Answer(r)
       PROVE  WaitsCounted' /\ activeWaits' \in 0 .. MaxWaits
  BY <1>5, <1>14 DEF Answer
<1>15. ASSUME NEW r \in Request, Drop(r)
       PROVE  WaitsCounted' /\ activeWaits' \in 0 .. MaxWaits
  <2>1. CASE pc[r] = "wait"
    BY <1>5, <1>15, <2>1 DEF Drop
  <2>2. CASE pc[r] # "wait"
    BY <1>4, <1>15, <2>2 DEF Drop, Finish, Goto
  <2> QED
    BY <2>1, <2>2
<1>16. CASE Tick \/ UNCHANGED vars
  BY <1>3, <1>16 DEF Tick, vars
<1> QED
  BY <1>6, <1>7, <1>8, <1>9, <1>10, <1>11, <1>12, <1>13, <1>14, <1>15, <1>16 DEF Next

(* The columns and locals keep their types.                                *)
LEMMA TypeStep == ChatInv /\ [Next]_vars => TypeOK'
<1> SUFFICES ASSUME ChatInv, [Next]_vars PROVE TypeOK'
  OBVIOUS
<1>1. TypeOK /\ InFlightSound /\ activeWaits' \in 0 .. MaxWaits
  BY WaitsStep DEF ChatInv
<1> USE NumbersAssumption
    DEF TypeOK, stored, writing, reading, Goto, Writing, Reading, Idle, NoMessage, Message
<1>2. ASSUME NEW r \in Request, NEW c \in Room, Send(r, c) \/ Open(r, c) PROVE TypeOK'
  BY ZenonT(40), <1>1, <1>2 DEF Send, Open
<1>3. ASSUME NEW r \in Request, NEW c \in Room, NEW after \in Message \cup {NoMessage},
             Stream(r, c, after) \/ Wait(r, c, after)
      PROVE  TypeOK'
  <2>1. after \in Message \cup {NoMessage}
    BY <1>3
  <2>2. CASE Stream(r, c, after)
    BY <1>1, <2>1, <2>2 DEF Stream
  <2>3. CASE Wait(r, c, after)
    BY <1>1, <2>1, <2>3 DEF Wait
  <2> QED
    BY <1>3, <2>2, <2>3
<1>4. ASSUME NEW r \in Request, NEW message \in BOOLEAN, Create(r, message) PROVE TypeOK'
  BY <1>1, <1>4 DEF Create
<1>5. ASSUME NEW r \in Request, NEW m \in Message, Stamp(r, m) PROVE TypeOK'
  BY <1>1, <1>5 DEF Stamp
<1>6. ASSUME NEW r \in Request, Finish(r), room[r] \in Room
      PROVE  /\ pc' \in [Request -> {Idle} \cup Writing \cup Reading]
             /\ room' \in [Request -> Room \cup {None}] /\ opening' \subseteq Request
             /\ msg' \in [Request -> Message \cup {NoMessage}] /\ date' \in [Request -> Nat]
             /\ from' \in [Request -> Message \cup {NoMessage}]
             /\ cursor' \in [Request -> Message \cup {NoMessage}]
             /\ got' \in [Request -> SUBSET Message]
  BY <1>1, <1>6 DEF Finish
<1>7. ASSUME NEW r \in Request, pc[r] # Idle PROVE room[r] \in Room
  BY <1>1, <1>7 DEF InFlightSound
<1>8. ASSUME NEW r \in Request, Settle(r) PROVE TypeOK'
  BY <1>1, <1>6, <1>7, <1>8 DEF Settle
<1>9. ASSUME NEW r \in Request, Insert(r) \/ Date(r) PROVE TypeOK'
  BY ZenonT(40), <1>1, <1>9 DEF Insert, Date
<1>10. ASSUME NEW r \in Request, Commit(r) PROVE TypeOK'
  <2>1. msg[r] \in Message /\ room[r] \in Room
    BY <1>1, <1>7, <1>10 DEF InFlightSound, Storing, Commit
  <2>2. late' \in [Request -> SUBSET Message]
    BY <1>1, <1>10, <2>1 DEF Commit, Missed
  <2>3. /\ rooms' \subseteq Room /\ visible' \subseteq Message /\ notified' \subseteq visible'
        /\ lastMessageAt' \in [Room -> Nat]
    BY <1>1, <1>10, <2>1 DEF Commit
  <2>4. CASE r \in opening
    BY <1>1, <1>6, <1>10, <2>1, <2>2, <2>3, <2>4 DEF Commit
  <2>5. CASE r \notin opening
    BY ZenonT(40), <1>1, <1>10, <2>2, <2>3, <2>5 DEF Commit
  <2> QED
    BY <2>4, <2>5
<1>11. ASSUME NEW r \in Request, Notify(r) PROVE TypeOK'
  BY <1>1, <1>6, <1>7, <1>11 DEF Notify, InFlightSound
<1>12. ASSUME NEW r \in Request, Latest(r) PROVE TypeOK'
  <2>1. Newest(Shown(room[r])) \subseteq Message
    BY <1>1 DEF Newest, Shown
  <2>2. from' \in [Request -> Message \cup {NoMessage}]
    BY <1>1, <1>12, <2>1 DEF Latest, IsFirst
  <2>3. pc' \in [Request -> {Idle} \cup Writing \cup Reading]
    BY ZenonT(40), <1>1, <1>12 DEF Latest
  <2> QED
    BY <1>1, <1>12, <2>2, <2>3 DEF Latest
<1>13. ASSUME NEW r \in Request, NEW rows \in SUBSET Message, Deliver(r, rows)
       PROVE  /\ cursor' \in [Request -> Message \cup {NoMessage}]
              /\ got' \in [Request -> SUBSET Message] /\ outOfTurn' \subseteq Message
  BY <1>1, <1>13 DEF Deliver
<1>14. ASSUME NEW r \in Request, Page(r) \/ Poll(r) PROVE TypeOK'
  <2>1. PICK rows \in SUBSET Message : Deliver(r, rows)
    BY <1>1, <1>14 DEF Page, Poll, FetchAfter, Oldest, Shown
  <2> QED
    BY <1>1, <1>13, <1>14, <2>1 DEF Page, Poll
<1>15. ASSUME NEW r \in Request, Answer(r) \/ Drop(r) PROVE TypeOK'
  BY <1>1, <1>6, <1>7, <1>15 DEF Answer, Drop
<1>16. CASE Tick
  BY <1>1, <1>16 DEF Tick
<1>17. CASE UNCHANGED vars
  BY <1>1, <1>17 DEF vars
<1> QED
  BY <1>2, <1>3, <1>4, <1>5, <1>8, <1>9, <1>10, <1>11, <1>12, <1>14, <1>15, <1>16, <1>17
  DEF Next

-----------------------------------------------------------------------------
(* A stored message has one writer, stays where its row says, and becomes  *)
(* visible only when that writer commits.                                  *)
LEMMA InFlightStep == ChatInv /\ [Next]_vars => InFlightSound'
<1> SUFFICES ASSUME ChatInv, [Next]_vars PROVE InFlightSound'
  OBVIOUS
<1>1. TypeOK /\ InFlightSound
  BY DEF ChatInv
<1> USE NumbersAssumption, RoomAssumption DEF InFlightSound, Storing, Idle, Goto
<1>2. ASSUME UNCHANGED <<createdAt, roomOf, visible>>, now' = now, NEW r \in Request,
             \A q \in Request \ {r} : pc'[q] = pc[q] /\ room'[q] = room[q] /\ msg'[q] = msg[q],
             pc'[r] # Idle => room'[r] \in Room,
             pc'[r] # "notify",
             Storing(r)' => Storing(r) /\ msg'[r] = msg[r] /\ room'[r] = room[r]
      PROVE  InFlightSound'
  BY <1>1, <1>2
<1>3. ASSUME NEW r \in Request, NEW c \in Room, Send(r, c) \/ Open(r, c)
      PROVE  InFlightSound'
  BY <1>1, <1>2, <1>3 DEF Send, Open, TypeOK, stored, writing
<1>4. ASSUME NEW r \in Request, NEW c \in Room, NEW after \in Message \cup {NoMessage},
             Stream(r, c, after) \/ Wait(r, c, after)
      PROVE  InFlightSound'
  BY <1>1, <1>2, <1>4 DEF Stream, Wait, TypeOK, stored, writing
<1>5. ASSUME NEW r \in Request, NEW message \in BOOLEAN, Create(r, message)
      PROVE  InFlightSound'
  BY <1>1, <1>2, <1>5 DEF Create, TypeOK, stored, writing
<1>6. ASSUME NEW r \in Request, NEW m \in Message, Stamp(r, m) PROVE InFlightSound'
  <2>1. /\ m \notin visible /\ \A q \in Request : Storing(q) => msg[q] # m
        /\ \A q \in Request : pc[q] = "notify" => msg[q] # m
    BY <1>1, <1>6 DEF Stamp, TypeOK
  <2>2. \A x \in Message \ {m} : roomOf'[x] = roomOf[x] /\ createdAt'[x] = createdAt[x]
    BY <1>1, <1>6 DEF Stamp, TypeOK
  <2>3. /\ roomOf'[m] = room[r] /\ createdAt'[m] = now /\ msg'[r] = m /\ pc'[r] = "insert"
        /\ room[r] \in Room /\ room' = room /\ visible' = visible /\ now' = now /\ now \in Nat
    BY <1>1, <1>6 DEF Stamp, TypeOK
  <2>4. \A q \in Request \ {r} : pc'[q] = pc[q] /\ msg'[q] = msg[q]
    BY <1>1, <1>6 DEF Stamp, TypeOK
  <2>5. \A x \in Message : createdAt'[x] <= now'
    BY <1>1, <2>2, <2>3
  <2>6. \A x \in visible' : roomOf'[x] \in Room
    BY <1>1, <2>1, <2>2, <2>3 DEF TypeOK
  <2> QED
    BY <1>1, <2>1, <2>2, <2>3, <2>4, <2>5, <2>6
<1>7. ASSUME NEW r \in Request, Insert(r) \/ Date(r) PROVE InFlightSound'
  BY <1>1, <1>2, <1>7 DEF Insert, Date, TypeOK, stored, writing
<1>8. ASSUME NEW r \in Request, Commit(r) PROVE InFlightSound'
  <2>1. /\ msg[r] \in Message /\ roomOf[msg[r]] \in Room
        /\ \A q \in Request \ {r} : Storing(q) => msg[q] # msg[r]
    BY <1>1, <1>8 DEF Commit
  <2>2. \A q \in Request \ {r} : pc'[q] = pc[q] /\ room'[q] = room[q] /\ msg'[q] = msg[q]
    BY <1>1, <1>8 DEF Commit, Finish, writing, TypeOK
  <2>3. \/ pc'[r] = "idle"
        \/ pc'[r] = "notify" /\ msg'[r] = msg[r] /\ room'[r] = room[r] /\ room[r] \in Room
    BY <1>1, <1>8 DEF Commit, Finish, writing, TypeOK
  <2>4. visible' = visible \cup {msg[r]} /\ UNCHANGED <<createdAt, roomOf, now>>
    BY <1>8 DEF Commit
  <2> QED
    BY <1>1, <2>1, <2>2, <2>3, <2>4
<1>9. ASSUME NEW r \in Request, Settle(r) \/ Notify(r) \/ Answer(r) \/ Drop(r)
      PROVE  InFlightSound'
  BY <1>1, <1>2, <1>9 DEF Settle, Notify, Answer, Drop, Finish, TypeOK, stored
<1>10. ASSUME NEW r \in Request, Latest(r) \/ Page(r) \/ Poll(r) PROVE InFlightSound'
  BY <1>1, <1>2, <1>10 DEF Latest, Page, Poll, TypeOK, stored, writing
<1>11. CASE Tick
  <2>1. \A m \in Message : createdAt[m] <= now + 1
    BY <1>1 DEF TypeOK
  <2> QED
    BY <1>1, <1>11, <2>1 DEF Tick, stored, writing
<1>12. CASE UNCHANGED vars
  BY <1>1, <1>12 DEF vars, stored, writing
<1> QED
  BY <1>3, <1>4, <1>5, <1>6, <1>7, <1>8, <1>9, <1>10, <1>11, <1>12 DEF Next

(* A message cannot commit into a room whose row another request holds,    *)
(* and the date of a room is the one drawn by the last to commit there.    *)
LEMMA DatesStep == ChatInv /\ [Next]_vars => (DatesCover /\ RoomFresh)'
<1> SUFFICES ASSUME ChatInv, [Next]_vars PROVE (DatesCover /\ RoomFresh)'
  OBVIOUS
<1>1. TypeOK /\ InFlightSound /\ DatesCover /\ RoomFresh
  BY DEF ChatInv
<1> USE NumbersAssumption, RoomAssumption DEF DatesCover, RoomFresh, Shown, Idle, Goto
<1>2. ASSUME UNCHANGED <<createdAt, roomOf, visible, lastMessageAt>>, NEW r \in Request,
             \A q \in Request \ {r} :
                pc'[q] = pc[q] /\ room'[q] = room[q] /\ msg'[q] = msg[q] /\ date'[q] = date[q],
             pc'[r] # "touch"
      PROVE  (DatesCover /\ RoomFresh)'
  BY <1>1, <1>2
<1>3. ASSUME NEW r \in Request, NEW c \in Room, Send(r, c) \/ Open(r, c)
      PROVE  (DatesCover /\ RoomFresh)'
  BY <1>1, <1>2, <1>3 DEF Send, Open, TypeOK, stored, writing
<1>4. ASSUME NEW r \in Request, NEW c \in Room, NEW after \in Message \cup {NoMessage},
             Stream(r, c, after) \/ Wait(r, c, after)
      PROVE  (DatesCover /\ RoomFresh)'
  BY <1>1, <1>2, <1>4 DEF Stream, Wait, TypeOK, stored, writing
<1>5. ASSUME NEW r \in Request, NEW message \in BOOLEAN, Create(r, message)
      PROVE  (DatesCover /\ RoomFresh)'
  BY <1>1, <1>2, <1>5 DEF Create, TypeOK, stored, writing
<1>6. ASSUME NEW r \in Request, NEW m \in Message, Stamp(r, m)
      PROVE  (DatesCover /\ RoomFresh)'
  <2>1. /\ m \notin visible /\ visible' = visible /\ visible \subseteq Message
        /\ \A q \in Request : pc[q] = "touch" => msg[q] \in Message \ {m}
    BY <1>1, <1>6 DEF Stamp, TypeOK, InFlightSound, Storing
  <2>2. \A x \in Message \ {m} : roomOf'[x] = roomOf[x] /\ createdAt'[x] = createdAt[x]
    BY <1>1, <1>6 DEF Stamp, TypeOK
  <2>3. /\ \A q \in Request : pc'[q] = "touch" =>
              pc[q] = "touch" /\ msg'[q] = msg[q] /\ room'[q] = room[q] /\ date'[q] = date[q]
        /\ lastMessageAt' = lastMessageAt
    BY <1>1, <1>6 DEF Stamp, TypeOK
  <2> QED
    BY <1>1, <2>1, <2>2, <2>3
<1>7. ASSUME NEW r \in Request, Insert(r) PROVE (DatesCover /\ RoomFresh)'
  BY <1>1, <1>2, <1>7 DEF Insert, TypeOK, stored, writing
<1>8. ASSUME NEW r \in Request, Date(r) PROVE (DatesCover /\ RoomFresh)'
  <2>1. \A m \in Shown(room[r]) \cup {msg[r]} : createdAt[m] <= now
    BY <1>1, <1>8 DEF Date, InFlightSound, Storing, TypeOK
  <2>2. date'[r] = now /\ \A q \in Request \ {r} : date'[q] = date[q] /\ pc'[q] = pc[q]
    BY <1>1, <1>8 DEF Date, TypeOK
  <2> QED
    BY <1>1, <1>8, <2>1, <2>2 DEF Date, stored
<1>9. ASSUME NEW r \in Request, Commit(r) PROVE (DatesCover /\ RoomFresh)'
  <2>1. /\ roomOf[msg[r]] = room[r] /\ room[r] \in Room /\ msg[r] \in Message
        /\ \A m \in Shown(room[r]) \cup {msg[r]} : createdAt[m] <= date[r]
    BY <1>1, <1>9 DEF Commit, InFlightSound, Storing
  <2>2. \A q \in Request \ {r} : pc[q] = "touch" => room[q] # room[r]
    BY <1>9 DEF Commit, HoldsRoom
  <2>3. /\ visible' = visible \cup {msg[r]} /\ UNCHANGED <<createdAt, roomOf>>
        /\ lastMessageAt'[room[r]] = date[r]
        /\ \A c \in Room \ {room[r]} : lastMessageAt'[c] = lastMessageAt[c]
    BY <1>1, <1>9, <2>1 DEF Commit, TypeOK
  <2>4. /\ \A q \in Request \ {r} :
              pc'[q] = pc[q] /\ room'[q] = room[q] /\ msg'[q] = msg[q] /\ date'[q] = date[q]
        /\ pc'[r] # "touch"
    BY <1>1, <1>9 DEF Commit, Finish, writing, TypeOK
  <2>5. \A m \in visible : roomOf[m] \in Room
    BY <1>1 DEF InFlightSound
  <2>6. RoomFresh'
    BY <1>1, <2>1, <2>3, <2>5
  <2>7. DatesCover'
    BY <1>1, <2>1, <2>2, <2>3, <2>4
  <2> QED
    BY <2>6, <2>7
<1>10. ASSUME NEW r \in Request, Settle(r) \/ Notify(r) \/ Answer(r) \/ Drop(r)
       PROVE  (DatesCover /\ RoomFresh)'
  BY <1>1, <1>2, <1>10 DEF Settle, Notify, Answer, Drop, Finish, TypeOK, stored
<1>11. ASSUME NEW r \in Request, Latest(r) \/ Page(r) \/ Poll(r)
       PROVE  (DatesCover /\ RoomFresh)'
  BY <1>1, <1>2, <1>11 DEF Latest, Page, Poll, TypeOK, stored, writing
<1>12. CASE Tick \/ UNCHANGED vars
  BY <1>1, <1>12 DEF Tick, vars, stored, writing
<1> QED
  BY <1>3, <1>4, <1>5, <1>6, <1>7, <1>8, <1>9, <1>10, <1>11, <1>12 DEF Next

-----------------------------------------------------------------------------
(* What a delivery does to the stream: its cursor moves to the last row of *)
(* the page, and of what stood behind that row nothing is left out.        *)
LEMMA Delivered ==
  ASSUME TypeOK, NEW r \in Request, NEW S \in SUBSET Shown(room[r]), Deliver(r, Oldest(S))
  PROVE  /\ cursor'[r] \in S /\ got'[r] = got[r] \cup Oldest(S) /\ Oldest(S) \subseteq S
         /\ \A m \in Oldest(S) : ~Before(cursor'[r], m)
         /\ \A m \in S : ~Before(cursor'[r], m) => m \in Oldest(S)
         /\ \A q \in Request \ {r} : cursor'[q] = cursor[q] /\ got'[q] = got[q]
<1>1. createdAt \in [Message -> Nat] /\ S \subseteq Message
  BY DEF TypeOK, Shown
<1>2. PICK k \in Oldest(S) : IsLast(k, Oldest(S)) /\ cursor' = [cursor EXCEPT ![r] = k]
  BY DEF Deliver, IsLast
<1>3. Oldest(S) \subseteq S /\ k \in S /\ cursor'[r] = k
  BY <1>2 DEF Oldest, TypeOK
<1>4. \A m \in Oldest(S) : ~Before(k, m)
  BY <1>1, <1>2, <1>3, Order DEF IsLast
<1>5. \A m \in S : ~Before(k, m) => m \in Oldest(S)
  <2> SUFFICES ASSUME NEW m \in S, ~Before(k, m) PROVE m \in Oldest(S)
    OBVIOUS
  <2>1. m = k \/ Before(m, k)
    BY <1>1, <1>3, Order
  <2> QED
    BY <1>1, <1>2, <2>1, OldestClosed
<1>6. /\ got'[r] = got[r] \cup Oldest(S)
      /\ \A q \in Request \ {r} : cursor'[q] = cursor[q] /\ got'[q] = got[q]
  BY DEF Deliver, TypeOK
<1> QED
  BY <1>3, <1>4, <1>5, <1>6

(* A stream takes what stands right after its cursor, so that it skips     *)
(* nothing and goes forward; a row committed behind the cursor is the only *)
(* one it can miss.                                                        *)
LEMMA StreamsStep ==
  ChatInv /\ [Next]_vars => (CursorsSound /\ NothingSkipped /\ InOrderOnce)'
<1> SUFFICES ASSUME ChatInv, [Next]_vars
             PROVE  (CursorsSound /\ NothingSkipped /\ InOrderOnce)'
  OBVIOUS
<1>1. TypeOK /\ InFlightSound /\ CursorsSound /\ NothingSkipped /\ InOrderOnce
  BY DEF ChatInv
<1> USE NumbersAssumption, RoomAssumption
    DEF CursorsSound, NothingSkipped, InOrderOnce, Shown, Before, Idle, Goto
<1>2. ASSUME visible' = visible, outOfTurn' = outOfTurn, NEW r \in Request,
             \A m \in visible : createdAt'[m] = createdAt[m] /\ roomOf'[m] = roomOf[m],
             \A q \in Request \ {r} :
                /\ pc'[q] = pc[q] /\ room'[q] = room[q] /\ from'[q] = from[q]
                /\ cursor'[q] = cursor[q] /\ got'[q] = got[q] /\ late'[q] = late[q],
             pc'[r] \notin {"latest", "page", "poll"},
             got'[r] = {}
      PROVE  (CursorsSound /\ NothingSkipped /\ InOrderOnce)'
  BY <1>1, <1>2
<1>3. ASSUME NEW r \in Request, NEW c \in Room, Send(r, c) \/ Open(r, c)
      PROVE  (CursorsSound /\ NothingSkipped /\ InOrderOnce)'
  BY <1>1, <1>2, <1>3 DEF Send, Open, TypeOK, stored, writing, reading
<1>4. ASSUME NEW r \in Request, NEW c \in Room, NEW after \in Message \cup {NoMessage},
             Wait(r, c, after)
      PROVE  (CursorsSound /\ NothingSkipped /\ InOrderOnce)'
  BY <1>1, <1>2, <1>4 DEF Wait, TypeOK, stored, writing
<1>5. ASSUME NEW r \in Request, NEW c \in Room, NEW after \in Message \cup {NoMessage},
             Stream(r, c, after)
      PROVE  (CursorsSound /\ NothingSkipped /\ InOrderOnce)'
  <2>1. /\ pc'[r] \in {"latest", "poll"} /\ room'[r] = c /\ from'[r] = after /\ cursor'[r] = after
        /\ pc'[r] = "latest" => after = NoMessage
        /\ got'[r] = {} /\ (after = NoMessage \/ after \in Shown(c))
    BY <1>1, <1>5 DEF Stream, TypeOK
  <2>2. \A q \in Request \ {r} :
            /\ pc'[q] = pc[q] /\ room'[q] = room[q] /\ from'[q] = from[q]
            /\ cursor'[q] = cursor[q] /\ got'[q] = got[q] /\ late'[q] = late[q]
    BY <1>1, <1>5 DEF Stream, TypeOK
  <2>3. UNCHANGED <<visible, createdAt, roomOf, outOfTurn>>
    BY <1>5 DEF Stream, stored
  <2>4. CursorsSound'
    BY <1>1, <2>1, <2>2, <2>3
  <2>5. NothingSkipped'
    <3> SUFFICES ASSUME NEW q \in Request, pc'[q] = "poll", cursor'[q] # NoMessage,
                        NEW m \in Shown(room[q])', Before(from[q], m)', ~Before(cursor[q], m)'
                 PROVE  m \in got'[q] \cup late'[q]
      OBVIOUS
    <3>1. q # r
      BY <2>1
    <3> QED
      BY <1>1, <2>2, <2>3, <3>1
  <2> QED
    BY <1>1, <2>3, <2>4, <2>5
<1>6. ASSUME NEW r \in Request, NEW message \in BOOLEAN, Create(r, message)
      PROVE  (CursorsSound /\ NothingSkipped /\ InOrderOnce)'
  BY <1>1, <1>2, <1>6 DEF Create, TypeOK, stored, writing, reading
<1>7. ASSUME NEW r \in Request, NEW m \in Message, Stamp(r, m)
      PROVE  (CursorsSound /\ NothingSkipped /\ InOrderOnce)'
  <2>1. \A x \in visible : createdAt'[x] = createdAt[x] /\ roomOf'[x] = roomOf[x]
    BY <1>1, <1>7 DEF Stamp, TypeOK, InFlightSound
  <2> QED
    BY <1>1, <1>2, <1>7, <2>1 DEF Stamp, TypeOK, reading
<1>8. ASSUME NEW r \in Request, Insert(r) \/ Date(r)
      PROVE  (CursorsSound /\ NothingSkipped /\ InOrderOnce)'
  BY <1>1, <1>2, <1>8 DEF Insert, Date, TypeOK, stored, writing, reading
<1>9. ASSUME NEW r \in Request, Commit(r)
      PROVE  (CursorsSound /\ NothingSkipped /\ InOrderOnce)'
  <2>1. msg[r] \in Message \ visible /\ roomOf[msg[r]] = room[r]
    BY <1>1, <1>9 DEF Commit, InFlightSound, Storing
  <2>2. /\ visible' = visible \cup {msg[r]} /\ UNCHANGED <<createdAt, roomOf, outOfTurn>>
        /\ Missed(r)
    BY <1>9 DEF Commit
  <2>3. \A q \in Request \ {r} :
            /\ pc'[q] = pc[q] /\ room'[q] = room[q] /\ from'[q] = from[q]
            /\ cursor'[q] = cursor[q] /\ got'[q] = got[q]
    BY <1>1, <1>9 DEF Commit, Finish, writing, TypeOK
  <2>4. pc'[r] \in {"idle", "notify"} /\ got'[r] = {}
    BY <1>1, <1>9 DEF Commit, Finish, writing, TypeOK
  <2>5. CursorsSound'
    BY <1>1, <2>2, <2>3, <2>4
  <2>6. ASSUME NEW q \in Request \ {r}, pc[q] = "poll", cursor[q] # NoMessage,
               room[q] = room[r], ~Before(cursor[q], msg[r])
        PROVE  msg[r] \in late'[q]
    <3>1. cursor[q] \in visible /\ cursor[q] \in Message
      BY <1>1, <2>6 DEF TypeOK
    <3>2. Before(msg[r], cursor[q])
      BY <1>1, <2>1, <2>6, <3>1, Order DEF TypeOK
    <3> QED
      BY <2>2, <2>6, <3>2 DEF Missed
  <2>7. \A q \in Request : late[q] \subseteq late'[q]
    BY <2>2 DEF Missed
  <2>8. NothingSkipped'
    BY <1>1, <2>1, <2>2, <2>3, <2>4, <2>6, <2>7
  <2> QED
    BY <1>1, <2>2, <2>5, <2>8
<1>10. ASSUME NEW r \in Request, Settle(r) \/ Notify(r) \/ Answer(r) \/ Drop(r)
       PROVE  (CursorsSound /\ NothingSkipped /\ InOrderOnce)'
  BY <1>1, <1>2, <1>10 DEF Settle, Notify, Answer, Drop, Finish, TypeOK, stored
<1>11. ASSUME NEW r \in Request, Latest(r)
       PROVE  (CursorsSound /\ NothingSkipped /\ InOrderOnce)'
  <2>1. /\ pc'[r] = "poll" \/ (pc'[r] = "page" /\ from'[r] \in Shown(room[r]))
        /\ cursor'[r] = NoMessage /\ got'[r] = {} /\ room' = room
    BY <1>1, <1>11 DEF Latest, IsFirst, Newest, TypeOK
  <2>2. \A q \in Request \ {r} :
            /\ pc'[q] = pc[q] /\ from'[q] = from[q]
            /\ cursor'[q] = cursor[q] /\ got'[q] = got[q] /\ late'[q] = late[q]
    BY <1>1, <1>11 DEF Latest, TypeOK
  <2>3. UNCHANGED <<visible, createdAt, roomOf, outOfTurn>>
    BY <1>11 DEF Latest, stored
  <2> QED
    BY <1>1, <2>1, <2>2, <2>3
<1>12. ASSUME NEW r \in Request, Page(r)
       PROVE  (CursorsSound /\ NothingSkipped /\ InOrderOnce)'
  <2> DEFINE S == {m \in Shown(room[r]) : m = from[r] \/ Before(from[r], m)}
  <2> HIDE DEF S
  <2>1. S \in SUBSET Shown(room[r]) /\ Deliver(r, Oldest(S))
    BY <1>12 DEF Page, S
  <2>2. /\ cursor'[r] \in S /\ got'[r] = got[r] \cup Oldest(S) /\ Oldest(S) \subseteq S
        /\ \A m \in Oldest(S) : ~Before(cursor'[r], m)
        /\ \A m \in S : ~Before(cursor'[r], m) => m \in Oldest(S)
        /\ \A q \in Request \ {r} : cursor'[q] = cursor[q] /\ got'[q] = got[q]
    BY <1>1, <2>1, Delivered
  <2>3. /\ pc'[r] = "poll" /\ \A q \in Request \ {r} : pc'[q] = pc[q]
        /\ UNCHANGED <<visible, createdAt, roomOf, room, from, late>>
    BY <1>1, <1>12 DEF Page, stored, TypeOK
  <2>4. got[r] = {} /\ from[r] \in Shown(room[r])
    BY <1>1, <1>12 DEF Page
  <2>5. CursorsSound'
    BY <1>1, <2>1, <2>2, <2>3, <2>4
  <2>6. NothingSkipped'
    BY <1>1, <2>2, <2>3, <2>4 DEF S
  <2>7. InOrderOnce'
    BY <1>1, <2>1, <2>4 DEF Deliver
  <2> QED
    BY <2>5, <2>6, <2>7
<1>13. ASSUME NEW r \in Request, Poll(r)
       PROVE  (CursorsSound /\ NothingSkipped /\ InOrderOnce)'
  <2> DEFINE S == {m \in Shown(room[r]) : Before(cursor[r], m)}
  <2> HIDE DEF S
  <2>1. cursor[r] # NoMessage /\ pc[r] = "poll"
    BY <1>13 DEF Poll, Deliver, FetchAfter
  <2>2. S \in SUBSET Shown(room[r]) /\ Deliver(r, Oldest(S))
    BY <1>13, <2>1 DEF Poll, FetchAfter, S
  <2>3. /\ cursor'[r] \in S /\ got'[r] = got[r] \cup Oldest(S) /\ Oldest(S) \subseteq S
        /\ \A m \in Oldest(S) : ~Before(cursor'[r], m)
        /\ \A m \in S : ~Before(cursor'[r], m) => m \in Oldest(S)
        /\ \A q \in Request \ {r} : cursor'[q] = cursor[q] /\ got'[q] = got[q]
    BY <1>1, <2>2, Delivered
  <2>4. UNCHANGED <<visible, createdAt, roomOf, pc, room, from, late>>
    BY <1>13 DEF Poll, stored
  <2>5. cursor[r] \in visible /\ visible \subseteq Message /\ createdAt \in [Message -> Nat]
    BY <1>1, <2>1 DEF TypeOK
  <2>6. \A x \in got[r] : x \in Message /\ (x = cursor[r] \/ Before(x, cursor[r]))
    BY <1>1, <2>1, <2>5, Order
  <2>7. ASSUME NEW x \in got[r], NEW m \in S PROVE Before(x, m)
    BY <2>5, <2>6, <2>7, Order DEF S
  <2>8. \A x \in got'[r] : x \in Shown(room[r]) /\ ~Before(cursor'[r], x)
    <3>1. cursor'[r] \in Message /\ \A x \in got[r] : x \in Shown(room[r])
      BY <1>1, <2>1, <2>2, <2>3, <2>5
    <3>2. \A x \in got[r] : ~Before(cursor'[r], x)
      BY <2>3, <2>5, <2>6, <2>7, <3>1, Order
    <3> QED
      BY <2>2, <2>3, <3>1, <3>2
  <2>9. CursorsSound'
    BY <1>1, <2>1, <2>2, <2>3, <2>4, <2>8
  <2>10. NothingSkipped'
    <3> SUFFICES ASSUME NEW q \in Request, pc[q] = "poll", cursor'[q] # NoMessage,
                        NEW m \in Shown(room[q]), Before(from[q], m), ~Before(cursor'[q], m)
                 PROVE  m \in got'[q] \cup late[q]
      BY <2>4
    <3>1. CASE q = r /\ m \in S
      BY <2>3, <3>1
    <3>2. CASE q = r /\ m \notin S
      BY <1>1, <2>1, <2>3, <3>2 DEF S
    <3>3. CASE q # r
      BY <1>1, <2>3, <3>3
    <3> QED
      BY <3>1, <3>2, <3>3
  <2>11. InOrderOnce'
    BY <1>1, <2>2, <2>3, <2>7 DEF Deliver
  <2> QED
    BY <2>9, <2>10, <2>11
<1>14. CASE Tick \/ UNCHANGED vars
  BY <1>1, <1>14 DEF Tick, vars, stored, reading
<1> QED
  BY <1>3, <1>4, <1>5, <1>6, <1>7, <1>8, <1>9, <1>10, <1>11, <1>12, <1>13, <1>14 DEF Next

-----------------------------------------------------------------------------
(* The inductive invariant of rooms, messages, streams and long-polls.     *)
THEOREM ChatInvariant == Spec => []ChatInv
<1>1. ChatInv /\ [Next]_vars => ChatInv'
  BY TypeStep, WaitsStep, InFlightStep, DatesStep, StreamsStep DEF ChatInv
<1> QED
  BY InitSound, <1>1, PTL DEF Spec

(* The columns and locals of the chat hold what their types say, and the   *)
(* count of long-polls stays within its cap (chat.service.js:358).         *)
THEOREM ChatTypeCorrect == Spec => []TypeOK
BY ChatInvariant, PTL DEF ChatInv

(* A stream misses only what was committed behind its cursor               *)
(* (chat.service.js:304, 323).                                             *)
THEOREM StreamsSkipNothing == Spec => []NothingSkipped
BY ChatInvariant, PTL DEF ChatInv

(* A stream delivers every row once, in the order of (createdAt, id)       *)
(* (chat.service.js:277-299, chat.controller.js:97).                       *)
THEOREM StreamsKeepOrder == Spec => []InOrderOnce
BY ChatInvariant, PTL DEF ChatInv

(* A room is never older than its messages, however sends overlap          *)
(* (chat.service.js:223).                                                  *)
THEOREM RoomsStayFresh == Spec => []RoomFresh
BY ChatInvariant, PTL DEF ChatInv

(* The long-polls counted are those that wait (chat.service.js:361-372).   *)
THEOREM LongPollsAreCounted == Spec => []WaitsCounted
BY ChatInvariant, PTL DEF ChatInv
=============================================================================
