-------------------------------- MODULE Chat --------------------------------
(***************************************************************************)
(* Rooms and messages: services/chat/chat.service.js (open, send, the      *)
(* cursor of fetchLatest and fetchAfter, waitForMessages) and the SSE loop *)
(* of controllers/chat/chat.controller.js.                                 *)
(*                                                                         *)
(* A message is stamped when its INSERT starts and becomes visible when    *)
(* its transaction commits.  The insert share-locks the room's row (the    *)
(* foreign key of messages), the update of lastMessageAt locks it alone:   *)
(* of two sends of one room whose inserts overlap, the database rolls one  *)
(* back.  Ids come from several processes, so within one millisecond they  *)
(* follow no order of time.                                                *)
(***************************************************************************)
EXTENDS Integers, FiniteSets

CONSTANTS
    Room,         \* keys (productId, buyerId); a room without a product has one of its own
    MaxMessages,  \* bound on the message ids ever drawn
    Request,      \* requests the server may be handling at a time
    None,         \* an empty local
    PageSize,     \* MAX_PAGE_MESSAGES
    MaxWaits,     \* MAX_CONCURRENT_WAITS
    MaxTime       \* bound of the clock

ASSUME RoomAssumption == None \notin Room
ASSUME RequestsAssumption == IsFiniteSet(Request)
ASSUME NumbersAssumption ==
    /\ MaxMessages \in Nat /\ MaxTime \in Nat /\ MaxWaits \in Nat
    /\ PageSize \in Nat \ {0}

Message == 1 .. MaxMessages    \* ids, in the order of the column
NoMessage == 0

VARIABLES
    rooms,          \* committed rows of `conversations`
    lastMessageAt,  \* column, 0 for NULL
    roomOf,         \* messages.conversationId, None for an id not drawn
    createdAt,      \* column
    visible,        \* committed messages
    notified,       \* messages whose notification is stored
    activeWaits,    \* long-polls counted
    now,            \* the clock, in milliseconds
    pc,             \* where each request stands
    room,           \* the room it works on
    opening,        \* requests that came through `open`
    msg,            \* the message it is storing
    date,           \* its `new Date()` for lastMessageAt
    from,           \* where a stream starts: `after`, or the oldest row of its first page
    cursor,         \* the last row it has delivered
    got,            \* history: the rows it has delivered
    late,           \* history: rows committed behind its cursor
    outOfTurn       \* history: rows delivered again, or before an older one

stored == <<rooms, lastMessageAt, roomOf, createdAt, visible, notified>>
writing == <<opening, msg, date>>
reading == <<from, cursor, got, late>>
vars == <<stored, activeWaits, now, pc, room, writing, reading, outOfTurn>>

Idle == "idle"
Writing == {"create", "stamp", "insert", "date", "touch", "settle", "notify"}
Reading == {"latest", "page", "poll", "wait"}

TypeOK ==
    /\ rooms \subseteq Room
    /\ lastMessageAt \in [Room -> Nat]
    /\ roomOf \in [Message -> Room \cup {None}]
    /\ createdAt \in [Message -> Nat]
    /\ visible \subseteq Message
    /\ notified \subseteq visible
    /\ activeWaits \in 0 .. MaxWaits
    /\ now \in Nat \ {0}
    /\ pc \in [Request -> {Idle} \cup Writing \cup Reading]
    /\ room \in [Request -> Room \cup {None}]
    /\ opening \subseteq Request
    /\ msg \in [Request -> Message \cup {NoMessage}]
    /\ date \in [Request -> Nat]
    /\ from \in [Request -> Message \cup {NoMessage}]
    /\ cursor \in [Request -> Message \cup {NoMessage}]
    /\ got \in [Request -> SUBSET Message]
    /\ late \in [Request -> SUBSET Message]
    /\ outOfTurn \subseteq Message

Init ==
    /\ rooms = {} /\ visible = {} /\ notified = {} /\ opening = {} /\ outOfTurn = {}
    /\ lastMessageAt = [c \in Room |-> 0]
    /\ roomOf = [m \in Message |-> None]
    /\ createdAt = [m \in Message |-> 0]
    /\ activeWaits = 0
    /\ now = 1
    /\ pc = [r \in Request |-> Idle]
    /\ room = [r \in Request |-> None]
    /\ msg = [r \in Request |-> NoMessage]
    /\ date = [r \in Request |-> 0]
    /\ from = [r \in Request |-> NoMessage]
    /\ cursor = [r \in Request |-> NoMessage]
    /\ got = [r \in Request |-> {}]
    /\ late = [r \in Request |-> {}]

-----------------------------------------------------------------------------
Goto(r, where) == pc' = [pc EXCEPT ![r] = where]

Finish(r) ==
    /\ Goto(r, Idle)
    /\ room' = [room EXCEPT ![r] = None]
    /\ opening' = opening \ {r}
    /\ msg' = [msg EXCEPT ![r] = NoMessage]
    /\ date' = [date EXCEPT ![r] = 0]
    /\ from' = [from EXCEPT ![r] = NoMessage]
    /\ cursor' = [cursor EXCEPT ![r] = NoMessage]
    /\ got' = [got EXCEPT ![r] = {}]

Shown(c) == {m \in visible : roomOf[m] = c}

\* The order of (createdAt, id).
Before(x, y) == createdAt[x] < createdAt[y] \/ (createdAt[x] = createdAt[y] /\ x < y)

\* ORDER BY createdAt, id LIMIT take, and its descending counterpart.
Oldest(S) == {m \in S : Cardinality({x \in S : Before(x, m)}) < PageSize}
Newest(S) == {m \in S : Cardinality({x \in S : Before(m, x)}) < PageSize}

IsFirst(m, S) == m \in S /\ \A x \in S : x = m \/ Before(m, x)
IsLast(m, S) == m \in S /\ \A x \in S : x = m \/ Before(x, m)

-----------------------------------------------------------------------------
(* Writers.                                                                *)

(* POST /api/conversations/:id/messages: the room is read for membership.  *)
Send(r, c) ==
    /\ pc[r] = Idle
    /\ c \in rooms
    /\ Goto(r, "stamp")
    /\ room' = [room EXCEPT ![r] = c]
    /\ UNCHANGED <<stored, activeWaits, now, writing, reading, outOfTurn>>

(* POST /api/conversations: `upsert` looks for the room first.  One that   *)
(* exists is reused; without a message nothing is left to write.           *)
Open(r, c) ==
    /\ pc[r] = Idle
    /\ Goto(r, IF c \in rooms THEN "stamp" ELSE "create")
    /\ room' = [room EXCEPT ![r] = c]
    /\ opening' = opening \cup {r}
    /\ UNCHANGED <<stored, activeWaits, now, msg, date, reading, outOfTurn>>

(* Its insert waits for another one of the same key to end.  When the key  *)
(* is taken by then, the row is not in the snapshot the first read took:   *)
(* the re-read finds nothing, `room.id` throws and the request fails.      *)
Create(r, message) ==
    /\ pc[r] = "create"
    /\ room[r] \notin rooms
    /\ \A q \in opening \ {r} : room[q] = room[r] => pc[q] = "create"
    /\ Goto(r, IF message THEN "stamp" ELSE "settle")
    /\ UNCHANGED <<stored, activeWaits, now, room, writing, reading, outOfTurn>>

Settle(r) ==
    /\ pc[r] = "settle"
    /\ rooms' = rooms \cup {room[r]}
    /\ Finish(r)
    /\ UNCHANGED <<lastMessageAt, roomOf, createdAt, visible, notified, activeWaits, now,
                   late, outOfTurn>>

(* The INSERT starts: id and CURRENT_TIMESTAMP(3) are fixed.               *)
Stamp(r, m) ==
    /\ pc[r] = "stamp"
    /\ roomOf[m] = None
    /\ roomOf' = [roomOf EXCEPT ![m] = room[r]]
    /\ createdAt' = [createdAt EXCEPT ![m] = now]
    /\ msg' = [msg EXCEPT ![r] = m]
    /\ Goto(r, "insert")
    /\ UNCHANGED <<rooms, lastMessageAt, visible, notified, activeWaits, now, room, opening,
                   date, reading, outOfTurn>>

(* The row is in, and the room share-locked.                               *)
Insert(r) ==
    /\ pc[r] = "insert"
    /\ Goto(r, "date")
    /\ UNCHANGED <<stored, activeWaits, now, room, writing, reading, outOfTurn>>

Date(r) ==
    /\ pc[r] = "date"
    /\ date' = [date EXCEPT ![r] = now]
    /\ Goto(r, "touch")
    /\ UNCHANGED <<stored, activeWaits, now, room, opening, msg, reading, outOfTurn>>

\* Mutant: messages.conversationId loses its foreign key, and with it the lock.
HoldsNothing(q, c) == FALSE

HoldsRoom(q, c) == room[q] = c /\ pc[q] \in {"date", "touch"}

\* A row committed behind the cursor of a stream.
Missed(r) ==
    late' = [q \in Request |->
                IF pc[q] = "poll" /\ room[q] = room[r] /\ cursor[q] # NoMessage
                   /\ Before(msg[r], cursor[q])
                THEN late[q] \cup {msg[r]} ELSE late[q]]

(* The UPDATE of the room, once nobody else holds it, and the commit.      *)
Commit(r) ==
    /\ pc[r] = "touch"
    /\ \A q \in Request \ {r} : ~HoldsRoom(q, room[r])
    /\ rooms' = rooms \cup {room[r]}
    /\ visible' = visible \cup {msg[r]}
    /\ lastMessageAt' = [lastMessageAt EXCEPT ![room[r]] = date[r]]
    /\ Missed(r)
    /\ IF r \in opening
       THEN Finish(r)
       ELSE Goto(r, "notify") /\ UNCHANGED <<room, writing, from, cursor, got>>
    /\ UNCHANGED <<roomOf, createdAt, notified, activeWaits, now, outOfTurn>>

(* Best effort: it may as well fail, or be switched off.                   *)
Notify(r) ==
    /\ pc[r] = "notify"
    /\ notified' = notified \cup {msg[r]}
    /\ Finish(r)
    /\ UNCHANGED <<rooms, lastMessageAt, roomOf, createdAt, visible, activeWaits, now,
                   late, outOfTurn>>

-----------------------------------------------------------------------------
(* Readers.                                                                *)

(* GET /api/conversations/:id/stream.                                      *)
Stream(r, c, after) ==
    /\ pc[r] = Idle
    /\ c \in rooms
    /\ after \in Shown(c) \cup {NoMessage}
    /\ Goto(r, IF after = NoMessage THEN "latest" ELSE "poll")
    /\ room' = [room EXCEPT ![r] = c]
    /\ from' = [from EXCEPT ![r] = after]
    /\ cursor' = [cursor EXCEPT ![r] = after]
    /\ UNCHANGED <<stored, activeWaits, now, writing, got, late, outOfTurn>>

(* `fetchLatest`, first query: where the recent page begins.               *)
Latest(r) ==
    LET page == Newest(Shown(room[r]))
    IN  /\ pc[r] = "latest"
        /\ IF page = {}
           THEN Goto(r, "poll") /\ UNCHANGED from
           ELSE /\ Goto(r, "page")
                /\ \E m \in page : IsFirst(m, page) /\ from' = [from EXCEPT ![r] = m]
        /\ UNCHANGED <<stored, activeWaits, now, room, writing, cursor, got, late, outOfTurn>>

\* The rows are written to the socket and the cursor moves to the last one.
Deliver(r, rows) ==
    /\ rows # {}
    /\ \E m \in rows : IsLast(m, rows) /\ cursor' = [cursor EXCEPT ![r] = m]
    /\ got' = [got EXCEPT ![r] = @ \cup rows]
    /\ outOfTurn' = outOfTurn \cup {m \in rows : \E x \in got[r] : ~Before(x, m)}

(* `fetchLatest`, second query.                                            *)
\* Mutant: the rows are sent in the order of the first query.
PageDescending(r) ==
    LET rows == Oldest({m \in Shown(room[r]) : m = from[r] \/ Before(from[r], m)})
    IN  /\ pc[r] = "page"
        /\ cursor' = [cursor EXCEPT ![r] = from[r]]
        /\ got' = [got EXCEPT ![r] = rows]
        /\ Goto(r, "poll")
        /\ UNCHANGED <<stored, activeWaits, now, room, writing, from, late, outOfTurn>>

Page(r) ==
    /\ pc[r] = "page"
    /\ Deliver(r, Oldest({m \in Shown(room[r]) : m = from[r] \/ Before(from[r], m)}))
    /\ Goto(r, "poll")
    /\ UNCHANGED <<stored, activeWaits, now, room, writing, from, late>>

\* Mutant: the cursor is createdAt alone.
FetchAfterLater(c, after) ==
    IF after = NoMessage THEN {} ELSE Oldest({m \in Shown(c) : createdAt[after] < createdAt[m]})

FetchAfter(c, after) ==
    IF after = NoMessage THEN {} ELSE Oldest({m \in Shown(c) : Before(after, m)})

(* One turn of the loop; an empty one changes nothing.                     *)
Poll(r) ==
    /\ pc[r] = "poll"
    /\ Deliver(r, FetchAfter(room[r], cursor[r]))
    /\ UNCHANGED <<stored, activeWaits, now, pc, room, writing, from, late>>

(* GET /api/conversations/:id/wait.                                        *)
\* Mutant: the cap is off by one.
WaitOneMore(r, c, after) ==
    /\ pc[r] = Idle
    /\ c \in rooms
    /\ after \in Shown(c) \cup {NoMessage}
    /\ activeWaits <= MaxWaits
    /\ activeWaits' = activeWaits + 1
    /\ Goto(r, "wait")
    /\ room' = [room EXCEPT ![r] = c]
    /\ cursor' = [cursor EXCEPT ![r] = after]
    /\ UNCHANGED <<stored, now, writing, from, got, late, outOfTurn>>

Wait(r, c, after) ==
    /\ pc[r] = Idle
    /\ c \in rooms
    /\ after \in Shown(c) \cup {NoMessage}
    /\ activeWaits < MaxWaits
    /\ activeWaits' = activeWaits + 1
    /\ Goto(r, "wait")
    /\ room' = [room EXCEPT ![r] = c]
    /\ cursor' = [cursor EXCEPT ![r] = after]
    /\ UNCHANGED <<stored, now, writing, from, got, late, outOfTurn>>

Answer(r) ==
    /\ pc[r] = "wait"
    /\ FetchAfter(room[r], cursor[r]) # {}
    /\ activeWaits' = activeWaits - 1
    /\ Finish(r)
    /\ UNCHANGED <<stored, now, late, outOfTurn>>

\* Mutant: only an answer gives the place back, not `finally`.
DropCounted(r) ==
    /\ pc[r] # Idle
    /\ late' = [late EXCEPT ![r] = {}]
    /\ Finish(r)
    /\ UNCHANGED <<stored, activeWaits, now, outOfTurn>>

(* A deadline, a client gone, a failed statement, a rolled back or lost    *)
(* transaction: what was not committed never shows.                        *)
Drop(r) ==
    /\ pc[r] # Idle
    /\ activeWaits' = IF pc[r] = "wait" THEN activeWaits - 1 ELSE activeWaits
    /\ late' = [late EXCEPT ![r] = {}]
    /\ Finish(r)
    /\ UNCHANGED <<stored, now, outOfTurn>>

Tick ==
    /\ now < MaxTime
    /\ now' = now + 1
    /\ UNCHANGED <<stored, activeWaits, pc, room, writing, reading, outOfTurn>>

-----------------------------------------------------------------------------
Next ==
    \/ \E r \in Request :
        \/ \E c \in Room : Send(r, c) \/ Open(r, c)
        \/ \E c \in Room, after \in Message \cup {NoMessage} : Stream(r, c, after) \/ Wait(r, c, after)
        \/ \E message \in BOOLEAN : Create(r, message)
        \/ \E m \in Message : Stamp(r, m)
        \/ Settle(r) \/ Insert(r) \/ Date(r) \/ Commit(r) \/ Notify(r)
        \/ Latest(r) \/ Page(r) \/ Poll(r) \/ Answer(r) \/ Drop(r)
    \/ Tick

\* setTimeout wakes every open stream again.
Spec == Init /\ [][Next]_vars /\ \A r \in Request : WF_vars(Poll(r))

-----------------------------------------------------------------------------
(* A stream skips nothing it could have shown: of the rows between where   *)
(* it started and its cursor, each was delivered, or was committed when    *)
(* the cursor had already passed it (chat.service.js:304, 323-333).        *)
NothingSkipped ==
    \A r \in Request : pc[r] = "poll" /\ cursor[r] # NoMessage =>
        \A m \in Shown(room[r]) :
            Before(from[r], m) /\ ~Before(cursor[r], m) => m \in got[r] \cup late[r]

(* No stream delivers a row twice or before an older one, whatever commits *)
(* between the two queries of the first page and between polls.            *)
InOrderOnce == outOfTurn = {}

(* The room is never older than its messages, which would mis-sort it      *)
(* (chat.service.js:223-224), although its date is drawn before the lock   *)
(* and sends overlap.                                                      *)
RoomFresh ==
    \A m \in visible : createdAt[m] <= lastMessageAt[roomOf[m]]

(* The count of long-polls is what is waiting, on every way out of one.    *)
WaitsCounted == activeWaits = Cardinality({r \in Request : pc[r] = "wait"})

-----------------------------------------------------------------------------
(* The parts of the inductive invariant that are no properties of their    *)
(* own.                                                                    *)

Storing(r) == pc[r] \in {"insert", "date", "touch"}

\* What a request is storing is its own, and shows nowhere before it commits.
InFlightSound ==
    /\ \A m \in Message : createdAt[m] <= now
    /\ \A m \in visible : roomOf[m] \in Room
    /\ \A r \in Request :
        /\ pc[r] # Idle => room[r] \in Room
        /\ Storing(r) => msg[r] \in Message \ visible /\ roomOf[msg[r]] = room[r]
        /\ pc[r] = "notify" => msg[r] \in visible
        /\ \A q \in Request \ {r} : Storing(r) /\ Storing(q) => msg[q] # msg[r]

\* The date a request has drawn covers its room until the request ends: the
\* lock keeps every other message of the room out.
DatesCover ==
    \A r \in Request : pc[r] = "touch" =>
        \A m \in Shown(room[r]) \cup {msg[r]} : createdAt[m] <= date[r]

\* A stream starts and stands at rows of its room, and has delivered none
\* ahead of its cursor.
CursorsSound ==
    \A r \in Request :
        /\ pc[r] # "poll" => got[r] = {}
        /\ pc[r] = "latest" => cursor[r] = NoMessage
        /\ pc[r] = "page" => from[r] \in Shown(room[r])
        /\ pc[r] = "poll" /\ cursor[r] # NoMessage =>
            /\ from[r] \in Shown(room[r]) /\ cursor[r] \in Shown(room[r])
            /\ \A m \in got[r] : m \in Shown(room[r]) /\ ~Before(cursor[r], m)

ChatInv ==
    /\ TypeOK /\ WaitsCounted
    /\ InFlightSound /\ DatesCover /\ RoomFresh
    /\ CursorsSound /\ NothingSkipped /\ InOrderOnce

-----------------------------------------------------------------------------
(* A stream with a cursor gets to every row that is visible ahead of it,   *)
(* unless it ends first.                                                   *)
Ahead(r, m) ==
    pc[r] = "poll" /\ cursor[r] # NoMessage /\ m \in Shown(room[r]) /\ Before(cursor[r], m)
CursorDelivers ==
    \A r \in Request, m \in Message :
        Ahead(r, m) ~> m \in got[r] \/ pc[r] # "poll"

(* "With no cursor the client gets the recent page first, then the loop    *)
(* below advances the cursor and delivers anything new"                    *)
(* (chat.controller.js:78): a message reaches every stream of its room.    *)
StreamsDeliver ==
    \A r \in Request, m \in Message :
        pc[r] = "poll" /\ from[r] = NoMessage /\ m \in Shown(room[r]) ~>
            m \in got[r] \/ pc[r] # "poll"
=============================================================================
