------------------------------- MODULE Threads -------------------------------
(***************************************************************************)
(* What the members of a room, and the agent on behalf of one, are told of *)
(* it: get, inbox and history of services/chat/chat.service.js over the    *)
(* batched hydration of lib/db/src/repo, and the read route of             *)
(* controllers/ai/internal.controller.js.  A request is a chain of         *)
(* statements, and messages commit between any two of them.                *)
(***************************************************************************)
EXTENDS Integers, FiniteSets

CONSTANTS
    Talk,         \* rooms
    About,        \* About[t]: the product the room is about, NoGood for none
    NoGood,
    Bubble,       \* ids of messages: random, so their order says nothing
    Visitor,      \* requests
    ThreadLimit,  \* MAX_HISTORY_MESSAGES
    InboxLimit,   \* MAX_INBOX_ROOMS
    LastDate      \* bound of the dates

ASSUME ThreadsAssumption ==
    /\ Bubble \subseteq Int /\ DOMAIN About = Talk
    /\ ThreadLimit \in Nat \ {0} /\ InboxLimit \in Nat \ {0} /\ LastDate \in Nat \ {0}

VARIABLES
    bubbles,  \* messages, with the request that marked them read
    visits    \* the requests: what they ask, what they hold; `base` names the
              \* messages that were stored when they began

threadVars == <<bubbles, visits>>

Member == {"buyer", "seller"}
Unread == "unread"
Visit(at, kind, by, rows, base) == [at |-> at, kind |-> kind, by |-> by, rows |-> rows, base |-> base]
NoVisit == Visit("idle", "none", "none", <<>>, {})
Of(t) == {b \in bubbles : b.talk = t}
Smallest(a, b) == IF a < b THEN a ELSE b

ThreadsInit ==
    /\ bubbles = {}
    /\ visits = [v \in Visitor |-> NoVisit]

-----------------------------------------------------------------------------
(* Writing. *)

\* A member's message commits.  Its insert dated it, and commits come in any order.
Send(t, by, id, date) ==
    /\ \A b \in bubbles : b.id # id
    /\ bubbles' = bubbles \cup {[id |-> id, talk |-> t, by |-> by, date |-> date, readBy |-> Unread]}
    /\ UNCHANGED visits

-----------------------------------------------------------------------------
(* Reading. *)

Row(t) == [product |-> NoGood, count |-> 0, thread |-> {}]

Begins(v, kind, by, rooms) ==
    /\ visits[v].at = "idle"
    /\ visits' = [visits EXCEPT ![v] =
           Visit("member", kind, by, [t \in rooms |-> Row(t)], {b.id : b \in bubbles})]
    /\ UNCHANGED bubbles

\* One statement done, the next one is where it stands.
Proceeds(v, at, rows) ==
    visits' = [visits EXCEPT ![v] = Visit(at, visits[v].kind, visits[v].by, rows, visits[v].base)]

\* assertMember, and the room as get and the agent's route look it up: who asks
\* matters to history alone from here on.
AssertMember(v, kind, by, t) ==
    Begins(v, kind, IF kind = "history" THEN by ELSE "none", {t})

\* The rooms of an inbox: which of them the limit keeps is open here.
InboxRooms(v) ==
    \E S \in SUBSET Talk :
        Cardinality(S) = Smallest(Cardinality(Talk), InboxLimit) /\ Begins(v, "inbox", "none", S)

\* attachMany of the products: the ids of all rows in one query, matched back by id.
AttachMany(rows) ==
    LET byId == {About[t] : t \in DOMAIN rows} \ {NoGood}
    IN  [t \in DOMAIN rows |-> [rows[t] EXCEPT !.product = IF About[t] \in byId THEN About[t] ELSE NoGood]]

WithProducts(v) ==
    /\ visits[v].at = "member" /\ visits[v].kind \in {"get", "inbox"}
    /\ Proceeds(v, "product", AttachMany(visits[v].rows))
    /\ UNCHANGED bubbles

\* ROW_NUMBER() by createdAt and id within each room, both ascending.
Rank(b) ==
    Cardinality({c \in Of(b.talk) : c.date < b.date \/ (c.date = b.date /\ c.id <= b.id)})

\* attachChildren: one query over all rooms, cut per room, grouped by room.
AttachChildren(rows) ==
    LET children == {b \in bubbles : b.talk \in DOMAIN rows /\ Rank(b) <= ThreadLimit}
    IN  [t \in DOMAIN rows |-> [rows[t] EXCEPT !.thread = {b.id : b \in {c \in children : c.talk = t}}]]

\* countChildren: a group for each room that has any, none counting as 0.
CountChildren(rows) ==
    LET grouped == {<<t, Cardinality(Of(t))>> : t \in {b.talk : b \in bubbles}}
        counted(t) == {g \in grouped : g[1] = t}
    IN  [t \in DOMAIN rows |-> [rows[t] EXCEPT !.count = IF counted(t) = {} THEN 0 ELSE (CHOOSE g \in counted(t) : TRUE)[2]]]

Answered(v, rows) == Proceeds(v, "answered", rows) /\ UNCHANGED bubbles

\* The last statement of get and of inbox.
HydrateRoom(v) ==
    visits[v].at = "product" /\ visits[v].kind = "get" /\ Answered(v, AttachChildren(visits[v].rows))
HydrateInbox(v) ==
    visits[v].at = "product" /\ visits[v].kind = "inbox" /\ Answered(v, CountChildren(visits[v].rows))

\* Mutant: the room is missing from the condition.
ToMark_AnyRoom(t, by) == {b \in bubbles : b.by # by /\ b.readBy = Unread}

\* What history marks as read: the other side's unread messages of the room.
ToMark(t, by) == {b \in bubbles : b.talk = t /\ b.by # by /\ b.readBy = Unread}

\* history marks first ...
MarkOthers(v) ==
    /\ visits[v].at = "member" /\ visits[v].kind = "history"
    /\ \E t \in DOMAIN visits[v].rows :
         LET marked == ToMark(t, visits[v].by)
         IN  bubbles' = (bubbles \ marked) \cup {[b EXCEPT !.readBy = v] : b \in marked}
    /\ Proceeds(v, "marked", visits[v].rows)

\* ... and reads the room then, its oldest rows first.
History(v) == visits[v].at = "marked" /\ Answered(v, AttachChildren(visits[v].rows))

\* getConversationMessages orders by date alone: the cut among equal dates is open.
AgentReads(v) ==
    /\ visits[v].at = "member" /\ visits[v].kind = "agent"
    /\ \E t \in DOMAIN visits[v].rows, S \in SUBSET bubbles :
         /\ S \subseteq Of(t) /\ Cardinality(S) = Smallest(Cardinality(Of(t)), ThreadLimit)
         /\ \A a \in S, b \in Of(t) \ S : a.date <= b.date
         /\ Answered(v, [visits[v].rows EXCEPT ![t].thread = {b.id : b \in S}])

\* A statement fails or the process dies: nothing is told.
VisitFails(v) ==
    /\ visits[v].at \in {"member", "product", "marked"}
    /\ visits' = [visits EXCEPT ![v] =
           IF visits[v].at = "marked" THEN Visit("dropped", visits[v].kind, visits[v].by, visits[v].rows, {})
           ELSE Visit("dropped", "none", "none", <<>>, {})]
    /\ UNCHANGED bubbles

ThreadsNext ==
    \/ \E t \in Talk, by \in Member, id \in Bubble, date \in 1 .. LastDate : Send(t, by, id, date)
    \/ \E v \in Visitor :
          \/ InboxRooms(v)
          \/ \E by \in Member, t \in Talk, kind \in {"get", "history", "agent"} : AssertMember(v, kind, by, t)
          \/ WithProducts(v) \/ HydrateRoom(v) \/ HydrateInbox(v)
          \/ MarkOthers(v) \/ History(v) \/ AgentReads(v) \/ VisitFails(v)

ThreadsSpec == ThreadsInit /\ [][ThreadsNext]_threadVars

-----------------------------------------------------------------------------
\* What an answered read says of a room: the room's own messages and product, and
\* every message stored when the request began unless older ones fill the limit, so
\* that past it the newest are missing; a count of an inbox lies between those stored
\* then and those stored now.
AnswerTrue(v) ==
    \A t \in DOMAIN visits[v].rows :
        LET row == visits[v].rows[t]
            told == {b \in bubbles : b.id \in row.thread}
            before == {b \in Of(t) : b.id \in visits[v].base}
        IN  IF visits[v].kind = "inbox"
            THEN /\ row.product = About[t]
                 /\ Cardinality(before) <= row.count /\ row.count <= Cardinality(Of(t))
            ELSE /\ told \subseteq Of(t) /\ Cardinality(told) = Cardinality(row.thread)
                 /\ visits[v].kind = "get" => row.product = About[t]
                 /\ \A b \in before : b \in told \/
                       (Cardinality(told) = ThreadLimit /\ \A a \in told : a.date <= b.date)

\* A thread shows a message unless it is full, and then of messages no later.
ShownOrCut(row, b) ==
    \/ b.id \in row.thread
    \/ /\ Cardinality(row.thread) = ThreadLimit
       /\ \A a \in Of(b.talk) : a.id \in row.thread => a.date <= b.date

\* A message is read once the other side was shown it, by the request that marked it,
\* if that was not cut short.  Past the limit history marks every message and shows
\* the oldest: only one behind a full thread, of older messages, is read unseen.
ReadMeansShown(b) ==
    LET v == visits[b.readBy]
    IN  /\ b.by # v.by /\ b.talk \in DOMAIN v.rows
        /\ v.at = "answered" => ShownOrCut(v.rows[b.talk], b)

\* Both, however messages commit between the statements of a read, and wherever it is
\* cut short (chat.service.js:139-161, 251-264, chat.js:43-51, relations.js:41-178).
\* That the cut keeps the oldest messages is the code; the comment of attachChildren
\* (relations.js:92-93) calls them the most recent.
RoomsTold ==
    /\ \A v \in Visitor : visits[v].at = "answered" => AnswerTrue(v)
    /\ \A b \in bubbles : b.readBy # Unread => ReadMeansShown(b)

-----------------------------------------------------------------------------
(* The invariant behind RoomsTold.                                         *)

Ids == {b.id : b \in bubbles}
Goods == {About[t] : t \in Talk} \cup {NoGood}

ThreadsTypeOK ==
    /\ bubbles \subseteq [id : Bubble, talk : Talk, by : Member, date : Nat, readBy : Visitor \cup {Unread}]
    /\ IsFiniteSet(bubbles) /\ \A a, b \in bubbles : a.id = b.id => a = b
    /\ visits \in [Visitor -> {visits[v] : v \in Visitor}]
    /\ \A v \in Visitor :
          /\ visits[v] \in [at : {"idle", "member", "product", "marked", "answered", "dropped"},
                           kind : {"none", "get", "inbox", "history", "agent"}, by : Member \cup {"none"},
                           rows : {visits[v].rows}, base : SUBSET Bubble]
          /\ DOMAIN visits[v].rows \subseteq Talk
          /\ visits[v].rows \in [DOMAIN visits[v].rows -> [product : Goods, count : Nat, thread : SUBSET Bubble]]

\* What a request holds between two statements: rooms, their products once they are
\* attached, and messages that are stored.
VisitsSound ==
    \A v \in Visitor :
        /\ visits[v].base \subseteq Ids /\ \A t \in DOMAIN visits[v].rows : visits[v].rows[t].thread \subseteq Ids
        /\ visits[v].kind \in {"get", "history", "agent"} => \E t \in Talk : DOMAIN visits[v].rows = {t}
        /\ visits[v].at = "member" => visits[v].kind # "none"
        /\ visits[v].at = "product" =>
              visits[v].kind \in {"get", "inbox"} /\ \A t \in DOMAIN visits[v].rows : visits[v].rows[t].product = About[t]
        /\ visits[v].at = "marked" => visits[v].kind = "history"

\* A message is marked by a request of history that is past its first statement.
MarkedByHistory ==
    \A b \in bubbles : b.readBy # Unread =>
        visits[b.readBy].kind = "history" /\ visits[b.readBy].at \in {"marked", "answered", "dropped"}

ThreadsInv == ThreadsTypeOK /\ VisitsSound /\ MarkedByHistory /\ RoomsTold
=============================================================================
