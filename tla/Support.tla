------------------------------- MODULE Support -------------------------------
(***************************************************************************)
(* Support tickets and the notifications they send:                        *)
(* services/support/support.service.js and                                 *)
(* services/notifications/notification.service.js.  A request is a chain   *)
(* of statements; other requests run between any two of them.              *)
(***************************************************************************)
EXTENDS Integers, Sequences, FiniteSets

CONSTANTS
    Asker,     \* opens and replies
    User,        \* ticket owners
    Number,      \* ticket numbers the generator can draw
    NoteId,      \* ids of notifications: random, so their order says nothing
    Attempts,    \* draws per open
    PageSize,    \* PAGE_SIZE
    LastInstant  \* bound of the clock

ASSUME SupportAssumption ==
    /\ NoteId \subseteq Int /\ Attempts \in Nat \ {0} /\ PageSize \in Nat \ {0}
    /\ LastInstant \in Nat \ {0} /\ "none" \notin User

VARIABLES
    tickets,   \* support_tickets, by number: owner and status
    thread,    \* support_messages, in the order they were stored
    replying,  \* the requests: where they are and what they hold
    optedOut,  \* users who switched the support key off
    inbox,     \* notifications: recipient, date, id, read or not
    instant,   \* the clock
    reader,    \* one client paging its inbox
    held       \* history: replies past their read when their ticket closed, and
               \* past the preference when it was switched off

supportVars == <<tickets, thread, replying, optedOut, inbox, instant, reader, held>>

Idle == [at |-> "idle", ticket |-> 0, by |-> "none", internal |-> FALSE, tries |-> 0]
NoCursor == [at |-> LastInstant + 1, id |-> 0]
Opened == DOMAIN tickets

SupportInit ==
    /\ tickets = [n \in {} |-> 0] /\ thread = <<>> /\ inbox = {} /\ optedOut = {} /\ instant = 1
    /\ replying = [r \in Asker |-> Idle]
    /\ reader = [user |-> "none", cursor |-> NoCursor, got |-> [x \in NoteId |-> 0], due |-> {}, over |-> FALSE]
    /\ held = {}

At(r, where) == replying' = [replying EXCEPT ![r].at = where]

-----------------------------------------------------------------------------
(* Tickets. *)

\* One draw of open: a number in use costs an attempt, the last one the request.
Draw(r, u, n) ==
    /\ replying[r].at = "idle" \/ (replying[r].at = "opening" /\ replying[r].by = u)
    /\ IF n \in Opened
       THEN /\ replying' = [replying EXCEPT ![r] =
                   [at |-> IF replying[r].tries + 1 = Attempts THEN "done" ELSE "opening",
                    ticket |-> 0, by |-> u, internal |-> FALSE, tries |-> replying[r].tries + 1]]
            /\ UNCHANGED tickets
       ELSE /\ tickets' = [m \in Opened \cup {n} |-> IF m = n THEN [owner |-> u, status |-> "ACTIVE"] ELSE tickets[m]]
            /\ At(r, "done")
    /\ UNCHANGED <<thread, optedOut, inbox, instant, reader, held>>

\* reply reads the ticket, the owner only his own, and refuses a closed one; a note
\* is internal only when staff writes it.
ReadTicket(r, n, by, internal) ==
    /\ replying[r].at = "idle" /\ n \in Opened /\ by \in {"staff", tickets[n].owner}
    /\ internal => by = "staff"
    /\ tickets[n].status = "ACTIVE"
    /\ replying' = [replying EXCEPT ![r] = [at |-> "read", ticket |-> n, by |-> by, internal |-> internal, tries |-> 0]]
    /\ UNCHANGED <<tickets, thread, optedOut, inbox, instant, reader, held>>

\* Its transaction: the message and lastMessageAt.
StoreReply(r) ==
    /\ replying[r].at = "read"
    /\ thread' = Append(thread, [ticket |-> replying[r].ticket, req |-> r, internal |-> replying[r].internal,
                                 late |-> tickets[replying[r].ticket].status = "CLOSED"])
    /\ At(r, IF replying[r].by = "staff" /\ ~replying[r].internal THEN "stored" ELSE "done")
    /\ UNCHANGED <<tickets, optedOut, inbox, instant, reader, held>>

Close(n) ==
    /\ n \in Opened /\ tickets[n].status = "ACTIVE"
    /\ tickets' = [tickets EXCEPT ![n].status = "CLOSED"]
    /\ held' = held \cup {<<r, "read">> : r \in {x \in Asker : replying[x].at = "read" /\ replying[x].ticket = n}}
    /\ UNCHANGED <<thread, replying, optedOut, inbox, instant, reader>>

\* Any statement of a request can fail; what is committed stays.
Fails(r) ==
    /\ replying[r].at \in {"opening", "read", "stored", "wanted"}
    /\ At(r, "failed")
    /\ UNCHANGED <<tickets, thread, optedOut, inbox, instant, reader, held>>

-----------------------------------------------------------------------------
(* Notifications. *)

Recipient(r) == tickets[replying[r].ticket].owner

\* notify reads the preference (none means yes) ...
IsEnabled(r) ==
    /\ replying[r].at = "stored"
    /\ At(r, IF Recipient(r) \in optedOut THEN "done" ELSE "wanted")
    /\ UNCHANGED <<tickets, thread, optedOut, inbox, instant, reader, held>>

\* ... and writes the row.
Notify(r, id) ==
    /\ replying[r].at = "wanted" /\ \A row \in inbox : row.id # id
    /\ inbox' = inbox \cup {[to |-> Recipient(r), at |-> instant, id |-> id, req |-> r, isRead |-> FALSE,
                             against |-> Recipient(r) \in optedOut]}
    /\ At(r, "done")
    /\ UNCHANGED <<tickets, thread, optedOut, instant, reader, held>>

SetPreference(u, enabled) ==
    /\ enabled # (u \notin optedOut)
    /\ optedOut' = IF enabled THEN optedOut \ {u} ELSE optedOut \cup {u}
    /\ held' = IF enabled THEN held
               ELSE held \cup {<<r, "wanted">> : r \in {x \in Asker : replying[x].at = "wanted" /\ Recipient(x) = u}}
    /\ UNCHANGED <<tickets, thread, replying, inbox, instant, reader>>

MarkAllRead(u) ==
    /\ \E row \in inbox : row.to = u /\ ~row.isRead
    /\ inbox' = {IF row.to = u THEN [row EXCEPT !.isRead = TRUE] ELSE row : row \in inbox}
    /\ UNCHANGED <<tickets, thread, replying, optedOut, instant, reader, held>>

MarkRead(u, id) ==
    /\ \E row \in inbox : row.to = u /\ row.id = id
    /\ inbox' = {IF row.to = u /\ row.id = id THEN [row EXCEPT !.isRead = TRUE] ELSE row : row \in inbox}
    /\ UNCHANGED <<tickets, thread, replying, optedOut, instant, reader, held>>

\* Newest first, the larger id first among rows of one date.
Older(a, b) == a.at < b.at \/ (a.at = b.at /\ a.id < b.id)

\* Mutant: the cursor is the date alone.
Page_ByDate(u, cursor) == {row \in inbox : row.to = u /\ row.at < cursor.at}

\* The rows behind the cursor.
Page(u, cursor) == {row \in inbox : row.to = u /\ Older(row, cursor)}

\* A page of list, and the cursor the client makes of its last row.
ListPage(u) ==
    LET rows == Page(u, reader.cursor)
        page == {a \in rows : Cardinality({b \in rows : Older(a, b)}) < PageSize}
        last == CHOOSE a \in page : \A b \in page : a = b \/ Older(a, b)
    IN  /\ ~reader.over /\ reader.user \in {"none", u}
        /\ reader' = [user |-> u,
                      cursor |-> IF page = {} THEN reader.cursor ELSE [at |-> last.at, id |-> last.id],
                      got |-> [x \in NoteId |-> reader.got[x] + Cardinality({a \in page : a.id = x})],
                      due |-> IF reader.user = "none" THEN {row.id : row \in {x \in inbox : x.to = u}} ELSE reader.due,
                      over |-> Cardinality(page) < PageSize]
        /\ UNCHANGED <<tickets, thread, replying, optedOut, inbox, instant, held>>

Instant == instant < LastInstant /\ instant' = instant + 1
           /\ UNCHANGED <<tickets, thread, replying, optedOut, inbox, reader, held>>

SupportNext ==
    \/ \E r \in Asker :
          \/ StoreReply(r) \/ Fails(r) \/ IsEnabled(r) \/ \E id \in NoteId : Notify(r, id)
          \/ \E u \in User, n \in Number : Draw(r, u, n)
          \/ \E n \in Number, by \in User \cup {"staff"}, internal \in BOOLEAN : ReadTicket(r, n, by, internal)
    \/ \E n \in Number : Close(n)
    \/ \E u \in User : ListPage(u) \/ MarkAllRead(u) \/ \E id \in NoteId : MarkRead(u, id)
    \/ \E u \in User, enabled \in BOOLEAN : SetPreference(u, enabled)
    \/ Instant

SupportSpec == SupportInit /\ [][SupportNext]_supportVars

-----------------------------------------------------------------------------
\* A message lands in a closed ticket only when its reply had read it open before
\* the close.
LateRepliesWereOpen == \A i \in DOMAIN thread : thread[i].late => <<thread[i].req, "read">> \in held

\* Only a stored public reply is announced, and against the user's preference only
\* when the preference was switched off after it was read.
ToldRightly ==
    \A row \in inbox :
        /\ \E i \in DOMAIN thread : thread[i].req = row.req /\ ~thread[i].internal
        /\ row.against => <<row.req, "wanted">> \in held

\* A client that pages its inbox to the end gets every notification that was there
\* when it began, each once, whatever arrives or is marked read meanwhile.
PagesCover ==
    /\ \A id \in NoteId : reader.got[id] <= 1
    /\ reader.over => \A id \in reader.due : reader.got[id] = 1

\* What a ticket's owner is told, and what he can find again (support.service.js:
\* 119-171, notification.service.js:42-101).
SupportHeard == LateRepliesWereOpen /\ ToldRightly /\ PagesCover

-----------------------------------------------------------------------------
(* The invariant behind SupportHeard.                                      *)

SupportTypeOK ==
    /\ Opened \subseteq Number /\ tickets \in [Opened -> [owner : User, status : {"ACTIVE", "CLOSED"}]]
    /\ thread \in Seq([ticket : Number \cup {0}, req : Asker, internal : BOOLEAN, late : BOOLEAN])
    /\ replying \in [Asker -> [at : {"idle", "opening", "read", "stored", "wanted", "done", "failed"},
                               ticket : Number \cup {0}, by : User \cup {"staff", "none"},
                               internal : BOOLEAN, tries : Nat]]
    /\ inbox \subseteq [to : User, at : 1 .. LastInstant, id : NoteId, req : Asker,
                        isRead : BOOLEAN, against : BOOLEAN]
    /\ IsFiniteSet(inbox) /\ instant \in 1 .. LastInstant
    /\ reader \in [user : User \cup {"none"}, cursor : [at : Int, id : Int], got : [NoteId -> Nat],
                   due : SUBSET NoteId, over : BOOLEAN]

\* What a request holds between two statements, and what of it went stale meanwhile.
RequestsHold ==
    \A r \in Asker :
        /\ replying[r].at \in {"read", "stored", "wanted"} => replying[r].ticket \in Opened
        /\ replying[r].at = "read" /\ tickets[replying[r].ticket].status = "CLOSED" => <<r, "read">> \in held
        /\ replying[r].at \in {"stored", "wanted"} =>
              \E i \in DOMAIN thread : thread[i].req = r /\ ~thread[i].internal
        /\ replying[r].at = "wanted" /\ Recipient(r) \in optedOut => <<r, "wanted">> \in held

\* The cursor splits the inbox: what was got is not behind it, what is due was got
\* or is.
CursorSplits ==
    /\ \A a, b \in inbox : a.id = b.id => a = b
    /\ \A x \in NoteId :
          reader.got[x] > 0 => \E row \in inbox : row.id = x /\ ~Older(row, reader.cursor)
    /\ \A x \in reader.due : \E row \in inbox :
          row.id = x /\ row.to = reader.user /\ (reader.got[x] = 1 \/ Older(row, reader.cursor))
    /\ reader.user = "none" =>
          reader.cursor = NoCursor /\ reader.got = [x \in NoteId |-> 0] /\ reader.due = {} /\ ~reader.over

SupportInv == SupportTypeOK /\ RequestsHold /\ CursorSplits /\ SupportHeard
=============================================================================
