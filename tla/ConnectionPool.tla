--------------------------- MODULE ConnectionPool ---------------------------
(***************************************************************************)
(* How a request reaches the database: lib/db/src/pool.js (checkout with a *)
(* deadline, release), lib/db/src/db.js (one connection per statement, one *)
(* per transaction, nested calls joining it), config/db.js (the lazy       *)
(* gateway) and server.js (shutdown).                                      *)
(*                                                                         *)
(* A slot is one of the pool's `connectionLimit` places.  The driver gives *)
(* it to the oldest waiter; a waiter whose deadline passed stays in the    *)
(* driver's queue, and the connection it is given later belongs to nobody. *)
(***************************************************************************)
EXTENDS Integers, Sequences, FiniteSets

CONSTANTS
    Slot,       \* the places of the pool, connectionLimit of them
    Caller,     \* requests the server may be handling at a time
    Nobody,     \* an empty local
    Gone,       \* a waiter that gave up
    Writes,     \* the statements of a transaction
    MaxQueue    \* bound on the driver's queue, which has none (queueLimit: 0)

ASSUME PoolAssumption ==
    /\ Nobody \notin Caller /\ Gone \notin Caller /\ Nobody # Gone
    /\ IsFiniteSet(Slot) /\ IsFiniteSet(Caller)
    /\ Writes \in Nat \ {0} /\ MaxQueue \in Nat

Autocommit == -1

VARIABLES
    place,    \* what each slot holds: nothing, a handshake, a connection
    owner,    \* the caller it is for
    queue,    \* callers waiting for a slot, oldest first
    open,     \* uncommitted writes of the slot's open transaction, or Autocommit
    stage,    \* where the call of each caller stands
    job,      \* one statement, or a transaction
    wrote,    \* statements it has run
    durable,  \* those of its last call that are committed
    answer,   \* how its last call ended
    process,  \* the life of the server process
    gateway   \* the data layer as config/db.js has it

waiters == <<place, owner, queue>>
calls == <<stage, job, wrote, answer>>
poolVars == <<waiters, open, calls, durable, process, gateway>>

PoolInit ==
    /\ place = [s \in Slot |-> "empty"]
    /\ owner = [s \in Slot |-> Nobody]
    /\ queue = <<>>
    /\ open = [s \in Slot |-> Autocommit]
    /\ stage = [c \in Caller |-> "idle"]
    /\ job = [c \in Caller |-> "statement"]
    /\ wrote = [c \in Caller |-> 0]
    /\ durable = [c \in Caller |-> 0]
    /\ answer = [c \in Caller |-> "none"]
    /\ process = "up"
    /\ gateway = "retry"

-----------------------------------------------------------------------------
\* The gateway: a load failure is retried after a pause, a missing
\* configuration or driver is latched for the life of the process.
GetDb ==
    /\ process = "up"
    /\ \/ gateway = "retry" /\ gateway' \in {"ready", "cooling", "disabled"}
       \/ gateway = "cooling" /\ gateway' = "retry"
    /\ UNCHANGED <<waiters, open, calls, durable, process>>

\* Where a caller goes when its connection comes.
Granted(c) == IF job[c] = "statement" THEN "query" ELSE "begin"

Fill(s, what, who) ==
    /\ place' = [place EXCEPT ![s] = what]
    /\ owner' = [owner EXCEPT ![s] = who]

\* The driver places s again; `stages` is what the step makes of `stage`.
\* A connection that goes back is handed to the oldest waiter.
Return(s, stages) ==
    IF queue = <<>>
    THEN Fill(s, "free", Nobody) /\ stage' = stages /\ queue' = queue
    ELSE /\ queue' = Tail(queue)
         /\ IF Head(queue) = Gone
            THEN Fill(s, "stray", Gone) /\ stage' = stages
            ELSE /\ Fill(s, "used", Head(queue))
                 /\ stage' = [stages EXCEPT ![Head(queue)] = Granted(Head(queue))]

\* A slot whose connection is gone is dialled again for the oldest waiter.
Discard(s, stages) ==
    /\ stage' = stages
    /\ IF queue = <<>>
       THEN Fill(s, "empty", Nobody) /\ queue' = queue
       ELSE Fill(s, "connecting", Head(queue)) /\ queue' = Tail(queue)

\* A call begins: checkout asks the driver and arms its deadline.  A request
\* that is being served goes on calling while the server drains.
Call(c, what) ==
    /\ process \in {"up", "draining"} /\ gateway = "ready" /\ stage[c] = "idle"
    /\ job' = [job EXCEPT ![c] = what]
    /\ wrote' = [wrote EXCEPT ![c] = 0]
    /\ durable' = [durable EXCEPT ![c] = 0]
    /\ answer' = [answer EXCEPT ![c] = "none"]
    /\ LET idle(kind) == {s \in Slot : place[s] = kind}
       IN  \/ \E s \in idle("free") :
                /\ Fill(s, "used", c)
                /\ stage' = [stage EXCEPT ![c] = IF what = "statement" THEN "query" ELSE "begin"]
                /\ queue' = queue
           \/ /\ idle("free") = {}
              /\ stage' = [stage EXCEPT ![c] = "waiting"]
              /\ \/ \E s \in idle("empty") : Fill(s, "connecting", c) /\ queue' = queue
                 \/ /\ idle("empty") = {} /\ Len(queue) < MaxQueue
                    /\ queue' = Append(queue, c)
                    /\ UNCHANGED <<place, owner>>
    /\ UNCHANGED <<open, process, gateway>>

\* The handshake of a slot ends.
Connected(s) ==
    /\ place[s] = "connecting"
    /\ IF owner[s] = Gone
       THEN Fill(s, "stray", Gone) /\ stage' = stage
       ELSE /\ Fill(s, "used", owner[s])
            /\ stage' = [stage EXCEPT ![owner[s]] = Granted(owner[s])]
    /\ UNCHANGED <<queue, open, job, wrote, answer, durable, process, gateway>>

ConnectFails(s) ==
    /\ place[s] = "connecting"
    /\ Discard(s, [c \in Caller |-> IF c = owner[s] THEN "idle" ELSE stage[c]])
    /\ answer' = [c \in Caller |-> IF c = owner[s] THEN "error" ELSE answer[c]]
    /\ UNCHANGED <<open, job, wrote, durable, process, gateway>>

\* The deadline wins the race: the caller leaves, its place in line stays.
Deadline(c) ==
    LET left(who) == IF who = c THEN Gone ELSE who
    IN  /\ stage[c] = "waiting"
        /\ queue' = [i \in DOMAIN queue |-> left(queue[i])]
        /\ owner' = [s \in Slot |-> left(owner[s])]
        /\ stage' = [stage EXCEPT ![c] = "idle"]
        /\ answer' = [answer EXCEPT ![c] = "error"]
        /\ UNCHANGED <<place, open, job, wrote, durable, process, gateway>>

\* Mutant: the connection that comes late is left as it is.
DestroyLate_Kept(s) == FALSE /\ UNCHANGED poolVars

\* `pending.then(late => late.destroy())`.
DestroyLate(s) ==
    /\ place[s] = "stray"
    /\ Discard(s, stage)
    /\ UNCHANGED <<open, job, wrote, answer, durable, process, gateway>>

-----------------------------------------------------------------------------
Answers(c, how) == answer' = [answer EXCEPT ![c] = how]
Leaves(c) == [stage EXCEPT ![c] = "idle"]
Holds(c, s) == place[s] = "used" /\ owner[s] = c

\* A write: committed at once, unless the slot's transaction is open.
Store(c, s) ==
    IF open[s] = Autocommit
    THEN durable' = [durable EXCEPT ![c] = @ + 1] /\ open' = open
    ELSE open' = [open EXCEPT ![s] = @ + 1] /\ durable' = durable

\* onPooledConnection: one statement, and the connection back, whatever came of it.
Query(c, s) ==
    /\ stage[c] = "query" /\ Holds(c, s)
    /\ Store(c, s)
    /\ wrote' = [wrote EXCEPT ![c] = 1]
    /\ Return(s, Leaves(c))
    /\ Answers(c, "ok")
    /\ UNCHANGED <<job, process, gateway>>

\* The statement is refused, or its connection dies before or after it ran.
QueryFails(c, s) ==
    /\ stage[c] = "query" /\ Holds(c, s)
    /\ Answers(c, "error")
    /\ \/ Return(s, Leaves(c)) /\ UNCHANGED <<open, durable>>
       \/ Discard(s, Leaves(c)) /\ UNCHANGED <<open, durable>>
       \/ Discard(s, Leaves(c)) /\ Store(c, s)
    /\ UNCHANGED <<job, wrote, process, gateway>>

\* START TRANSACTION.
Begin(c, s) ==
    /\ stage[c] = "begin" /\ Holds(c, s)
    /\ open' = [open EXCEPT ![s] = 0]
    /\ stage' = [stage EXCEPT ![c] = "body"]
    /\ UNCHANGED <<waiters, job, wrote, answer, durable, process, gateway>>

\* A statement of the body: `current()` finds the transaction's runner.
Statement(c, s) ==
    /\ stage[c] \in {"body", "inner"} /\ Holds(c, s) /\ wrote[c] < Writes
    /\ Store(c, s)
    /\ wrote' = [wrote EXCEPT ![c] = @ + 1]
    /\ UNCHANGED <<waiters, stage, job, answer, process, gateway>>

\* Mutant: a nested transaction commits when it ends.
Nest_Commits(c, s) ==
    /\ Holds(c, s)
    /\ \/ /\ stage[c] = "body" /\ wrote[c] = 0 /\ stage' = [stage EXCEPT ![c] = "inner"]
          /\ UNCHANGED <<open, durable>>
       \/ /\ stage[c] = "inner" /\ wrote[c] > 0 /\ stage' = [stage EXCEPT ![c] = "body"]
          /\ open' = [open EXCEPT ![s] = Autocommit]
          /\ durable' = [durable EXCEPT ![c] = open[s]]
    /\ UNCHANGED <<waiters, job, wrote, answer, process, gateway>>

\* `if (active) return fn(active)`: a transaction called within the body is
\* entered and left without a statement of its own.
Nest(c, s) ==
    /\ Holds(c, s)
    /\ \/ stage[c] = "body" /\ wrote[c] = 0 /\ stage' = [stage EXCEPT ![c] = "inner"]
       \/ stage[c] = "inner" /\ wrote[c] > 0 /\ stage' = [stage EXCEPT ![c] = "body"]
    /\ UNCHANGED <<waiters, open, job, wrote, answer, durable, process, gateway>>

Committed(c, s) ==
    /\ durable' = [durable EXCEPT ![c] = open[s]]
    /\ open' = [open EXCEPT ![s] = Autocommit]

Commit(c, s) ==
    /\ stage[c] = "body" /\ wrote[c] = Writes /\ Holds(c, s)
    /\ Committed(c, s)
    /\ Return(s, Leaves(c))
    /\ Answers(c, "ok")
    /\ UNCHANGED <<job, wrote, process, gateway>>

\* START, the body or COMMIT throws; a COMMIT may have run all the same.
Throws(c, s) ==
    /\ stage[c] \in {"begin", "body", "inner"} /\ Holds(c, s)
    /\ stage' = [stage EXCEPT ![c] = "rollback"]
    /\ \/ UNCHANGED <<open, durable>>
       \/ stage[c] = "body" /\ wrote[c] = Writes /\ Committed(c, s)
    /\ UNCHANGED <<waiters, job, wrote, answer, process, gateway>>

Rollback(c, s) ==
    /\ stage[c] = "rollback" /\ Holds(c, s)
    /\ open' = [open EXCEPT ![s] = Autocommit]
    /\ Return(s, Leaves(c))
    /\ Answers(c, "error")
    /\ UNCHANGED <<job, wrote, durable, process, gateway>>

\* Mutant: a connection whose rollback failed is released as it is.
RollbackFails_Kept(c, s) ==
    /\ stage[c] = "rollback" /\ Holds(c, s)
    /\ Return(s, Leaves(c))
    /\ Answers(c, "error")
    /\ UNCHANGED <<open, job, wrote, durable, process, gateway>>

\* The rollback fails: destroyed, then released, which no longer does anything.
\* The server drops the transaction with its connection.
RollbackFails(c, s) ==
    /\ stage[c] = "rollback" /\ Holds(c, s)
    /\ open' = [open EXCEPT ![s] = Autocommit]
    /\ Discard(s, Leaves(c))
    /\ Answers(c, "error")
    /\ UNCHANGED <<job, wrote, durable, process, gateway>>

-----------------------------------------------------------------------------
\* SIGTERM, SIGINT or an unhandled rejection, once: no request is accepted any more.
Shutdown ==
    /\ process = "up"
    /\ process' = "draining"
    /\ UNCHANGED <<waiters, open, calls, durable, gateway>>

\* The callback of server.close: every request has ended; db.close().
ServerClosed ==
    /\ process = "draining"
    /\ \A c \in Caller : stage[c] = "idle"
    /\ process' = "ended"
    /\ UNCHANGED <<waiters, open, calls, durable, gateway>>

\* The process ends, by its drained loop, by the force timer or by a crash, and
\* pm2 starts another; the server rolls back what its connections had open.
Exit ==
    /\ process # "exited"
    /\ process' = "exited"
    /\ place' = [s \in Slot |-> "empty"]
    /\ owner' = [s \in Slot |-> Nobody]
    /\ queue' = <<>>
    /\ open' = [s \in Slot |-> Autocommit]
    /\ stage' = [c \in Caller |-> "idle"]
    /\ gateway' = "retry"
    /\ UNCHANGED <<job, wrote, answer, durable>>

Boot ==
    /\ process = "exited" /\ process' = "up"
    /\ UNCHANGED <<waiters, open, calls, durable, gateway>>

\* What a caller's own code and the database do for it.
Serve(c) ==
    \E s \in Slot :
        \/ Query(c, s) \/ QueryFails(c, s) \/ Begin(c, s) \/ Statement(c, s)
        \/ Nest(c, s) \/ Commit(c, s) \/ Throws(c, s)
        \/ Rollback(c, s) \/ RollbackFails(c, s)

Dial(s) == Connected(s) \/ ConnectFails(s)

PoolNext ==
    \/ \E c \in Caller : Call(c, "statement") \/ Call(c, "transaction") \/ Deadline(c) \/ Serve(c)
    \/ \E s \in Slot : Dial(s) \/ DestroyLate(s)
    \/ GetDb \/ Shutdown \/ ServerClosed \/ Exit \/ Boot

\* Queries, handshakes and callbacks end; no deadline has to fire.
PoolFairness ==
    /\ \A c \in Caller : WF_poolVars(Serve(c))
    /\ \A s \in Slot : WF_poolVars(Dial(s)) /\ WF_poolVars(DestroyLate(s))

PoolSpec == PoolInit /\ [][PoolNext]_poolVars /\ PoolFairness

-----------------------------------------------------------------------------
\* What a call stored is all of it or none of it, whichever way it ended: an
\* answer "ok" means all, and nothing of it is stored while the call runs
\* (db.js:280-287, 346-370).
AllOrNothing ==
    \A c \in Caller :
        /\ durable[c] \in {0, IF job[c] = "statement" THEN 1 ELSE Writes}
        /\ answer[c] = "ok" => durable[c] > 0
        /\ stage[c] \in {"query", "begin", "inner"} => durable[c] = 0

\* A caller has at most one slot, the one its stage says, and is in line at most
\* once; a connection nobody holds has no transaction open; no caller waits
\* beside a free connection (pool.js:159-208, db.js:280-287, 357-369).
PoolIntegrity ==
    /\ \A c \in Caller :
         LET slots == {s \in Slot : owner[s] = c}
             turns == {i \in DOMAIN queue : queue[i] = c}
         IN  /\ Cardinality(slots) + Cardinality(turns) = IF stage[c] = "idle" THEN 0 ELSE 1
             /\ \A s \in slots : place[s] = IF stage[c] = "waiting" THEN "connecting" ELSE "used"
    /\ \A s \in Slot :
         /\ place[s] # "used" => open[s] = Autocommit
         /\ place[s] \in {"free", "empty"} => owner[s] = Nobody /\ queue = <<>>
         /\ process = "ended" => place[s] # "used"

\* Whoever waits is served or refused by the driver, even if its deadline never
\* fires: a slot given to a caller that left comes back (pool.js:198-206).
WaiterServed == \A c \in Caller : stage[c] = "waiting" ~> stage[c] # "waiting"

PoolTypeOK ==
    /\ place \in [Slot -> {"empty", "connecting", "free", "used", "stray"}]
    /\ owner \in [Slot -> Caller \cup {Nobody, Gone}]
    /\ queue \in Seq(Caller \cup {Gone})
    /\ open \in [Slot -> Nat \cup {Autocommit}]
    /\ stage \in [Caller -> {"idle", "waiting", "query", "begin", "body", "inner", "rollback"}]
    /\ job \in [Caller -> {"statement", "transaction"}]
    /\ wrote \in [Caller -> Nat] /\ durable \in [Caller -> Nat]
    /\ answer \in [Caller -> {"none", "ok", "error"}]
    /\ process \in {"up", "draining", "ended", "exited"}

\* What a slot holds says whom it is for, and an idle one that nobody is in line.
PlacesSound ==
    \A s \in Slot :
        /\ place[s] \in {"free", "empty"} => owner[s] = Nobody /\ queue = <<>>
        /\ place[s] = "stray" => owner[s] = Gone
        /\ place[s] = "connecting" => owner[s] \in Caller \cup {Gone}
        /\ place[s] = "used" => owner[s] \in Caller
        /\ owner[s] \in Caller =>
               /\ stage[owner[s]] # "idle"
               /\ place[s] = IF stage[owner[s]] = "waiting" THEN "connecting" ELSE "used"

InLine(c) == \E i \in DOMAIN queue : queue[i] = c

\* Every call under way has one slot or one turn in line, and not both.
TurnsSound ==
    /\ \A s, t \in Slot : owner[s] \in Caller /\ owner[s] = owner[t] => s = t
    /\ \A i, j \in DOMAIN queue : queue[i] \in Caller /\ queue[i] = queue[j] => i = j
    /\ \A c \in Caller :
         /\ InLine(c) => stage[c] = "waiting" /\ \A s \in Slot : owner[s] # c
         /\ stage[c] # "idle" => InLine(c) \/ \E s \in Slot : owner[s] = c

\* What a call that ended well has stored.
Whole(c) == IF job[c] = "statement" THEN 1 ELSE Writes

\* Where a call stands says what it has written, and where.
WritesSound ==
    /\ \A c \in Caller :
         /\ stage[c] = "query" => job[c] = "statement"
         /\ stage[c] \in {"begin", "body", "inner", "rollback"} => job[c] = "transaction"
         /\ stage[c] \in {"waiting", "query", "begin"} => wrote[c] = 0
         /\ stage[c] \in {"waiting", "query", "begin", "body", "inner"} => durable[c] = 0
         /\ durable[c] \in {0, Whole(c)}
         /\ answer[c] = "ok" => durable[c] = Whole(c) /\ stage[c] = "idle"
    /\ \A s \in Slot :
         /\ place[s] # "used" => open[s] = Autocommit
         /\ place[s] = "used" /\ stage[owner[s]] \in {"query", "begin"} => open[s] = Autocommit
         /\ place[s] = "used" /\ stage[owner[s]] \in {"body", "inner"} => open[s] = wrote[owner[s]]
    /\ process = "ended" => \A c \in Caller : stage[c] = "idle"

PoolInv == PoolTypeOK /\ PlacesSound /\ TurnsSound /\ WritesSound
=============================================================================
