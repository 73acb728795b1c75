-------------------------- MODULE DataLayerProofs ---------------------------
(***************************************************************************)
(* The data layer, for every number of slots, callers, rows, migrations,   *)
(* deploys and revisions: calls are whole, counters count once, upserts    *)
(* settle, conditions touch what they mean, the ledger stays true and a    *)
(* seed that ends leaves what its upserts name.                            *)
(***************************************************************************)
EXTENDS ConnectionPool, Records, Migrations, Seeding, SqlWhere, FiniteSetTheorems, SequenceTheorems, TLAPS

(* The pool and the transactions.                                          *)

PlaceKind == {"empty", "connecting", "free", "used", "stray"}
StageKind == {"idle", "waiting", "query", "begin", "body", "inner", "rollback"}

(* The types of what a hand-over changes.                                  *)
PlacesTyped ==
    /\ place \in [Slot -> PlaceKind] /\ owner \in [Slot -> Caller \cup {Nobody, Gone}]
    /\ queue \in Seq(Caller \cup {Gone}) /\ stage \in [Caller -> StageKind]

(* The stages after the owner of s has been answered.                      *)
Answered(s) == [c \in Caller |-> IF c = owner[s] THEN "idle" ELSE stage[c]]

(* What the type invariant says of each caller and slot.                   *)
LEMMA Typed == PoolTypeOK => PlacesTyped
  BY DEF PoolTypeOK, PlacesTyped, PlaceKind, StageKind

(* The line without its head.                                              *)
LEMMA LineMoves ==
  ASSUME PoolInv, queue # <<>>
  PROVE  /\ Head(queue) \in Caller \cup {Gone} /\ 1 \in DOMAIN queue /\ queue[1] = Head(queue)
         /\ Tail(queue) \in Seq(Caller \cup {Gone})
         /\ \A i \in DOMAIN Tail(queue) : i + 1 \in DOMAIN queue /\ Tail(queue)[i] = queue[i + 1]
         /\ \A i \in DOMAIN queue : i # 1 => i - 1 \in DOMAIN Tail(queue) /\ Tail(queue)[i - 1] = queue[i]
  BY DEF PoolInv, PoolTypeOK

(* A slot leaves its owner and goes to nobody, or to the head of the line: *)
(* what there is to know of where everybody stands afterwards.             *)
Handed(s) ==
    /\ \A t \in Slot \ {s} : place'[t] = place[t] /\ owner'[t] = owner[t]
    /\ \A c \in Caller :
         \/ stage'[c] = Answered(s)[c]
         \/ /\ stage[c] = "waiting" /\ c # owner[s] /\ stage'[c] = Granted(c)
            /\ place'[s] = "used" /\ owner'[s] = c
    /\ place'[s] = "used" =>
         /\ owner'[s] \in Caller /\ stage[owner'[s]] = "waiting" /\ owner'[s] # owner[s]
         /\ stage'[owner'[s]] = Granted(owner'[s])

(* A connection goes to the first in line, or is free.                     *)
LEMMA HandOver ==
  ASSUME PoolInv, NEW s \in Slot, place[s] \in {"connecting", "used", "stray"},
         Return(s, Answered(s)) \/ Discard(s, Answered(s)), job' = job
  PROVE  PlacesTyped' /\ PlacesSound' /\ TurnsSound' /\ Handed(s)
<1> USE PoolAssumption DEF PoolInv
<1> DEFINE h == Head(queue)
<1>0. PlacesTyped
  BY Typed
<1>1. owner[s] \in Caller \cup {Gone}
  BY DEF PlacesSound
<1>2. \A c \in Caller : Granted(c) \in {"query", "begin"}
  BY DEF Granted
<1>3. Answered(s) \in [Caller -> StageKind]
  BY <1>0 DEF Answered, PlacesTyped, StageKind
<1>4. CASE queue = <<>>
  <2>1. /\ place'[s] \in {"free", "empty"} /\ owner'[s] = Nobody
        /\ queue' = <<>> /\ stage' = Answered(s)
        /\ place' \in [Slot -> PlaceKind] /\ owner' \in [Slot -> Caller \cup {Nobody, Gone}]
        /\ \A t \in Slot \ {s} : place'[t] = place[t] /\ owner'[t] = owner[t]
    BY <1>0, <1>4 DEF Return, Discard, Fill, PlacesTyped, PlaceKind
  <2>2. PlacesTyped'
    BY <1>3, <2>1 DEF PlacesTyped
  <2>3. \A t \in Slot \ {s} : owner[t] \in Caller => owner[t] # owner[s] /\ stage'[owner[t]] = stage[owner[t]]
    BY <2>1 DEF TurnsSound, Answered
  <2>4. PlacesSound'
    BY <1>4, <2>1, <2>3 DEF PlacesSound
  <2>5. TurnsSound'
    BY <1>4, <2>1, <2>3 DEF TurnsSound, InLine, Answered
  <2>6. Handed(s)
    BY <2>1 DEF Handed
  <2> QED
    BY <2>2, <2>4, <2>5, <2>6
<1>5. CASE queue # <<>>
  <2>0. /\ h \in Caller \cup {Gone} /\ 1 \in DOMAIN queue /\ queue[1] = h
        /\ Tail(queue) \in Seq(Caller \cup {Gone})
        /\ \A i \in DOMAIN Tail(queue) : i + 1 \in DOMAIN queue /\ Tail(queue)[i] = queue[i + 1]
        /\ \A i \in DOMAIN queue : i # 1 => i - 1 \in DOMAIN Tail(queue) /\ Tail(queue)[i - 1] = queue[i]
        /\ \A i \in DOMAIN queue : i \in Int
    BY <1>5, LineMoves DEF PoolTypeOK
  <2>1. h \in Caller => InLine(h) /\ stage[h] = "waiting" /\ \A t \in Slot : owner[t] # h
    BY <2>0 DEF InLine, TurnsSound
  <2>2. /\ queue' = Tail(queue) /\ owner'[s] = h
        /\ \A t \in Slot \ {s} : place'[t] = place[t] /\ owner'[t] = owner[t]
        /\ place' \in [Slot -> PlaceKind] /\ owner' \in [Slot -> Caller \cup {Nobody, Gone}]
    <3>1. /\ queue' = Tail(queue) /\ owner' = [owner EXCEPT ![s] = h]
          /\ \E kind \in PlaceKind : place' = [place EXCEPT ![s] = kind]
      BY <1>5 DEF Return, Discard, Fill, PlaceKind
    <3> QED
      BY <1>0, <2>0, <3>1 DEF PlacesTyped
  <2>3. \/ h = Gone /\ place'[s] \in {"stray", "connecting"} /\ stage' = Answered(s)
        \/ h \in Caller /\ place'[s] = "connecting" /\ stage' = Answered(s)
        \/ h \in Caller /\ place'[s] = "used" /\ stage' = [Answered(s) EXCEPT ![h] = Granted(h)]
    BY <1>0, <1>5, <2>0 DEF Return, Discard, Fill, PlacesTyped
  <2>4. \A c \in Caller : c # h \/ place'[s] # "used" => stage'[c] = Answered(s)[c]
    BY <1>3, <2>3
  <2>5. h \in Caller => /\ place'[s] = "connecting" => stage'[h] = "waiting"
                        /\ place'[s] = "used" => stage'[h] = Granted(h)
                        /\ place'[s] \in {"connecting", "used"}
    BY <1>3, <2>1, <2>3 DEF Answered
  <2>6. PlacesTyped'
    <3>1. stage' \in [Caller -> StageKind]
      BY <1>2, <1>3, <2>3 DEF StageKind
    <3> QED
      BY <2>0, <2>2, <3>1 DEF PlacesTyped
  <2>7. \A t \in Slot \ {s} : owner[t] \in Caller =>
             owner[t] # owner[s] /\ owner[t] # h /\ stage'[owner[t]] = stage[owner[t]]
    BY <2>1, <2>4 DEF TurnsSound, Answered
  <2>8. PlacesSound'
    <3> SUFFICES ASSUME NEW t \in Slot
                 PROVE  /\ place'[t] \in {"free", "empty"} => owner'[t] = Nobody /\ queue' = <<>>
                        /\ place'[t] = "stray" => owner'[t] = Gone
                        /\ place'[t] = "connecting" => owner'[t] \in Caller \cup {Gone}
                        /\ place'[t] = "used" => owner'[t] \in Caller
                        /\ owner'[t] \in Caller =>
                              /\ stage'[owner'[t]] # "idle"
                              /\ place'[t] = IF stage'[owner'[t]] = "waiting" THEN "connecting" ELSE "used"
      BY DEF PlacesSound
    <3>1. CASE t = s
      BY <1>2, <2>0, <2>2, <2>3, <2>5, <3>1
    <3>2. CASE t # s
      BY <1>5, <2>2, <2>7, <3>2 DEF PlacesSound
    <3> QED
      BY <3>1, <3>2
  <2>9. TurnsSound'
    <3>1. \A t, u \in Slot : owner'[t] \in Caller /\ owner'[t] = owner'[u] => t = u
      BY <2>2, <2>1 DEF TurnsSound
    <3>2. \A i, j \in DOMAIN Tail(queue) :
             Tail(queue)[i] \in Caller /\ Tail(queue)[i] = Tail(queue)[j] => i = j
      <4> SUFFICES ASSUME NEW i \in DOMAIN Tail(queue), NEW j \in DOMAIN Tail(queue),
                          Tail(queue)[i] \in Caller, Tail(queue)[i] = Tail(queue)[j]
                   PROVE  i = j
        OBVIOUS
      <4>1. i + 1 = j + 1
        BY <2>0 DEF TurnsSound
      <4>2. i \in Int /\ j \in Int
        BY <2>0
      <4> QED
        BY <4>1, <4>2
    <3>3. ASSUME NEW c \in Caller, NEW i \in DOMAIN Tail(queue), Tail(queue)[i] = c
          PROVE  stage'[c] = "waiting" /\ \A t \in Slot : owner'[t] # c
      <4>1. i + 1 \in DOMAIN queue /\ queue[i + 1] = c /\ i + 1 # 1
        BY <2>0, <3>3
      <4>2. c # h
        BY <2>0, <4>1 DEF TurnsSound
      <4>3. stage[c] = "waiting" /\ \A t \in Slot : owner[t] # c
        BY <4>1 DEF TurnsSound, InLine
      <4> QED
        BY <2>2, <2>4, <4>2, <4>3 DEF Answered
    <3>4. ASSUME NEW c \in Caller, stage'[c] # "idle"
          PROVE  (\E i \in DOMAIN Tail(queue) : Tail(queue)[i] = c) \/ \E t \in Slot : owner'[t] = c
      <4>1. CASE c = h
        BY <2>2, <4>1
      <4>2. CASE c # h
        <5>1. c # owner[s] /\ stage[c] # "idle"
          BY <2>4, <3>4, <4>2 DEF Answered
        <5>2. InLine(c) \/ \E t \in Slot : owner[t] = c
          BY <5>1 DEF TurnsSound
        <5>3. CASE InLine(c)
          BY <2>0, <4>2, <5>3 DEF InLine
        <5>4. CASE \E t \in Slot : owner[t] = c
          BY <2>2, <5>1, <5>4
        <5> QED
          BY <5>2, <5>3, <5>4
      <4> QED
        BY <4>1, <4>2
    <3> QED
      BY <2>2, <3>1, <3>2, <3>3, <3>4 DEF TurnsSound, InLine
  <2>10. Handed(s)
    BY <1>1, <2>1, <2>2, <2>3, <2>4, <2>5 DEF Handed
  <2> QED
    BY <2>6, <2>8, <2>9, <2>10
<1> QED
  BY <1>4, <1>5

(* The types of what a call writes.                                        *)
WritesTyped ==
    /\ open \in [Slot -> Nat \cup {Autocommit}]
    /\ job \in [Caller -> {"statement", "transaction"}]
    /\ wrote \in [Caller -> Nat] /\ durable \in [Caller -> Nat]
    /\ answer \in [Caller -> {"none", "ok", "error"}]
    /\ process \in {"up", "draining", "ended", "exited"}

(* The parts of the type invariant.                                        *)
LEMMA TypesTogether == PoolTypeOK <=> PlacesTyped /\ WritesTyped
  BY DEF PoolTypeOK, PlacesTyped, WritesTyped, PlaceKind, StageKind

(* A slot handed over without an open transaction, by a caller that stored *)
(* all or nothing, leaves every write where it was.                        *)
LEMMA WritesHanded ==
  ASSUME PoolInv, NEW s \in Slot, owner[s] \in Caller \cup {Gone},
         TurnsSound', PlacesSound', Handed(s),
         UNCHANGED <<job, process>>, open'[s] = Autocommit,
         \A t \in Slot \ {s} : open'[t] = open[t],
         \A c \in Caller : c # owner[s] =>
             durable'[c] = durable[c] /\ wrote'[c] = wrote[c] /\ answer'[c] = answer[c],
         owner[s] \in Caller =>
             /\ durable'[owner[s]] \in {0, Whole(owner[s])}
             /\ answer'[owner[s]] = "ok" => durable'[owner[s]] = Whole(owner[s])
  PROVE  WritesSound'
<1> USE PoolAssumption DEF PoolInv
<1>1. ASSUME NEW c \in Caller
      PROVE  /\ stage'[c] = "query" => job[c] = "statement"
             /\ stage'[c] \in {"begin", "body", "inner", "rollback"} => job[c] = "transaction"
             /\ stage'[c] \in {"waiting", "query", "begin"} => wrote'[c] = 0
             /\ stage'[c] \in {"waiting", "query", "begin", "body", "inner"} => durable'[c] = 0
             /\ durable'[c] \in {0, Whole(c)}
             /\ answer'[c] = "ok" => durable'[c] = Whole(c) /\ stage'[c] = "idle"
  <2>1. CASE c = owner[s]
    <3>1. stage'[c] = "idle"
      BY <2>1 DEF Handed, Answered
    <3> QED
      BY <2>1, <3>1
  <2>2. CASE c # owner[s] /\ stage'[c] = stage[c]
    BY <2>2 DEF WritesSound
  <2>3. CASE c # owner[s] /\ stage[c] = "waiting" /\ stage'[c] = Granted(c)
    <3>1. job[c] \in {"statement", "transaction"}
      BY DEF PoolTypeOK
    <3> QED
      BY <2>3, <3>1 DEF WritesSound, Granted
  <2> QED
    BY <2>1, <2>2, <2>3 DEF Handed, Answered
<1>2. ASSUME NEW t \in Slot
      PROVE  /\ place'[t] # "used" => open'[t] = Autocommit
             /\ place'[t] = "used" /\ stage'[owner'[t]] \in {"query", "begin"} => open'[t] = Autocommit
             /\ place'[t] = "used" /\ stage'[owner'[t]] \in {"body", "inner"} => open'[t] = wrote'[owner'[t]]
  <2>1. CASE t = s
    <3>1. place'[s] = "used" => stage'[owner'[s]] \in {"query", "begin"}
      BY DEF Handed, Granted
    <3> QED
      BY <2>1, <3>1
  <2>2. CASE t # s
    <3>1. place'[t] = place[t] /\ owner'[t] = owner[t] /\ open'[t] = open[t]
      BY <2>2 DEF Handed
    <3>2. ASSUME place[t] = "used"
          PROVE  stage'[owner[t]] = stage[owner[t]] /\ wrote'[owner[t]] = wrote[owner[t]]
      <4>1. owner[t] \in Caller /\ owner[t] # owner[s]
        BY <2>2, <3>2 DEF PlacesSound, TurnsSound
      <4>2. ~(place'[s] = "used" /\ owner'[s] = owner[t])
        BY <2>2, <3>1, <4>1 DEF TurnsSound
      <4> QED
        BY <4>1, <4>2 DEF Handed, Answered
    <3> QED
      BY <3>1, <3>2 DEF WritesSound
  <2> QED
    BY <2>1, <2>2
<1>3. process' = "ended" => \A c \in Caller : stage'[c] = "idle"
  <2> SUFFICES ASSUME process = "ended", NEW c \in Caller PROVE stage'[c] = "idle"
    OBVIOUS
  <2>1. stage[c] = "idle"
    BY DEF WritesSound
  <2> QED
    BY <2>1 DEF Handed, Answered
<1>4. \A c \in Caller : Whole(c)' = Whole(c)
  BY DEF Whole
<1> HIDE DEF PoolInv
<1> QED
  BY <1>1, <1>2, <1>3, <1>4 DEF WritesSound

(* A caller that keeps its slot moves on within its own call.              *)
LEMMA Stays ==
  ASSUME PoolInv, NEW c \in Caller, NEW to \in StageKind \ {"idle", "waiting"},
         stage[c] \notin {"idle", "waiting"},
         stage' = [stage EXCEPT ![c] = to], UNCHANGED <<place, owner, queue>>
  PROVE  PlacesTyped' /\ PlacesSound' /\ TurnsSound'
<1> USE DEF PoolInv
<1>1. stage \in [Caller -> StageKind] /\ PlacesTyped
  BY Typed DEF PlacesTyped
<1>2. PlacesTyped'
  BY <1>1 DEF PlacesTyped
<1>3. \A b \in Caller : /\ stage'[b] = "idle" <=> stage[b] = "idle"
                        /\ stage'[b] = "waiting" <=> stage[b] = "waiting"
  BY <1>1
<1>4. PlacesSound'
  BY <1>3 DEF PlacesSound
<1>5. TurnsSound'
  BY <1>3 DEF TurnsSound, InLine
<1> QED
  BY <1>2, <1>4, <1>5

(* ... and only its own writes change.                                     *)
LEMMA WritesStay ==
  ASSUME PoolInv, NEW c \in Caller, NEW s \in Slot, Holds(c, s), stage[c] # "idle",
         NEW to \in {"query", "begin", "body", "inner", "rollback"},
         stage' = [stage EXCEPT ![c] = to], UNCHANGED <<place, owner, job, answer, process>>,
         \A t \in Slot \ {s} : open'[t] = open[t],
         \A b \in Caller \ {c} : durable'[b] = durable[b] /\ wrote'[b] = wrote[b],
         to = "query" => job[c] = "statement" /\ wrote'[c] = 0,
         to # "query" => job[c] = "transaction",
         to = "begin" => wrote'[c] = 0,
         to # "rollback" => durable'[c] = 0,
         to \in {"query", "begin"} => open'[s] = Autocommit,
         to \in {"body", "inner"} => open'[s] = wrote'[c],
         durable'[c] \in {0, Whole(c)}
  PROVE  WritesSound'
<1> USE DEF PoolInv, Holds
<1>1. stage \in [Caller -> StageKind]
  BY Typed DEF PlacesTyped
<1>2. stage'[c] = to /\ \A b \in Caller \ {c} : stage'[b] = stage[b]
  BY <1>1
<1>3. answer[c] # "ok"
  BY DEF WritesSound
<1>4. ASSUME NEW b \in Caller
      PROVE  /\ stage'[b] = "query" => job[b] = "statement"
             /\ stage'[b] \in {"begin", "body", "inner", "rollback"} => job[b] = "transaction"
             /\ stage'[b] \in {"waiting", "query", "begin"} => wrote'[b] = 0
             /\ stage'[b] \in {"waiting", "query", "begin", "body", "inner"} => durable'[b] = 0
             /\ durable'[b] \in {0, Whole(b)}
             /\ answer'[b] = "ok" => durable'[b] = Whole(b) /\ stage'[b] = "idle"
  <2>1. CASE b = c
    BY <1>2, <1>3, <2>1
  <2>2. CASE b # c
    BY <1>2, <2>2 DEF WritesSound
  <2> QED
    BY <2>1, <2>2
<1>5. ASSUME NEW t \in Slot
      PROVE  /\ place'[t] # "used" => open'[t] = Autocommit
             /\ place'[t] = "used" /\ stage'[owner'[t]] \in {"query", "begin"} => open'[t] = Autocommit
             /\ place'[t] = "used" /\ stage'[owner'[t]] \in {"body", "inner"} => open'[t] = wrote'[owner'[t]]
  <2>1. CASE t = s
    BY <1>2, <2>1
  <2>2. CASE t # s
    <3>1. place[t] = "used" => owner[t] \in Caller \ {c}
      BY <2>2 DEF TurnsSound, PlacesSound
    <3> QED
      BY <1>2, <2>2, <3>1 DEF WritesSound
  <2> QED
    BY <2>1, <2>2
<1>6. process' # "ended"
  BY DEF WritesSound
<1>7. \A b \in Caller : Whole(b)' = Whole(b)
  BY DEF Whole
<1> QED
  BY <1>4, <1>5, <1>6, <1>7 DEF WritesSound

(* An action that answers a caller and hands its slot over.                *)
LEMMA Ends ==
  ASSUME PoolInv, NEW s \in Slot, place[s] \in {"connecting", "used", "stray"},
         Return(s, Answered(s)) \/ Discard(s, Answered(s)),
         UNCHANGED <<job, process>>, WritesTyped', open'[s] = Autocommit,
         \A t \in Slot \ {s} : open'[t] = open[t],
         \A c \in Caller : c # owner[s] =>
             durable'[c] = durable[c] /\ wrote'[c] = wrote[c] /\ answer'[c] = answer[c],
         owner[s] \in Caller =>
             /\ durable'[owner[s]] \in {0, Whole(owner[s])}
             /\ answer'[owner[s]] = "ok" => durable'[owner[s]] = Whole(owner[s])
  PROVE  PoolInv'
<1>1. owner[s] \in Caller \cup {Gone}
  BY DEF PoolInv, PlacesSound
<1>2. PlacesTyped' /\ PlacesSound' /\ TurnsSound' /\ Handed(s)
  BY HandOver
<1>3. WritesSound'
  BY <1>1, <1>2, WritesHanded
<1>4. PoolTypeOK'
  BY <1>2 DEF PoolTypeOK, PlacesTyped, WritesTyped, PlaceKind, StageKind
<1> QED
  BY <1>2, <1>3, <1>4 DEF PoolInv

(* What is known of a caller that holds a slot.                            *)
LEMMA Holding ==
  ASSUME PoolInv, NEW c \in Caller, NEW s \in Slot, Holds(c, s)
  PROVE  /\ place[s] = "used" /\ owner[s] = c /\ Leaves(c) = Answered(s)
         /\ stage[c] \in {"query", "begin"} => open[s] = Autocommit /\ wrote[c] = 0
         /\ stage[c] \in {"body", "inner"} => open[s] = wrote[c]
         /\ stage[c] \in {"query", "begin", "body", "inner"} => durable[c] = 0
         /\ stage[c] \notin {"idle", "waiting"}
         /\ stage[c] = "query" => Whole(c) = 1
         /\ stage[c] \in {"begin", "body", "inner", "rollback"} => Whole(c) = Writes
         /\ durable[c] \in {0, Whole(c)}
<1> USE DEF PoolInv, Holds
<1>1. Leaves(c) = Answered(s)
  BY DEF Leaves, Answered, PoolTypeOK
<1>2. stage[c] \notin {"idle", "waiting"}
  BY DEF PlacesSound
<1> QED
  BY <1>1, <1>2 DEF WritesSound, Whole

(* A plain statement.                                                      *)
LEMMA QuerySound == ASSUME PoolInv, NEW c \in Caller, NEW s \in Slot, Query(c, s) PROVE PoolInv'
<1> USE PoolAssumption DEF Query
<1>1. WritesTyped
  BY TypesTogether DEF PoolInv
<1>2. open' = open /\ durable' = [durable EXCEPT ![c] = 1] /\ open[s] = Autocommit
  BY Holding DEF Store
<1>3. WritesTyped'
  BY <1>1, <1>2 DEF WritesTyped, Answers
<1>4. /\ durable'[c] = 1
      /\ \A b \in Caller : b # c => durable'[b] = durable[b] /\ wrote'[b] = wrote[b] /\ answer'[b] = answer[b]
  BY <1>1, <1>2 DEF WritesTyped, Answers
<1> QED
  BY <1>2, <1>3, <1>4, Holding, Ends

(* A statement that fails.                                                 *)
LEMMA QueryFailsSound == ASSUME PoolInv, NEW c \in Caller, NEW s \in Slot, QueryFails(c, s) PROVE PoolInv'
<1> USE PoolAssumption DEF QueryFails
<1>1. WritesTyped
  BY TypesTogether DEF PoolInv
<1>2. /\ open' = open /\ open[s] = Autocommit
      /\ durable' = durable \/ durable' = [durable EXCEPT ![c] = 1]
  BY Holding DEF Store
<1>3. WritesTyped'
  BY <1>1, <1>2 DEF WritesTyped, Answers
<1>4. /\ durable'[c] \in {0, 1} /\ answer'[c] = "error"
      /\ \A b \in Caller : b # c => durable'[b] = durable[b] /\ wrote'[b] = wrote[b] /\ answer'[b] = answer[b]
  BY <1>1, <1>2, Holding DEF WritesTyped, Answers
<1> QED
  BY <1>2, <1>3, <1>4, Holding, Ends

(* A transaction commits.                                                  *)
LEMMA CommitSound == ASSUME PoolInv, NEW c \in Caller, NEW s \in Slot, Commit(c, s) PROVE PoolInv'
<1> USE PoolAssumption DEF Commit
<1>1. WritesTyped
  BY TypesTogether DEF PoolInv
<1>2. /\ open' = [open EXCEPT ![s] = Autocommit]
      /\ durable' = [durable EXCEPT ![c] = Writes]
  BY Holding DEF Committed
<1>3. WritesTyped'
  BY <1>1, <1>2 DEF WritesTyped, Answers
<1>4. /\ durable'[c] = Writes /\ open'[s] = Autocommit
      /\ \A t \in Slot \ {s} : open'[t] = open[t]
      /\ \A b \in Caller : b # c => durable'[b] = durable[b] /\ wrote'[b] = wrote[b] /\ answer'[b] = answer[b]
  BY <1>1, <1>2 DEF WritesTyped, Answers
<1> QED
  BY <1>3, <1>4, Holding, Ends

(* A transaction rolls back, or fails to.                                  *)
LEMMA RollbacksSound ==
  ASSUME PoolInv, NEW c \in Caller, NEW s \in Slot, Rollback(c, s) \/ RollbackFails(c, s)
  PROVE  PoolInv'
<1> USE PoolAssumption DEF Rollback, RollbackFails
<1>1. WritesTyped
  BY TypesTogether DEF PoolInv
<1>2. WritesTyped'
  BY <1>1 DEF WritesTyped, Answers
<1>3. /\ answer'[c] = "error" /\ open'[s] = Autocommit
      /\ \A t \in Slot \ {s} : open'[t] = open[t]
      /\ \A b \in Caller : b # c => durable'[b] = durable[b] /\ wrote'[b] = wrote[b] /\ answer'[b] = answer[b]
  BY <1>1 DEF WritesTyped, Answers
<1> QED
  BY <1>2, <1>3, Holding, Ends

(* An action of a caller that keeps its slot.                              *)
LEMMA Continues ==
  ASSUME PoolInv, NEW c \in Caller, NEW s \in Slot, Holds(c, s), WritesTyped',
         NEW to \in {"begin", "body", "inner", "rollback"},
         stage[c] \in {"begin", "body", "inner", "rollback"},
         stage' = [stage EXCEPT ![c] = to], UNCHANGED <<waiters, job, answer, process>>,
         \A t \in Slot \ {s} : open'[t] = open[t],
         \A b \in Caller \ {c} : durable'[b] = durable[b] /\ wrote'[b] = wrote[b],
         to = "begin" => wrote'[c] = 0 /\ open'[s] = Autocommit,
         to # "rollback" => durable'[c] = 0,
         to \in {"body", "inner"} => open'[s] = wrote'[c],
         durable'[c] \in {0, Writes}
  PROVE  PoolInv'
<1>1. PlacesTyped' /\ PlacesSound' /\ TurnsSound'
  BY Stays DEF waiters, StageKind
<1>2. job[c] = "transaction" /\ Whole(c) = Writes /\ stage[c] # "idle"
  BY Holding DEF PoolInv, WritesSound
<1>3. WritesSound'
  BY <1>2, WritesStay DEF waiters
<1>4. PoolTypeOK'
  BY <1>1 DEF PoolTypeOK, PlacesTyped, WritesTyped, PlaceKind, StageKind
<1> QED
  BY <1>1, <1>3, <1>4 DEF PoolInv

(* The body of a transaction.                                              *)
LEMMA BodySound ==
  ASSUME PoolInv, NEW c \in Caller, NEW s \in Slot,
         Begin(c, s) \/ Statement(c, s) \/ Nest(c, s) \/ Throws(c, s)
  PROVE  PoolInv'
<1> USE PoolAssumption
<1>1. WritesTyped /\ stage \in [Caller -> StageKind]
  BY TypesTogether DEF PoolInv, PlacesTyped
<1>2. CASE Begin(c, s)
  <2>1. WritesTyped' /\ open'[s] = 0
    BY <1>1, <1>2 DEF Begin, WritesTyped
  <2>2. wrote'[c] = 0 /\ durable'[c] = 0
    BY <1>2, Holding DEF Begin
  <2>3. \A t \in Slot \ {s} : open'[t] = open[t]
    BY <1>1, <1>2 DEF Begin, WritesTyped
  <2> QED
    BY <1>1, <1>2, <2>1, <2>2, <2>3, Continues DEF Begin
<1>3. CASE Statement(c, s)
  <2>1. /\ open' = [open EXCEPT ![s] = wrote[c] + 1] /\ durable' = durable
        /\ wrote' = [wrote EXCEPT ![c] = wrote[c] + 1] /\ wrote[c] \in Nat
    BY <1>1, <1>3, Holding DEF Statement, Store, WritesTyped, Autocommit
  <2>2. WritesTyped' /\ open'[s] = wrote'[c] /\ stage' = [stage EXCEPT ![c] = stage[c]]
    BY <1>1, <1>3, <2>1 DEF Statement, WritesTyped
  <2>3. durable'[c] = 0
    BY <1>3, <2>1, Holding DEF Statement
  <2>4. /\ \A t \in Slot \ {s} : open'[t] = open[t]
        /\ \A b \in Caller \ {c} : wrote'[b] = wrote[b]
    BY <1>1, <2>1 DEF WritesTyped
  <2> QED
    BY <1>3, <2>1, <2>2, <2>3, <2>4, Continues DEF Statement
<1>4. CASE Nest(c, s)
  <2>1. WritesTyped'
    BY <1>1, <1>4 DEF Nest, WritesTyped
  <2> QED
    BY <1>1, <1>4, <2>1, Holding, Continues DEF Nest
<1>5. CASE Throws(c, s)
  <2>1. CASE UNCHANGED <<open, durable>>
    <3>1. WritesTyped'
      BY <1>1, <1>5, <2>1 DEF Throws, WritesTyped
    <3> QED
      BY <1>1, <1>5, <2>1, <3>1, Holding, Continues DEF Throws
  <2>2. CASE stage[c] = "body" /\ wrote[c] = Writes /\ Committed(c, s)
    <3>1. /\ open' = [open EXCEPT ![s] = Autocommit]
          /\ durable' = [durable EXCEPT ![c] = Writes]
      BY <1>5, <2>2, Holding DEF Throws, Committed
    <3>2. WritesTyped'
      BY <1>1, <1>5, <3>1 DEF Throws, WritesTyped
    <3>3. /\ \A t \in Slot \ {s} : open'[t] = open[t] /\ durable'[c] = Writes
          /\ \A b \in Caller \ {c} : durable'[b] = durable[b]
      BY <1>1, <3>1 DEF WritesTyped
    <3>4. durable'[c] \in {0, Writes}
      BY <1>1, <3>1 DEF WritesTyped
    <3> QED
      BY <1>5, <2>2, <3>2, <3>3, <3>4, Continues DEF Throws
  <2> QED
    BY <1>5, <2>1, <2>2 DEF Throws
<1> QED
  BY <1>2, <1>3, <1>4, <1>5

(* A new call gets an idle slot, dials an empty one, or gets in line.      *)
LEMMA CallSound ==
  ASSUME PoolInv, NEW c \in Caller, NEW what \in {"statement", "transaction"}, Call(c, what)
  PROVE  PoolInv'
<1> USE PoolAssumption DEF PoolInv
<1>0. PlacesTyped /\ WritesTyped
  BY TypesTogether
<1>1. /\ job' = [job EXCEPT ![c] = what] /\ wrote' = [wrote EXCEPT ![c] = 0]
      /\ durable' = [durable EXCEPT ![c] = 0] /\ answer' = [answer EXCEPT ![c] = "none"]
      /\ UNCHANGED <<open, process>> /\ process \in {"up", "draining"} /\ stage[c] = "idle"
  BY DEF Call
<1>2. WritesTyped'
  BY <1>0, <1>1 DEF WritesTyped
<1>3. ~InLine(c) /\ \A s \in Slot : owner[s] # c
  BY <1>1 DEF TurnsSound, PlacesSound
<1>4. PICK to \in {"waiting", "query", "begin"} :
         /\ stage' = [stage EXCEPT ![c] = to]
         /\ to = "query" => what = "statement"
         /\ to = "begin" => what = "transaction"
         /\ \/ to # "waiting" /\ queue' = queue
               /\ \E s \in Slot : place[s] = "free" /\ Fill(s, "used", c)
            \/ to = "waiting" /\ queue' = queue
               /\ \E s \in Slot : place[s] = "empty" /\ Fill(s, "connecting", c)
            \/ to = "waiting" /\ queue' = Append(queue, c) /\ UNCHANGED <<place, owner>>
               /\ \A s \in Slot : place[s] \notin {"free", "empty"}
  BY DEF Call
<1>5. /\ stage'[c] = to /\ wrote'[c] = 0 /\ durable'[c] = 0 /\ answer'[c] = "none"
      /\ job'[c] = what
      /\ \A b \in Caller \ {c} : /\ stage'[b] = stage[b] /\ wrote'[b] = wrote[b] /\ job'[b] = job[b]
                                 /\ durable'[b] = durable[b] /\ answer'[b] = answer[b]
  BY <1>0, <1>1, <1>4 DEF PlacesTyped, WritesTyped
<1>6. CASE \E s \in Slot : /\ place[s] \in {"free", "empty"} /\ queue' = queue
                           /\ Fill(s, IF to = "waiting" THEN "connecting" ELSE "used", c)
  <2>1. PICK s \in Slot : /\ place[s] \in {"free", "empty"} /\ queue' = queue
                          /\ Fill(s, IF to = "waiting" THEN "connecting" ELSE "used", c)
    BY <1>6
  <2>2. /\ place'[s] = (IF to = "waiting" THEN "connecting" ELSE "used") /\ owner'[s] = c
        /\ \A t \in Slot \ {s} : place'[t] = place[t] /\ owner'[t] = owner[t]
        /\ queue = <<>> /\ open[s] = Autocommit
    BY <1>0, <2>1 DEF Fill, PlacesTyped, PlacesSound, WritesSound
  <2>3. PlacesTyped'
    BY <1>0, <1>4, <2>1 DEF Fill, PlacesTyped, PlaceKind, StageKind
  <2>4. PlacesSound'
    <3> SUFFICES ASSUME NEW t \in Slot
                 PROVE  /\ place'[t] \in {"free", "empty"} => owner'[t] = Nobody /\ queue' = <<>>
                        /\ place'[t] = "stray" => owner'[t] = Gone
                        /\ place'[t] = "connecting" => owner'[t] \in Caller \cup {Gone}
                        /\ place'[t] = "used" => owner'[t] \in Caller
                        /\ owner'[t] \in Caller =>
                              /\ stage'[owner'[t]] # "idle"
                              /\ place'[t] = IF stage'[owner'[t]] = "waiting" THEN "connecting" ELSE "used"
      BY DEF PlacesSound
    <3>1. CASE t = s
      BY <1>5, <2>2, <3>1
    <3>2. CASE t # s
      BY <1>3, <1>5, <2>1, <2>2, <3>2 DEF PlacesSound
    <3> QED
      BY <3>1, <3>2
  <2>5. TurnsSound'
    <3>1. \A t, u \in Slot : owner'[t] \in Caller /\ owner'[t] = owner'[u] => t = u
      BY <1>3, <2>2 DEF TurnsSound
    <3>2. \A b \in Caller : stage'[b] # "idle" => \E t \in Slot : owner'[t] = b
      <4> SUFFICES ASSUME NEW b \in Caller, stage'[b] # "idle" PROVE \E t \in Slot : owner'[t] = b
        OBVIOUS
      <4>1. CASE b = c
        BY <2>2, <4>1
      <4>2. CASE b # c
        <5>1. PICK t \in Slot : owner[t] = b
          BY <1>5, <2>2, <4>2 DEF TurnsSound, InLine
        <5>2. t # s
          BY <2>1, <5>1 DEF PlacesSound
        <5> QED
          BY <2>2, <5>1, <5>2
      <4> QED
        BY <4>1, <4>2
    <3> QED
      BY <2>1, <2>2, <3>1, <3>2 DEF TurnsSound, InLine
  <2>6. WritesSound'
    <3>1. ASSUME NEW b \in Caller
          PROVE  /\ stage'[b] = "query" => job'[b] = "statement"
                 /\ stage'[b] \in {"begin", "body", "inner", "rollback"} => job'[b] = "transaction"
                 /\ stage'[b] \in {"waiting", "query", "begin"} => wrote'[b] = 0
                 /\ stage'[b] \in {"waiting", "query", "begin", "body", "inner"} => durable'[b] = 0
                 /\ durable'[b] \in {0, Whole(b)'}
                 /\ answer'[b] = "ok" => durable'[b] = Whole(b)' /\ stage'[b] = "idle"
      BY <1>4, <1>5 DEF WritesSound, Whole
    <3>2. ASSUME NEW t \in Slot
          PROVE  /\ place'[t] # "used" => open'[t] = Autocommit
                 /\ place'[t] = "used" /\ stage'[owner'[t]] \in {"query", "begin"} => open'[t] = Autocommit
                 /\ place'[t] = "used" /\ stage'[owner'[t]] \in {"body", "inner"} => open'[t] = wrote'[owner'[t]]
      <4>1. CASE t = s
        BY <1>1, <1>5, <2>2, <4>1
      <4>2. CASE t # s
        <5>1. place[t] = "used" => owner[t] \in Caller \ {c}
          BY <1>3 DEF PlacesSound
        <5> QED
          BY <1>1, <1>5, <2>2, <4>2, <5>1 DEF WritesSound
      <4> QED
        BY <4>1, <4>2
    <3> QED
      BY <1>1, <3>1, <3>2 DEF WritesSound
  <2> QED
    BY <1>2, <2>3, <2>4, <2>5, <2>6, TypesTogether DEF PoolTypeOK, PlacesTyped, WritesTyped, PlaceKind, StageKind
<1>7. CASE /\ to = "waiting" /\ queue' = Append(queue, c) /\ UNCHANGED <<place, owner>>
           /\ \A s \in Slot : place[s] \notin {"free", "empty"}
  <2>1. /\ DOMAIN queue' = 1 .. Len(queue) + 1 /\ queue'[Len(queue) + 1] = c /\ Len(queue) \in Nat
        /\ DOMAIN queue = 1 .. Len(queue)
        /\ \A i \in DOMAIN queue : queue'[i] = queue[i] /\ queue[i] # c
        /\ queue' \in Seq(Caller \cup {Gone})
    BY <1>0, <1>3, <1>7 DEF PlacesTyped, InLine
  <2>2. PlacesTyped'
    BY <1>0, <1>4, <1>7, <2>1 DEF PlacesTyped, StageKind
  <2>3. PlacesSound'
    BY <1>3, <1>5, <1>7 DEF PlacesSound
  <2>4. TurnsSound'
    <3>1. \A i, j \in DOMAIN queue' : queue'[i] \in Caller /\ queue'[i] = queue'[j] => i = j
      <4> SUFFICES ASSUME NEW i \in DOMAIN queue', NEW j \in DOMAIN queue', queue'[i] \in Caller,
                          queue'[i] = queue'[j]
                   PROVE  i = j
        OBVIOUS
      <4>1. (i \in DOMAIN queue \/ i = Len(queue) + 1) /\ (j \in DOMAIN queue \/ j = Len(queue) + 1)
        BY <2>1
      <4> QED
        BY <2>1, <4>1 DEF TurnsSound
    <3>2. \A b \in Caller : InLine(b)' <=> b = c \/ InLine(b)
      <4>1. \A i : i \in DOMAIN queue' <=> i \in DOMAIN queue \/ i = Len(queue) + 1
        BY <2>1
      <4> QED
        BY <2>1, <4>1 DEF InLine
    <3>3. \A b \in Caller : /\ InLine(b)' => stage'[b] = "waiting" /\ \A s \in Slot : owner'[s] # b
                            /\ stage'[b] # "idle" => InLine(b)' \/ \E s \in Slot : owner'[s] = b
      BY <1>3, <1>5, <1>7, <3>2 DEF TurnsSound
    <3> QED
      BY <1>7, <3>1, <3>3 DEF TurnsSound
  <2>5. WritesSound'
    <3>1. \A s \in Slot : place[s] = "used" => owner[s] \in Caller \ {c}
      BY <1>3 DEF PlacesSound
    <3> QED
      BY <1>1, <1>5, <1>7, <3>1 DEF WritesSound, Whole
  <2> QED
    BY <1>2, <2>2, <2>3, <2>4, <2>5 DEF PoolTypeOK, PlacesTyped, WritesTyped, PlaceKind, StageKind
<1> QED
  BY <1>4, <1>6, <1>7

(* A handshake ends, for a caller that waits or for one that has left.     *)
LEMMA ConnectedSound == ASSUME PoolInv, NEW s \in Slot, Connected(s) PROVE PoolInv'
<1> USE PoolAssumption DEF PoolInv, Connected
<1>0. PlacesTyped /\ WritesTyped
  BY TypesTogether
<1>1. WritesTyped'
  BY <1>0 DEF WritesTyped
<1>2. CASE owner[s] = Gone
  <2>1. /\ place' = [place EXCEPT ![s] = "stray"] /\ owner' = [owner EXCEPT ![s] = Gone]
        /\ UNCHANGED <<queue, stage>>
    BY <1>2 DEF Fill
  <2>2. owner' = owner
    BY <1>0, <1>2, <2>1 DEF PlacesTyped
  <2>3. PlacesTyped'
    BY <1>0, <2>1, <2>2 DEF PlacesTyped, PlaceKind
  <2>4. PlacesSound' /\ TurnsSound'
    BY <1>0, <1>2, <2>1, <2>2 DEF PlacesSound, TurnsSound, InLine, PlacesTyped
  <2>5. WritesSound'
    BY <1>0, <2>1, <2>2 DEF WritesSound, Whole, PlacesTyped
  <2> QED
    BY <1>1, <2>3, <2>4, <2>5 DEF PoolTypeOK, PlacesTyped, WritesTyped, PlaceKind, StageKind
<1>3. CASE owner[s] # Gone
  <2> DEFINE c == owner[s]
  <2>1. c \in Caller /\ stage[c] = "waiting"
    BY <1>3 DEF PlacesSound
  <2>2. /\ place' = [place EXCEPT ![s] = "used"] /\ owner' = [owner EXCEPT ![s] = c]
        /\ stage' = [stage EXCEPT ![c] = Granted(c)] /\ UNCHANGED queue
    BY <1>3 DEF Fill
  <2>3. /\ owner' = owner /\ place'[s] = "used" /\ stage'[c] = Granted(c)
        /\ \A t \in Slot \ {s} : place'[t] = place[t] /\ owner[t] # c
        /\ \A b \in Caller \ {c} : stage'[b] = stage[b]
        /\ Granted(c) \in {"query", "begin"}
        /\ Granted(c) = "query" => job[c] = "statement"
        /\ Granted(c) = "begin" => job[c] = "transaction"
    BY <1>0, <2>1, <2>2 DEF PlacesTyped, WritesTyped, TurnsSound, Granted
  <2>4. PlacesTyped'
    BY <1>0, <2>2, <2>3 DEF PlacesTyped, PlaceKind, StageKind
  <2>5. PlacesSound'
    <3> SUFFICES ASSUME NEW t \in Slot
                 PROVE  /\ place'[t] \in {"free", "empty"} => owner[t] = Nobody /\ queue = <<>>
                        /\ place'[t] = "stray" => owner[t] = Gone
                        /\ place'[t] = "connecting" => owner[t] \in Caller \cup {Gone}
                        /\ place'[t] = "used" => owner[t] \in Caller
                        /\ owner[t] \in Caller =>
                              /\ stage'[owner[t]] # "idle"
                              /\ place'[t] = IF stage'[owner[t]] = "waiting" THEN "connecting" ELSE "used"
      BY <2>2, <2>3 DEF PlacesSound
    <3>1. CASE t = s
      BY <2>1, <2>3, <3>1
    <3>2. CASE t # s
      BY <2>3, <3>2 DEF PlacesSound
    <3> QED
      BY <3>1, <3>2
  <2>6. TurnsSound'
    <3>1. ~InLine(c)
      BY <2>1 DEF TurnsSound
    <3>2. \A b \in Caller : InLine(b)' <=> InLine(b)
      BY <2>2 DEF InLine
    <3>3. \A b \in Caller : /\ InLine(b)' => stage'[b] = "waiting" /\ \A t \in Slot : owner'[t] # b
                            /\ stage'[b] # "idle" => InLine(b)' \/ \E t \in Slot : owner'[t] = b
      BY <2>3, <3>1, <3>2 DEF TurnsSound
    <3> QED
      BY <2>2, <2>3, <3>3 DEF TurnsSound
  <2>7. WritesSound'
    <3>1. Holds(c, s)' /\ open[s] = Autocommit /\ wrote[c] = 0 /\ durable[c] = 0
          /\ answer[c] # "ok" /\ process # "ended"
      BY <2>1, <2>3 DEF WritesSound, Holds
    <3>2. \A t \in Slot \ {s} : place[t] = "used" => owner[t] \in Caller \ {c}
      BY <2>3 DEF PlacesSound
    <3> QED
      BY <2>3, <3>1, <3>2 DEF WritesSound, Whole, Holds
  <2> QED
    BY <1>1, <2>4, <2>5, <2>6, <2>7 DEF PoolTypeOK, PlacesTyped, WritesTyped, PlaceKind, StageKind
<1> QED
  BY <1>2, <1>3

(* A connection that cannot be opened.                                     *)
LEMMA ConnectFailsSound == ASSUME PoolInv, NEW s \in Slot, ConnectFails(s) PROVE PoolInv'
<1> USE PoolAssumption DEF ConnectFails
<1>0. WritesTyped
  BY TypesTogether DEF PoolInv
<1>1. WritesTyped'
  BY <1>0 DEF WritesTyped
<1>2. open[s] = Autocommit
  BY DEF PoolInv, WritesSound
<1>3. owner[s] \in Caller => durable[owner[s]] \in {0, Whole(owner[s])} /\ answer'[owner[s]] = "error"
  BY DEF PoolInv, WritesSound
<1>4. \A c \in Caller : c # owner[s] => answer'[c] = answer[c]
  OBVIOUS
<1>5. Discard(s, Answered(s))
  BY DEF Answered
<1> QED
  BY <1>1, <1>2, <1>3, <1>4, <1>5, Ends

(* A connection that arrives too late.                                     *)
LEMMA DestroyLateSound == ASSUME PoolInv, NEW s \in Slot, DestroyLate(s) PROVE PoolInv'
<1> USE PoolAssumption DEF DestroyLate
<1>0. WritesTyped
  BY TypesTogether DEF PoolInv
<1>1. WritesTyped'
  BY <1>0 DEF WritesTyped
<1>2. open[s] = Autocommit /\ owner[s] = Gone /\ stage \in [Caller -> StageKind]
  BY Typed DEF PoolInv, WritesSound, PlacesSound, PlacesTyped
<1>3. Answered(s) = stage
  BY <1>2 DEF Answered
<1> QED
  BY <1>1, <1>2, <1>3, Ends

(* A caller gives up: its slot or its turn is nobody's.                    *)
LEMMA DeadlineSound == ASSUME PoolInv, NEW c \in Caller, Deadline(c) PROVE PoolInv'
<1> USE PoolAssumption DEF PoolInv
<1>0. PlacesTyped /\ WritesTyped
  BY TypesTogether
<1>1. /\ stage[c] = "waiting"
      /\ queue' = [i \in DOMAIN queue |-> IF queue[i] = c THEN Gone ELSE queue[i]]
      /\ owner' = [s \in Slot |-> IF owner[s] = c THEN Gone ELSE owner[s]]
      /\ stage' = [stage EXCEPT ![c] = "idle"] /\ answer' = [answer EXCEPT ![c] = "error"]
      /\ UNCHANGED <<place, open, job, wrote, durable, process, gateway>>
  BY DEF Deadline
<1>2. WritesTyped'
  BY <1>0, <1>1 DEF WritesTyped
<1>3. queue' \in Seq(Caller \cup {Gone})
  <2>1. DOMAIN queue = 1 .. Len(queue) /\ Len(queue) \in Nat
        /\ \A i \in DOMAIN queue : queue[i] \in Caller \cup {Gone}
    BY <1>0 DEF PlacesTyped
  <2> QED
    BY <1>1, <2>1
<1>4. PlacesTyped'
  BY <1>0, <1>1, <1>3 DEF PlacesTyped, StageKind
<1>5. /\ stage'[c] = "idle" /\ answer'[c] = "error"
      /\ \A b \in Caller \ {c} : stage'[b] = stage[b] /\ answer'[b] = answer[b]
      /\ \A s \in Slot : owner'[s] # c /\ (owner'[s] \in Caller => owner'[s] = owner[s])
      /\ \A i \in DOMAIN queue' : queue'[i] # c /\ (queue'[i] \in Caller => queue'[i] = queue[i])
      /\ DOMAIN queue' = DOMAIN queue
  BY <1>0, <1>1 DEF PlacesTyped, WritesTyped
<1>6. \A s \in Slot : owner[s] # c => owner'[s] = owner[s]
  BY <1>1
<1>7. \A s \in Slot : owner[s] = c => place[s] = "connecting" /\ owner'[s] = Gone
  BY <1>1 DEF PlacesSound
<1>8. queue = <<>> => queue' = <<>>
  BY <1>1
<1>9. PlacesSound'
  <2> SUFFICES ASSUME NEW s \in Slot
               PROVE  /\ place[s] \in {"free", "empty"} => owner'[s] = Nobody /\ queue' = <<>>
                      /\ place[s] = "stray" => owner'[s] = Gone
                      /\ place[s] = "connecting" => owner'[s] \in Caller \cup {Gone}
                      /\ place[s] = "used" => owner'[s] \in Caller
                      /\ owner'[s] \in Caller =>
                            /\ stage'[owner'[s]] # "idle"
                            /\ place[s] = IF stage'[owner'[s]] = "waiting" THEN "connecting" ELSE "used"
    BY <1>1 DEF PlacesSound
  <2>1. CASE owner[s] = c
    BY <1>7, <2>1
  <2>2. CASE owner[s] # c
    BY <1>5, <1>6, <1>8, <2>2 DEF PlacesSound
  <2> QED
    BY <2>1, <2>2
<1>10. TurnsSound'
  <2>1. \A b \in Caller \ {c} : InLine(b)' <=> InLine(b)
    BY <1>1, <1>5 DEF InLine
  <2>2. ~InLine(c)'
    BY <1>5 DEF InLine
  <2>3. \A b \in Caller \ {c} : (\E s \in Slot : owner'[s] = b) <=> \E s \in Slot : owner[s] = b
    BY <1>1, <1>5, <1>6
  <2>4. \A b \in Caller : /\ InLine(b)' => stage'[b] = "waiting" /\ \A s \in Slot : owner'[s] # b
                          /\ stage'[b] # "idle" => InLine(b)' \/ \E s \in Slot : owner'[s] = b
    BY <1>5, <2>1, <2>2, <2>3 DEF TurnsSound
  <2>5. \A s, t \in Slot : owner'[s] \in Caller /\ owner'[s] = owner'[t] => s = t
    BY <1>5 DEF TurnsSound
  <2>6. \A i, j \in DOMAIN queue' : queue'[i] \in Caller /\ queue'[i] = queue'[j] => i = j
    BY <1>5 DEF TurnsSound
  <2> QED
    BY <2>4, <2>5, <2>6 DEF TurnsSound
<1>11. WritesSound'
  <2>1. \A s \in Slot : place[s] = "used" => owner'[s] = owner[s] /\ owner[s] \in Caller \ {c}
    BY <1>6, <1>7 DEF PlacesSound
  <2>2. \A s \in Slot : place[s] = "used" => stage'[owner'[s]] = stage[owner[s]]
    BY <1>5, <2>1
  <2> QED
    BY <1>1, <1>5, <2>1, <2>2 DEF WritesSound, Whole
<1> QED
  BY <1>2, <1>4, <1>9, <1>10, <1>11 DEF PoolTypeOK, PlacesTyped, WritesTyped, PlaceKind, StageKind

(* A process that ends leaves every slot empty and nobody waiting.         *)
LEMMA ExitSound == ASSUME PoolInv, Exit PROVE PoolInv'
<1> USE PoolAssumption DEF PoolInv, Exit
<1>1. PoolTypeOK'
  BY DEF PoolTypeOK, Autocommit
<1>2. PlacesSound'
  BY DEF PlacesSound
<1>3. TurnsSound'
  BY DEF TurnsSound, InLine
<1>4. WritesSound'
  BY DEF WritesSound, Whole
<1> QED
  BY <1>1, <1>2, <1>3, <1>4

(* The process ends, and the database is lost.                             *)
LEMMA ProcessSound ==
  ASSUME PoolInv, GetDb \/ Shutdown \/ ServerClosed \/ Boot \/ UNCHANGED poolVars
  PROVE  PoolInv'
<1> USE DEF PoolInv, GetDb, Shutdown, ServerClosed, Boot, poolVars, waiters, calls
<1>1. PoolTypeOK'
  BY DEF PoolTypeOK
<1>2. PlacesSound' /\ TurnsSound'
  BY DEF PlacesSound, TurnsSound, InLine
<1>3. WritesSound'
  BY DEF WritesSound, Whole
<1> QED
  BY <1>1, <1>2, <1>3

(* An empty pool satisfies the invariant.                                  *)
LEMMA InitPool == PoolInit => PoolInv
<1> SUFFICES ASSUME PoolInit PROVE PoolInv
  OBVIOUS
<1> USE PoolAssumption DEF PoolInit
<1>1. PoolTypeOK
  BY DEF PoolTypeOK, Autocommit
<1>2. PlacesSound /\ TurnsSound
  BY DEF PlacesSound, TurnsSound, InLine
<1>3. WritesSound
  BY DEF WritesSound, Whole
<1> QED
  BY <1>1, <1>2, <1>3 DEF PoolInv

(* Every step keeps the invariant.                                         *)
LEMMA PoolStep == PoolInv /\ [PoolNext]_poolVars => PoolInv'
<1> SUFFICES ASSUME PoolInv, [PoolNext]_poolVars PROVE PoolInv'
  OBVIOUS
<1>1. ASSUME NEW c \in Caller, Call(c, "statement") \/ Call(c, "transaction") \/ Deadline(c) PROVE PoolInv'
  BY <1>1, CallSound, DeadlineSound
<1>2. ASSUME NEW c \in Caller, Serve(c) PROVE PoolInv'
  BY <1>2, QuerySound, QueryFailsSound, CommitSound, RollbacksSound, BodySound DEF Serve
<1>3. ASSUME NEW s \in Slot, Dial(s) \/ DestroyLate(s) PROVE PoolInv'
  BY <1>3, ConnectedSound, ConnectFailsSound, DestroyLateSound DEF Dial
<1>4. CASE GetDb \/ Shutdown \/ ServerClosed \/ Exit \/ Boot \/ UNCHANGED poolVars
  BY <1>4, ProcessSound, ExitSound
<1> QED
  BY <1>1, <1>2, <1>3, <1>4 DEF PoolNext

(* The invariant of the pool, types included.                              *)
THEOREM PoolIsSound == PoolSpec => []PoolInv
<1>1. PoolInv /\ [PoolNext]_poolVars => PoolInv'
  BY PoolStep
<1> QED
  BY InitPool, <1>1, PTL DEF PoolSpec

(* What a call stored is all of it or none of it, whichever way it ended.  *)
THEOREM CallsAreWhole == PoolSpec => []AllOrNothing
<1>1. PoolInv => AllOrNothing
  BY PoolAssumption DEF PoolInv, WritesSound, AllOrNothing, Whole
<1> QED
  BY <1>1, PoolIsSound, PTL

(* One slot or one turn each, counted.                                     *)
LEMMA Conserved == ASSUME PoolInv PROVE PoolIntegrity
<1> USE PoolAssumption DEF PoolInv
<1>1. ASSUME NEW c \in Caller
      PROVE  Cardinality({s \in Slot : owner[s] = c}) + Cardinality({i \in DOMAIN queue : queue[i] = c})
               = IF stage[c] = "idle" THEN 0 ELSE 1
  <2> DEFINE slots == {s \in Slot : owner[s] = c}
             turns == {i \in DOMAIN queue : queue[i] = c}
  <2>1. CASE stage[c] = "idle"
    <3>1. slots = {} /\ turns = {}
      BY <2>1 DEF TurnsSound, PlacesSound, InLine
    <3> QED
      BY <2>1, <3>1, FS_EmptySet
  <2>2. CASE stage[c] # "idle" /\ InLine(c)
    <3>1. PICK i \in DOMAIN queue : queue[i] = c
      BY <2>2 DEF InLine
    <3>2. slots = {} /\ turns = {i}
      BY <2>2, <3>1 DEF TurnsSound
    <3> QED
      BY SMTT(20), <2>2, <3>2, FS_EmptySet, FS_Singleton
  <2>3. CASE stage[c] # "idle" /\ ~InLine(c)
    <3>1. PICK s \in Slot : owner[s] = c
      BY <2>3 DEF TurnsSound
    <3>2. \A t \in Slot : owner[t] = c => t = s
      BY <3>1 DEF TurnsSound
    <3>3. slots = {s}
      BY <3>1, <3>2
    <3>4. turns = {}
      BY <2>3 DEF InLine
    <3>5. Cardinality(slots) = 1
      BY <3>3, FS_Singleton
    <3>6. Cardinality(turns) = 0
      BY <3>4, FS_EmptySet
    <3> QED
      BY <2>3, <3>5, <3>6
  <2> QED
    BY <2>1, <2>2, <2>3
<1>2. \A c \in Caller : \A s \in {t \in Slot : owner[t] = c} :
         place[s] = IF stage[c] = "waiting" THEN "connecting" ELSE "used"
  BY DEF PlacesSound
<1>3. \A s \in Slot : /\ place[s] # "used" => open[s] = Autocommit
                      /\ place[s] \in {"free", "empty"} => owner[s] = Nobody /\ queue = <<>>
                      /\ process = "ended" => place[s] # "used"
  BY DEF PlacesSound, WritesSound
<1> QED
  BY <1>1, <1>2, <1>3 DEF PoolIntegrity

(* A caller has one slot or one turn in line while it calls, and none      *)
(* otherwise; idle slots and idle callers do not meet.                     *)
THEOREM SlotsAreConserved == PoolSpec => []PoolIntegrity
<1>1. PoolInv => PoolIntegrity
  BY Conserved
<1> QED
  BY <1>1, PoolIsSound, PTL

-----------------------------------------------------------------------------
(* The row operations.                                                     *)

Rows == [other : Other \cup {Nothing}, n : Nat, patched : BOOLEAN]

(* A patched row is not the missing one.                                   *)
LEMMA PatchedIsPresent == ASSUME NEW k, table[k].patched PROVE Present(k)
  BY DEF Present, Missing

(* An empty table satisfies the invariant.                                 *)
LEMMA InitRecords == RecordsInit => RecordsInv
<1> SUFFICES ASSUME RecordsInit PROVE RecordsInv
  OBVIOUS
<1> USE RecordsAssumption DEF RecordsInit
<1>1. RecordsTypeOK
  BY DEF RecordsTypeOK, Missing, Stages
<1>2. UpsertsSound /\ UpsertSettles
  BY DEF UpsertsSound, UpsertSettles
<1>3. CountsExact
  BY DEF CountsExact, Missing
<1> QED
  BY <1>1, <1>2, <1>3 DEF RecordsInv

(* A step that only moves the caller c on, without touching the table,     *)
(* leaves every other caller as it was.                                    *)
LEMMA Untouched ==
  ASSUME RecordsInv, NEW c \in Client, UNCHANGED <<table, counted>>,
         RecordsTypeOK',
         \A b \in Client \ {c} : /\ upserting'[b] = upserting[b] /\ rowKey'[b] = rowKey[b]
                                 /\ result'[b] = result[b]
                                 /\ b \in excused' <=> b \in excused,
         upserting'[c] # "idle" \/ result'[c] # "none" => rowKey'[c] \in Key,
         c \notin excused' =>
             /\ upserting'[c] = "reapply" => Present(rowKey'[c])
             /\ upserting'[c] = "reread" => table[rowKey'[c]].patched
             /\ upserting'[c] = "idle" /\ result'[c] # "none"
                  => result'[c] = "row" /\ table[rowKey'[c]].patched
  PROVE  RecordsInv'
<1> USE DEF RecordsInv
<1>1. CountsExact'
  BY DEF CountsExact
<1>2. UpsertsSound'
  <2> SUFFICES ASSUME NEW b \in Client
               PROVE  /\ upserting'[b] # "idle" \/ result'[b] # "none" => rowKey'[b] \in Key
                      /\ b \notin excused' =>
                           /\ upserting'[b] = "reapply" => table[rowKey'[b]] # Missing
                           /\ upserting'[b] = "reread" => table[rowKey'[b]].patched
    BY DEF UpsertsSound, Present, Missing
  <2>1. CASE b = c
    BY <2>1 DEF Present
  <2>2. CASE b # c
    BY <2>2 DEF UpsertsSound, Present
  <2> QED
    BY <2>1, <2>2
<1>3. UpsertSettles'
  <2> SUFFICES ASSUME NEW b \in Client,
                      upserting'[b] = "idle", result'[b] # "none", b \notin excused'
               PROVE  result'[b] = "row" /\ table[rowKey'[b]].patched
    BY DEF UpsertSettles
  <2>1. CASE b = c
    BY <2>1
  <2>2. CASE b # c
    BY <2>2 DEF UpsertSettles
  <2> QED
    BY <2>1, <2>2
<1> QED
  BY <1>1, <1>2, <1>3

(* A write that moves no caller on keeps the invariant when every row some *)
(* caller still counts on stays present, and patched if it was.            *)
LEMMA Rewritten ==
  ASSUME RecordsInv, RecordsTypeOK', CountsExact',
         UNCHANGED <<upserting, rowKey, result>>, excused \subseteq excused',
         \A b \in Client : b \notin excused' /\ rowKey[b] \in Key =>
             /\ Present(rowKey[b]) => table'[rowKey[b]] # Missing
             /\ table[rowKey[b]].patched => table'[rowKey[b]].patched
  PROVE  RecordsInv'
<1> USE DEF RecordsInv
<1>1. UpsertsSound'
  BY DEF UpsertsSound, Present, Missing
<1>2. UpsertSettles'
  BY DEF UpsertSettles, UpsertsSound
<1> QED
  BY <1>1, <1>2

(* Every step keeps the invariant.                                         *)
LEMMA RecordsStep == RecordsInv /\ [RecordsNext]_recordVars => RecordsInv'
<1> SUFFICES ASSUME RecordsInv, [RecordsNext]_recordVars PROVE RecordsInv'
  OBVIOUS
<1> USE RecordsAssumption DEF RecordsInv, Then
<1>0. /\ table \in [Key -> Rows] /\ upserting \in [Client -> Stages]
      /\ rowKey \in [Client -> Key \cup {Nothing}] /\ second \in [Client -> Other \cup {Nothing}]
      /\ result \in [Client -> {"none", "row", "null"}] /\ counted \in [Key -> Nat]
  BY DEF RecordsTypeOK, Rows
<1>1. ASSUME NEW c \in Client, NEW k \in Key, NEW o \in Other, UpsertSelect(c, k, o) PROVE RecordsInv'
  <2>1. RecordsTypeOK'
    BY <1>0, <1>1 DEF UpsertSelect, RecordsTypeOK, Stages
  <2>2. /\ upserting'[c] = (IF Present(k) THEN "reapply" ELSE "insert")
        /\ rowKey'[c] = k /\ result'[c] = "none" /\ UNCHANGED <<table, counted>>
        /\ \A b \in Client \ {c} : /\ upserting'[b] = upserting[b] /\ rowKey'[b] = rowKey[b]
                                   /\ result'[b] = result[b]
                                   /\ b \in excused' <=> b \in excused
    BY <1>0, <1>1 DEF UpsertSelect
  <2> QED
    BY <2>1, <2>2, Untouched
<1>2. ASSUME NEW c \in Client, NEW k \in Key, NEW o \in Other, Insert(c, k, o) PROVE RecordsInv'
  <2>1. /\ table[k] = Missing /\ UNCHANGED <<upserting, rowKey, result, excused, second, counted>>
        /\ table' = [table EXCEPT ![k] = [other |-> o, n |-> 0, patched |-> FALSE]]
    BY <1>2 DEF Insert, Present
  <2>2. RecordsTypeOK'
    BY <1>0, <2>1 DEF RecordsTypeOK
  <2>3. counted[k] = 0
    BY <2>1 DEF CountsExact, Missing
  <2>4. CountsExact'
    BY <1>0, <2>1, <2>3 DEF CountsExact
  <2>5. ~table[k].patched
    BY <2>1 DEF Missing
  <2> QED
    BY <1>0, <2>1, <2>2, <2>4, <2>5, Rewritten DEF Present
<1>3. ASSUME NEW c \in Client, UpsertInsert(c) PROVE RecordsInv'
  <2> DEFINE key == rowKey[c]
  <2>1. upserting[c] = "insert" /\ key \in Key
    BY <1>3 DEF UpsertInsert, UpsertsSound
  <2>2. CASE Present(key) \/ Taken(key, second[c])
    <3>1. /\ upserting' = [upserting EXCEPT ![c] = "reapply"]
          /\ UNCHANGED <<table, rowKey, second, result, counted>>
          /\ excused' = IF Taken(key, second[c]) THEN excused \cup {c} ELSE excused
      BY <1>3, <2>2 DEF UpsertInsert
    <3>2. RecordsTypeOK'
      BY <1>0, <3>1 DEF RecordsTypeOK, Stages
    <3>3. c \notin excused' => Present(key)
      BY <2>2, <3>1
    <3>4. upserting'[c] = "reapply"
      BY <1>0, <3>1
    <3>5. \A b \in Client \ {c} : upserting'[b] = upserting[b] /\ (b \in excused' <=> b \in excused)
      BY <1>0, <3>1
    <3> QED
      BY <2>1, <3>1, <3>2, <3>3, <3>4, <3>5, Untouched
  <2>3. CASE ~Present(key) /\ ~Taken(key, second[c])
    <3>1. /\ table' = [table EXCEPT ![key] = [other |-> second[c], n |-> 0, patched |-> TRUE]]
          /\ upserting' = [upserting EXCEPT ![c] = "reread"]
          /\ UNCHANGED <<rowKey, second, result, counted, excused>>
      BY <1>3, <2>3 DEF UpsertInsert
    <3>2. RecordsTypeOK'
      BY <1>0, <3>1 DEF RecordsTypeOK, Stages
    <3>3. counted[key] = 0 /\ ~table[key].patched
      BY <2>1, <2>3 DEF CountsExact, Missing, Present
    <3>4. CountsExact'
      BY <1>0, <3>1, <3>3 DEF CountsExact
    <3>5. table'[key].patched /\ \A j \in Key \ {key} : table'[j] = table[j]
      BY <1>0, <2>1, <3>1
    <3>6. UpsertsSound'
      <4> SUFFICES ASSUME NEW b \in Client
                   PROVE  /\ upserting'[b] # "idle" \/ result[b] # "none" => rowKey[b] \in Key
                          /\ b \notin excused =>
                               /\ upserting'[b] = "reapply" => table'[rowKey[b]] # Missing
                               /\ upserting'[b] = "reread" => table'[rowKey[b]].patched
        BY <3>1 DEF UpsertsSound, Present, Missing
      <4>1. CASE b = c
        BY <1>0, <2>1, <3>1, <3>5, <4>1
      <4>2. CASE b # c
        <5>1. upserting'[b] = upserting[b]
          BY <1>0, <3>1, <4>2
        <5>2. CASE rowKey[b] = key
          BY <2>1, <2>3, <3>3, <3>5, <5>1, <5>2 DEF UpsertsSound
        <5>3. CASE rowKey[b] # key
          BY <3>5, <5>1, <5>3 DEF UpsertsSound, Present
        <5> QED
          BY <5>2, <5>3
      <4> QED
        BY <4>1, <4>2
    <3>7. UpsertSettles'
      <4> SUFFICES ASSUME NEW b \in Client,
                          upserting'[b] = "idle", result'[b] # "none", b \notin excused'
                   PROVE  result'[b] = "row" /\ table'[rowKey'[b]].patched
        BY DEF UpsertSettles
      <4>1. b # c
        BY <1>0, <3>1
      <4>2. result[b] = "row" /\ table[rowKey[b]].patched /\ rowKey[b] \in Key
        BY <1>0, <3>1, <4>1 DEF UpsertSettles, UpsertsSound
      <4> QED
        BY <3>1, <3>5, <4>2
    <3> QED
      BY <3>2, <3>4, <3>6, <3>7
  <2> QED
    BY <2>2, <2>3
<1>4. ASSUME NEW c \in Client, UpsertReapply(c) PROVE RecordsInv'
  <2> DEFINE key == rowKey[c]
  <2>1. /\ upserting[c] = "reapply" /\ key \in Key
        /\ table' = IF Present(key) THEN [table EXCEPT ![key].patched = TRUE] ELSE table
        /\ upserting' = [upserting EXCEPT ![c] = "reread"]
        /\ UNCHANGED <<rowKey, second, result, excused, counted>>
    BY <1>4 DEF UpsertReapply, UpsertsSound
  <2>2. RecordsTypeOK'
    BY <1>0, <2>1 DEF RecordsTypeOK, Rows, Stages
  <2>3. \A j \in Key : table'[j].n = table[j].n /\ (table[j].patched => table'[j].patched)
    BY <1>0, <2>1 DEF Rows
  <2>4. Present(key) => table'[key].patched
    BY <1>0, <2>1 DEF Rows
  <2>5. \A j \in Key : Present(j) => table'[j] # Missing
    BY <1>0, <2>1, <2>4 DEF Present, Missing
  <2>6. CountsExact'
    BY <1>0, <2>1, <2>3 DEF CountsExact
  <2>7. UpsertsSound'
    BY <1>0, <2>1, <2>3, <2>4, <2>5 DEF UpsertsSound, Present, Missing
  <2>8. UpsertSettles'
    BY <1>0, <2>1, <2>3 DEF UpsertSettles, UpsertsSound
  <2> QED
    BY <2>2, <2>6, <2>7, <2>8
<1>5. ASSUME NEW c \in Client, UpsertReread(c) PROVE RecordsInv'
  <2>1. RecordsTypeOK'
    BY <1>0, <1>5 DEF UpsertReread, RecordsTypeOK, Stages
  <2>2. /\ upserting[c] = "reread" /\ upserting'[c] = "idle"
        /\ result'[c] = (IF Present(rowKey[c]) THEN "row" ELSE "null")
        /\ UNCHANGED <<table, rowKey, excused, counted>>
        /\ \A b \in Client \ {c} : upserting'[b] = upserting[b] /\ result'[b] = result[b]
    BY <1>0, <1>5 DEF UpsertReread
  <2>3. rowKey[c] \in Key /\ (c \notin excused => table[rowKey[c]].patched)
    BY <2>2 DEF UpsertsSound
  <2>4. c \notin excused => result'[c] = "row"
    BY <2>2, <2>3, PatchedIsPresent
  <2> QED
    BY <2>1, <2>2, <2>3, <2>4, Untouched
<1>6. ASSUME NEW c \in Client, NEW k \in Key, Increment(c, k) PROVE RecordsInv'
  <2>1. /\ table[k].n < Cap /\ table' = [table EXCEPT ![k].n = @ + 1]
        /\ counted' = [counted EXCEPT ![k] = @ + 1]
        /\ UNCHANGED <<upserting, rowKey, second, result, excused>>
    BY <1>6 DEF Increment
  <2>2. RecordsTypeOK'
    BY <1>0, <2>1 DEF RecordsTypeOK, Rows
  <2>3. CountsExact'
    BY <1>0, <2>1 DEF CountsExact, Rows
  <2>4. \A j \in Key : /\ Present(j) => table'[j] # Missing
                       /\ table[j].patched => table'[j].patched
    BY <1>0, <2>1 DEF Present, Missing, Rows
  <2> QED
    BY <2>1, <2>2, <2>3, <2>4, Rewritten
<1>7. ASSUME NEW c \in Client, NEW k \in Key, UpdateRow(c, k) PROVE RecordsInv'
  <2>1. /\ table' = [table EXCEPT ![k].patched = FALSE]
        /\ excused' = excused \cup On(k)
        /\ UNCHANGED <<upserting, rowKey, second, result, counted>>
    BY <1>7 DEF UpdateRow
  <2>2. RecordsTypeOK'
    BY <1>0, <2>1 DEF RecordsTypeOK, Rows
  <2>3. CountsExact'
    BY <1>0, <2>1 DEF CountsExact, Rows
  <2>4. \A j \in Key \ {k} : table'[j] = table[j]
    BY <1>0, <2>1
  <2> QED
    BY <2>1, <2>2, <2>3, <2>4, Rewritten DEF On, Present
<1>8. ASSUME NEW c \in Client, NEW k \in Key, RemoveRow(c, k) PROVE RecordsInv'
  <2>1. /\ table' = [table EXCEPT ![k] = Missing]
        /\ excused' = excused \cup On(k) /\ counted' = [counted EXCEPT ![k] = 0]
        /\ UNCHANGED <<upserting, rowKey, second, result>>
    BY <1>8 DEF RemoveRow
  <2>2. RecordsTypeOK'
    BY <1>0, <2>1 DEF RecordsTypeOK, Missing
  <2>3. CountsExact'
    BY <1>0, <2>1 DEF CountsExact, Missing
  <2>4. \A j \in Key \ {k} : table'[j] = table[j]
    BY <1>0, <2>1
  <2> QED
    BY <2>1, <2>2, <2>3, <2>4, Rewritten DEF On, Present
<1>9. CASE UNCHANGED recordVars
  BY <1>9 DEF recordVars, RecordsTypeOK, UpsertsSound, CountsExact, UpsertSettles, Present, Missing
<1> QED
  BY <1>1, <1>2, <1>3, <1>4, <1>5, <1>6, <1>7, <1>8, <1>9 DEF RecordsNext

(* The invariant of the row operations, types included.                    *)
THEOREM RecordsAreSound == RecordsSpec => []RecordsInv
<1>1. RecordsInv /\ [RecordsNext]_recordVars => RecordsInv'
  BY RecordsStep
<1> QED
  BY InitRecords, <1>1, PTL DEF RecordsSpec

(* The counter of a row is the number of increments that answered 1.       *)
THEOREM IncrementsCountOnce == RecordsSpec => []CountsExact
<1>1. RecordsInv => CountsExact
  BY DEF RecordsInv
<1> QED
  BY <1>1, RecordsAreSound, PTL

(* An upsert answers with its row, patched, unless another caller rewrote  *)
(* or removed it, or a second unique column refused it.                    *)
THEOREM UpsertsSettle == RecordsSpec => []UpsertSettles
<1>1. RecordsInv => UpsertSettles
  BY DEF RecordsInv
<1> QED
  BY <1>1, RecordsAreSound, PTL

-----------------------------------------------------------------------------
(* The condition compiler.                                                 *)

(* Of the numbers up to N that fail, one is least.                         *)
LEMMA LeastNumber ==
  ASSUME NEW N \in Nat, NEW bad \in SUBSET (0 .. N), bad # {}
  PROVE  \E n \in bad : \A m \in 0 .. n - 1 : m \notin bad
<1> DEFINE up == {0 .. n : n \in bad}
<1>1. IsFiniteSet(0 .. N)
  BY FS_Interval
<1>2. up \subseteq FiniteSubsetsOf(0 .. N) /\ up # {}
  <2>1. \A n \in bad : 0 .. n \subseteq 0 .. N /\ IsFiniteSet(0 .. n)
    BY <1>1, FS_Subset
  <2> QED
    BY <2>1 DEF FiniteSubsetsOf
<1>3. PICK T \in up : \A U \in up : <<U, T>> \notin StrictSubsetOrdering(0 .. N)
  <2> HIDE DEF up
  <2> QED
    BY <1>1, <1>2, FS_StrictSubsetOrderingWellFounded, WFMin
<1>4. PICK n \in bad : T = 0 .. n
  OBVIOUS
<1>5. ASSUME NEW m \in 0 .. n - 1, m \in bad PROVE FALSE
  <2>1. 0 .. m \in up
    BY <1>5
  <2>2. <<0 .. m, T>> \in StrictSubsetOrdering(0 .. N)
    BY <1>4, <1>5 DEF StrictSubsetOrdering
  <2> QED
    BY <1>3, <2>1, <2>2
<1> QED
  BY <1>5

(* AND of two sets of truth values is AND of theirs.                       *)
LEMMA AllOfGrows ==
  ASSUME NEW S \in SUBSET Value, NEW T \in SUBSET Value
  PROVE  /\ AllOf(S) \in Value
         /\ AllOf(S \cup T) = AllOf({AllOf(S), AllOf(T)})
         /\ S \subseteq {"true"} => AllOf(S) = "true"
         /\ \A v \in Value : AllOf({v}) = v
BY DEF AllOf, Value

(* OR of two sets of truth values is OR of theirs.                         *)
LEMMA AnyOfGrows ==
  ASSUME NEW S \in SUBSET Value, NEW T \in SUBSET Value
  PROVE  /\ AnyOf(S) \in Value
         /\ AnyOf(S \cup T) = AnyOf({AnyOf(S), AnyOf(T)})
         /\ \A v \in Value : AnyOf({v}) = v
BY DEF AnyOf, Value

(* Joining texts has a solution, text by text.                             *)
LEMMA JoinedUnfolds ==
  ASSUME NEW word, NEW texts, NEW N \in Nat, Len(texts) = N
  PROVE  \E f :
           /\ Joined(word, texts) = f[N] /\ f[0] = <<>>
           /\ \A n \in 1 .. N : f[n] =
                IF f[n - 1] = <<>> THEN texts[n]
                ELSE IF texts[n] = <<>> THEN f[n - 1] ELSE Join(word, f[n - 1], texts[n])
<1> DEFINE G(f, n) == IF n = 0 THEN <<>>
                      ELSE IF f[n - 1] = <<>> THEN texts[n]
                      ELSE IF texts[n] = <<>> THEN f[n - 1] ELSE Join(word, f[n - 1], texts[n])
           Sol(f) == f = [n \in 0 .. N |-> G(f, n)]
           iter == CHOOSE f : Sol(f)
           bad == {m \in 0 .. N : ~ \E f : \A n \in 0 .. m : f[n] = G(f, n)}
<1>1. Joined(word, texts) = iter[N]
  BY DEF Joined
<1>2. bad = {}
  <2> SUFFICES ASSUME bad # {} PROVE FALSE
    OBVIOUS
  <2>1. PICK m \in bad : \A k \in 0 .. m - 1 : k \notin bad
    <3>1. bad \in SUBSET (0 .. N)
      OBVIOUS
    <3> HIDE DEF bad
    <3> QED
      BY <3>1, LeastNumber
  <2>2. PICK g : \A n \in 0 .. m - 1 : g[n] = G(g, n)
    <3>1. CASE m = 0
      BY <3>1
    <3>2. CASE m # 0
      <4>1. m - 1 \in 0 .. m - 1 /\ m - 1 \in 0 .. N
        BY <3>2
      <4> HIDE DEF G
      <4> QED
        BY <2>1, <4>1
    <3> QED
      BY <3>1, <3>2
  <2> DEFINE h == [n \in 0 .. m |-> IF n = m THEN G(g, n) ELSE g[n]]
  <2>3. ASSUME NEW n \in 0 .. m PROVE h[n] = G(h, n)
    <3>1. n = 0 \/ (n - 1 \in 0 .. m /\ n - 1 # m)
      BY <2>3
    <3>2. n # 0 => h[n - 1] = g[n - 1]
      BY <3>1
    <3>3. G(h, n) = G(g, n)
      <4> HIDE DEF h
      <4> QED
        BY <3>2
    <3>4. h[n] = G(g, n)
      <4> HIDE DEF G
      <4> QED
        BY <2>2
    <3> QED
      BY <3>3, <3>4
  <2> HIDE DEF h, G
  <2> QED
    BY <2>1, <2>3
<1>3. PICK g : \A n \in 0 .. N : g[n] = G(g, n)
  <2> HIDE DEF G
  <2> QED
    BY <1>2
<1> DEFINE h == [n \in 0 .. N |-> g[n]]
<1>4. Sol(h)
  <2>1. ASSUME NEW n \in 0 .. N PROVE h[n] = G(h, n)
    BY <1>3
  <2>2. h = [n \in 0 .. N |-> h[n]]
    OBVIOUS
  <2> HIDE DEF h, G
  <2> QED
    BY <2>1, <2>2
<1>5. Sol(iter)
  <2> HIDE DEF Sol
  <2> QED
    BY <1>4
<1>6. \A n \in 0 .. N : iter[n] = G(iter, n)
  <2> HIDE DEF iter, G
  <2> QED
    BY <1>5
<1> HIDE DEF iter
<1> QED
  BY <1>1, <1>6

Operands == [Row -> Value]
Runs == {r \in Seq(Operands) : r # <<>>}
Conjunctions == {<<>>} \cup {<<r>> : r \in Runs}

(* A run of operands has a truth value on every row.                       *)
LEMMA RunTruth ==
  ASSUME NEW r \in Seq(Operands), NEW row \in Row
  PROVE  /\ {r[i][row] : i \in DOMAIN r} \in SUBSET Value
         /\ Run(r, row) = AllOf({r[i][row] : i \in DOMAIN r}) /\ Run(r, row) \in Value
         /\ r # <<>> => Reads(<<r>>, row) = Run(r, row)
<1>1. {r[i][row] : i \in DOMAIN r} \in SUBSET Value
  BY DEF Operands
<1>2. Run(r, row) = AllOf({r[i][row] : i \in DOMAIN r}) /\ Run(r, row) \in Value
  BY <1>1, AllOfGrows DEF Run
<1>3. Reads(<<r>>, row) = AnyOf({Run(r, row)})
  <2>1. {Run(<<r>>[i], row) : i \in DOMAIN <<r>>} = {Run(r, row)} /\ <<r>> # <<>>
    OBVIOUS
  <2> QED
    BY <2>1 DEF Reads
<1> QED
  BY <1>1, <1>2, <1>3, AnyOfGrows

(* Joining two runs at the seam is AND of the two.                         *)
LEMMA RunsJoin ==
  ASSUME NEW r \in Seq(Operands), NEW s \in Seq(Operands), NEW row \in Row
  PROVE  Run(r \o s, row) = AllOf({Run(r, row), Run(s, row)})
<1>1. {(r \o s)[i][row] : i \in DOMAIN (r \o s)}
        = {r[i][row] : i \in DOMAIN r} \cup {s[i][row] : i \in DOMAIN s}
  <2>1. ASSUME NEW i \in DOMAIN s PROVE Len(r) + i \in DOMAIN (r \o s) /\ (r \o s)[Len(r) + i] = s[i]
    OBVIOUS
  <2>2. ASSUME NEW i \in DOMAIN r PROVE i \in DOMAIN (r \o s) /\ (r \o s)[i] = r[i]
    OBVIOUS
  <2>3. ASSUME NEW i \in DOMAIN (r \o s)
        PROVE  \/ i \in DOMAIN r /\ (r \o s)[i] = r[i]
               \/ i - Len(r) \in DOMAIN s /\ (r \o s)[i] = s[i - Len(r)]
    OBVIOUS
  <2> DEFINE both == {(r \o s)[i][row] : i \in DOMAIN (r \o s)}
             left == {r[i][row] : i \in DOMAIN r}
             right == {s[i][row] : i \in DOMAIN s}
  <2>4. ASSUME NEW v \in both PROVE v \in left \cup right
    <3>1. PICK i \in DOMAIN (r \o s) : v = (r \o s)[i][row]
      OBVIOUS
    <3> QED
      BY <2>3, <3>1
  <2>5. ASSUME NEW v \in left PROVE v \in both
    <3>1. PICK i \in DOMAIN r : v = r[i][row]
      OBVIOUS
    <3> QED
      BY <2>2, <3>1
  <2>6. ASSUME NEW v \in right PROVE v \in both
    <3>1. PICK i \in DOMAIN s : v = s[i][row]
      OBVIOUS
    <3> QED
      BY <2>1, <3>1
  <2> HIDE DEF both, left, right
  <2>7. both = left \cup right
    BY <2>4, <2>5, <2>6
  <2> QED
    BY <2>7 DEF both, left, right
<1> DEFINE A == {r[i][row] : i \in DOMAIN r}
           B == {s[i][row] : i \in DOMAIN s}
<1>2. A \in SUBSET Value /\ Run(r, row) = AllOf(A)
  BY RunTruth
<1>3. B \in SUBSET Value /\ Run(s, row) = AllOf(B)
  BY RunTruth
<1>4. Run(r \o s, row) = AllOf(A \cup B)
  BY <1>1 DEF Run
<1> HIDE DEF A, B
<1> QED
  BY <1>2, <1>3, <1>4, AllOfGrows

(* So has a text without OR at the top.                                    *)
LEMMA ConjunctionTruth ==
  ASSUME NEW t \in Conjunctions, NEW row \in Row
  PROVE  Reads(t, row) \in Value
<1>1. CASE t = <<>>
  BY <1>1 DEF Reads, Value
<1>2. CASE t # <<>>
  BY <1>2, RunTruth DEF Conjunctions, Runs
<1> QED
  BY <1>1, <1>2

(* Two such texts joined by AND are one again.                             *)
LEMMA SeamJoins ==
  ASSUME NEW word \in {"AND", "NOT"}, NEW r \in Runs, NEW s \in Runs
  PROVE  Join(word, <<r>>, <<s>>) = <<r \o s>> /\ r \o s \in Runs
<1>1. SubSeq(<<r>>, 1, 1 - 1) = <<>> /\ Tail(<<s>>) = <<>> /\ Head(<<s>>) = s /\ <<r>>[1] = r /\ Len(<<r>>) = 1
  OBVIOUS
<1>2. word # "OR"
  OBVIOUS
<1>3. Join(word, <<r>>, <<s>>) = JoinAnd(<<r>>, <<s>>)
  BY <1>2 DEF Join
<1>4. JoinAnd(<<r>>, <<s>>) = <<>> \o <<r \o s>> \o <<>>
  BY <1>1 DEF JoinAnd
<1>5. r \o s \in Seq(Operands) /\ Len(r \o s) > 0
  BY DEF Runs
<1>6. <<>> \o <<r \o s>> \o <<>> = <<r \o s>>
  <2> DEFINE t == r \o s
  <2> HIDE DEF t
  <2>1. <<>> \o <<t>> \o <<>> = <<t>>
    OBVIOUS
  <2> QED
    BY <2>1 DEF t
<1>7. r \o s # <<>>
  BY <1>5
<1> QED
  BY <1>3, <1>4, <1>5, <1>6, <1>7 DEF Runs

(* Texts without OR at the top, joined by AND: still one run, empty if all *)
(* are, and true where all are.                                            *)
LEMMA AndJoins ==
  ASSUME NEW word \in {"AND", "NOT"}, NEW texts, NEW N \in Nat, Len(texts) = N, \A n \in 1 .. N : texts[n] \in Conjunctions
  PROVE  /\ Joined(word, texts) \in Conjunctions
         /\ Joined(word, texts) = <<>> <=> \A n \in 1 .. N : texts[n] = <<>>
         /\ \A row \in Row : Reads(Joined(word, texts), row) = AllOf({Reads(texts[n], row) : n \in 1 .. N})
<1>1. PICK f :
        /\ Joined(word, texts) = f[N] /\ f[0] = <<>>
        /\ \A n \in 1 .. N : f[n] =
             IF f[n - 1] = <<>> THEN texts[n]
             ELSE IF texts[n] = <<>> THEN f[n - 1] ELSE Join(word, f[n - 1], texts[n])
  <2>1. \A w : \E f :
          /\ Joined(w, texts) = f[N] /\ f[0] = <<>>
          /\ \A n \in 1 .. N : f[n] =
               IF f[n - 1] = <<>> THEN texts[n]
               ELSE IF texts[n] = <<>> THEN f[n - 1] ELSE Join(w, f[n - 1], texts[n])
    <3> TAKE w
    <3> QED
      BY JoinedUnfolds
  <2> QED
    BY <2>1, Zenon
<1> DEFINE Said(m, row) == {Reads(texts[n], row) : n \in 1 .. m}
           P(m) == /\ f[m] \in Conjunctions
                   /\ f[m] = <<>> <=> \A n \in 1 .. m : texts[n] = <<>>
                   /\ \A row \in Row : Reads(f[m], row) = AllOf(Said(m, row))
           bad == {m \in 0 .. N : ~P(m)}
<1>2. \A t \in Conjunctions, row \in Row : Reads(t, row) \in Value
  BY ConjunctionTruth
<1>3. ASSUME NEW m \in 1 .. N, P(m - 1) PROVE P(m)
  <2>1. m - 1 \in 0 .. N /\ 1 .. m = (1 .. m - 1) \cup {m} /\ texts[m] \in Conjunctions
    OBVIOUS
  <2>2. ASSUME NEW row \in Row
        PROVE  /\ Said(m, row) = Said(m - 1, row) \cup {Reads(texts[m], row)}
               /\ Said(m - 1, row) \in SUBSET Value /\ Reads(texts[m], row) \in Value
               /\ AllOf(Said(m, row)) = AllOf({AllOf(Said(m - 1, row)), Reads(texts[m], row)})
    <3>1. Said(m, row) = Said(m - 1, row) \cup {Reads(texts[m], row)}
      BY <2>1
    <3>2. Said(m - 1, row) \in SUBSET Value /\ Reads(texts[m], row) \in Value
      BY <1>2, <2>1
    <3> DEFINE v == Reads(texts[m], row)
               S == Said(m - 1, row)
    <3> HIDE DEF Said, v, S
    <3>3. S \in SUBSET Value /\ v \in Value /\ {v} \in SUBSET Value
      BY <3>2 DEF v, S
    <3>4. AllOf(S \cup {v}) = AllOf({AllOf(S), AllOf({v})}) /\ AllOf({v}) = v
      BY <3>3, AllOfGrows
    <3> QED
      BY <3>1, <3>2, <3>4 DEF v, S
  <2>3. f[m] = IF f[m - 1] = <<>> THEN texts[m]
               ELSE IF texts[m] = <<>> THEN f[m - 1] ELSE Join(word, f[m - 1], texts[m])
    BY <1>1
  <2>4. CASE texts[m] = <<>>
    <3>1. f[m] = f[m - 1]
      BY <2>3, <2>4
    <3>2. \A row \in Row : Reads(texts[m], row) = "true"
      BY <2>4 DEF Reads
    <3>3. \A row \in Row : AllOf(Said(m, row)) = AllOf(Said(m - 1, row))
      <4> HIDE DEF Said
      <4> QED
        BY <2>2, <3>2 DEF AllOf, Value
    <3>4. f[m] = <<>> <=> \A n \in 1 .. m : texts[n] = <<>>
      BY <1>3, <2>1, <2>4, <3>1
    <3> HIDE DEF Said
    <3> QED
      BY <1>3, <3>1, <3>3, <3>4
  <2>5. CASE texts[m] # <<>> /\ f[m - 1] = <<>>
    <3>1. f[m] = texts[m]
      BY <2>3, <2>5
    <3>2. ASSUME NEW row \in Row PROVE AllOf(Said(m, row)) = Reads(texts[m], row)
      <4>1. AllOf(Said(m - 1, row)) = "true"
        BY <1>3, <2>5 DEF Reads
      <4> HIDE DEF Said
      <4> QED
        BY <2>2, <4>1 DEF AllOf, Value
    <3>3. f[m] = <<>> <=> \A n \in 1 .. m : texts[n] = <<>>
      BY <2>1, <2>5, <3>1
    <3> HIDE DEF Said
    <3> QED
      BY <2>1, <3>1, <3>2, <3>3
  <2>6. CASE texts[m] # <<>> /\ f[m - 1] # <<>>
    <3>1. PICK r \in Runs, s \in Runs : f[m - 1] = <<r>> /\ texts[m] = <<s>>
      BY <1>3, <2>1, <2>6 DEF Conjunctions
    <3>2. f[m] = <<r \o s>> /\ r \o s \in Runs
      BY ZenonT(40), <2>3, <2>6, <3>1, SeamJoins
    <3>3. ASSUME NEW row \in Row PROVE Reads(f[m], row) = AllOf(Said(m, row))
      <4>1. Reads(f[m], row) = Run(r \o s, row)
        BY <3>2, RunTruth DEF Runs
      <4>2. Run(r \o s, row) = AllOf({Run(r, row), Run(s, row)})
        BY RunsJoin DEF Runs
      <4>3. Run(r, row) = AllOf(Said(m - 1, row)) /\ Run(s, row) = Reads(texts[m], row)
        BY <1>3, <3>1, RunTruth DEF Runs
      <4> HIDE DEF Said
      <4> QED
        BY <2>2, <4>1, <4>2, <4>3
    <3>4. f[m] # <<>> /\ ~ \A n \in 1 .. m : texts[n] = <<>>
      BY <2>1, <2>6, <3>2
    <3>5. f[m] \in Conjunctions
      BY <3>2 DEF Conjunctions
    <3> HIDE DEF Said
    <3> QED
      BY <3>3, <3>4, <3>5
  <2> QED
    BY <2>4, <2>5, <2>6
<1>4. P(0)
  <2>1. 1 .. 0 = {} /\ \A row : Said(0, row) = {}
    OBVIOUS
  <2>2. AllOf({}) = "true"
    BY DEF AllOf
  <2> HIDE DEF Said
  <2> QED
    BY <1>1, <2>1, <2>2 DEF Conjunctions, Reads
<1> HIDE DEF P
<1>5. bad = {}
  <2> SUFFICES ASSUME bad # {} PROVE FALSE
    OBVIOUS
  <2>1. PICK m \in bad : \A k \in 0 .. m - 1 : k \notin bad
    <3>1. bad \in SUBSET (0 .. N)
      OBVIOUS
    <3> HIDE DEF bad
    <3> QED
      BY <3>1, LeastNumber
  <2>2. m \in 1 .. N
    BY <1>4, <2>1
  <2>3. m - 1 \in 0 .. m - 1 /\ m - 1 \in 0 .. N
    BY <2>2
  <2>4. P(m - 1)
    BY <2>1, <2>3
  <2> QED
    BY <1>3, <2>1, <2>2, <2>4
<1>6. P(N)
  BY <1>5
<1> QED
  BY <1>1, <1>6 DEF P

(* The same of a sequence of texts.                                        *)
LEMMA AndOfTexts ==
  ASSUME NEW word \in {"AND", "NOT"}, NEW texts \in Seq(Conjunctions)
  PROVE  /\ Joined(word, texts) \in Conjunctions
         /\ Joined(word, texts) = <<>> <=> \A n \in DOMAIN texts : texts[n] = <<>>
         /\ \A row \in Row : Reads(Joined(word, texts), row) = AllOf({Reads(texts[n], row) : n \in DOMAIN texts})
<1> DEFINE N == Len(texts)
<1>1. N \in Nat /\ DOMAIN texts = 1 .. N /\ \A n \in 1 .. N : texts[n] \in Conjunctions
  OBVIOUS
<1>n. Len(texts) = N
  OBVIOUS
<1> HIDE DEF N
<1>2. /\ Joined(word, texts) \in Conjunctions
      /\ Joined(word, texts) = <<>> <=> \A n \in 1 .. N : texts[n] = <<>>
      /\ \A row \in Row : Reads(Joined(word, texts), row) = AllOf({Reads(texts[n], row) : n \in 1 .. N})
  BY <1>1, <1>n, AndJoins
<1> QED
  BY <1>1, <1>2

(* A text with OR is true where one of its runs is.                        *)
LEMMA TextTruth ==
  ASSUME NEW t \in Seq(Runs), t # <<>>, NEW row \in Row
  PROVE  /\ {Run(t[i], row) : i \in DOMAIN t} \in SUBSET Value
         /\ Reads(t, row) = AnyOf({Run(t[i], row) : i \in DOMAIN t}) /\ Reads(t, row) \in Value
<1>1. \A i \in DOMAIN t : t[i] \in Seq(Operands)
  BY DEF Runs
<1>2. {Run(t[i], row) : i \in DOMAIN t} \in SUBSET Value
  BY <1>1, RunTruth
<1> QED
  BY <1>2, AnyOfGrows DEF Reads

(* One more alternative.                                                   *)
LEMMA AlternativeAdds ==
  ASSUME NEW t \in Seq(Runs), t # <<>>, NEW s \in Runs, NEW row \in Row
  PROVE  /\ t \o <<s>> \in Seq(Runs) /\ t \o <<s>> # <<>>
         /\ Reads(t \o <<s>>, row) = AnyOf({Reads(t, row), Reads(<<s>>, row)})
<1> DEFINE all == t \o <<s>>
           A == {Run(t[i], row) : i \in DOMAIN t}
           v == Run(s, row)
<1>1. all \in Seq(Runs) /\ Len(all) = Len(t) + 1
  OBVIOUS
<1>2. all # <<>>
  BY <1>1
<1>3. \A i \in DOMAIN t : i \in DOMAIN all /\ all[i] = t[i]
  OBVIOUS
<1>4. Len(t) + 1 \in DOMAIN all /\ all[Len(t) + 1] = s
  OBVIOUS
<1>5. \A i \in DOMAIN all : i \in DOMAIN t \/ i = Len(t) + 1
  OBVIOUS
<1>6. {Run(all[i], row) : i \in DOMAIN all} = A \cup {v}
  <2> HIDE DEF all
  <2> QED
    BY <1>3, <1>4, <1>5
<1>7. Reads(t, row) = AnyOf(A) /\ A \in SUBSET Value
  BY TextTruth
<1>8. Reads(<<s>>, row) = v /\ v \in Value
  BY RunTruth DEF Runs
<1>9. Reads(all, row) = AnyOf(A \cup {v})
  BY <1>2, <1>6 DEF Reads
<1> HIDE DEF all, A, v
<1>10. {v} \in SUBSET Value /\ AnyOf({v}) = v
  BY <1>8, AnyOfGrows
<1>11. AnyOf(A \cup {v}) = AnyOf({AnyOf(A), AnyOf({v})})
  BY <1>7, <1>10, AnyOfGrows
<1> QED
  BY <1>1, <1>2, <1>7, <1>8, <1>9, <1>10, <1>11 DEF all

(* Texts joined by OR are true where one of them is that is not empty.     *)
LEMMA OrJoins ==
  ASSUME NEW texts, NEW N \in Nat, Len(texts) = N, \A n \in 1 .. N : texts[n] \in Conjunctions
  PROVE  /\ Joined("OR", texts) \in Seq(Runs)
         /\ Joined("OR", texts) = <<>> <=> \A n \in 1 .. N : texts[n] = <<>>
         /\ Joined("OR", texts) # <<>> => \A row \in Row :
              Reads(Joined("OR", texts), row) = AnyOf({Reads(texts[n], row) : n \in {k \in 1 .. N : texts[k] # <<>>}})
<1>1. PICK f :
        /\ Joined("OR", texts) = f[N] /\ f[0] = <<>>
        /\ \A n \in 1 .. N : f[n] =
             IF f[n - 1] = <<>> THEN texts[n]
             ELSE IF texts[n] = <<>> THEN f[n - 1] ELSE Join("OR", f[n - 1], texts[n])
  <2>1. \A word : \E f :
          /\ Joined(word, texts) = f[N] /\ f[0] = <<>>
          /\ \A n \in 1 .. N : f[n] =
               IF f[n - 1] = <<>> THEN texts[n]
               ELSE IF texts[n] = <<>> THEN f[n - 1] ELSE Join(word, f[n - 1], texts[n])
    <3> TAKE word
    <3> QED
      BY JoinedUnfolds
  <2> QED
    BY <2>1, Zenon
<1> DEFINE Said(m, row) == {Reads(texts[n], row) : n \in {k \in 1 .. m : texts[k] # <<>>}}
           P(m) == /\ f[m] \in Seq(Runs)
                   /\ f[m] = <<>> <=> \A n \in 1 .. m : texts[n] = <<>>
                   /\ f[m] # <<>> => \A row \in Row : Reads(f[m], row) = AnyOf(Said(m, row))
           bad == {m \in 0 .. N : ~P(m)}
<1>2. \A t \in Conjunctions, row \in Row : Reads(t, row) \in Value
  BY ConjunctionTruth
<1>3. ASSUME NEW m \in 1 .. N, P(m - 1) PROVE P(m)
  <2>1. m - 1 \in 0 .. N /\ 1 .. m = (1 .. m - 1) \cup {m} /\ texts[m] \in Conjunctions
    OBVIOUS
  <2>2. f[m] = IF f[m - 1] = <<>> THEN texts[m]
               ELSE IF texts[m] = <<>> THEN f[m - 1] ELSE Join("OR", f[m - 1], texts[m])
    BY <1>1
  <2>3. CASE texts[m] = <<>>
    <3>1. f[m] = f[m - 1]
      BY <2>2, <2>3
    <3>2. {k \in 1 .. m : texts[k] # <<>>} = {k \in 1 .. m - 1 : texts[k] # <<>>}
      BY <2>1, <2>3
    <3>3. \A row : Said(m, row) = Said(m - 1, row)
      BY <3>2
    <3>4. f[m] = <<>> <=> \A n \in 1 .. m : texts[n] = <<>>
      BY <1>3, <2>1, <2>3, <3>1
    <3> HIDE DEF Said
    <3> QED
      BY <1>3, <3>1, <3>3, <3>4
  <2>4. CASE texts[m] # <<>>
    <3>1. PICK s \in Runs : texts[m] = <<s>>
      BY <2>1, <2>4 DEF Conjunctions
    <3>2. {k \in 1 .. m : texts[k] # <<>>} = {k \in 1 .. m - 1 : texts[k] # <<>>} \cup {m}
      BY <2>1, <2>4
    <3>3. \A row : Said(m, row) = Said(m - 1, row) \cup {Reads(<<s>>, row)}
      BY <3>1, <3>2
    <3>4. ~ \A n \in 1 .. m : texts[n] = <<>>
      BY <2>4
    <3>5. \A row \in Row : Said(m - 1, row) \in SUBSET Value
      BY <1>2, <2>1
    <3>6. \A row \in Row : Reads(<<s>>, row) \in Value
      BY RunTruth DEF Runs
    <3>7. CASE f[m - 1] = <<>>
      <4>1. f[m] = <<s>> /\ <<s>> \in Seq(Runs) /\ <<s>> # <<>>
        BY <2>2, <3>1, <3>7
      <4>2. \A row : Said(m - 1, row) = {}
        BY <1>3, <3>7
      <4>3. ASSUME NEW row \in Row PROVE Reads(f[m], row) = AnyOf(Said(m, row))
        <5>1. Said(m, row) = {Reads(<<s>>, row)}
          <6> HIDE DEF Said
          <6> QED
            BY <3>3, <4>2
        <5> HIDE DEF Said
        <5> QED
          BY <3>6, <4>1, <5>1, AnyOfGrows
      <4> HIDE DEF Said
      <4> QED
        BY <3>4, <4>1, <4>3
    <3>8. CASE f[m - 1] # <<>>
      <4>1. Join("OR", f[m - 1], texts[m]) = f[m - 1] \o <<s>>
        BY <3>1 DEF Join
      <4>2. f[m] = f[m - 1] \o <<s>>
        BY <2>2, <2>4, <3>8, <4>1
      <4>3. f[m - 1] \in Seq(Runs) /\ f[m - 1] # <<>>
        BY <1>3, <3>8
      <4>4. f[m] \in Seq(Runs) /\ f[m] # <<>>
        <5> DEFINE t == f[m - 1]
        <5> HIDE DEF t
        <5>1. t \in Seq(Runs) /\ t # <<>> /\ f[m] = t \o <<s>>
          BY <4>2, <4>3 DEF t
        <5> QED
          BY <5>1
      <4>5. ASSUME NEW row \in Row PROVE Reads(f[m], row) = AnyOf(Said(m, row))
        <5>1. Reads(f[m], row) = AnyOf({Reads(f[m - 1], row), Reads(<<s>>, row)})
          BY <4>2, <4>3, AlternativeAdds
        <5>2. Reads(f[m - 1], row) = AnyOf(Said(m - 1, row))
          BY <1>3, <3>8
        <5> DEFINE S == Said(m - 1, row)
                   v == Reads(<<s>>, row)
        <5>3. S \in SUBSET Value /\ {v} \in SUBSET Value /\ v \in Value
          BY <3>5, <3>6
        <5> HIDE DEF S, v, Said
        <5>4. AnyOf(S \cup {v}) = AnyOf({AnyOf(S), AnyOf({v})}) /\ AnyOf({v}) = v
          BY <5>3, AnyOfGrows
        <5> QED
          BY <3>3, <5>1, <5>2, <5>4 DEF S, v
      <4> HIDE DEF Said
      <4> QED
        BY <3>4, <4>4, <4>5
    <3> QED
      BY <3>7, <3>8
  <2> QED
    BY <2>3, <2>4
<1>4. P(0)
  <2> HIDE DEF Said
  <2> QED
    BY <1>1
<1> HIDE DEF P
<1>5. bad = {}
  <2> SUFFICES ASSUME bad # {} PROVE FALSE
    OBVIOUS
  <2>1. PICK m \in bad : \A k \in 0 .. m - 1 : k \notin bad
    <3>1. bad \in SUBSET (0 .. N)
      OBVIOUS
    <3> HIDE DEF bad
    <3> QED
      BY <3>1, LeastNumber
  <2>2. m \in 1 .. N
    BY <1>4, <2>1
  <2>3. m - 1 \in 0 .. m - 1 /\ m - 1 \in 0 .. N
    BY <2>2
  <2>4. P(m - 1)
    BY <2>1, <2>3
  <2> QED
    BY <1>3, <2>1, <2>2, <2>4
<1>6. P(N)
  BY <1>5
<1> QED
  BY <1>1, <1>6 DEF P

(* What an entry is, by its kind.                                          *)
LEMMA EntryShape ==
  ASSUME NEW n \in Nat, NEW e \in Entry(n)
  PROVE  \/ e.kind = "column" /\ e \in Column
         \/ e.kind = "branch" /\ e.key \in {"OR", "AND", "NOT"} /\ e.items \in Seq(1 .. n)
         \/ e.kind = "relation" /\ e.some \in BOOLEAN /\ e.inner \in 1 .. n
<1>1. CASE e \in Column
  BY <1>1 DEF Column
<1>2. CASE e \notin Column
  BY <1>2 DEF Entry
<1> QED
  BY <1>1, <1>2

(* An entry is compiled from the objects before its own only.              *)
LEMMA CompileReadsBack ==
  ASSUME NEW n \in Nat, NEW e \in Entry(n), NEW f, NEW g, \A p \in 1 .. n : f[p] = g[p]
  PROVE  CompileEntry(e, f) = CompileEntry(e, g) /\ Spoken(e, f) = Spoken(e, g)
<1>1. CASE e.kind = "column"
  BY <1>1 DEF CompileEntry, Spoken
<1>2. CASE e.kind = "relation" /\ e.inner \in 1 .. n
  BY <1>2 DEF CompileEntry, Spoken
<1>3. CASE e.kind = "branch" /\ e.items \in Seq(1 .. n)
  <2>1. \A i \in DOMAIN e.items : f[e.items[i]] = g[e.items[i]]
    BY <1>3
  <2>2. [i \in DOMAIN e.items |-> f[e.items[i]]] = [i \in DOMAIN e.items |-> g[e.items[i]]]
    BY <2>1
  <2>3. CompileEntry(e, f) = CompileEntry(e, g)
    BY <1>3, <2>2 DEF CompileEntry
  <2>4. Spoken(e, f) = Spoken(e, g)
    BY <1>3, <2>1 DEF Spoken
  <2> QED
    BY <2>3, <2>4
<1> QED
  BY <1>1, <1>2, <1>3, EntryShape

(* Compiling has a solution, object by object.                             *)
LEMMA CompileUnfolds ==
  ASSUME WhereTypeOK
  PROVE  \A o \in DOMAIN objects : Compile[o] = Joined("AND", [i \in DOMAIN objects[o] |-> CompileEntry(objects[o][i], Compile)])
<1> DEFINE N == Len(objects)
           G(f, o) == Joined("AND", [i \in DOMAIN objects[o] |-> CompileEntry(objects[o][i], f)])
           Sol(f) == f = [o \in DOMAIN objects |-> G(f, o)]
           bad == {m \in 0 .. N : ~ \E f : \A o \in 1 .. m : f[o] = G(f, o)}
<1>1. N \in Nat /\ DOMAIN objects = 1 .. N /\ \A o \in 1 .. N : objects[o] \in Seq(Entry(o - 1))
  BY DEF WhereTypeOK
<1>2. ASSUME NEW o \in 1 .. N, NEW f, NEW g, \A p \in 1 .. o - 1 : f[p] = g[p]
      PROVE  G(f, o) = G(g, o)
  <2>1. o - 1 \in Nat /\ \A i \in DOMAIN objects[o] : objects[o][i] \in Entry(o - 1)
    BY <1>1
  <2>2. \A i \in DOMAIN objects[o] : CompileEntry(objects[o][i], f) = CompileEntry(objects[o][i], g)
    BY <1>2, <2>1, CompileReadsBack
  <2>3. [i \in DOMAIN objects[o] |-> CompileEntry(objects[o][i], f)] = [i \in DOMAIN objects[o] |-> CompileEntry(objects[o][i], g)]
    BY <2>2
  <2> QED
    BY <2>3
<1> HIDE DEF G, N
<1>3. bad = {}
  <2> SUFFICES ASSUME bad # {} PROVE FALSE
    OBVIOUS
  <2>1. PICK m \in bad : \A k \in 0 .. m - 1 : k \notin bad
    <3>1. bad \in SUBSET (0 .. N)
      OBVIOUS
    <3> HIDE DEF bad
    <3> QED
      BY <1>1, <3>1, LeastNumber
  <2>2. m \in 1 .. N
    BY <1>1, <2>1
  <2>3. m - 1 \in 0 .. m - 1 /\ m - 1 \in 0 .. N
    BY <1>1, <2>2
  <2>4. PICK g : \A o \in 1 .. m - 1 : g[o] = G(g, o)
    BY <2>1, <2>3
  <2> DEFINE h == [o \in 1 .. m |-> IF o = m THEN G(g, o) ELSE g[o]]
  <2>5. ASSUME NEW o \in 1 .. m PROVE h[o] = G(h, o)
    <3>1. o \in 1 .. N /\ \A p \in 1 .. o - 1 : h[p] = g[p]
      BY <1>1, <2>2
    <3>2. G(h, o) = G(g, o)
      <4> HIDE DEF h
      <4> QED
        BY <1>2, <3>1
    <3>3. h[o] = G(g, o)
      BY <2>2, <2>4, <1>1
    <3> QED
      BY <3>2, <3>3
  <2> HIDE DEF h
  <2> QED
    BY <2>1, <2>5
<1>4. PICK g : \A o \in 1 .. N : g[o] = G(g, o)
  <2>1. N \in 0 .. N
    BY <1>1
  <2>2. N \notin bad
    <3> HIDE DEF bad
    <3> QED
      BY <1>3
  <2> QED
    BY <2>1, <2>2
<1> DEFINE h == [o \in DOMAIN objects |-> g[o]]
<1>5. Sol(h)
  <2>1. ASSUME NEW o \in 1 .. N PROVE h[o] = G(h, o)
    <3>1. \A p \in 1 .. o - 1 : h[p] = g[p]
      BY <1>1
    <3>2. h[o] = g[o]
      BY <1>1
    <3> HIDE DEF h
    <3> QED
      BY <1>2, <1>4, <3>1, <3>2
  <2>2. h = [o \in DOMAIN objects |-> h[o]]
    OBVIOUS
  <2> HIDE DEF h
  <2> QED
    BY <1>1, <2>1, <2>2
<1>6. Compile = CHOOSE f : Sol(f)
  BY DEF Compile, G
<1>7. Sol(Compile)
  <2> HIDE DEF Sol
  <2> QED
    BY <1>5, <1>6
<1>8. \A o \in DOMAIN objects : Compile[o] = G(Compile, o)
  BY <1>7
<1> QED
  BY <1>8 DEF G

(* So has what an object says at all.                                      *)
LEMMA SaysUnfolds ==
  ASSUME WhereTypeOK
  PROVE  \A o \in DOMAIN objects : Says[o] = \E i \in DOMAIN objects[o] : Spoken(objects[o][i], Says)
<1> DEFINE N == Len(objects)
           G(f, o) == \E i \in DOMAIN objects[o] : Spoken(objects[o][i], f)
           Sol(f) == f = [o \in DOMAIN objects |-> G(f, o)]
           bad == {m \in 0 .. N : ~ \E f : \A o \in 1 .. m : f[o] = G(f, o)}
<1>1. N \in Nat /\ DOMAIN objects = 1 .. N /\ \A o \in 1 .. N : objects[o] \in Seq(Entry(o - 1))
  BY DEF WhereTypeOK
<1>2. ASSUME NEW o \in 1 .. N, NEW f, NEW g, \A p \in 1 .. o - 1 : f[p] = g[p]
      PROVE  G(f, o) = G(g, o)
  <2>1. o - 1 \in Nat /\ \A i \in DOMAIN objects[o] : objects[o][i] \in Entry(o - 1)
    BY <1>1
  <2>2. \A i \in DOMAIN objects[o] : Spoken(objects[o][i], f) = Spoken(objects[o][i], g)
    BY <1>2, <2>1, CompileReadsBack
  <2> QED
    BY <2>2
<1> HIDE DEF G, N
<1>3. bad = {}
  <2> SUFFICES ASSUME bad # {} PROVE FALSE
    OBVIOUS
  <2>1. PICK m \in bad : \A k \in 0 .. m - 1 : k \notin bad
    <3>1. bad \in SUBSET (0 .. N)
      OBVIOUS
    <3> HIDE DEF bad
    <3> QED
      BY <1>1, <3>1, LeastNumber
  <2>2. m \in 1 .. N
    BY <1>1, <2>1
  <2>3. m - 1 \in 0 .. m - 1 /\ m - 1 \in 0 .. N
    BY <1>1, <2>2
  <2>4. PICK g : \A o \in 1 .. m - 1 : g[o] = G(g, o)
    BY <2>1, <2>3
  <2> DEFINE h == [o \in 1 .. m |-> IF o = m THEN G(g, o) ELSE g[o]]
  <2>5. ASSUME NEW o \in 1 .. m PROVE h[o] = G(h, o)
    <3>1. o \in 1 .. N /\ \A p \in 1 .. o - 1 : h[p] = g[p]
      BY <1>1, <2>2
    <3>2. G(h, o) = G(g, o)
      <4> HIDE DEF h
      <4> QED
        BY <1>2, <3>1
    <3>3. h[o] = G(g, o)
      BY <2>2, <2>4, <1>1
    <3> QED
      BY <3>2, <3>3
  <2> HIDE DEF h
  <2> QED
    BY <2>1, <2>5
<1>4. PICK g : \A o \in 1 .. N : g[o] = G(g, o)
  <2>1. N \in 0 .. N
    BY <1>1
  <2>2. N \notin bad
    <3> HIDE DEF bad
    <3> QED
      BY <1>3
  <2> QED
    BY <2>1, <2>2
<1> DEFINE h == [o \in DOMAIN objects |-> g[o]]
<1>5. Sol(h)
  <2>1. ASSUME NEW o \in 1 .. N PROVE h[o] = G(h, o)
    <3>1. \A p \in 1 .. o - 1 : h[p] = g[p]
      BY <1>1
    <3>2. h[o] = g[o]
      BY <1>1
    <3> HIDE DEF h
    <3> QED
      BY <1>2, <1>4, <3>1, <3>2
  <2>2. h = [o \in DOMAIN objects |-> h[o]]
    OBVIOUS
  <2> HIDE DEF h
  <2> QED
    BY <1>1, <2>1, <2>2
<1>6. Says = CHOOSE f : Sol(f)
  BY DEF Says, G
<1>7. Sol(Says)
  <2> HIDE DEF Sol
  <2> QED
    BY <1>5, <1>6
<1>8. \A o \in DOMAIN objects : Says[o] = G(Says, o)
  BY <1>7
<1> QED
  BY <1>8 DEF G

(* An entry means what it does by the objects before its own only.         *)
LEMMA MeansReadsBack ==
  ASSUME NEW n \in Nat, NEW e \in Entry(n), NEW f, NEW g, \A p \in 1 .. n : f[p] = g[p], NEW row
  PROVE  EntryMeans(e, row, f) = EntryMeans(e, row, g)
<1>1. CASE e.kind = "column"
  BY <1>1 DEF EntryMeans
<1>2. CASE e.kind = "relation" /\ e.inner \in 1 .. n
  BY <1>2 DEF EntryMeans
<1>3. CASE e.kind = "branch" /\ e.items \in Seq(1 .. n)
  <2>1. \A i \in DOMAIN e.items : f[e.items[i]] = g[e.items[i]]
    BY <1>3
  <2>2. {f[e.items[i]][row] : i \in {j \in DOMAIN e.items : Says[e.items[j]]}}
          = {g[e.items[i]][row] : i \in {j \in DOMAIN e.items : Says[e.items[j]]}}
    BY <2>1
  <2> QED
    BY <1>3, <2>2 DEF EntryMeans
<1> QED
  BY <1>1, <1>2, <1>3, EntryShape

(* Meaning has a solution, object by object.                               *)
LEMMA MeansUnfolds ==
  ASSUME WhereTypeOK
  PROVE  \A o \in DOMAIN objects : Means[o] =
           [row \in Row |-> AllOf({EntryMeans(objects[o][i], row, Means) : i \in DOMAIN objects[o]})]
<1> DEFINE N == Len(objects)
           G(f, o) == [row \in Row |-> AllOf({EntryMeans(objects[o][i], row, f) : i \in DOMAIN objects[o]})]
           Sol(f) == f = [o \in DOMAIN objects |-> G(f, o)]
           bad == {m \in 0 .. N : ~ \E f : \A o \in 1 .. m : f[o] = G(f, o)}
<1>1. N \in Nat /\ DOMAIN objects = 1 .. N /\ \A o \in 1 .. N : objects[o] \in Seq(Entry(o - 1))
  BY DEF WhereTypeOK
<1>2. ASSUME NEW o \in 1 .. N, NEW f, NEW g, \A p \in 1 .. o - 1 : f[p] = g[p]
      PROVE  G(f, o) = G(g, o)
  <2>1. o - 1 \in Nat /\ \A i \in DOMAIN objects[o] : objects[o][i] \in Entry(o - 1)
    BY <1>1
  <2>2. ASSUME NEW row \in Row, NEW i \in DOMAIN objects[o]
        PROVE  EntryMeans(objects[o][i], row, f) = EntryMeans(objects[o][i], row, g)
    BY SMTT(20), <1>2, <2>1, MeansReadsBack
  <2>3. \A row \in Row : {EntryMeans(objects[o][i], row, f) : i \in DOMAIN objects[o]}
                          = {EntryMeans(objects[o][i], row, g) : i \in DOMAIN objects[o]}
    BY <2>2
  <2>4. \A row \in Row : AllOf({EntryMeans(objects[o][i], row, f) : i \in DOMAIN objects[o]})
                          = AllOf({EntryMeans(objects[o][i], row, g) : i \in DOMAIN objects[o]})
    BY <2>3
  <2> QED
    BY <2>4
<1> HIDE DEF G, N
<1>3. bad = {}
  <2> SUFFICES ASSUME bad # {} PROVE FALSE
    OBVIOUS
  <2>1. PICK m \in bad : \A k \in 0 .. m - 1 : k \notin bad
    <3>1. bad \in SUBSET (0 .. N)
      OBVIOUS
    <3> HIDE DEF bad
    <3> QED
      BY <1>1, <3>1, LeastNumber
  <2>2. m \in 1 .. N
    BY <1>1, <2>1
  <2>3. m - 1 \in 0 .. m - 1 /\ m - 1 \in 0 .. N
    BY <1>1, <2>2
  <2>4. PICK g : \A o \in 1 .. m - 1 : g[o] = G(g, o)
    BY <2>1, <2>3
  <2> DEFINE h == [o \in 1 .. m |-> IF o = m THEN G(g, o) ELSE g[o]]
  <2>5. ASSUME NEW o \in 1 .. m PROVE h[o] = G(h, o)
    <3>1. o \in 1 .. N /\ \A p \in 1 .. o - 1 : h[p] = g[p]
      BY <1>1, <2>2
    <3>2. G(h, o) = G(g, o)
      <4> HIDE DEF h
      <4> QED
        BY <1>2, <3>1
    <3>3. h[o] = G(g, o)
      BY <2>2, <2>4, <1>1
    <3> QED
      BY <3>2, <3>3
  <2> HIDE DEF h
  <2> QED
    BY <2>1, <2>5
<1>4. PICK g : \A o \in 1 .. N : g[o] = G(g, o)
  <2>1. N \in 0 .. N
    BY <1>1
  <2>2. N \notin bad
    <3> HIDE DEF bad
    <3> QED
      BY <1>3
  <2> QED
    BY <2>1, <2>2
<1> DEFINE h == [o \in DOMAIN objects |-> g[o]]
<1>5. Sol(h)
  <2>1. ASSUME NEW o \in 1 .. N PROVE h[o] = G(h, o)
    <3>1. \A p \in 1 .. o - 1 : h[p] = g[p]
      BY <1>1
    <3>2. h[o] = g[o]
      BY <1>1
    <3> HIDE DEF h
    <3> QED
      BY <1>2, <1>4, <3>1, <3>2
  <2>2. h = [o \in DOMAIN objects |-> h[o]]
    OBVIOUS
  <2> HIDE DEF h
  <2> QED
    BY <1>1, <2>1, <2>2
<1>6. Means = CHOOSE f : Sol(f)
  BY DEF Means, G
<1>7. Sol(Means)
  <2> HIDE DEF Sol
  <2> QED
    BY <1>5, <1>6
<1>8. \A o \in DOMAIN objects : Means[o] = G(Means, o)
  BY <1>7
<1> QED
  BY <1>8 DEF G

(* Related rows are rows.                                                  *)
LEMMA LeafIsRow == Leaf \subseteq Row /\ \A row \in Row : row.related \subseteq Leaf
<1>1. {} \in SUBSET Leaf /\ Cardinality({}) <= MaxRelated
  BY FS_EmptySet, WhereAssumption
<1>2. ASSUME NEW r \in Leaf PROVE r \in Row
  <2>1. r = [r EXCEPT !.related = {}]
    BY DEF Leaf
  <2> QED
    BY <1>1, <2>1 DEF Row
<1>3. ASSUME NEW row \in Row PROVE row.related \subseteq Leaf
  <2>1. PICK r \in Leaf, kids \in SUBSET Leaf : row = [r EXCEPT !.related = kids]
    BY DEF Row
  <2>2. row.related = kids
    BY <2>1 DEF Leaf
  <2> QED
    BY <2>2
<1> QED
  BY <1>2, <1>3

(* A comparison is true where its entry is, nulls and empty lists included *)
(* (sql.js:82-149).                                                        *)
LEMMA ColumnAgrees ==
  ASSUME NEW e \in Column, NEW row
  PROVE  Compared(row, CompileCondition(e)) = ColumnMeans(e, row.value) /\ ColumnMeans(e, row.value) \in Value
<1>1. e.op \in {"is", "not", "in", "notIn", "gte", "contains"}
  BY DEF Column
<1>2. CASE e.op = "is"
  BY <1>2 DEF Compared, CompileCondition, ColumnMeans, Truth, Value
<1>3. CASE e.op = "not"
  BY <1>3 DEF Compared, CompileCondition, ColumnMeans, Truth, Value
<1>4. CASE e.op = "in"
  BY <1>4 DEF Compared, CompileCondition, ColumnMeans, Truth, Value
<1>5. CASE e.op = "notIn"
  BY <1>5 DEF Compared, CompileCondition, ColumnMeans, Truth, Value
<1>6. CASE e.op = "gte"
  BY <1>6 DEF Compared, CompileCondition, ColumnMeans, Truth, Value
<1>7. CASE e.op = "contains"
  BY <1>7 DEF Compared, CompileCondition, ColumnMeans, Truth, Value
<1> QED
  BY <1>1, <1>2, <1>3, <1>4, <1>5, <1>6, <1>7

(* One operand is a text of its own.                                       *)
LEMMA OperandReads ==
  ASSUME NEW x \in Operands
  PROVE  Operand(x) \in Conjunctions /\ Operand(x) # <<>> /\ \A row \in Row : Reads(Operand(x), row) = x[row]
<1>1. <<x>> \in Runs /\ Operand(x) = <<<<x>>>> /\ <<<<x>>>> # <<>>
  BY DEF Operand, Runs
<1>2. ASSUME NEW row \in Row PROVE Reads(<<<<x>>>>, row) = x[row]
  <2>1. {<<x>>[i][row] : i \in DOMAIN <<x>>} = {x[row]} /\ x[row] \in Value
    BY DEF Operands
  <2>2. Reads(<<<<x>>>>, row) = AllOf({<<x>>[i][row] : i \in DOMAIN <<x>>})
    BY <1>1, RunTruth DEF Runs
  <2> QED
    BY <2>1, <2>2, AllOfGrows
<1> QED
  BY <1>1, <1>2 DEF Conjunctions

(* A relation is true where a related row satisfies the condition, which   *)
(* the correlation stands beside without parentheses (sql.js:55-72).       *)
LEMMA ExistsReads ==
  ASSUME NEW some \in BOOLEAN, NEW text \in Conjunctions
  PROVE  /\ Exists(some, text) \in Conjunctions /\ Exists(some, text) # <<>>
         /\ \A row \in Row : Reads(Exists(some, text), row) = Truth((\E k \in row.related : Reads(text, k) = "true") = some)
<1> DEFINE tied(row) == [l \in Row |-> Truth(l \in row.related)]
           texts(row) == <<Operand(tied(row)), text>>
           matches(row) == {k \in Leaf : Reads(Joined("AND", texts(row)), k) = "true"}
           x == [row \in Row |-> Truth((matches(row) # {}) = some)]
<1>1. Exists(some, text) = Operand(x)
  BY DEF Exists
<1>2. ASSUME NEW row \in Row, NEW k \in Leaf
      PROVE  Reads(Joined("AND", texts(row)), k) = "true" <=> k \in row.related /\ Reads(text, k) = "true"
  <2>1. tied(row) \in Operands /\ k \in Row
    BY LeafIsRow DEF Operands, Truth, Value
  <2> DEFINE a == Operand(tied(row))
  <2>2. a \in Conjunctions /\ Reads(a, k) = tied(row)[k]
    BY <2>1, OperandReads
  <2>3. tied(row)[k] = Truth(k \in row.related)
    BY <2>1
  <2> HIDE DEF a
  <2>4. Reads(Joined("AND", <<a, text>>), k) = AllOf({Reads(a, k), Reads(text, k)})
    <3> DEFINE pair == <<a, text>>
    <3>1. pair \in Seq(Conjunctions) /\ DOMAIN pair = {1, 2} /\ pair[1] = a /\ pair[2] = text
      BY <2>2
    <3>2. {Reads(pair[n], k) : n \in DOMAIN pair} = {Reads(a, k), Reads(text, k)}
      BY <3>1
    <3> HIDE DEF pair
    <3>3. Reads(Joined("AND", pair), k) = AllOf({Reads(pair[n], k) : n \in DOMAIN pair})
      BY <2>1, <3>1, AndOfTexts
    <3> QED
      BY <3>2, <3>3 DEF pair
  <2>5. Reads(text, k) \in Value
    BY <2>1, ConjunctionTruth
  <2> HIDE DEF tied
  <2> QED
    BY <2>2, <2>3, <2>4, <2>5 DEF a, AllOf, Truth, Value
<1>3. \A row \in Row : matches(row) # {} <=> \E k \in row.related : Reads(text, k) = "true"
  <2> HIDE DEF texts
  <2> QED
    BY <1>2, LeafIsRow
<1>4. x \in Operands
  <2> HIDE DEF matches
  <2> QED
    BY DEF Operands, Truth, Value
<1>5. \A row \in Row : x[row] = Truth((\E k \in row.related : Reads(text, k) = "true") = some)
  <2> HIDE DEF matches
  <2> QED
    BY <1>3
<1> HIDE DEF x
<1> QED
  BY <1>1, <1>4, <1>5, OperandReads

(* The same of a sequence of texts.                                        *)
LEMMA OrOfTexts ==
  ASSUME NEW texts \in Seq(Conjunctions)
  PROVE  /\ Joined("OR", texts) \in Seq(Runs)
         /\ Joined("OR", texts) = <<>> <=> \A n \in DOMAIN texts : texts[n] = <<>>
         /\ Joined("OR", texts) # <<>> => \A row \in Row :
              Reads(Joined("OR", texts), row) = AnyOf({Reads(texts[n], row) : n \in {k \in DOMAIN texts : texts[k] # <<>>}})
<1> DEFINE N == Len(texts)
<1>1. N \in Nat /\ DOMAIN texts = 1 .. N /\ \A n \in 1 .. N : texts[n] \in Conjunctions
  OBVIOUS
<1>2. Len(texts) = N
  OBVIOUS
<1> HIDE DEF N
<1>3. /\ Joined("OR", texts) \in Seq(Runs)
      /\ Joined("OR", texts) = <<>> <=> \A n \in 1 .. N : texts[n] = <<>>
      /\ Joined("OR", texts) # <<>> => \A row \in Row :
           Reads(Joined("OR", texts), row) = AnyOf({Reads(texts[n], row) : n \in {k \in 1 .. N : texts[k] # <<>>}})
  BY <1>1, <1>2, OrJoins
<1> QED
  BY <1>1, <1>3

Faithful(o) ==
    /\ Compile[o] \in Conjunctions
    /\ Compile[o] = <<>> <=> ~Says[o]
    /\ \A row \in Row : Reads(Compile[o], row) = Means[o][row]

(* A text in parentheses is one operand.                                   *)
LEMMA BranchReads ==
  ASSUME NEW key \in {"OR", "AND", "NOT"}, NEW joined, joined # <<>>,
         \A row \in Row : Reads(joined, row) \in Value
  PROVE  /\ Parenthesised(key, joined) \in Conjunctions /\ Parenthesised(key, joined) # <<>>
         /\ \A row \in Row : Reads(Parenthesised(key, joined), row)
                              = IF key = "NOT" THEN Not(Reads(joined, row)) ELSE Reads(joined, row)
<1> DEFINE x == [row \in Row |-> IF key = "NOT" THEN Not(Reads(joined, row)) ELSE Reads(joined, row)]
<1>1. x \in Operands
  BY DEF Operands, Not, Truth, Value
<1>2. Parenthesised(key, joined) = Operand(x)
  BY DEF Parenthesised
<1>3. \A row \in Row : x[row] = IF key = "NOT" THEN Not(Reads(joined, row)) ELSE Reads(joined, row)
  OBVIOUS
<1> HIDE DEF x
<1> QED
  BY <1>1, <1>2, <1>3, OperandReads

(* A branch means its items, whatever they compile to (sql.js:170-184).    *)
LEMMA BranchAgrees ==
  ASSUME NEW n \in Nat, NEW e, e.kind = "branch", e.key \in {"OR", "AND", "NOT"}, e.items \in Seq(1 .. n),
         \A p \in 1 .. n : Faithful(p)
  PROVE  /\ CompileEntry(e, Compile) \in Conjunctions
         /\ CompileEntry(e, Compile) = <<>> <=> ~Spoken(e, Says)
         /\ \A row \in Row : Reads(CompileEntry(e, Compile), row) = EntryMeans(e, row, Means)
<1> DEFINE D == DOMAIN e.items
           texts == [i \in D |-> Compile[e.items[i]]]
           joined == Joined(e.key, texts)
           loud == {i \in D : Says[e.items[i]]}
           Said(row) == {Means[e.items[i]][row] : i \in loud}
           All(row) == {Reads(texts[i], row) : i \in D}
           Loud(row) == {Reads(texts[i], row) : i \in {k \in D : texts[k] # <<>>}}
<1>1. \A i \in D : e.items[i] \in 1 .. n /\ Faithful(e.items[i]) /\ texts[i] = Compile[e.items[i]]
  OBVIOUS
<1>s. \A i \in D : texts[i] \in Conjunctions
  <2> HIDE DEF texts, D
  <2> QED
    BY <1>1 DEF Faithful
<1>a. \A i \in D : texts[i] = <<>> <=> ~Says[e.items[i]]
  <2> HIDE DEF texts, D
  <2> QED
    BY <1>1 DEF Faithful
<1>b. \A i \in D, row \in Row : Reads(texts[i], row) = Means[e.items[i]][row]
  <2> HIDE DEF texts, D
  <2> QED
    BY <1>1 DEF Faithful
<1>2. texts \in Seq(Conjunctions) /\ DOMAIN texts = D
  <2>1. DOMAIN e.items = 1 .. Len(e.items) /\ Len(e.items) \in Nat
    OBVIOUS
  <2>2. texts \in [1 .. Len(e.items) -> Conjunctions]
    <3>1. texts = [i \in D |-> texts[i]]
      OBVIOUS
    <3> HIDE DEF texts
    <3> QED
      BY <1>s, <2>1, <3>1
  <2> HIDE DEF texts
  <2>3. texts \in Seq(Conjunctions)
    BY <2>1, <2>2
  <2>4. DOMAIN texts = D
    BY <2>1, <2>2
  <2> QED
    BY <2>3, <2>4
<1>3. CompileEntry(e, Compile) = IF joined = <<>> THEN <<>> ELSE Parenthesised(e.key, joined)
  BY DEF CompileEntry
<1>4. Spoken(e, Says) <=> loud # {}
  BY DEF Spoken
<1>5. \A row \in Row : EntryMeans(e, row, Means) =
        IF Said(row) = {} THEN "true"
        ELSE IF e.key = "OR" THEN AnyOf(Said(row)) ELSE IF e.key = "AND" THEN AllOf(Said(row)) ELSE Not(AllOf(Said(row)))
  BY DEF EntryMeans
<1>6. \A row \in Row : Loud(row) = Said(row)
  <2>1. {k \in D : texts[k] # <<>>} = loud
    <3> HIDE DEF texts, D
    <3> QED
      BY <1>a
  <2>2. ASSUME NEW row \in Row PROVE {Reads(texts[i], row) : i \in loud} = {Means[e.items[i]][row] : i \in loud}
    <3> HIDE DEF texts, D
    <3> QED
      BY <1>b, <2>2
  <2> HIDE DEF texts, loud
  <2> QED
    BY <2>1, <2>2
<1>7. \A row \in Row : Said(row) = {} <=> loud = {}
  <2> HIDE DEF loud
  <2> QED
    OBVIOUS
<1>8. \A row \in Row : All(row) \in SUBSET Value
  <2> HIDE DEF texts, D
  <2> QED
    BY <1>s, <1>2, ConjunctionTruth
<1>9. \A row \in Row : AllOf(All(row)) = AllOf(Said(row))
  <2> SUFFICES ASSUME NEW row \in Row PROVE AllOf(All(row)) = AllOf(Said(row))
    OBVIOUS
  <2>1. \A v \in All(row) : v = "true" \/ v \in Loud(row)
    <3> SUFFICES ASSUME NEW i \in D PROVE Reads(texts[i], row) = "true" \/ Reads(texts[i], row) \in Loud(row)
      OBVIOUS
    <3> HIDE DEF texts, D
    <3>1. CASE texts[i] = <<>>
      BY <3>1 DEF Reads
    <3>2. CASE texts[i] # <<>>
      BY <3>2
    <3> QED
      BY <3>1, <3>2
  <2>2. Loud(row) \subseteq All(row)
    <3> HIDE DEF texts, D
    <3> QED
      OBVIOUS
  <2>3. Loud(row) = Said(row)
    BY <1>6
  <2> DEFINE A == All(row)
             L == Said(row)
  <2> HIDE DEF A, L, All, Loud, Said
  <2>4. (\A v \in A : v = "true" \/ v \in L) /\ L \subseteq A
    BY <2>1, <2>2, <2>3 DEF A, L
  <2>5. AllOf(A) = AllOf(L)
    BY <2>4 DEF AllOf
  <2> QED
    BY <2>5 DEF A, L
<1>10. joined = <<>> <=> loud = {}
  <2>1. joined = <<>> <=> \A i \in D : texts[i] = <<>>
    <3> HIDE DEF texts, D
    <3> QED
      BY <1>2, AndOfTexts, OrOfTexts
  <2> HIDE DEF texts, joined, D
  <2> QED
    BY <1>a, <2>1
<1>11. CASE joined = <<>>
  <2>1. \A row \in Row : EntryMeans(e, row, Means) = "true"
    <3> HIDE DEF loud, Said, joined
    <3> QED
      BY <1>5, <1>7, <1>10, <1>11
  <2>2. CompileEntry(e, Compile) = <<>>
    BY <1>3, <1>11
  <2>3. \A row \in Row : Reads(<<>>, row) = "true"
    BY DEF Reads
  <2> HIDE DEF joined, loud
  <2> QED
    BY <1>4, <1>10, <1>11, <2>1, <2>2, <2>3 DEF Conjunctions
<1>12. CASE joined # <<>>
  <2>1. CASE e.key = "OR"
    <3>1. \A row \in Row : Reads(joined, row) = AnyOf(Loud(row)) /\ Reads(joined, row) \in Value
      <4>1. joined = Joined("OR", texts)
        BY <2>1
      <4> HIDE DEF texts, D, joined
      <4>2. \A row \in Row : Reads(joined, row) = AnyOf(Loud(row))
        BY <1>2, <1>12, <4>1, OrOfTexts
      <4>3. joined \in Seq(Runs)
        BY <1>2, <4>1, OrOfTexts
      <4> QED
        BY <1>12, <4>2, <4>3, TextTruth
    <3> HIDE DEF joined, loud, Said, Loud
    <3>2. /\ Parenthesised(e.key, joined) \in Conjunctions /\ Parenthesised(e.key, joined) # <<>>
          /\ \A row \in Row : Reads(Parenthesised(e.key, joined), row) = Reads(joined, row)
      BY <1>12, <2>1, <3>1, BranchReads
    <3>3. CompileEntry(e, Compile) = Parenthesised(e.key, joined)
      BY <1>3, <1>12
    <3>4. \A row \in Row : EntryMeans(e, row, Means) = AnyOf(Said(row))
      BY <1>5, <1>7, <1>10, <1>12, <2>1
    <3> QED
      BY <1>4, <1>6, <1>10, <1>12, <3>1, <3>2, <3>3, <3>4
  <2>2. CASE e.key \in {"AND", "NOT"}
    <3>1. \A row \in Row : Reads(joined, row) = AllOf(All(row)) /\ Reads(joined, row) \in Value
      <4> HIDE DEF texts, D
      <4>1. joined \in Conjunctions /\ \A row \in Row : Reads(joined, row) = AllOf(All(row))
        BY <1>2, <2>2, AndOfTexts
      <4> HIDE DEF joined
      <4> QED
        BY <4>1, ConjunctionTruth
    <3> HIDE DEF joined, loud, Said, Loud, All
    <3>2. /\ Parenthesised(e.key, joined) \in Conjunctions /\ Parenthesised(e.key, joined) # <<>>
          /\ \A row \in Row : Reads(Parenthesised(e.key, joined), row)
                               = IF e.key = "NOT" THEN Not(Reads(joined, row)) ELSE Reads(joined, row)
      BY <1>12, <3>1, BranchReads
    <3>3. CompileEntry(e, Compile) = Parenthesised(e.key, joined)
      BY <1>3, <1>12
    <3>4. \A row \in Row : EntryMeans(e, row, Means) = IF e.key = "NOT" THEN Not(AllOf(Said(row))) ELSE AllOf(Said(row))
      BY <1>5, <1>7, <1>10, <1>12, <2>2
    <3> QED
      BY <1>4, <1>9, <1>10, <1>12, <3>1, <3>2, <3>3, <3>4
  <2> QED
    BY <2>1, <2>2
<1> QED
  BY <1>11, <1>12

(* An entry means what its text reads, if the objects before do.           *)
LEMMA EntryAgrees ==
  ASSUME NEW n \in Nat, NEW e \in Entry(n), \A p \in 1 .. n : Faithful(p)
  PROVE  /\ CompileEntry(e, Compile) \in Conjunctions
         /\ CompileEntry(e, Compile) = <<>> <=> ~Spoken(e, Says)
         /\ \A row \in Row : Reads(CompileEntry(e, Compile), row) = EntryMeans(e, row, Means)
<1>1. CASE e.kind = "column" /\ e \in Column
  <2> DEFINE x == [row \in Row |-> Compared(row, CompileCondition(e))]
  <2>1. CompileEntry(e, Compile) = Operand(x) /\ Spoken(e, Says)
    BY <1>1 DEF CompileEntry, Spoken
  <2>2. x \in Operands /\ \A row \in Row : x[row] = ColumnMeans(e, row.value)
    BY <1>1, ColumnAgrees DEF Operands
  <2>3. \A row \in Row : EntryMeans(e, row, Means) = ColumnMeans(e, row.value)
    BY <1>1 DEF EntryMeans
  <2> HIDE DEF x
  <2> QED
    BY <2>1, <2>2, <2>3, OperandReads
<1>2. CASE e.kind = "relation" /\ e.some \in BOOLEAN /\ e.inner \in 1 .. n
  <2> DEFINE text == Compile[e.inner]
             T == Exists(e.some, text)
  <2>1. CompileEntry(e, Compile) = T /\ Spoken(e, Says)
    BY <1>2 DEF CompileEntry, Spoken
  <2>2. text \in Conjunctions /\ \A row \in Row : Reads(text, row) = Means[e.inner][row]
    BY <1>2 DEF Faithful
  <2>3. T \in Conjunctions /\ T # <<>>
    <3> HIDE DEF text
    <3> QED
      BY <1>2, <2>2, ExistsReads
  <2>4. ASSUME NEW row \in Row PROVE Reads(T, row) = EntryMeans(e, row, Means)
    <3>1. EntryMeans(e, row, Means) = Truth((\E k \in row.related : Means[e.inner][k] = "true") = e.some)
      BY <1>2 DEF EntryMeans
    <3>2. Reads(T, row) = Truth((\E k \in row.related : Reads(text, k) = "true") = e.some)
      <4> HIDE DEF text
      <4> QED
        BY <1>2, <2>2, ExistsReads
    <3>3. (\E k \in row.related : Reads(text, k) = "true") <=> (\E k \in row.related : Means[e.inner][k] = "true")
      <4> HIDE DEF text
      <4> QED
        BY <2>2, LeafIsRow
    <3> HIDE DEF T, text
    <3> QED
      BY <3>1, <3>2, <3>3
  <2> HIDE DEF T
  <2> QED
    BY <2>1, <2>3, <2>4
<1>3. CASE e.kind = "branch" /\ e.key \in {"OR", "AND", "NOT"} /\ e.items \in Seq(1 .. n)
  BY <1>3, BranchAgrees
<1> QED
  BY <1>1, <1>2, <1>3, EntryShape

(* Every object means what its text reads, by induction over the objects.  *)
LEMMA CompilesFaithfully ==
  ASSUME WhereTypeOK
  PROVE  \A o \in DOMAIN objects : Faithful(o)
<1> DEFINE N == Len(objects)
           bad == {o \in 1 .. N : ~Faithful(o)}
<1>1. N \in Nat /\ DOMAIN objects = 1 .. N /\ \A o \in 1 .. N : objects[o] \in Seq(Entry(o - 1))
  BY DEF WhereTypeOK
<1>2. ASSUME NEW o \in 1 .. N, \A p \in 1 .. o - 1 : Faithful(p) PROVE Faithful(o)
  <2> DEFINE w == objects[o]
             texts == [i \in DOMAIN w |-> CompileEntry(w[i], Compile)]
  <2>1. o - 1 \in Nat /\ w \in Seq(Entry(o - 1))
    BY <1>1
  <2>2. Compile[o] = Joined("AND", texts)
    BY <1>1, CompileUnfolds
  <2>3. Says[o] <=> \E i \in DOMAIN w : Spoken(w[i], Says)
    BY <1>1, SaysUnfolds
  <2>4. ASSUME NEW row \in Row PROVE Means[o][row] = AllOf({EntryMeans(w[i], row, Means) : i \in DOMAIN w})
    <3>1. Means[o] = [r \in Row |-> AllOf({EntryMeans(w[i], r, Means) : i \in DOMAIN w})]
      BY <1>1, MeansUnfolds
    <3> HIDE DEF w
    <3> QED
      BY <3>1
  <2> HIDE DEF w
  <2>5. \A i \in DOMAIN w : w[i] \in Entry(o - 1)
    BY <2>1
  <2>6. \A i \in DOMAIN w :
          /\ CompileEntry(w[i], Compile) \in Conjunctions
          /\ CompileEntry(w[i], Compile) = <<>> <=> ~Spoken(w[i], Says)
          /\ \A row \in Row : Reads(CompileEntry(w[i], Compile), row) = EntryMeans(w[i], row, Means)
    BY <1>2, <2>1, <2>5, EntryAgrees
  <2>7. /\ DOMAIN texts = DOMAIN w
        /\ \A i \in DOMAIN w : texts[i] = CompileEntry(w[i], Compile) /\ texts[i] \in Conjunctions
    BY <2>6
  <2>8. texts \in Seq(Conjunctions)
    <3>1. DOMAIN w = 1 .. Len(w) /\ Len(w) \in Nat /\ texts = [i \in DOMAIN w |-> texts[i]]
      BY <2>1
    <3> HIDE DEF texts
    <3>2. texts \in [1 .. Len(w) -> Conjunctions]
      BY <2>7, <3>1
    <3> QED
      BY <3>1, <3>2
  <2> HIDE DEF texts
  <2>9. /\ Compile[o] \in Conjunctions
        /\ Compile[o] = <<>> <=> \A i \in DOMAIN w : texts[i] = <<>>
        /\ \A row \in Row : Reads(Compile[o], row) = AllOf({Reads(texts[i], row) : i \in DOMAIN w})
    BY <2>2, <2>7, <2>8, AndOfTexts
  <2>10. Compile[o] = <<>> <=> ~Says[o]
    BY <2>3, <2>6, <2>7, <2>9
  <2>11. ASSUME NEW row \in Row PROVE Reads(Compile[o], row) = Means[o][row]
    <3>1. {Reads(texts[i], row) : i \in DOMAIN w} = {EntryMeans(w[i], row, Means) : i \in DOMAIN w}
      BY <2>6, <2>7
    <3> QED
      BY <2>4, <2>9, <3>1
  <2> QED
    BY <2>9, <2>10, <2>11 DEF Faithful
<1> HIDE DEF N
<1>3. bad = {}
  <2> SUFFICES ASSUME bad # {} PROVE FALSE
    OBVIOUS
  <2>1. PICK m \in bad : \A k \in 0 .. m - 1 : k \notin bad
    <3>1. bad \in SUBSET (0 .. N)
      BY <1>1
    <3> HIDE DEF bad
    <3> QED
      BY <1>1, <3>1, LeastNumber
  <2>2. m \in 1 .. N /\ \A p \in 1 .. m - 1 : p \in 1 .. N /\ p \notin bad
    BY <1>1, <2>1
  <2>3. \A p \in 1 .. m - 1 : Faithful(p)
    BY <2>2
  <2> QED
    BY <1>2, <2>1, <2>2, <2>3
<1> QED
  BY <1>1, <1>3

(* Entries hold objects that were there before.                            *)
LEMMA WhereIsTyped == WhereSpec => []WhereTypeOK
<1>1. WhereInit => WhereTypeOK
  <2> SUFFICES ASSUME WhereInit PROVE WhereTypeOK
    OBVIOUS
  <2>1. Len(objects) = 1 /\ DOMAIN objects = {1} /\ objects[1] = <<>>
    BY DEF WhereInit
  <2>2. \A o \in DOMAIN objects : objects[o] \in Seq(Entry(o - 1))
    <3>1. \A S : <<>> \in Seq(S)
      OBVIOUS
    <3> QED
      BY <2>1, <3>1
  <2>3. objects \in Seq({objects[o] : o \in DOMAIN objects})
    BY <2>1 DEF WhereInit
  <2> QED
    BY <2>1, <2>2, <2>3 DEF WhereTypeOK
<1>2. WhereTypeOK /\ [WhereNext]_whereVars => WhereTypeOK'
  <2> SUFFICES ASSUME WhereTypeOK, [WhereNext]_whereVars PROVE WhereTypeOK'
    OBVIOUS
  <2> DEFINE N == Len(objects)
  <2>1. N \in Nat /\ DOMAIN objects = 1 .. N /\ \A o \in 1 .. N : objects[o] \in Seq(Entry(o - 1))
    BY DEF WhereTypeOK
  <2>2. ASSUME NEW o \in DOMAIN objects, NEW e \in Entry(N), AddEntry(o, e) PROVE WhereTypeOK'
    <3> DEFINE w == Append(objects[o], e)
               all == {objects[i] : i \in DOMAIN objects} \cup {w}
    <3>1. \A i, j \in Nat : i <= j => Entry(i) \subseteq Entry(j)
      <4> SUFFICES ASSUME NEW i \in Nat, NEW j \in Nat, i <= j PROVE Entry(i) \subseteq Entry(j)
        OBVIOUS
      <4>1. 1 .. i \subseteq 1 .. j
        OBVIOUS
      <4>2. Seq(1 .. i) \subseteq Seq(1 .. j)
        BY <4>1
      <4> QED
        BY <4>1, <4>2 DEF Entry
    <3>2. objects[o] \in Seq(Entry(N))
      <4>1. o - 1 \in Nat /\ o - 1 <= N /\ objects[o] \in Seq(Entry(o - 1))
        BY <2>1
      <4>2. Entry(o - 1) \subseteq Entry(N)
        BY <2>1, <3>1, <4>1
      <4> QED
        BY <4>1, <4>2
    <3>3. w \in Seq(Entry(N))
      BY <3>2
    <3>4. objects \in Seq(all)
      BY DEF WhereTypeOK
    <3>5. objects' = Append(objects, w)
      BY <2>2 DEF AddEntry
    <3> HIDE DEF w, N
    <3>6. objects' \in Seq(all) /\ Len(objects') = N + 1 /\ objects'[N + 1] = w
          /\ \A i \in 1 .. N : objects'[i] = objects[i]
      <4> HIDE DEF all
      <4> QED
        BY <2>1, <3>4, <3>5 DEF all, N
    <3>7. DOMAIN objects' = 1 .. N + 1
      BY <3>6
    <3>8. objects' \in Seq({objects'[i] : i \in DOMAIN objects'})
      <4> DEFINE q == objects'
      <4> HIDE DEF q
      <4>1. \A i \in 1 .. Len(q) : q[i] \in {q[k] : k \in DOMAIN q}
        BY <3>6, <3>7 DEF q
      <4> QED
        BY <3>6, <4>1 DEF q
    <3>9. \A i \in 1 .. N + 1 : objects'[i] \in Seq(Entry(i - 1))
      <4> SUFFICES ASSUME NEW i \in 1 .. N + 1 PROVE objects'[i] \in Seq(Entry(i - 1))
        OBVIOUS
      <4>1. CASE i = N + 1
        <5>1. i - 1 = N /\ objects'[i] = w
          BY <2>1, <3>6, <4>1
        <5> QED
          BY <3>3, <5>1
      <4>2. CASE i # N + 1
        <5>1. i \in 1 .. N
          BY <2>1, <4>2
        <5> QED
          BY <2>1, <3>6, <5>1
      <4> QED
        BY <4>1, <4>2
    <3> QED
      BY <2>1, <3>6, <3>7, <3>8, <3>9 DEF WhereTypeOK
  <2>3. CASE AddColumn
    BY <2>2, <2>3 DEF AddColumn, Entry
  <2>4. CASE Branch
    <3>1. PICK o \in DOMAIN objects, key \in {"OR", "AND", "NOT"},
                items \in UNION {[1 .. n -> DOMAIN objects] : n \in 0 .. MaxItems} :
             AddEntry(o, [kind |-> "branch", key |-> key, items |-> items])
      BY <2>4 DEF Branch
    <3>2. items \in Seq(1 .. N)
      <4>1. PICK n \in 0 .. MaxItems : items \in [1 .. n -> 1 .. N]
        BY <2>1
      <4>2. n \in Nat
        BY <4>1, WhereAssumption
      <4> DEFINE S == 1 .. N
      <4> HIDE DEF S
      <4>3. items \in [1 .. n -> S]
        BY <4>1 DEF S
      <4>4. items \in Seq(S)
        BY <4>2, <4>3
      <4> QED
        BY <4>4 DEF S
    <3>3. [kind |-> "branch", key |-> key, items |-> items] \in Entry(N)
      BY <3>2 DEF Entry
    <3> QED
      BY <2>2, <3>1, <3>3
  <2>5. CASE Relate
    <3>1. PICK o \in DOMAIN objects, inner \in DOMAIN objects, some \in BOOLEAN :
             AddEntry(o, [kind |-> "relation", key |-> "related", some |-> some, inner |-> inner])
      BY <2>5 DEF Relate
    <3>2. [kind |-> "relation", key |-> "related", some |-> some, inner |-> inner] \in Entry(N)
      BY <2>1 DEF Entry
    <3> QED
      BY <2>2, <3>1, <3>2
  <2>6. CASE UNCHANGED whereVars
    BY <2>6 DEF whereVars, WhereTypeOK
  <2> QED
    BY <2>3, <2>4, <2>5, <2>6 DEF WhereNext
<1> QED
  BY <1>1, <1>2, PTL DEF WhereSpec

(* A statement touches the rows its object means.                          *)
LEMMA FaithfulTouches == WhereTypeOK => TouchesWhatIsMeant
<1> SUFFICES ASSUME WhereTypeOK PROVE TouchesWhatIsMeant
  OBVIOUS
<1>1. Len(objects) \in DOMAIN objects
  BY DEF WhereTypeOK
<1>2. Faithful(Len(objects))
  BY <1>1, CompilesFaithfully
<1> QED
  BY <1>2 DEF Faithful, TouchesWhatIsMeant, Touched

(* Whatever where objects callers assemble, of any depth and width, over   *)
(* any values: a statement touches the rows its object means and no other  *)
(* (sql.js:55-208).                                                        *)
THEOREM WheresTouchWhatTheyMean == WhereSpec => []TouchesWhatIsMeant
BY WhereIsTyped, FaithfulTouches, PTL

-----------------------------------------------------------------------------
(* The migration runner.                                                   *)

(* What a migration creates is in the registry.                            *)
LEMMA CreatesRegistered == ASSUME NEW m \in Migration PROVE Creates[m] \subseteq Registry
  BY DEF Registry

(* A new, an unledgered or a foreign database satisfies the invariant.     *)
LEMMA InitMigrations == MigrationsInit => MigrationsInv
<1> SUFFICES ASSUME MigrationsInit PROVE MigrationsInv
  OBVIOUS
<1>1. MigrationsTypeOK
  BY MigrationsAssumption DEF MigrationsInit, MigrationsTypeOK
<1>2. DeploysSound /\ LedgerTrue
  BY DEF MigrationsInit, DeploysSound, LedgerTrue
<1> QED
  BY <1>1, <1>2 DEF MigrationsInv

(* A ledger row written behind all the rows before it, for tables that are *)
(* there, keeps the invariant.                                             *)
LEMMA RowWritten ==
  ASSUME MigrationsInv, NEW d \in Deploy, running[d] \in {"adopt", "apply"},
         Creates[doing[d]] \subseteq schema,
         WriteRow(d), UNCHANGED <<schema, applied>>
  PROVE  MigrationsInv'
<1> USE MigrationsAssumption DEF MigrationsInv, Migration, At, Ended
<1>1. /\ doing[d] \in Migration
      /\ 1 .. (doing[d] - 1) \subseteq ledger
      /\ running \in [Deploy -> {"not", "plan", "adopt", "apply"} \cup Ended]
  BY DEF DeploysSound, MigrationsTypeOK
<1>2. CASE doing[d] \in ledger
  <2>1. running' = [running EXCEPT ![d] = "recorded"] /\ UNCHANGED <<schema, ledger, applied, doing, created>>
    BY <1>2 DEF WriteRow
  <2>2. MigrationsTypeOK'
    BY <2>1 DEF MigrationsTypeOK
  <2>3. DeploysSound'
    BY <1>1, <2>1 DEF DeploysSound
  <2>4. LedgerTrue'
    BY <2>1 DEF LedgerTrue
  <2> QED
    BY <2>2, <2>3, <2>4
<1>3. CASE doing[d] \notin ledger
  <2>1. /\ ledger' = ledger \cup {doing[d]}
        /\ doing' = [doing EXCEPT ![d] = doing[d] + 1]
        /\ created' = [created EXCEPT ![d] = {}]
        /\ running' = [running EXCEPT ![d] = IF doing[d] + 1 > LastMigration THEN "done" ELSE @]
        /\ UNCHANGED <<schema, applied>>
    BY <1>3 DEF WriteRow, Advance
  <2>2. MigrationsTypeOK'
    <3>1. doing[d] + 1 \in 1 .. LastMigration + 1
      BY <1>1
    <3>2. doing' \in [Deploy -> 1 .. LastMigration + 1] /\ created' \in [Deploy -> SUBSET Registry]
      BY <2>1, <3>1 DEF MigrationsTypeOK
    <3>3. (IF doing[d] + 1 > LastMigration THEN "done" ELSE running[d])
            \in {"not", "plan", "adopt", "apply"} \cup Ended
      BY <1>1
    <3>4. running' \in [Deploy -> {"not", "plan", "adopt", "apply"} \cup Ended]
      BY <1>1, <2>1, <3>3
    <3> QED
      BY <1>1, <2>1, <3>2, <3>4 DEF MigrationsTypeOK
  <2>3. 1 .. doing[d] \subseteq ledger'
    <3>1. 1 .. doing[d] = 1 .. (doing[d] - 1) \cup {doing[d]}
      BY <1>1
    <3> QED
      BY <1>1, <2>1, <3>1
  <2>4. DeploysSound'
    <3> SUFFICES ASSUME NEW e \in Deploy
                 PROVE  /\ running'[e] = "not" => applied'[e] = {}
                        /\ running'[e] \in {"not", "plan"} => doing'[e] = 1 /\ created'[e] = {}
                        /\ running'[e] \in {"plan", "apply"} => applied'[e] \subseteq ledger'
                        /\ running'[e] = "adopt" => Registry \subseteq schema'
                        /\ running'[e] = "apply" => created'[e] \subseteq schema'
                        /\ running'[e] \in {"adopt", "apply"} =>
                              doing'[e] \in Migration /\ 1 .. (doing'[e] - 1) \subseteq ledger'
      BY <2>1 DEF DeploysSound, Registry
    <3>1. CASE e # d
      BY <1>1, <2>1, <3>1 DEF DeploysSound, MigrationsTypeOK
    <3>2. CASE e = d
      <4>1. doing'[e] = doing[d] + 1 /\ created'[e] = {} /\ doing'[e] - 1 = doing[d]
        BY <1>1, <2>1, <3>2 DEF MigrationsTypeOK
      <4>2. running'[e] = (IF doing[d] + 1 > LastMigration THEN "done" ELSE running[d])
        BY <1>1, <2>1, <3>2
      <4> QED
        BY <1>1, <2>1, <2>3, <4>1, <4>2, <3>2 DEF DeploysSound
    <3> QED
      BY <3>1, <3>2
  <2>5. LedgerTrue'
    BY <1>1, <2>1, <2>3 DEF LedgerTrue
  <2> QED
    BY <2>2, <2>4, <2>5
<1> QED
  BY <1>2, <1>3

(* Every step keeps the invariant.                                         *)
LEMMA MigrationsStep == MigrationsInv /\ [MigrationsNext]_migrationVars => MigrationsInv'
<1> SUFFICES ASSUME MigrationsInv, [MigrationsNext]_migrationVars PROVE MigrationsInv'
  OBVIOUS
<1> USE MigrationsAssumption DEF MigrationsInv, Migration, At, Ended
<1>0. /\ running \in [Deploy -> {"not", "plan", "adopt", "apply"} \cup Ended]
      /\ applied \in [Deploy -> SUBSET Migration] /\ created \in [Deploy -> SUBSET Registry]
      /\ doing \in [Deploy -> 1 .. LastMigration + 1] /\ ledger \subseteq Migration
  BY DEF MigrationsTypeOK
<1>1. ASSUME NEW d \in Deploy, ReadLedger(d) PROVE MigrationsInv'
  <2>1. MigrationsTypeOK' /\ LedgerTrue'
    BY <1>0, <1>1 DEF ReadLedger, MigrationsTypeOK, LedgerTrue
  <2>2. DeploysSound'
    BY <1>0, <1>1 DEF ReadLedger, DeploysSound
  <2> QED
    BY <2>1, <2>2
<1>2. ASSUME NEW d \in Deploy, Plan(d) PROVE MigrationsInv'
  <2>1. MigrationsTypeOK' /\ LedgerTrue'
    BY <1>0, <1>2 DEF Plan, MigrationsTypeOK, LedgerTrue
  <2>2. DeploysSound'
    BY <1>0, <1>2 DEF Plan, Agrees, DeploysSound
  <2> QED
    BY <2>1, <2>2
<1>3. ASSUME NEW d \in Deploy, AdoptRow(d) PROVE MigrationsInv'
  <2>1. doing[d] \in Migration /\ Registry \subseteq schema
    BY <1>3 DEF AdoptRow, DeploysSound
  <2> QED
    BY <1>3, <2>1, CreatesRegistered, RowWritten DEF AdoptRow
<1>4. ASSUME NEW d \in Deploy, Skip(d) PROVE MigrationsInv'
  <2>1. doing[d] \in ledger /\ 1 .. doing[d] \subseteq ledger
    BY <1>0, <1>4 DEF Skip, DeploysSound, LedgerTrue
  <2>2. MigrationsTypeOK' /\ LedgerTrue'
    BY <1>0, <1>4 DEF Skip, Advance, MigrationsTypeOK, LedgerTrue, DeploysSound
  <2>3. DeploysSound'
    BY <1>0, <1>4, <2>1 DEF Skip, Advance, DeploysSound
  <2> QED
    BY <2>2, <2>3
<1>5. ASSUME NEW d \in Deploy, CreateTable(d) PROVE MigrationsInv'
  <2>1. PICK t \in Creates[doing[d]] \ created[d] :
             IF t \in schema
             THEN At(d, "exists") /\ UNCHANGED <<schema, created>>
             ELSE /\ schema' = schema \cup {t}
                  /\ created' = [created EXCEPT ![d] = @ \cup {t}]
                  /\ running' = running
    BY <1>5 DEF CreateTable
  <2>2. t \in Registry
    BY <1>5, CreatesRegistered DEF CreateTable, DeploysSound
  <2>3. MigrationsTypeOK'
    BY <1>0, <1>5, <2>1, <2>2 DEF CreateTable, MigrationsTypeOK
  <2>5. schema \subseteq schema' /\ UNCHANGED ledger
    BY <1>5, <2>1 DEF CreateTable
  <2>6. LedgerTrue'
    BY <2>5 DEF LedgerTrue
  <2>4. DeploysSound'
    BY <1>0, <1>5, <2>1, <2>5 DEF CreateTable, DeploysSound
  <2> QED
    BY <2>3, <2>4, <2>6
<1>6. ASSUME NEW d \in Deploy, Record(d) PROVE MigrationsInv'
  <2>1. Creates[doing[d]] \subseteq schema
    BY <1>6 DEF Record, DeploysSound
  <2> QED
    BY <1>6, <2>1, RowWritten DEF Record
<1>7. ASSUME NEW d \in Deploy, Die(d) PROVE MigrationsInv'
  <2>1. MigrationsTypeOK' /\ LedgerTrue'
    BY <1>0, <1>7 DEF Die, MigrationsTypeOK, LedgerTrue
  <2>2. DeploysSound'
    BY <1>0, <1>7 DEF Die, DeploysSound
  <2> QED
    BY <2>1, <2>2
<1>8. ASSUME NEW d \in Deploy, Reset(d) PROVE MigrationsInv'
  <2>1. MigrationsTypeOK' /\ LedgerTrue'
    BY <1>0, <1>8 DEF Reset, MigrationsTypeOK, LedgerTrue
  <2>2. DeploysSound'
    BY <1>0, <1>8 DEF Reset, DeploysSound
  <2> QED
    BY <2>1, <2>2
<1>9. CASE UNCHANGED migrationVars
  BY <1>9 DEF migrationVars, MigrationsTypeOK, DeploysSound, LedgerTrue
<1> QED
  BY <1>1, <1>2, <1>3, <1>4, <1>5, <1>6, <1>7, <1>8, <1>9 DEF MigrationsNext

(* The invariant of the runner, types included.                            *)
THEOREM MigrationsAreSound == MigrationsSpec => []MigrationsInv
<1>1. MigrationsInv /\ [MigrationsNext]_migrationVars => MigrationsInv'
  BY MigrationsStep
<1> QED
  BY InitMigrations, <1>1, PTL DEF MigrationsSpec

(* Whatever deploys died or overlapped, the ledger names the first         *)
(* migrations, and only ones whose tables are all there.                   *)
THEOREM LedgerStaysTrue == MigrationsSpec => []LedgerTrue
<1>1. MigrationsInv => LedgerTrue
  BY DEF MigrationsInv
<1> QED
  BY <1>1, MigrationsAreSound, PTL

-----------------------------------------------------------------------------
(* The seeds.                                                              *)

(* The fixtures, the log and the revisions are numbers.                    *)
LEMMA SeedNumbers ==
  /\ Fixture = 1 .. Fixtures /\ Operator = 1 .. 2 /\ Password \in Field
  /\ Patch \in [Fixture -> [1 .. LastRevision -> SUBSET Field]]
  /\ \A f \in Operator, v \in 1 .. LastRevision : Password \in Patch[f][v]
  /\ Fixture \subseteq Nat \ {0} /\ Market \subseteq Nat \ {0} /\ Id \subseteq Nat \ {0} /\ Operator \subseteq Fixture
  /\ Fixtures \in Nat /\ Fixtures > 2 /\ Markets \in Nat \ {0} /\ Absent \in 0 .. LastRevision
  /\ \A v \in 1 .. LastRevision : v # Absent /\ v \in 0 .. LastRevision
  /\ \A v \in 1 .. LastRevision : LogRows[v] \in Nat /\ 1 .. LogRows[v] \subseteq Id
<1>1. /\ Fixture = 1 .. Fixtures /\ Operator = 1 .. 2 /\ Password \in Field
      /\ Fixtures \in Nat /\ Fixtures > 2 /\ Markets \in Nat \ {0}
  BY SeedingAssumption DEF Fixture, Operator
<1>2. Fixture \subseteq Nat \ {0} /\ Market \subseteq Nat \ {0} /\ Operator \subseteq Fixture
  BY <1>1 DEF Market
<1>3. /\ Patch \in [Fixture -> [1 .. LastRevision -> SUBSET Field]]
      /\ \A f \in Operator, v \in 1 .. LastRevision : Password \in Patch[f][v]
  BY SeedingAssumption DEF Fixture, Operator
<1>4. /\ Id \subseteq Nat \ {0}
      /\ \A v \in 1 .. LastRevision : LogRows[v] \in Nat /\ 1 .. LogRows[v] \subseteq Id
  <2>1. LogRows \in [1 .. LastRevision -> Nat]
    BY SeedingAssumption
  <2>2. \A v \in 1 .. LastRevision : LogRows[v] \in Nat
    BY <2>1
  <2>3. ASSUME NEW v \in 1 .. LastRevision PROVE 1 .. LogRows[v] \subseteq Nat \ {0}
    BY <2>2
  <2>4. \A v \in 1 .. LastRevision : 1 .. LogRows[v] \subseteq Id
    BY Zenon DEF Id
  <2> QED
    BY <2>2, <2>3, <2>4, Zenon DEF Id
<1>5. /\ Absent \in 0 .. LastRevision
      /\ \A v \in 1 .. LastRevision : v # Absent /\ v \in 0 .. LastRevision
  BY SeedingAssumption DEF Absent
<1> QED
  BY <1>1, <1>2, <1>3, <1>4, <1>5

(* A database in production or not, new or seeded before, satisfies the    *)
(* invariant.                                                              *)
LEMMA InitSeed == SeedInit => SeedInv
<1> SUFFICES ASSUME SeedInit PROVE SeedInv
  OBVIOUS
<1>1. SeedTypeOK
  <2>1. target \in [production : BOOLEAN, allowed : BOOLEAN]
    BY DEF SeedInit
  <2>2. /\ fixture \in [Fixture -> [Field -> 0 .. LastRevision]] /\ found \subseteq Fixture /\ market \subseteq Market
        /\ log \in [Id -> 0 .. LastRevision]
    BY SeedNumbers DEF SeedInit
  <2>3. audited \in BOOLEAN /\ seeding = "none" /\ mode = "all"
    BY DEF SeedInit
  <2>4. revision \in 1 .. LastRevision /\ next \in Nat \ {0}
    BY SeedingAssumption DEF SeedInit
  <2> QED
    BY <2>1, <2>2, <2>3, <2>4 DEF SeedTypeOK
<1>2. seeding = "none"
  BY DEF SeedInit
<1> QED
  BY <1>1, <1>2 DEF SeedInv, Refreshed, SeedInit

(* What an upsert leaves: the row it writes is there and as the run has it, *)
(* and the others are as they were.                                        *)
LEMMA Upserts ==
  ASSUME SeedTypeOK, NEW f \in Fixture, Upsert(f), UNCHANGED <<found, mode, revision>>,
         f \in Stored => f \in found
  PROVE  /\ fixture' \in [Fixture -> [Field -> 0 .. LastRevision]]
         /\ Stored' = Stored \cup {f} /\ Current(f)'
         /\ \A g \in Fixture \ {f} : Current(g)' <=> Current(g)
<1> USE SeedNumbers
<1> DEFINE row == [c \in Field |-> IF f \notin Stored \/ c \in Named(f) THEN revision ELSE fixture[f][c]]
<1>1. revision \in 1 .. LastRevision /\ fixture \in [Fixture -> [Field -> 0 .. LastRevision]]
  BY DEF SeedTypeOK
<1>2. fixture' = [fixture EXCEPT ![f] = row]
  BY DEF Upsert
<1>3. row \in [Field -> 0 .. LastRevision]
  BY <1>1
<1>4. fixture' \in [Fixture -> [Field -> 0 .. LastRevision]]
  BY <1>1, <1>2, <1>3
<1>5. fixture'[f] = row /\ \A g \in Fixture \ {f} : fixture'[g] = fixture[g]
  BY <1>1, <1>2
<1>6. \A g : Named(g)' = Named(g)
  BY DEF Named
<1>7. row[Password] # Absent
  BY <1>1 DEF Stored
<1>8. Stored' = Stored \cup {f}
  BY <1>5, <1>7 DEF Stored
<1>9. Current(f)'
  <2>1. SUFFICES ASSUME NEW c \in Field, c \in Named(f) \/ f \notin found
                 PROVE fixture'[f][c] = revision
    BY <1>6 DEF Current
  <2>2. f \notin Stored \/ c \in Named(f)
    BY <2>1
  <2> QED
    BY <1>5, <2>2
<1>10. \A g \in Fixture \ {f} : Current(g)' <=> Current(g)
  BY <1>5, <1>6 DEF Current
<1> QED
  BY <1>4, <1>8, <1>9, <1>10

(* The rows, their revisions and the run, as they were.                    *)
LEMMA Unmoved ==
  ASSUME UNCHANGED <<fixture, found, mode, revision>>
  PROVE  /\ Stored' = Stored /\ Written' = Written /\ \A f : Current(f)' <=> Current(f)
         /\ \A n : audited' = audited => (WrittenBefore(n)' <=> WrittenBefore(n))
<1>1. Stored' = Stored /\ Written' = Written
  BY DEF Stored, Written
<1>2. \A f : Current(f)' <=> Current(f)
  BY DEF Current, Named
<1> QED
  BY <1>1, <1>2 DEF WrittenBefore

(* The rows a run of each mode writes.                                      *)
LEMMA WrittenIs ==
  /\ mode = "plain" => Written = {}
  /\ mode = "admin" => Written = {2}
  /\ mode \in {"accounts", "root"} => Written = Operator
  /\ mode = "dashboard" => Written = Fixture \ Operator
  /\ mode = "all" => Written = Fixture
  BY DEF Written

(* Of the rows an accounts run writes, each update names the password.     *)
LEMMA Rotated ==
  ASSUME SeedTypeOK, mode \in {"all", "accounts", "root"}
  PROVE  \A f \in Operator : Password \in Field /\ Password \in Named(f)
BY SeedNumbers DEF Named, SeedTypeOK

(* A run of either script starts with nothing written.                     *)
LEMMA StartsSound == ASSUME SeedInv, StartSeed \/ StartDevSeed PROVE SeedInv'
<1> USE SeedNumbers DEF SeedInv
<1>1. Stored' = Stored /\ found' = Stored /\ Stored \subseteq Fixture
  BY DEF StartSeed, StartDevSeed, Stored
<1>2. CASE StartSeed
  <2>1. SeedTypeOK' /\ Seedable'
    BY <1>1, <1>2 DEF StartSeed, SeedTypeOK, Seedable
  <2>2. Upserting'
    <3>1. mode' \in {"all", "accounts", "dashboard"} /\ next' = IF mode' = "dashboard" THEN 3 ELSE 1
      BY <1>2 DEF StartSeed
    <3>2. next' <= Fixtures + 1 /\ (mode' = "dashboard" => next' > 2) /\ (mode' = "accounts" => next' < 3)
      BY <3>1
    <3>3. WrittenBefore(next)'
      BY <3>1 DEF WrittenBefore, Fixture
    <3> QED
      BY <1>1, <3>1, <3>2, <3>3 DEF Upserting
  <2> QED
    BY <1>1, <1>2, <2>1, <2>2 DEF StartSeed, Refreshed
<1>3. CASE StartDevSeed
  <2>1. SeedTypeOK' /\ Seedable'
    BY <1>1, <1>3 DEF StartDevSeed, SeedTypeOK, Seedable
  <2>2. Marketing'
    <3>1. mode' \in {"plain", "admin", "root"} /\ next' = 1 /\ Stored' \subseteq found'
      BY <1>1, <1>3 DEF StartDevSeed
    <3> QED
      BY <3>1 DEF Marketing
  <2> QED
    BY <1>1, <1>3, <2>1, <2>2 DEF StartDevSeed, Refreshed
<1> QED
  BY <1>2, <1>3

(* One more fixture of the run's revision; the last one of an accounts run ends it. *)
LEMMA UpsertFixtureSound == ASSUME SeedInv, UpsertFixture PROVE SeedInv'
<1> USE SeedNumbers
<1>1. /\ Upsert(next) /\ UNCHANGED <<target, found, market, log, mode, revision>>
      /\ seeding = "upsert" /\ next <= Fixtures /\ next' = next + 1 /\ Seedable' /\ SeedTypeOK /\ Upserting
      /\ found \subseteq Stored
  BY DEF UpsertFixture, SeedInv, Seedable
<1>2. next \in Fixture
  BY <1>1 DEF SeedTypeOK
<1>3. PICK f \in Fixture : f = next
  BY <1>2
<1>4. /\ fixture' \in [Fixture -> [Field -> 0 .. LastRevision]]
      /\ Stored' = Stored \cup {f} /\ Current(f)'
      /\ \A g \in Fixture \ {f} : Current(g)' <=> Current(g)
  <2>1. Upsert(f) /\ (f \in Stored => f \in found)
    BY <1>1, <1>3 DEF Upserting
  <2> QED
    BY <1>1, <2>1, Upserts
<1>5. audited' \in BOOLEAN /\ seeding' \in {"upsert", "done"}
  <2>1. audited \in BOOLEAN
    BY <1>1 DEF SeedTypeOK
  <2>2. audited' = (IF next \in Operator THEN audited ELSE 1 \in Stored)
    BY Zenon DEF UpsertFixture
  <2>3. (1 \in Stored) \in BOOLEAN
    OBVIOUS
  <2>4. audited' \in BOOLEAN
    BY <2>1, <2>2, <2>3, Zenon
  <2>5. seeding' \in {"upsert", "done"}
    BY <1>1 DEF UpsertFixture
  <2> QED
    BY <2>4, <2>5
<1>6. SeedTypeOK' /\ (found \subseteq Stored)'
  <2>1. next' \in Nat \ {0}
    BY <1>1, <1>2
  <2>2. SeedTypeOK'
    BY <1>1, <1>4, <1>5, <2>1 DEF SeedTypeOK
  <2>3. found' \subseteq Stored'
    BY <1>1, <1>4
  <2> QED
    BY <2>2, <2>3
<1>7. \A g \in Fixture : g < next' /\ (mode' = "dashboard" => g > 2) => (g \in Stored)' /\ Current(g)'
  <2>1. SUFFICES ASSUME NEW g \in Fixture, g < next', mode' = "dashboard" => g > 2 PROVE (g \in Stored)' /\ Current(g)'
    OBVIOUS
  <2>2. CASE g = f
    BY <1>4, <2>2
  <2>3. CASE g # f
    <3>1. g < next /\ (mode = "dashboard" => g > 2)
      BY <1>1, <1>3, <2>1, <2>3 DEF SeedTypeOK
    <3>2. g \in Stored /\ Current(g)
      BY <1>1, <3>1 DEF Upserting, WrittenBefore
    <3> QED
      BY <1>4, <2>3, <3>2
  <2> QED
    BY <2>2, <2>3
<1>8. next' > 3 => audited' = (1 \in Stored')
  <2>1. SUFFICES ASSUME next' > 3 PROVE audited' = (1 \in Stored')
    OBVIOUS
  <2>2. next \notin Operator /\ f # 1
    BY <1>1, <1>3, <2>1 DEF SeedTypeOK
  <2>3. 1 \in Stored' <=> 1 \in Stored
    BY <1>4, <2>2
  <2>4. audited' = (1 \in Stored)
    BY <2>2 DEF UpsertFixture
  <2> QED
    BY <2>3, <2>4
<1>9. CASE mode = "accounts" /\ next = 2
  <2>1. \A g \in Operator : (g \in Stored)' /\ Current(g)'
    BY <1>1, <1>7, <1>9
  <2>2. Written' = Operator /\ mode' = "accounts"
    BY <1>1, <1>9 DEF Written
  <2>3. fixture'[1][Password] = revision' /\ fixture'[2][Password] = revision'
    <3>1. \A g \in Operator : Password \in Named(g)'
      BY <1>1, <1>9 DEF Named, SeedTypeOK
    <3> QED
      BY <2>1, <3>1 DEF Current
  <2>4. seeding' = "done"
    BY <1>9 DEF UpsertFixture
  <2>5. Refreshed'
    BY <1>1, <2>1, <2>2, <2>3 DEF Refreshed, Seedable
  <2> QED
    BY <1>1, <1>6, <2>4, <2>5 DEF SeedInv
<1>10. CASE ~(mode = "accounts" /\ next = 2)
  <2>1. seeding' = "upsert"
    BY <1>1, <1>10 DEF UpsertFixture
  <2>2. \A g \in Stored' \ found' : g < next'
    <3>1. SUFFICES ASSUME NEW g \in Stored', g \notin found' PROVE g < next'
      OBVIOUS
    <3>2. Stored \subseteq Fixture
      BY DEF Stored
    <3>3. g = f \/ (g \in Stored \ found /\ g \in Fixture)
      BY <1>1, <1>4, <3>1, <3>2
    <3>4. g = f \/ (g < next /\ g \in Nat)
      BY <1>1, <3>3 DEF Upserting
    <3> QED
      BY <1>1, <1>2, <1>3, <3>4
  <2>3. /\ mode' \in {"all", "accounts", "dashboard"}
        /\ next' <= Fixtures + 1 /\ (mode' = "dashboard" => next' > 2) /\ (mode' = "accounts" => next' < 3)
    BY <1>1, <1>10 DEF Upserting, SeedTypeOK
  <2>4. WrittenBefore(next)'
    BY <1>7, <1>8 DEF WrittenBefore
  <2>5. Upserting'
    BY <2>2, <2>3, <2>4 DEF Upserting
  <2>6. Refreshed'
    BY <2>1 DEF Refreshed
  <2> QED
    BY <1>1, <1>6, <2>1, <2>5, <2>6 DEF SeedInv
<1> QED
  BY <1>9, <1>10

(* The log is empty before its first row, and a free id before each row.   *)
LEMMA LogSound == ASSUME SeedInv, ClearLog \/ InsertLog \/ EndSeed PROVE SeedInv'
<1> USE SeedNumbers DEF SeedInv
<1>1. UNCHANGED <<target, fixture, found, market, audited, mode, revision>>
  BY DEF ClearLog, InsertLog, EndSeed
<1>2. SeedTypeOK' /\ Seedable' /\ (found \subseteq Stored)'
  <2>1. log' \in [Id -> 0 .. LastRevision] /\ next' \in Nat \ {0} /\ seeding' \in {"log", "done", "dead"}
    BY DEF ClearLog, InsertLog, EndSeed, SeedTypeOK
  <2>2. SeedTypeOK'
    BY <1>1, <2>1 DEF SeedTypeOK
  <2>3. Seedable' /\ (found \subseteq Stored)'
    BY <1>1, Unmoved DEF ClearLog, InsertLog, EndSeed, Seedable
  <2> QED
    BY <2>2, <2>3
<1>3. \A n : WrittenBefore(n)' <=> WrittenBefore(n)
  BY <1>1, Unmoved
<1>4. CASE ClearLog
  <2>1. WrittenBefore(Fixtures + 1)
    BY <1>4 DEF ClearLog, Upserting, WrittenBefore, SeedTypeOK
  <2>2. Logging'
    BY <1>3, <1>4, <2>1 DEF ClearLog, Upserting, Logging, SeedTypeOK
  <2> QED
    BY <1>2, <1>4, <2>2 DEF ClearLog, Refreshed
<1>5. CASE InsertLog
  <2>1. next \in Id /\ log[next] = Absent
    <3>1. Logging /\ next \in Nat \ {0} /\ next <= LogRows[revision] /\ revision \in 1 .. LastRevision
      BY <1>5 DEF InsertLog, SeedTypeOK
    <3>2. next \in Id
      BY <3>1
    <3> QED
      BY <3>1, <3>2 DEF Logging
  <2>2. Logging'
    BY <1>3, <1>5, <2>1 DEF InsertLog, Logging, SeedTypeOK
  <2> QED
    BY <1>2, <1>5, <2>1, <2>2 DEF InsertLog, Refreshed
<1>6. CASE EndSeed
  <2>1. Logging /\ mode \in {"all", "dashboard"} /\ seeding' = "done"
    BY <1>6 DEF EndSeed, Logging
  <2>2. \A f \in Written : f \in Stored /\ Current(f)
    BY <2>1, WrittenIs DEF Logging, WrittenBefore
  <2>3. \A f \in Written' : (f \in Stored)' /\ Current(f)'
    BY <1>1, <2>2, Unmoved
  <2>4. \A i \in Id : log'[i] = IF i <= LogRows[revision'] THEN revision' ELSE Absent
    BY <1>6 DEF EndSeed, Logging, SeedTypeOK
  <2>5. audited' = (1 \in Stored)'
    BY <1>1, <2>1, Unmoved DEF Logging, WrittenBefore
  <2>6. mode' = "all" => fixture'[1][Password] = fixture'[2][Password]
    <3>1. mode = "all" => \A f \in Operator : Password \in Named(f) /\ Current(f)
      BY <2>2, WrittenIs, Rotated
    <3>2. mode = "all" => fixture[1][Password] = revision /\ fixture[2][Password] = revision
      BY <3>1 DEF Current
    <3> QED
      BY <1>1, <3>2
  <2>7. Refreshed'
    BY <1>1, <1>2, <2>1, <2>3, <2>4, <2>5, <2>6 DEF Refreshed, Seedable
  <2> QED
    BY <1>2, <2>1, <2>7
<1> QED
  BY <1>4, <1>5, <1>6

(* The other script: every fixture is there before the passwords are rotated. *)
LEMMA UpsertMarketSound == ASSUME SeedInv, UpsertMarket PROVE SeedInv'
<1> USE SeedNumbers DEF SeedInv
<1>1. /\ next \in Market /\ Marketing /\ SeedTypeOK
      /\ UNCHANGED <<target, fixture, found, log, audited, mode, revision>>
  BY DEF UpsertMarket, Marketing, SeedTypeOK, Market
<1>2. SeedTypeOK' /\ Seedable' /\ (found \subseteq Stored)'
  <2>1. market' \subseteq Market /\ next' \in Nat \ {0}
        /\ seeding' \in {"market", "done", "operator"}
    BY <1>1 DEF UpsertMarket, SeedTypeOK
  <2> QED
    BY <1>1, <2>1, Unmoved DEF UpsertMarket, SeedTypeOK, Seedable
<1>3. \A f \in Market : f <= next => f \in market'
  BY <1>1 DEF UpsertMarket, Marketing, SeedTypeOK
<1>4. CASE next < Markets
  <2>1. Marketing'
    <3>1. next' = next + 1 /\ next' <= Markets
      BY <1>1, <1>4 DEF UpsertMarket
    <3>2. \A f \in Market : f < next' => f \in market'
      BY <1>1, <1>3, <3>1
    <3>3. Stored' \subseteq found'
      BY <1>1, Unmoved DEF Marketing
    <3> QED
      BY <1>1, <3>1, <3>2, <3>3 DEF Marketing
  <2> QED
    BY <1>2, <1>4, <2>1 DEF UpsertMarket, Refreshed
<1>5. CASE ~(next < Markets)
  <2>1. \A f \in Market : f \in market'
    BY <1>1, <1>3, <1>5 DEF SeedTypeOK, Market
  <2>2. CASE mode = "plain"
    <3>1. seeding' = "done" /\ mode' = "plain" /\ Written' = {}
      BY <1>1, <1>5, <2>2, WrittenIs, Unmoved DEF UpsertMarket
    <3>2. Refreshed'
      BY <1>2, <2>1, <3>1 DEF Refreshed, Seedable
    <3> QED
      BY <1>2, <3>1, <3>2
  <2>3. CASE mode # "plain"
    <3>1. Rotating'
      <4>1. mode' \in {"admin", "root"} /\ next' = IF mode' = "admin" THEN 2 ELSE 1
        BY <1>1, <1>5, <2>3 DEF UpsertMarket, Marketing
      <4>2. Stored' \ found' = {}
        BY <1>1, Unmoved DEF Marketing
      <4> QED
        BY <2>1, <4>1, <4>2 DEF Rotating
    <3> QED
      BY <1>2, <1>5, <2>3, <3>1 DEF UpsertMarket, Refreshed
  <2> QED
    BY <2>2, <2>3
<1> QED
  BY <1>4, <1>5

(* The dashboard's row is rotated last, after the account where there is one. *)
LEMMA RotateOperatorSound == ASSUME SeedInv, RotateOperator PROVE SeedInv'
<1> USE SeedNumbers
<1>1. /\ Upsert(next) /\ Rotating /\ SeedTypeOK /\ found \subseteq Stored /\ Seedable'
      /\ UNCHANGED <<target, found, market, log, audited, mode, revision>> /\ next' = 2
  BY DEF RotateOperator, SeedInv, Seedable
<1>2. next \in Fixture /\ next \in Operator
  BY <1>1 DEF Rotating
<1>3. PICK f \in Operator : f = next
  BY <1>2
<1>4. /\ fixture' \in [Fixture -> [Field -> 0 .. LastRevision]]
      /\ Stored' = Stored \cup {f} /\ Current(f)'
      /\ \A g \in Fixture \ {f} : Current(g)' <=> Current(g)
  <2>1. Upsert(f) /\ f \in Fixture /\ (f \in Stored => f \in found)
    BY <1>1, <1>2, <1>3 DEF Rotating
  <2> QED
    BY <1>1, <2>1, Upserts
<1>5. SeedTypeOK' /\ (found \subseteq Stored)'
  <2>1. seeding' \in {"operator", "done"}
    BY DEF RotateOperator
  <2>2. audited' \in BOOLEAN
    BY <1>1, Zenon DEF SeedTypeOK
  <2>3. next' \in Nat \ {0}
    BY <1>1
  <2>4. SeedTypeOK'
    BY <1>1, <1>4, <2>1, <2>2, <2>3 DEF SeedTypeOK
  <2>5. found' \subseteq Stored'
    BY <1>1, <1>4
  <2> QED
    BY <2>4, <2>5
<1>6. mode' \in {"admin", "root"} /\ \A g \in Market : g \in market'
  BY <1>1 DEF Rotating
<1>7. CASE next = 2
  <2>1. mode' = "root" => 1 \in Stored' /\ Current(1)'
    <3>1. ASSUME mode = "root" PROVE 1 \in Stored /\ Current(1) /\ 1 \in Fixture \ {f}
      BY <1>1, <1>3, <1>7, <3>1 DEF Rotating
    <3> QED
      BY <1>1, <1>4, <3>1
  <2>2. 2 \in Stored' /\ Current(2)'
    BY <1>3, <1>4, <1>7
  <2>3. Written' = IF mode' = "admin" THEN {2} ELSE Operator
    BY <1>6 DEF Written
  <2>4. \A g \in Written' : g \in Stored' /\ Current(g)'
    BY <1>6, <2>1, <2>2, <2>3
  <2>5. mode' = "root" => fixture'[1][Password] = fixture'[2][Password]
    <3>1. ASSUME mode' = "root" PROVE \A g \in Operator : Password \in Named(g)'
      BY <3>1 DEF Named
    <3>2. ASSUME mode' = "root" PROVE fixture'[1][Password] = revision' /\ fixture'[2][Password] = revision'
      BY <2>1, <2>2, <3>1, <3>2 DEF Current
    <3> QED
      BY <3>2
  <2>6. Refreshed'
    BY <1>1, <1>6, <2>4, <2>5 DEF Refreshed, Seedable
  <2>7. seeding' = "done"
    BY <1>7 DEF RotateOperator
  <2> QED
    BY <1>1, <1>5, <2>6, <2>7 DEF SeedInv
<1>8. CASE next # 2
  <2>1. seeding' = "operator" /\ mode' = "root" /\ f = 1
    <3>1. mode = "root" /\ next = 1 /\ f = 1
      BY <1>1, <1>2, <1>3, <1>8 DEF Rotating
    <3>2. seeding' = "operator"
      BY <1>8 DEF RotateOperator
    <3> QED
      BY <1>1, <3>1, <3>2
  <2>2. \A g \in Stored' \ found' : g < next'
    <3>1. SUFFICES ASSUME NEW g \in Stored', g \notin found' PROVE g < next'
      OBVIOUS
    <3>2. Stored \subseteq Fixture
      BY DEF Stored
    <3>3. g = f \/ (g \in Stored \ found /\ g \in Fixture)
      BY <1>1, <1>4, <3>1, <3>2
    <3>4. g = f \/ (g < 1 /\ g \in Nat \ {0})
      BY <1>1, <1>3, <2>1, <3>3 DEF Rotating
    <3> QED
      BY <1>1, <2>1, <3>4
  <2>3. Rotating'
    BY <1>1, <1>4, <1>6, <2>1, <2>2 DEF Rotating
  <2>4. Refreshed'
    BY <2>1 DEF Refreshed
  <2> QED
    BY <1>1, <1>5, <2>1, <2>3, <2>4 DEF SeedInv
<1> QED
  BY <1>7, <1>8

(* Every step keeps the invariant.                                         *)
LEMMA SeedStep == SeedInv /\ [SeedNext]_seedVars => SeedInv'
<1> SUFFICES ASSUME SeedInv, [SeedNext]_seedVars PROVE SeedInv'
  OBVIOUS
<1>1. CASE SeedDies
  BY <1>1, Unmoved DEF SeedDies, SeedInv, SeedTypeOK, Seedable, Refreshed
<1>2. CASE UNCHANGED seedVars
  BY <1>2, Unmoved DEF seedVars, SeedInv, SeedTypeOK, Seedable, Upserting, Logging, Marketing, Rotating, Refreshed
<1> QED
  BY <1>1, <1>2, StartsSound, UpsertFixtureSound, LogSound, UpsertMarketSound, RotateOperatorSound DEF SeedNext

(* Whatever earlier runs of either script left half done, SeedInv holds.   *)
THEOREM SeedingIsSound == SeedSpec => []SeedInv
BY InitSeed, SeedStep, PTL DEF SeedSpec

(* A run that ends well leaves every row it writes there: whole, at its own *)
(* revision, if it made it, and otherwise with each column its update names *)
(* at that revision; and the log exactly as its plan has it                 *)
(* (seed/accounts.js:85-96, seed/dashboard.js:269-355,                      *)
(* lib/db/schema/seed.js:72-183).                                           *)
THEOREM SeedsRefresh == SeedSpec => []Refreshed
<1>1. SeedInv => Refreshed
  BY DEF SeedInv
<1> QED
  BY <1>1, SeedingIsSound, PTL
=============================================================================
