----------------------------- MODULE EventDedupe -----------------------------
(***************************************************************************)
(* The ingest of listing events: recordEvent and shouldRecord of           *)
(* services/analytics/analytics.service.js.  The window is kept in memory  *)
(* and taken before the insert, which is another step; the map holds at    *)
(* most MaxEntries keys, and the first of them leaves first.               *)
(***************************************************************************)
EXTENDS Integers, FiniteSets, SequencesExt

CONSTANTS
    Viewer,      \* dedupe keys: event type, product, and the viewer or a hash of the address
    SellerKey,   \* the key of the listing's own seller
    Hold,        \* DEDUP_WINDOW_MS of the type
    MaxEntries,  \* MAX_DEDUP_ENTRIES
    LastTick     \* bound of the clock

ASSUME DedupeAssumption == Hold \in Nat \ {0} /\ MaxEntries \in Nat \ {0} /\ LastTick \in Nat

VARIABLES
    seen,       \* the map, in its iteration order
    tick,       \* Date.now(), from 1: a falsy `previous` means none
    inserting,  \* keys whose insert is under way
    recorded,   \* history: when each key's last event was let through
    others,     \* history: keys seen since each key was
    behind,     \* history: keys seen since each key was put at the end of the map
    early,      \* history: keys let through again within their window, though fewer
                \* than MaxEntries - 1 others were seen since they were
    lost        \* history: the same, since they were put at the end of the map

dedupeVars == <<seen, tick, inserting, recorded, others, behind, early, lost>>
KeysOf(q) == {q[i].key : i \in DOMAIN q}
Entries == KeysOf(seen)

DedupeInit ==
    /\ seen = <<>> /\ tick = 1 /\ inserting = {} /\ early = {} /\ lost = {}
    /\ recorded = [v \in Viewer |-> 0]
    /\ others = [v \in Viewer |-> {}]
    /\ behind = [v \in Viewer |-> {}]

Seen(history, v, renewed) == [x \in Viewer |-> IF x # v THEN history[x] \cup {v} ELSE IF renewed THEN {} ELSE history[x]]
Running(v) == \E i \in DOMAIN seen : seen[i].key = v /\ tick - seen[i].at < Hold
Stamped(q, v) == [i \in DOMAIN q |-> IF q[i].key = v THEN [key |-> v, at |-> tick] ELSE q[i]]

\* Mutant: a key seen again keeps its place in the order.
SeenAgain_InPlace(v) ==
    /\ Running(v)
    /\ seen' = Stamped(seen, v)
    /\ others' = Seen(others, v, TRUE) /\ behind' = Seen(behind, v, TRUE)
    /\ UNCHANGED <<tick, inserting, recorded, early, lost>>

\* Within the window: not recorded, but the key is put at the end again.
SeenAgain(v) ==
    /\ Running(v)
    /\ \E i \in DOMAIN seen :
         seen[i].key = v /\ seen' = Append(RemoveAt(seen, i), [key |-> v, at |-> tick])
    /\ others' = Seen(others, v, TRUE) /\ behind' = Seen(behind, v, TRUE)
    /\ UNCHANGED <<tick, inserting, recorded, early, lost>>

Again(v, history) == recorded[v] > 0 /\ tick - recorded[v] < Hold /\ Cardinality(history[v]) < MaxEntries - 1

\* Let through: the first entry leaves at the cap, whether or not v is in the map,
\* and v keeps its place when it still is.  The seller's own traffic never gets here.
LetThrough(v) ==
    /\ v # SellerKey /\ ~Running(v)
    /\ LET kept == IF Len(seen) >= MaxEntries THEN Tail(seen) ELSE seen
       IN  /\ seen' = IF v \in KeysOf(kept) THEN Stamped(kept, v) ELSE Append(kept, [key |-> v, at |-> tick])
           /\ behind' = Seen(behind, v, v \notin KeysOf(kept))
    /\ others' = Seen(others, v, TRUE)
    /\ inserting' = inserting \cup {v}
    /\ recorded' = [recorded EXCEPT ![v] = tick]
    /\ early' = IF Again(v, others) THEN early \cup {v} ELSE early
    /\ lost' = IF Again(v, behind) THEN lost \cup {v} ELSE lost
    /\ UNCHANGED tick

\* The insert ends, stored or failed; the window stands either way.
InsertEnds(v) ==
    /\ v \in inserting
    /\ inserting' = inserting \ {v}
    /\ UNCHANGED <<seen, tick, recorded, others, behind, early, lost>>

TickOn == tick < LastTick /\ tick' = tick + 1 /\ UNCHANGED <<seen, inserting, recorded, others, behind, early, lost>>

DedupeNext == (\E v \in Viewer : SeenAgain(v) \/ LetThrough(v) \/ InsertEnds(v)) \/ TickOn
DedupeSpec == DedupeInit /\ [][DedupeNext]_dedupeVars

-----------------------------------------------------------------------------
\* A viewer is counted again within the window only after MaxEntries - 1 other keys
\* were seen since it was put at the end of the map, and the map holds each key
\* once and never more than MaxEntries (analytics.service.js:416-434).
WindowHolds ==
    /\ lost = {}
    /\ Len(seen) <= MaxEntries
    /\ \A i, j \in DOMAIN seen : i # j => seen[i].key # seen[j].key

\* What analytics.service.js:420-423 says of the order: least recently used first,
\* so a hot key is not what leaves at the cap.
HotKeysHold == early = {}

-----------------------------------------------------------------------------
(* The invariant behind WindowHolds.                                       *)

DedupeTypeOK ==
    /\ seen \in Seq([key : Viewer, at : Nat \ {0}]) /\ tick \in Nat \ {0}
    /\ recorded \in [Viewer -> Nat] /\ behind \in [Viewer -> SUBSET Viewer]

\* What stands behind a key was seen since the key was put at the end.
OrderKept ==
    \A i, j \in DOMAIN seen : i < j => seen[j].key \in behind[seen[i].key]

\* A key counted is in the map, with a date no older than its count, unless enough
\* others came behind it to push it out.
CountedIsSeen ==
    \A v \in Viewer :
        /\ IsFiniteSet(behind[v]) /\ v \notin behind[v] /\ recorded[v] <= tick
        /\ recorded[v] > 0 /\ Cardinality(behind[v]) < MaxEntries - 1 =>
             \E i \in DOMAIN seen : seen[i].key = v /\ seen[i].at >= recorded[v]

DedupeInv == DedupeTypeOK /\ OrderKept /\ CountedIsSeen /\ WindowHolds
=============================================================================
