-------------------------- MODULE AdmissionProofs ---------------------------
(***************************************************************************)
(* Request admission and analytics, for every limit, window, cap and       *)
(* catalogue: no client gets more than two windows, a viewer's window      *)
(* holds as long as the map can hold it, and the overview is the sum of    *)
(* its listings.                                                           *)
(***************************************************************************)
EXTENDS RateLimit, EventDedupe, Analytics, FiniteSetTheorems, SequenceTheorems, TLAPS

(* The rate limiter.                                                       *)

(* A limiter that has seen nothing satisfies the invariant.                *)
LEMMA InitLimit == LimitInit => LimitInv
<1> SUFFICES ASSUME LimitInit PROVE LimitInv
  OBVIOUS
<1>1. Tracked = {} /\ moment = 0 /\ \A a \in Address : admitted[a] = <<>>
  BY DEF LimitInit, Tracked
<1>2. LimitTypeOK
  BY <1>1 DEF LimitInit, LimitTypeOK
<1>3. \A a \in Address : InOrder(a) /\ ~InWindow(a) /\ Passed(a, Len(admitted[a]) - Limit, moment)
  BY <1>1 DEF InOrder, InWindow, Passed
<1> QED
  BY <1>1, <1>2, <1>3 DEF LimitInv, AtMostTwoWindows

(* A key whose bucket and history stay: only the clock can matter to it.   *)
LEMMA KeyStays ==
  ASSUME LimitInv, NEW a \in Address, InOrder(a), admitted'[a] = admitted[a],
         moment' = moment, InWindow(a)' <=> InWindow(a), InWindow(a) => buckets'[a] = buckets[a]
  PROVE  InOrder(a)' /\ IF InWindow(a)' THEN WindowSound(a)' ELSE Passed(a, Len(admitted[a]) - Limit, moment)'
<1>1. IF InWindow(a) THEN WindowSound(a) ELSE Passed(a, Len(admitted[a]) - Limit, moment)
  BY DEF LimitInv
<1> QED
  BY <1>1 DEF InOrder, WindowSound, Passed

(* What a running window says, with its terms named.                       *)
LEMMA WindowFacts ==
  ASSUME NEW a \in Address, WindowSound(a), NEW own, own = Smaller(buckets[a].count, Limit),
         NEW open, open = buckets[a].resetAt - Window
  PROVE  /\ open <= moment /\ Len(admitted[a]) - own >= 0
         /\ \A i \in DOMAIN admitted[a] : i <= Len(admitted[a]) - own => admitted[a][i] <= open
         /\ \A i \in DOMAIN admitted[a] : i <= Len(admitted[a]) - own - Limit => admitted[a][i] + Window <= open
  BY DEF WindowSound, Passed

(* The clock only moves on; a window that it ends leaves all but the last  *)
(* Limit requests of its key a window old.                                 *)
LEMMA PassSound == ASSUME LimitInv, Pass PROVE LimitInv'
<1> USE RateLimitAssumption
<1>1. LimitTypeOK /\ buckets' = buckets /\ admitted' = admitted /\ moment' = moment + 1 /\ moment \in Nat
  BY DEF LimitInv, LimitTypeOK, Pass
<1>2. LimitTypeOK' /\ AtMostTwoWindows'
  BY <1>1 DEF LimitInv, LimitTypeOK, AtMostTwoWindows, Tracked
<1>3. ASSUME NEW a \in Address
      PROVE  InOrder(a)' /\ IF InWindow(a)' THEN WindowSound(a)' ELSE Passed(a, Len(admitted[a]) - Limit, moment)'
  <2>1. admitted[a] \in Seq(Nat) /\ InOrder(a)
    BY <1>1 DEF LimitInv, LimitTypeOK
  <2>2. InOrder(a)'
    BY <1>1, <2>1 DEF InOrder
  <2>3. CASE InWindow(a)
    <3>1. buckets[a] \in [count : 1 .. Limit + 1, resetAt : Nat] /\ WindowSound(a)
      BY <1>1, <2>3 DEF LimitInv, LimitTypeOK, InWindow
    <3>2. CASE InWindow(a)'
      BY <1>1, <2>1, <2>2, <3>1, <3>2 DEF WindowSound, Passed, Smaller
    <3>3. CASE ~InWindow(a)'
      <4>1. buckets[a].resetAt <= moment'
        BY <1>1, <2>3, <3>1, <3>3 DEF InWindow, Tracked
      <4>2. ASSUME NEW i \in DOMAIN admitted[a], i <= Len(admitted[a]) - Limit
            PROVE  admitted[a][i] + Window <= moment'
        <5>1. admitted[a][i] <= buckets[a].resetAt - Window
          <6> DEFINE own == Smaller(buckets[a].count, Limit)
          <6>1. own \in Nat /\ own <= Limit /\ Len(admitted[a]) \in Nat
            BY <2>1, <3>1 DEF Smaller
          <6>2. \A k \in DOMAIN admitted[a] :
                   k <= Len(admitted[a]) - own => admitted[a][k] <= buckets[a].resetAt - Window
            BY <3>1, WindowFacts
          <6>3. i \in Nat /\ i <= Len(admitted[a]) - own
            <7> HIDE DEF own
            <7> QED
              BY <2>1, <4>2, <6>1
          <6> QED
            BY <6>2, <6>3
        <5>2. admitted[a][i] \in Nat /\ buckets[a].resetAt \in Nat
          BY <2>1, <3>1
        <5> QED
          BY <1>1, <4>1, <5>1, <5>2
      <4> QED
        BY <1>1, <2>2, <3>3, <4>2 DEF Passed
    <3> QED
      BY <3>2, <3>3
  <2>4. CASE ~InWindow(a)
    <3>1. ~InWindow(a)'
      BY <1>1, <2>4 DEF InWindow, Tracked, LimitTypeOK
    <3>2. Passed(a, Len(admitted[a]) - Limit, moment)
      BY <2>4 DEF LimitInv
    <3> QED
      BY <1>1, <2>1, <2>2, <3>1, <3>2 DEF Passed
  <2> QED
    BY <2>3, <2>4
<1> QED
  BY <1>2, <1>3 DEF LimitInv

(* The sweep takes no window that runs.                                    *)
LEMMA SweepSound == ASSUME LimitInv, Sweep PROVE LimitInv'
<1>1. LimitTypeOK /\ admitted' = admitted /\ moment' = moment
  BY DEF LimitInv, Sweep
<1>2. Tracked' = {x \in Tracked : buckets[x].resetAt > moment} /\ \A x \in Tracked' : buckets'[x] = buckets[x]
  BY DEF Sweep, Tracked
<1>3. LimitTypeOK' /\ AtMostTwoWindows'
  BY <1>1, <1>2 DEF LimitInv, LimitTypeOK, AtMostTwoWindows
<1>4. \A a \in Address : (InWindow(a)' <=> InWindow(a)) /\ (InWindow(a) => buckets'[a] = buckets[a])
  BY <1>1, <1>2 DEF InWindow
<1>5. \A a \in Address : InOrder(a)' /\ IF InWindow(a)' THEN WindowSound(a)' ELSE Passed(a, Len(admitted[a]) - Limit, moment)'
  BY <1>1, <1>4, KeyStays DEF LimitInv
<1> QED
  BY <1>3, <1>5 DEF LimitInv

(* A request opens a window, is counted in the one that runs, or is        *)
(* refused: the window never admits more than Limit.                       *)
LEMMA AdmitSound == ASSUME LimitInv, NEW a \in Address, Admit(a) PROVE LimitInv'
<1> DEFINE b == [Current(a) EXCEPT !.count = @ + 1]
           s == admitted[a]
<1> USE RateLimitAssumption
<1>1. /\ LimitTypeOK /\ moment \in Nat /\ s \in Seq(Nat) /\ moment' = moment
      /\ b.count <= Limit + 1 /\ buckets' = With(a, b)
      /\ admitted' = IF b.count <= Limit THEN [admitted EXCEPT ![a] = Append(@, moment)] ELSE admitted
  BY DEF LimitInv, LimitTypeOK, Admit
<1>2. /\ b = [count |-> Current(a).count + 1, resetAt |-> Current(a).resetAt]
      /\ b \in [count : 1 .. Limit + 1, resetAt : Nat] /\ b.resetAt > moment
      /\ b.resetAt - Window <= moment
  <2>1. CASE InWindow(a)
    <3>1. Current(a) = buckets[a] /\ buckets[a] \in [count : 1 .. Limit + 1, resetAt : Nat] /\ WindowSound(a)
      BY <1>1, <2>1 DEF Current, InWindow, LimitTypeOK, LimitInv
    <3>2. buckets[a].resetAt > moment /\ buckets[a].resetAt - Window <= moment
      BY <2>1, <3>1 DEF InWindow, WindowSound
    <3>3. b = [count |-> buckets[a].count + 1, resetAt |-> buckets[a].resetAt]
      BY <3>1
    <3> QED
      BY <1>1, <3>1, <3>2, <3>3
  <2>2. CASE ~InWindow(a)
    <3>1. Current(a) = [count |-> 0, resetAt |-> moment + Window]
      BY <2>2 DEF Current, InWindow
    <3>2. b = [count |-> 1, resetAt |-> moment + Window]
      BY <3>1
    <3> QED
      BY <1>1, <3>1, <3>2
  <2> QED
    BY <2>1, <2>2
<1>3. /\ Tracked' = Tracked \cup {a} /\ buckets'[a] = b
      /\ \A x \in Tracked : x # a => buckets'[x] = buckets[x]
  BY <1>1 DEF With, Tracked
<1>4. admitted' \in [Address -> Seq(Nat)] /\ \A x \in Address : x # a => admitted'[x] = admitted[x]
  BY <1>1 DEF LimitTypeOK
<1>5. LimitTypeOK'
  BY <1>1, <1>2, <1>3, <1>4 DEF LimitTypeOK
<1>6. ASSUME NEW x \in Address, x # a
      PROVE  InOrder(x)' /\ IF InWindow(x)' THEN WindowSound(x)' ELSE Passed(x, Len(admitted[x]) - Limit, moment)'
  <2>1. (InWindow(x)' <=> InWindow(x)) /\ (InWindow(x) => buckets'[x] = buckets[x])
    BY <1>1, <1>3, <1>6 DEF InWindow
  <2> QED
    BY <1>1, <1>4, <1>6, <2>1, KeyStays DEF LimitInv
<1>7. InWindow(a)' /\ InOrder(a)
  BY <1>1, <1>2, <1>3 DEF InWindow, LimitInv
\* Where the window stands before the request is counted.
<1> DEFINE open == b.resetAt - Window
           own == b.count - 1
           earlier == Len(s) - Smaller(own, Limit)
<1>8. /\ own \in Nat /\ own <= Limit /\ earlier >= 0 /\ earlier \in Nat /\ open \in Int /\ open <= moment
      /\ \A i \in DOMAIN s : i <= earlier => s[i] <= open
      /\ \A i \in DOMAIN s : i <= earlier - Limit => s[i] + Window <= open
  <2>1. CASE InWindow(a)
    <3>1. Current(a) = buckets[a] /\ buckets[a] \in [count : 1 .. Limit + 1, resetAt : Nat] /\ WindowSound(a)
      BY <1>1, <2>1 DEF Current, InWindow, LimitTypeOK, LimitInv
    <3>2. own = buckets[a].count /\ b.resetAt = buckets[a].resetAt /\ own <= Limit
      BY <1>1, <1>2, <3>1
    <3>3. Smaller(buckets[a].count, Limit) = own /\ Smaller(own, Limit) = own /\ earlier = Len(s) - own
      BY <3>1, <3>2 DEF Smaller
    <3>4. /\ open <= moment /\ Len(s) - own >= 0
          /\ \A i \in DOMAIN s : i <= Len(s) - own => s[i] <= open
          /\ \A i \in DOMAIN s : i <= Len(s) - own - Limit => s[i] + Window <= open
      BY <3>1, <3>2, <3>3, WindowFacts
    <3>5. own \in Nat /\ Len(s) \in Nat /\ open \in Int
      BY SMTT(20), <1>1, <1>2, <3>1, <3>2
    <3> HIDE DEF own, open, earlier, b, s
    <3> QED
      BY <3>2, <3>3, <3>4, <3>5
  <2>2. CASE ~InWindow(a)
    <3>1. Current(a) = [count |-> 0, resetAt |-> moment + Window]
      BY <2>2 DEF Current, InWindow
    <3>2. own = 0 /\ open = moment /\ earlier = Len(s)
      BY <1>1, <1>2, <3>1 DEF Smaller
    <3>3. \A i \in DOMAIN s : s[i] <= moment /\ (i <= Len(s) - Limit => s[i] + Window <= moment)
      BY <1>7, <2>2 DEF LimitInv, Passed, InOrder
    <3>4. Len(s) \in Nat
      BY <1>1
    <3> QED
      BY <1>1, <3>2, <3>3, <3>4
  <2> QED
    BY <2>1, <2>2
<1> HIDE DEF b, s, open, own, earlier
<1>9. CASE b.count <= Limit
  <2>1. admitted'[a] = Append(s, moment)
    BY <1>1, <1>9 DEF LimitTypeOK, s
  <2>2. /\ Len(admitted'[a]) = Len(s) + 1 /\ DOMAIN admitted'[a] = 1 .. Len(s) + 1
        /\ DOMAIN s = 1 .. Len(s) /\ Len(s) \in Nat
        /\ admitted'[a][Len(s) + 1] = moment
        /\ \A i \in DOMAIN s : admitted'[a][i] = s[i] /\ s[i] \in Nat
    <3>1. s \in Seq(Nat) /\ moment \in Nat
      BY <1>1
    <3>2. Append(s, moment) \in Seq(Nat) /\ Len(Append(s, moment)) = Len(s) + 1
      BY <3>1
    <3>3. DOMAIN Append(s, moment) = 1 .. Len(s) + 1 /\ DOMAIN s = 1 .. Len(s) /\ Len(s) \in Nat
      BY <3>1, <3>2
    <3> QED
      BY <2>1, <3>1, <3>2, <3>3
  <2>3. InOrder(a)'
    <3>1. \A i \in DOMAIN s : s[i] <= moment /\ \A j \in DOMAIN s : i < j => s[i] <= s[j]
      BY <1>7 DEF InOrder, s
    <3>2. moment' = moment /\ moment \in Nat
      BY <1>1
    <3> QED
      BY <2>2, <3>1, <3>2 DEF InOrder
  <2>4. Smaller(b.count, Limit) = own + 1 /\ Smaller(own, Limit) = own /\ earlier = Len(s) - own
    BY <1>2, <1>8, <1>9 DEF Smaller, own, earlier
  <2>5. WindowSound(a)'
    <3>1. Len(admitted'[a]) - Smaller(b.count, Limit) = earlier
      BY <1>8, <2>2, <2>4
    <3>2. \A i \in DOMAIN admitted'[a] : i <= earlier => i \in DOMAIN s /\ admitted'[a][i] = s[i]
      BY <1>8, <2>2, <2>4
    <3>3. \A i \in DOMAIN admitted'[a] : i <= earlier => admitted'[a][i] <= open
      BY <1>8, <3>2
    <3>4. \A i \in DOMAIN admitted'[a] : i <= earlier - Limit => admitted'[a][i] + Window <= open
      BY <1>8, <2>2, <3>2
    <3> QED
      BY <1>1, <1>3, <1>8, <3>1, <3>3, <3>4 DEF WindowSound, Passed, open
  <2>6. AtMostTwoWindows'
    <3> SUFFICES ASSUME NEW x \in Address, NEW i \in DOMAIN admitted'[x], i > 2 * Limit
                 PROVE  admitted'[x][i - 2 * Limit] + Window <= admitted'[x][i]
      BY DEF AtMostTwoWindows
    <3>1. CASE x # a
      BY <1>4, <3>1 DEF LimitInv, AtMostTwoWindows
    <3>2. CASE x = a /\ i <= Len(s)
      <4>1. i \in DOMAIN s /\ i - 2 * Limit \in DOMAIN s
        BY <2>2, <3>2
      <4>2. s[i - 2 * Limit] + Window <= s[i]
        BY <4>1 DEF LimitInv, AtMostTwoWindows, s
      <4> QED
        BY <2>2, <3>2, <4>1, <4>2
    <3>3. CASE x = a /\ i = Len(s) + 1
      <4>1. i - 2 * Limit \in DOMAIN s /\ i - 2 * Limit <= earlier - Limit
        <5>1. own + 1 <= Limit /\ own \in Nat /\ Limit \in Nat /\ Len(s) \in Nat
          BY <1>2, <1>8, <1>9, <2>2 DEF own
        <5>2. earlier = Len(s) - own /\ i = Len(s) + 1
          BY <2>4, <3>3
        <5>3. i - 2 * Limit \in 1 .. Len(s)
          BY <5>1, <5>2
        <5>4. i - 2 * Limit <= earlier - Limit
          BY <5>1, <5>2
        <5> QED
          BY <2>2, <5>3, <5>4
      <4>2. s[i - 2 * Limit] + Window <= open
        BY <1>8, <4>1
      <4>3. admitted'[x][i - 2 * Limit] = s[i - 2 * Limit] /\ admitted'[x][i] = moment
        BY <2>2, <3>3, <4>1
      <4>4. s[i - 2 * Limit] \in Nat
        BY <2>2, <4>1
      <4>5. open \in Int /\ open <= moment /\ moment \in Nat
        BY <1>1, <1>8
      <4>6. s[i - 2 * Limit] + Window <= moment
        BY <4>2, <4>4, <4>5
      <4> QED
        BY <4>3, <4>6
    <3> QED
      BY <2>2, <3>1, <3>2, <3>3
  <2> QED
    BY <1>5, <1>6, <1>7, <2>3, <2>5, <2>6 DEF LimitInv
<1>10. CASE ~(b.count <= Limit)
  <2>1. admitted' = admitted /\ own = Limit /\ Smaller(b.count, Limit) = Smaller(own, Limit)
    BY <1>1, <1>2, <1>8, <1>10 DEF own, Smaller
  <2>2. InOrder(a)' /\ AtMostTwoWindows'
    BY <1>1, <1>7, <2>1 DEF InOrder, LimitInv, AtMostTwoWindows
  <2>3. WindowSound(a)'
    BY <1>1, <1>3, <1>8, <2>1 DEF WindowSound, Passed, open, earlier, s
  <2> QED
    BY <1>5, <1>6, <1>7, <2>2, <2>3 DEF LimitInv
<1> QED
  BY <1>9, <1>10

(* Every step keeps the invariant.                                         *)
LEMMA LimitStep == LimitInv /\ [LimitNext]_limitVars => LimitInv'
<1> SUFFICES ASSUME LimitInv, [LimitNext]_limitVars PROVE LimitInv'
  OBVIOUS
<1>1. CASE UNCHANGED limitVars
  BY <1>1 DEF limitVars, LimitInv, LimitTypeOK, InOrder, InWindow, WindowSound, Passed, AtMostTwoWindows, Tracked
<1> QED
  BY <1>1, AdmitSound, SweepSound, PassSound DEF LimitNext

(* LimitInv holds for any number of keys, any limit, window and cap.       *)
THEOREM LimitIsSound == LimitSpec => []LimitInv
BY InitLimit, LimitStep, PTL DEF LimitSpec

(* Two windows' worth of admitted requests later, a window has passed      *)
(* (rateLimit.js:27-46, 73-106).                                           *)
THEOREM TwoWindowsAtMost == LimitSpec => []AtMostTwoWindows
<1>1. LimitInv => AtMostTwoWindows
  BY DEF LimitInv
<1> QED
  BY <1>1, LimitIsSound, PTL

(* The map never holds more keys than its cap (rateLimit.js:73-83).        *)
THEOREM BucketsAreCapped == LimitSpec => [](IsFiniteSet(Tracked) /\ Cardinality(Tracked) <= MaxBuckets)
<1> DEFINE Capped == IsFiniteSet(Tracked) /\ Cardinality(Tracked) <= MaxBuckets
<1> USE RateLimitAssumption
<1>1. LimitInit => Capped
  BY FS_EmptySet DEF LimitInit, Tracked
<1>2. Capped /\ [LimitNext]_limitVars => Capped'
  <2> SUFFICES ASSUME Capped, [LimitNext]_limitVars PROVE Capped'
    OBVIOUS
  <2>1. Cardinality(Tracked) \in Nat
    BY FS_CardinalityType
  <2>2. ASSUME NEW a \in Address, Admit(a) PROVE Capped'
    <3>1. Tracked' = Tracked \cup {a} /\ (a \in Tracked \/ Cardinality(Tracked) < MaxBuckets)
      BY <2>2 DEF Admit, With, Tracked
    <3> QED
      BY <2>1, <3>1, FS_AddElement
  <2>3. CASE Sweep
    <3>1. Tracked' \subseteq Tracked
      BY <2>3 DEF Sweep, Tracked
    <3>2. IsFiniteSet(Tracked') /\ Cardinality(Tracked') <= Cardinality(Tracked)
      BY <3>1, FS_Subset
    <3> QED
      BY <2>1, <3>2, FS_CardinalityType
  <2>4. CASE Pass \/ UNCHANGED limitVars
    BY <2>4 DEF Pass, limitVars, Tracked
  <2> QED
    BY <2>2, <2>3, <2>4 DEF LimitNext
<1> QED
  BY <1>1, <1>2, PTL DEF LimitSpec

-----------------------------------------------------------------------------
(* The dedupe window.                                                      *)

Entry == [key : Viewer, at : Nat \ {0}]

(* What is left of a sequence without its i-th entry.                      *)
LEMMA Removed ==
  ASSUME NEW S, NEW q \in Seq(S), NEW i \in DOMAIN q
  PROVE  /\ RemoveAt(q, i) \in Seq(S) /\ Len(RemoveAt(q, i)) = Len(q) - 1
         /\ \A j \in 1 .. Len(q) - 1 : RemoveAt(q, i)[j] = IF j < i THEN q[j] ELSE q[j + 1]
<1>1. i \in 1 .. Len(q) /\ Len(q) \in Nat
  OBVIOUS
<1> DEFINE a == SubSeq(q, 1, i - 1)
           b == SubSeq(q, i + 1, Len(q))
<1>2. /\ a \in Seq(S) /\ Len(a) = i - 1
      /\ \A j \in 1 .. i - 1 : a[j] = q[j]
  BY <1>1, SubSeqProperties
<1>3. /\ b \in Seq(S) /\ Len(b) = Len(q) - i
      /\ \A j \in 1 .. Len(q) - i : b[j] = q[i + j]
  <2>1. \A j \in i + 1 .. Len(q) : q[j] \in S
    BY <1>1
  <2>2. /\ b \in Seq(S) /\ Len(b) = IF i + 1 <= Len(q) THEN Len(q) - (i + 1) + 1 ELSE 0
        /\ \A j \in 1 .. Len(q) - (i + 1) + 1 : b[j] = q[i + 1 + j - 1]
    BY <1>1, <2>1, SubSeqProperties
  <2> HIDE DEF b
  <2>3. \A j \in 1 .. Len(q) - i : b[j] = q[i + j]
    <3> SUFFICES ASSUME NEW j \in 1 .. Len(q) - i PROVE b[j] = q[i + j]
      OBVIOUS
    <3>1. j \in 1 .. Len(q) - (i + 1) + 1 /\ i + 1 + j - 1 = i + j
      BY <1>1
    <3> QED
      BY <2>2, <3>1
  <2> QED
    BY <1>1, <2>2, <2>3
<1> HIDE DEF a, b
<1>4. /\ a \o b \in Seq(S) /\ Len(a \o b) = Len(q) - 1
      /\ \A j \in 1 .. Len(q) - 1 : (a \o b)[j] = IF j <= i - 1 THEN a[j] ELSE b[j - (i - 1)]
  <2>1. /\ a \o b \in Seq(S) /\ Len(a \o b) = Len(a) + Len(b)
        /\ \A j \in 1 .. Len(a) + Len(b) : (a \o b)[j] = IF j <= Len(a) THEN a[j] ELSE b[j - Len(a)]
    BY <1>2, <1>3, ConcatProperties
  <2>2. Len(a) + Len(b) = Len(q) - 1
    BY <1>1, <1>2, <1>3
  <2> QED
    BY <1>2, <2>1, <2>2
<1>5. ASSUME NEW j \in 1 .. Len(q) - 1
      PROVE  (a \o b)[j] = IF j < i THEN q[j] ELSE q[j + 1]
  <2>1. CASE j < i
    BY <1>1, <1>2, <1>4, <2>1
  <2>2. CASE ~(j < i)
    <3>1. j - (i - 1) \in 1 .. Len(q) - i /\ i + (j - (i - 1)) = j + 1
      BY <1>1, <2>2
    <3>2. (a \o b)[j] = b[j - (i - 1)]
      BY <1>1, <1>4, <2>2
    <3> QED
      BY <1>3, <2>2, <3>1, <3>2
  <2> QED
    BY <2>1, <2>2
<1> QED
  BY <1>4, <1>5 DEF a, b, RemoveAt

(* A map that has seen nothing satisfies the invariant.                    *)
LEMMA InitDedupe == DedupeInit => DedupeInv
  BY FS_EmptySet, DedupeAssumption
  DEF DedupeInit, DedupeInv, DedupeTypeOK, OrderKept, CountedIsSeen, WindowHolds

(* A key that is seen enters the history of every other key, and a renewed *)
(* one starts its own anew.                                                *)
LEMMA SeenGrows ==
  ASSUME behind \in [Viewer -> SUBSET Viewer],
         \A v \in Viewer : IsFiniteSet(behind[v]) /\ v \notin behind[v],
         NEW v \in Viewer, NEW renewed, behind' = Seen(behind, v, renewed)
  PROVE  /\ behind' \in [Viewer -> SUBSET Viewer]
         /\ \A x \in Viewer : IsFiniteSet(behind'[x]) /\ x \notin behind'[x]
         /\ \A x \in Viewer \ {v} :
               behind'[x] = behind[x] \cup {v} /\ Cardinality(behind[x]) <= Cardinality(behind'[x])
         /\ behind'[v] = IF renewed THEN {} ELSE behind[v]
<1>1. \A x \in Viewer : behind'[x] = IF x # v THEN behind[x] \cup {v} ELSE IF renewed THEN {} ELSE behind[x]
  BY DEF Seen
<1>2. ASSUME NEW x \in Viewer \ {v}
      PROVE  IsFiniteSet(behind[x] \cup {v}) /\ Cardinality(behind[x]) <= Cardinality(behind[x] \cup {v})
  <2>1. IsFiniteSet(behind[x]) /\ Cardinality(behind[x]) \in Nat
    BY FS_CardinalityType
  <2>2. /\ IsFiniteSet(behind[x] \cup {v})
        /\ Cardinality(behind[x] \cup {v}) = IF v \in behind[x] THEN Cardinality(behind[x]) ELSE Cardinality(behind[x]) + 1
    BY <2>1, FS_AddElement
  <2> QED
    BY <2>1, <2>2
<1>3. behind' \in [Viewer -> SUBSET Viewer]
  <2>1. \A x \in Viewer : behind'[x] \in SUBSET Viewer
    BY <1>1
  <2> QED
    BY <2>1 DEF Seen
<1>4. ASSUME NEW x \in Viewer
      PROVE  IsFiniteSet(behind'[x]) /\ x \notin behind'[x]
  <2>1. CASE x = v /\ renewed
    BY <1>1, <2>1, FS_EmptySet
  <2>2. CASE x = v /\ ~renewed
    <3>1. behind'[x] = behind[x]
      BY <1>1, <2>2
    <3> QED
      BY <3>1
  <2>3. CASE x # v
    <3>1. behind'[x] = behind[x] \cup {v} /\ x \in Viewer \ {v}
      BY <1>1, <2>3
    <3>2. IsFiniteSet(behind[x] \cup {v})
      BY <1>2, <3>1
    <3>3. x \notin behind[x]
      OBVIOUS
    <3> QED
      BY <2>3, <3>1, <3>2, <3>3
  <2> QED
    BY <2>1, <2>2, <2>3
<1>5. \A x \in Viewer \ {v} : behind'[x] = behind[x] \cup {v}
  BY <1>1
<1> QED
  BY <1>1, <1>2, <1>3, <1>4, <1>5

(* Seen within its window: the key goes to the end, everything behind it   *)
(* moves up.                                                               *)
LEMMA SeenAgainSound == ASSUME DedupeInv, NEW v \in Viewer, SeenAgain(v) PROVE DedupeInv'
<1> USE DedupeAssumption
<1>1. PICK i \in DOMAIN seen :
          seen[i].key = v /\ seen' = Append(RemoveAt(seen, i), [key |-> v, at |-> tick])
  BY DEF SeenAgain
<1> DEFINE q == RemoveAt(seen, i)
           n == Len(seen)
           old(j) == IF j < i THEN j ELSE j + 1
<1>2. /\ seen \in Seq(Entry) /\ tick \in Nat \ {0} /\ n \in Nat /\ i \in 1 .. n /\ DOMAIN seen = 1 .. n
      /\ tick' = tick /\ recorded' = recorded /\ lost' = lost
  BY DEF DedupeInv, DedupeTypeOK, SeenAgain, Entry
<1>3. q \in Seq(Entry) /\ Len(q) = n - 1 /\ \A j \in 1 .. n - 1 : q[j] = seen[old(j)]
  BY <1>2, Removed
<1>4. /\ seen' \in Seq(Entry) /\ Len(seen') = n /\ DOMAIN seen' = 1 .. n
      /\ seen'[n] = [key |-> v, at |-> tick]
      /\ \A j \in 1 .. n - 1 : seen'[j] = seen[old(j)]
  <2>1. [key |-> v, at |-> tick] \in Entry
    BY <1>2 DEF Entry
  <2>2. seen' = Append(q, [key |-> v, at |-> tick])
    BY <1>1
  <2> HIDE DEF q, old
  <2>3. /\ seen' \in Seq(Entry) /\ Len(seen') = Len(q) + 1
        /\ \A j \in 1 .. Len(q) : seen'[j] = q[j]
        /\ seen'[Len(q) + 1] = [key |-> v, at |-> tick]
    BY <1>3, <2>1, <2>2, AppendProperties
  <2>4. Len(q) + 1 = n /\ 1 .. Len(q) = 1 .. n - 1
    BY <1>2, <1>3
  <2>5. DOMAIN seen' = 1 .. n
    BY <2>3, <2>4
  <2> QED
    BY <1>3, <2>3, <2>4, <2>5
<1>5. /\ \A j \in 1 .. n - 1 : old(j) \in 1 .. n /\ old(j) # i
      /\ \A j, k \in 1 .. n - 1 : j < k => old(j) < old(k)
  <2> HIDE DEF n
  <2> QED
    BY <1>2
<1>6. /\ behind' \in [Viewer -> SUBSET Viewer]
      /\ \A x \in Viewer : IsFiniteSet(behind'[x]) /\ x \notin behind'[x]
      /\ \A x \in Viewer \ {v} :
            behind'[x] = behind[x] \cup {v} /\ Cardinality(behind[x]) <= Cardinality(behind'[x])
  BY SeenGrows DEF SeenAgain, DedupeInv, DedupeTypeOK, CountedIsSeen
<1> HIDE DEF old
<1>12. \A k \in 1 .. n : k # n => k \in 1 .. n - 1
  <2> HIDE DEF n
  <2> QED
    BY <1>2
<1>7. \A j \in 1 .. n - 1 : seen'[j].key \in Viewer \ {v}
  <2> SUFFICES ASSUME NEW j \in 1 .. n - 1 PROVE seen'[j].key \in Viewer \ {v}
    OBVIOUS
  <2>1. seen'[j] = seen[old(j)] /\ old(j) \in 1 .. n /\ old(j) # i
    BY <1>4, <1>5
  <2>2. seen[old(j)].key # seen[i].key
    BY <1>2, <2>1 DEF DedupeInv, WindowHolds
  <2>3. seen[old(j)] \in Entry
    BY <1>2, <2>1
  <2> QED
    BY <1>1, <2>1, <2>2, <2>3 DEF Entry
<1>8. OrderKept'
  <2> SUFFICES ASSUME NEW j \in 1 .. n, NEW k \in 1 .. n, j < k
               PROVE  seen'[k].key \in behind'[seen'[j].key]
    BY <1>4 DEF OrderKept
  <2>1. j \in 1 .. n - 1 /\ seen'[j].key \in Viewer \ {v}
    BY <1>2, <1>7
  <2>2. CASE k = n
    BY <1>4, <1>6, <2>1, <2>2
  <2>3. CASE k # n
    <3>1. k \in 1 .. n - 1
      BY <1>12, <2>3
    <3>2. old(j) < old(k)
      BY <1>5, <2>1, <3>1
    <3>3. seen[old(k)].key \in behind[seen[old(j)].key]
      BY <1>2, <1>5, <2>1, <3>1, <3>2 DEF DedupeInv, OrderKept
    <3> QED
      BY <1>4, <1>6, <2>1, <3>1, <3>3
  <2> QED
    BY <2>2, <2>3
<1>9. CountedIsSeen'
  <2> SUFFICES ASSUME NEW x \in Viewer, recorded[x] > 0, Cardinality(behind'[x]) < MaxEntries - 1
               PROVE  \E k \in DOMAIN seen' : seen'[k].key = x /\ seen'[k].at >= recorded[x]
    <3>1. \A x \in Viewer : recorded[x] <= tick
      BY DEF DedupeInv, CountedIsSeen
    <3> QED
      BY <1>2, <1>6, <3>1 DEF CountedIsSeen
  <2>1. CASE x = v
    <3>1. tick >= recorded[v] /\ recorded[v] \in Nat
      BY <1>2 DEF DedupeInv, CountedIsSeen, DedupeTypeOK
    <3> QED
      BY <1>2, <1>4, <2>1, <3>1
  <2>2. CASE x # v
    <3>1. Cardinality(behind[x]) < MaxEntries - 1
      <4>1. IsFiniteSet(behind[x]) /\ IsFiniteSet(behind'[x])
        BY <1>6 DEF DedupeInv, CountedIsSeen
      <4>2. Cardinality(behind[x]) \in Nat /\ Cardinality(behind'[x]) \in Nat
        BY <4>1, FS_CardinalityType
      <4> QED
        BY <1>6, <2>2, <4>2
    <3>2. PICK k \in 1 .. n : seen[k].key = x /\ seen[k].at >= recorded[x]
      BY <1>2, <3>1 DEF DedupeInv, CountedIsSeen
    <3>3. k # i
      BY <1>1, <2>2, <3>2
    <3>4. \E j \in 1 .. n - 1 : old(j) = k
      <4>1. CASE k < i
        BY <1>2, <4>1 DEF old
      <4>2. CASE k > i
        <5>1. k - 1 \in 1 .. n - 1 /\ old(k - 1) = k
          BY <1>2, <4>2 DEF old
        <5> QED
          BY <5>1
      <4> QED
        BY <1>2, <3>3, <4>1, <4>2
    <3> QED
      BY <1>2, <1>4, <3>2, <3>4
  <2> QED
    BY <2>1, <2>2
<1>10. WindowHolds'
  <2>1. ASSUME NEW j \in 1 .. n, NEW k \in 1 .. n, j < k
        PROVE  seen'[j].key # seen'[k].key
    <3>1. j \in 1 .. n - 1
      BY <1>2, <2>1
    <3>2. CASE k = n
      BY <1>4, <1>7, <3>1, <3>2
    <3>3. CASE k # n
      <4>1. k \in 1 .. n - 1
        BY <1>12, <3>3
      <4>2. old(j) < old(k) /\ old(j) \in 1 .. n /\ old(k) \in 1 .. n
        BY <1>5, <2>1, <3>1, <4>1
      <4>3. old(j) # old(k)
        BY <1>2, <4>2
      <4> QED
        BY <1>2, <1>4, <3>1, <4>1, <4>2, <4>3 DEF DedupeInv, WindowHolds
    <3> QED
      BY <3>2, <3>3
  <2>2. \A j, k \in 1 .. n : j # k => seen'[j].key # seen'[k].key
    <3> SUFFICES ASSUME NEW j \in 1 .. n, NEW k \in 1 .. n, j # k PROVE seen'[j].key # seen'[k].key
      OBVIOUS
    <3>1. j < k \/ k < j
      BY <1>2
    <3> QED
      BY <2>1, <3>1
  <2> QED
    BY <1>2, <1>4, <2>2 DEF DedupeInv, WindowHolds
<1>11. DedupeTypeOK'
  BY <1>2, <1>4, <1>6 DEF DedupeInv, DedupeTypeOK, Entry
<1> QED
  BY <1>8, <1>9, <1>10, <1>11 DEF DedupeInv

(* At the cap only the first entry leaves, and MaxEntries - 1 other keys   *)
(* stand behind it.                                                        *)
LEMMA FirstOut ==
  ASSUME DedupeInv, Len(seen) >= MaxEntries
  PROVE  Cardinality(behind[seen[1].key]) >= MaxEntries - 1
<1> USE DedupeAssumption
<1> DEFINE n == Len(seen)
           x == seen[1].key
           f == [j \in 1 .. n - 1 |-> seen[j + 1].key]
<1>1. /\ seen \in Seq(Entry) /\ n \in Nat /\ n >= 1 /\ DOMAIN seen = 1 .. n
      /\ \A j \in 1 .. n : seen[j] \in Entry
  <2>1. seen \in Seq(Entry)
    BY DEF DedupeInv, DedupeTypeOK, Entry
  <2>2. n \in Nat /\ n >= 1
    BY <2>1
  <2> QED
    BY <2>1, <2>2
<1>2. x \in Viewer /\ IsFiniteSet(behind[x])
  BY <1>1 DEF Entry, DedupeInv, CountedIsSeen
<1> HIDE DEF n
<1>3. \A j \in 1 .. n - 1 : j + 1 \in 1 .. n /\ 1 < j + 1 /\ f[j] = seen[j + 1].key
  BY <1>1
<1>4. \A j \in 1 .. n - 1 : f[j] \in behind[x]
  BY <1>1, <1>3 DEF DedupeInv, OrderKept
<1>5. ASSUME NEW j \in 1 .. n - 1, NEW k \in 1 .. n - 1, f[j] = f[k]
      PROVE  j = k
  <2>1. seen[j + 1].key = seen[k + 1].key
    BY <1>3, <1>5
  <2>2. j + 1 = k + 1
    BY <1>1, <1>3, <2>1 DEF DedupeInv, WindowHolds
  <2> QED
    BY <2>2
<1>6. f \in Injection(1 .. n - 1, behind[x])
  BY <1>4, <1>5 DEF Injection, IsInjective
<1>7. Cardinality(1 .. n - 1) = n - 1
  BY <1>1, FS_Interval
<1>8. Cardinality(1 .. n - 1) <= Cardinality(behind[x])
  BY <1>2, <1>6, FS_Injection
<1>9. Cardinality(behind[x]) \in Nat
  BY <1>2, FS_CardinalityType
<1> QED
  BY <1>1, <1>7, <1>8, <1>9 DEF n

(* Let through: the key is stamped where it stands, or put at the end      *)
(* after the first entry has left.                                         *)
LEMMA LetThroughSound == ASSUME DedupeInv, NEW v \in Viewer, LetThrough(v) PROVE DedupeInv'
<1> USE DedupeAssumption
<1> DEFINE n == Len(seen)
           full == n >= MaxEntries
           kept == IF full THEN Tail(seen) ELSE seen
           s == IF full THEN 1 ELSE 0
           m == n - s
           placed == v \in KeysOf(kept)
           now == [key |-> v, at |-> tick]
<1>1. /\ seen \in Seq(Entry) /\ tick \in Nat \ {0} /\ n \in Nat /\ DOMAIN seen = 1 .. n /\ n <= MaxEntries
      /\ recorded \in [Viewer -> Nat]
      /\ \A x \in Viewer : IsFiniteSet(behind[x]) /\ x \notin behind[x] /\ recorded[x] <= tick
  <2>1. seen \in Seq(Entry)
    BY DEF DedupeInv, DedupeTypeOK, Entry
  <2> QED
    BY <2>1 DEF DedupeInv, DedupeTypeOK, CountedIsSeen, WindowHolds
<1>2. /\ tick' = tick /\ recorded' = [recorded EXCEPT ![v] = tick]
      /\ seen' = IF placed THEN Stamped(kept, v) ELSE Append(kept, now)
      /\ behind' = Seen(behind, v, ~placed)
      /\ lost' = IF Again(v, behind) THEN lost \cup {v} ELSE lost
  BY DEF LetThrough
<1>3. now \in Entry
  BY <1>1 DEF Entry
<1>4. /\ kept \in Seq(Entry) /\ Len(kept) = m /\ m \in Nat /\ DOMAIN kept = 1 .. m
      /\ \A j \in 1 .. m : j + s \in 1 .. n /\ kept[j] = seen[j + s]
  <2>1. CASE full
    <3>1. seen # <<>> /\ n >= 1
      BY <1>1, <2>1
    <3>2. /\ Tail(seen) \in Seq(Entry) /\ Len(Tail(seen)) = n - 1
          /\ \A j \in 1 .. n - 1 : Tail(seen)[j] = seen[j + 1]
      BY <1>1, <3>1, HeadTailProperties
    <3>3. DOMAIN Tail(seen) = 1 .. n - 1
      BY <3>2
    <3>4. \A j \in 1 .. n - 1 : j + 1 \in 1 .. n
      <4> HIDE DEF n
      <4> QED
        BY <1>1
    <3> QED
      BY <1>1, <2>1, <3>1, <3>2, <3>3, <3>4
  <2>2. CASE ~full
    BY <1>1, <2>2
  <2> QED
    BY <2>1, <2>2
<1>5. /\ behind' \in [Viewer -> SUBSET Viewer]
      /\ \A x \in Viewer : IsFiniteSet(behind'[x]) /\ x \notin behind'[x]
      /\ \A x \in Viewer \ {v} :
            behind'[x] = behind[x] \cup {v} /\ Cardinality(behind[x]) <= Cardinality(behind'[x])
      /\ behind'[v] = IF ~placed THEN {} ELSE behind[v]
  <2> HIDE DEF kept
  <2>1. behind \in [Viewer -> SUBSET Viewer]
    BY DEF DedupeInv, DedupeTypeOK
  <2> HIDE DEF placed
  <2> QED
    BY <1>1, <1>2, <2>1, SeenGrows
<1>6. placed <=> \E j \in 1 .. m : kept[j].key = v
  <2> HIDE DEF kept, m
  <2> QED
    BY <1>4 DEF KeysOf
<1> DEFINE l == IF placed THEN m ELSE m + 1
<1>7. /\ seen' \in Seq(Entry) /\ Len(seen') = l /\ DOMAIN seen' = 1 .. l
      /\ \A j \in 1 .. m : seen'[j] = IF kept[j].key = v THEN now ELSE kept[j]
      /\ ~placed => seen'[m + 1] = now
  <2> HIDE DEF kept, m, now, placed
  <2>1. CASE placed
    <3>1. seen' = [j \in 1 .. m |-> IF kept[j].key = v THEN now ELSE kept[j]]
      BY <1>2, <1>4, <2>1 DEF Stamped, now
    <3>2. \A j \in 1 .. m : kept[j] \in Entry
      BY <1>4
    <3>3. seen' \in [1 .. m -> Entry]
      BY <1>3, <3>1, <3>2
    <3>4. seen' \in Seq(Entry) /\ DOMAIN seen' = 1 .. m
      BY <1>4, <3>3, IsASeq
    <3>5. Len(seen') = m
      BY <1>4, <3>4, LenProperties
    <3> QED
      BY <2>1, <3>1, <3>4, <3>5
  <2>2. CASE ~placed
    <3>1. \A j \in 1 .. m : kept[j].key # v
      BY <1>6, <2>2
    <3>2. /\ seen' \in Seq(Entry) /\ Len(seen') = m + 1
          /\ \A j \in 1 .. m : seen'[j] = kept[j]
          /\ seen'[m + 1] = now
      BY <1>2, <1>3, <1>4, <2>2, AppendProperties
    <3>3. DOMAIN seen' = 1 .. m + 1
      BY <3>2
    <3> QED
      BY <2>2, <3>1, <3>2, <3>3
  <2> QED
    BY <2>1, <2>2
<1>8. /\ l \in Nat /\ l <= MaxEntries
      /\ \A k \in 1 .. l : k \in 1 .. m \/ (~placed /\ k = m + 1)
  <2>1. m + 1 <= MaxEntries
    <3> HIDE DEF n
    <3> QED
      BY <1>1
  <2> HIDE DEF m, placed
  <2> QED
    BY <1>4, <2>1
<1>9. /\ \A j \in 1 .. m : seen'[j].key = kept[j].key /\ seen'[j].key \in Viewer
      /\ ~placed => seen'[m + 1].key = v /\ \A j \in 1 .. m : seen'[j].key # v
  <2> HIDE DEF kept, m, placed
  <2>1. now.key = v
    OBVIOUS
  <2>2. \A j \in 1 .. m : kept[j] \in Entry
    BY <1>4
  <2> HIDE DEF now
  <2> QED
    BY <1>6, <1>7, <2>1, <2>2 DEF Entry
<1>10. ASSUME NEW j \in 1 .. m, NEW k \in 1 .. m, j < k
       PROVE  kept[k].key \in behind[kept[j].key] /\ kept[j].key # kept[k].key
  <2>1. /\ j + s \in 1 .. n /\ k + s \in 1 .. n /\ j + s < k + s
        /\ kept[j] = seen[j + s] /\ kept[k] = seen[k + s]
    <3>1. s \in Nat /\ j \in Nat /\ k \in Nat
      OBVIOUS
    <3>2. j + s < k + s
      <4> HIDE DEF s
      <4> QED
        BY <1>10, <3>1
    <3> QED
      BY <1>4, <3>2
  <2>2. j + s # k + s
    <3>1. j + s \in Nat /\ k + s \in Nat
      OBVIOUS
    <3> QED
      BY <2>1, <3>1
  <2> HIDE DEF s, kept, m
  <2>3. seen[k + s].key \in behind[seen[j + s].key]
    BY <1>1, <2>1 DEF DedupeInv, OrderKept
  <2>4. seen[k + s].key # seen[j + s].key
    BY <1>1, <2>1, <2>2 DEF DedupeInv, WindowHolds
  <2> QED
    BY <2>1, <2>3, <2>4
<1> HIDE DEF l
<1>11. ASSUME NEW j \in 1 .. l, NEW k \in 1 .. l, j < k
       PROVE  seen'[k].key \in behind'[seen'[j].key] /\ seen'[j].key # seen'[k].key
  <2>1. j \in 1 .. m
    <3>1. l <= m + 1
      <4> HIDE DEF m, placed
      <4> QED
        BY <1>4 DEF l
    <3> HIDE DEF m
    <3> QED
      BY <1>4, <1>8, <1>11, <3>1
  <2> HIDE DEF kept, m, placed
  <2>2. CASE k \in 1 .. m
    <3>1. kept[k].key \in behind[kept[j].key] /\ kept[j].key # kept[k].key
      BY <1>10, <1>11, <2>1, <2>2
    <3>2. CASE kept[j].key = v
      <4>1. placed
        BY <1>6, <2>1, <3>2
      <4> QED
        BY <1>5, <1>9, <2>1, <2>2, <3>1, <3>2, <4>1
    <3>3. CASE kept[j].key # v
      BY <1>5, <1>9, <2>1, <2>2, <3>1, <3>3
    <3> QED
      BY <3>2, <3>3
  <2>3. CASE k \notin 1 .. m
    <3>1. ~placed /\ k = m + 1
      BY <1>8, <2>3
    <3> QED
      BY <1>5, <1>9, <2>1, <3>1
  <2> QED
    BY <2>2, <2>3
<1>12. OrderKept'
  BY <1>7, <1>11 DEF OrderKept
<1>13. CountedIsSeen'
  <2> SUFFICES ASSUME NEW x \in Viewer
               PROVE  /\ recorded'[x] <= tick
                      /\ recorded'[x] > 0 /\ Cardinality(behind'[x]) < MaxEntries - 1
                            => \E k \in DOMAIN seen' : seen'[k].key = x /\ seen'[k].at >= recorded'[x]
    BY <1>2, <1>5 DEF CountedIsSeen
  <2>1. CASE x = v
    <3>1. recorded'[v] = tick
      BY <1>1, <1>2
    <3>2. \E k \in DOMAIN seen' : seen'[k] = now
      <4> HIDE DEF kept, m, now, placed
      <4>1. CASE placed
        BY <1>6, <1>7, <4>1 DEF l
      <4>2. CASE ~placed
        <5>1. m + 1 \in 1 .. m + 1
          BY <1>4
        <5> QED
          BY <1>7, <4>2, <5>1 DEF l
      <4> QED
        BY <4>1, <4>2
    <3>3. now.key = v /\ now.at = tick
      OBVIOUS
    <3> QED
      BY <1>1, <2>1, <3>1, <3>2, <3>3
  <2>2. CASE x # v
    <3>1. recorded'[x] = recorded[x] /\ recorded[x] <= tick
      BY <1>1, <1>2, <2>2
    <3>2. ASSUME recorded[x] > 0, Cardinality(behind'[x]) < MaxEntries - 1
          PROVE  \E k \in DOMAIN seen' : seen'[k].key = x /\ seen'[k].at >= recorded[x]
      <4>1. Cardinality(behind[x]) \in Nat /\ Cardinality(behind'[x]) \in Nat
        BY <1>1, <1>5, FS_CardinalityType
      <4>2. Cardinality(behind[x]) < MaxEntries - 1
        BY <1>5, <2>2, <3>2, <4>1
      <4>3. PICK k \in 1 .. n : seen[k].key = x /\ seen[k].at >= recorded[x]
        BY <1>1, <3>2, <4>2 DEF DedupeInv, CountedIsSeen
      <4>4. ~(full /\ k = 1)
        BY <4>1, <4>2, <4>3, FirstOut
      <4>5. k - s \in 1 .. m /\ k - s + s = k
        <5> HIDE DEF n
        <5>1. CASE full
          BY <1>1, <4>4, <5>1
        <5>2. CASE ~full
          BY <1>1, <5>2
        <5> QED
          BY <5>1, <5>2
      <4>6. kept[k - s] = seen[k]
        BY <1>4, <4>5
      <4> HIDE DEF kept, m, s, now, placed
      <4>7. seen'[k - s] = seen[k]
        BY <1>7, <2>2, <4>3, <4>5, <4>6
      <4>8. k - s \in DOMAIN seen'
        BY <1>4, <1>7, <4>5 DEF l
      <4> QED
        BY <4>3, <4>7, <4>8
    <3> QED
      BY <3>1, <3>2
  <2> QED
    BY <2>1, <2>2
<1>14. lost' = lost
  <2> SUFFICES ASSUME Again(v, behind) PROVE FALSE
    BY <1>2
  <2>1. PICK i \in DOMAIN seen : seen[i].key = v /\ seen[i].at >= recorded[v]
    BY DEF Again, DedupeInv, CountedIsSeen
  <2>2. seen[i].at \in Nat /\ recorded[v] \in Nat
    <3>1. seen[i] \in Entry
      BY <1>1
    <3> QED
      BY <1>1, <3>1 DEF Entry
  <2>3. tick - seen[i].at < Hold
    BY <1>1, <2>1, <2>2 DEF Again
  <2> QED
    BY <2>1, <2>3 DEF LetThrough, Running
<1>15. WindowHolds'
  <2>1. \A j, k \in 1 .. l : j # k => seen'[j].key # seen'[k].key
    <3> SUFFICES ASSUME NEW j \in 1 .. l, NEW k \in 1 .. l, j # k PROVE seen'[j].key # seen'[k].key
      OBVIOUS
    <3>1. j < k \/ k < j
      BY <1>8
    <3> QED
      BY <1>11, <3>1
  <2> QED
    BY <1>7, <1>8, <1>14, <2>1 DEF DedupeInv, WindowHolds
<1>16. DedupeTypeOK'
  BY <1>1, <1>2, <1>5, <1>7 DEF DedupeInv, DedupeTypeOK, Entry
<1> QED
  BY <1>12, <1>13, <1>15, <1>16 DEF DedupeInv

(* No step breaks the invariant.                                           *)
LEMMA DedupeStep == DedupeInv /\ [DedupeNext]_dedupeVars => DedupeInv'
<1> SUFFICES ASSUME DedupeInv, [DedupeNext]_dedupeVars PROVE DedupeInv'
  OBVIOUS
<1>1. ASSUME NEW v \in Viewer, SeenAgain(v) PROVE DedupeInv'
  BY <1>1, SeenAgainSound
<1>2. ASSUME NEW v \in Viewer, LetThrough(v) PROVE DedupeInv'
  BY <1>2, LetThroughSound
<1>3. ASSUME NEW v \in Viewer, InsertEnds(v) PROVE DedupeInv'
  BY <1>3 DEF InsertEnds, DedupeInv, DedupeTypeOK, OrderKept, CountedIsSeen, WindowHolds
<1>4. CASE TickOn
  <2>1. \A v \in Viewer : recorded[v] <= tick'
    BY <1>4 DEF TickOn, DedupeInv, DedupeTypeOK, CountedIsSeen
  <2> QED
    BY <1>4, <2>1 DEF TickOn, DedupeInv, DedupeTypeOK, OrderKept, CountedIsSeen, WindowHolds
<1>5. CASE UNCHANGED dedupeVars
  BY <1>5 DEF dedupeVars, DedupeInv, DedupeTypeOK, OrderKept, CountedIsSeen, WindowHolds
<1> QED
  BY <1>1, <1>2, <1>3, <1>4, <1>5 DEF DedupeNext

(* The map behaves as DedupeInv says at every step.                        *)
THEOREM DedupeIsSound == DedupeSpec => []DedupeInv
<1>1. DedupeInv /\ [DedupeNext]_dedupeVars => DedupeInv'
  BY DedupeStep
<1> QED
  BY <1>1, InitDedupe, PTL DEF DedupeSpec

(* For any number of viewers and any cap: a viewer counted twice within    *)
(* the window was pushed out by MaxEntries - 1 others.                     *)
THEOREM WindowsHold == DedupeSpec => []WindowHolds
<1>1. DedupeInv => WindowHolds
  BY DEF DedupeInv
<1> QED
  BY <1>1, DedupeIsSound, PTL

-----------------------------------------------------------------------------
(* The seller's numbers.                                                   *)

(* Induction over a finite set: of its subsets that fail, one is least.    *)
LEMMA LeastSubset ==
  ASSUME NEW S, IsFiniteSet(S), NEW bad \in SUBSET SUBSET S, bad # {}
  PROVE  \E T \in bad : \A U \in SUBSET T : U # T => U \notin bad
<1>1. bad \subseteq FiniteSubsetsOf(S)
  BY FS_Subset DEF FiniteSubsetsOf
<1>2. PICK T \in bad : \A U \in bad : <<U, T>> \notin StrictSubsetOrdering(S)
  BY <1>1, FS_StrictSubsetOrderingWellFounded, WFMin
<1>3. ASSUME NEW U \in SUBSET T, U # T, U \in bad PROVE FALSE
  <2>1. <<U, T>> \in StrictSubsetOrdering(S)
    BY <1>3 DEF StrictSubsetOrdering
  <2> QED
    BY <1>2, <1>3, <2>1
<1> QED
  BY <1>3

(* A sum of natural numbers counts the units its terms are made of.        *)
Units(f, s) == {u \in s \X (Nat \ {0}) : u[2] <= f[u[1]]}

(* One more term adds its units.                                           *)
LEMMA UnitsAdd ==
  ASSUME NEW f, NEW s, NEW x \in s, f[x] \in Nat, IsFiniteSet(Units(f, s \ {x}))
  PROVE  /\ IsFiniteSet(Units(f, s))
         /\ Cardinality(Units(f, s)) = f[x] + Cardinality(Units(f, s \ {x}))
<1> DEFINE mine == {x} \X (1 .. f[x])
           rest == Units(f, s \ {x})
<1>1. Units(f, s) = rest \cup mine /\ rest \cap mine = {}
  BY DEF Units
<1>2. IsFiniteSet({x}) /\ Cardinality({x}) = 1
  BY FS_Singleton
<1>3. IsFiniteSet(1 .. f[x]) /\ Cardinality(1 .. f[x]) = f[x]
  <2>1. IsFiniteSet(1 .. f[x]) /\ Cardinality(1 .. f[x]) = IF 1 > f[x] THEN 0 ELSE f[x] - 1 + 1
    BY FS_Interval
  <2> QED
    BY <2>1
<1>4. IsFiniteSet(mine) /\ Cardinality(mine) = f[x]
  <2>1. IsFiniteSet(mine) /\ Cardinality(mine) = Cardinality({x}) * Cardinality(1 .. f[x])
    BY <1>2, <1>3, FS_Product
  <2> HIDE DEF mine
  <2> QED
    BY <1>2, <1>3, <2>1
<1> HIDE DEF mine
<1>5. /\ IsFiniteSet(rest \cup mine)
      /\ Cardinality(rest \cup mine) = Cardinality(rest) + Cardinality(mine) - Cardinality(rest \cap mine)
  BY <1>4, FS_Union
<1>6. Cardinality({}) = 0 /\ Cardinality(rest) \in Nat
  BY FS_EmptySet, FS_CardinalityType
<1>7. Cardinality(rest \cap mine) = 0
  BY <1>1, <1>6
<1>8. Cardinality(Units(f, s)) = Cardinality(rest) + f[x] - 0
  BY <1>1, <1>4, <1>5, <1>7
<1>9. IsFiniteSet(Units(f, s))
  BY <1>1, <1>5
<1> QED
  BY <1>6, <1>8, <1>9

(* The units of finitely many terms are finite.                            *)
LEMMA UnitsFinite ==
  ASSUME NEW f, NEW S, IsFiniteSet(S), \A x \in S : f[x] \in Nat
  PROVE  \A s \in SUBSET S : IsFiniteSet(Units(f, s)) /\ Cardinality(Units(f, s)) \in Nat
<1> DEFINE bad == {s \in SUBSET S : ~IsFiniteSet(Units(f, s))}
<1>1. bad = {}
  <2> SUFFICES ASSUME bad # {} PROVE FALSE
    OBVIOUS
  <2>1. bad \in SUBSET SUBSET S
    OBVIOUS
  <2>2. PICK s \in bad : \A U \in SUBSET s : U # s => U \notin bad
    <3> HIDE DEF bad
    <3> QED
      BY <2>1, LeastSubset
  <2>3. s # {}
    <3>1. Units(f, {}) = {}
      BY DEF Units
    <3> QED
      BY <2>2, <3>1, FS_EmptySet
  <2>4. PICK x \in s : TRUE
    BY <2>3
  <2>5. IsFiniteSet(Units(f, s \ {x})) /\ f[x] \in Nat
    <3>1. s \ {x} \in SUBSET s /\ s \ {x} # s /\ s \ {x} \in SUBSET S
      BY <2>2
    <3> QED
      BY <2>2, <3>1
  <2>6. IsFiniteSet(Units(f, s))
    BY <2>5, UnitsAdd
  <2> QED
    BY <2>2, <2>6
<1> QED
  BY <1>1, FS_CardinalityType

(* The sum of the community modules is the number of units: the recursion  *)
(* behind it has one solution, by induction over the sets of terms.        *)
LEMMA SumCounts ==
  ASSUME NEW f, IsFiniteSet(DOMAIN f), \A x \in DOMAIN f : f[x] \in Nat
  PROVE  SumFunction(f) = Cardinality(Units(f, DOMAIN f))
<1> DEFINE D == DOMAIN f
           C(s) == CHOOSE x \in s : TRUE
           Sums(g) == g = [s \in SUBSET D |-> IF s = {} THEN 0 ELSE f[C(s)] + g[s \ {C(s)}]]
           iter == CHOOSE g : Sums(g)
           count == [s \in SUBSET D |-> Cardinality(Units(f, s))]
<1>1. SumFunction(f) = iter[D]
  BY DEF SumFunction, SumFunctionOnSet, FoldFunctionOnSet, MapThenFoldSet
<1>2. \A s \in SUBSET D : s # {} => C(s) \in s /\ s \ {C(s)} \in SUBSET D
  OBVIOUS
<1>3. \A s \in SUBSET D : count[s] = IF s = {} THEN 0 ELSE f[C(s)] + count[s \ {C(s)}]
  <2> SUFFICES ASSUME NEW s \in SUBSET D
               PROVE  count[s] = IF s = {} THEN 0 ELSE f[C(s)] + count[s \ {C(s)}]
    OBVIOUS
  <2>1. CASE s = {}
    <3>1. Units(f, {}) = {}
      BY DEF Units
    <3> QED
      BY <2>1, <3>1, FS_EmptySet
  <2>2. CASE s # {}
    <3>1. C(s) \in s /\ s \ {C(s)} \in SUBSET D
      BY <1>2, <2>2
    <3> HIDE DEF C
    <3>2. IsFiniteSet(Units(f, s \ {C(s)})) /\ f[C(s)] \in Nat
      BY <3>1, UnitsFinite
    <3>3. Cardinality(Units(f, s)) = f[C(s)] + Cardinality(Units(f, s \ {C(s)}))
      BY <3>1, <3>2, UnitsAdd
    <3> QED
      BY <2>2, <3>1, <3>3
  <2> QED
    BY <2>1, <2>2
<1>4. Sums(count)
  <2>1. count = [s \in SUBSET D |-> count[s]]
    OBVIOUS
  <2> HIDE DEF count, C
  <2> QED
    BY <1>3, <2>1
<1>5. Sums(iter)
  <2> HIDE DEF Sums
  <2> QED
    BY <1>4
<1>6. \A s \in SUBSET D : iter[s] = IF s = {} THEN 0 ELSE f[C(s)] + iter[s \ {C(s)}]
  <2> HIDE DEF iter, C, D
  <2> QED
    BY <1>5
<1> DEFINE bad == {s \in SUBSET D : iter[s] # count[s]}
<1> HIDE DEF iter, count, C
<1>7. bad = {}
  <2> SUFFICES ASSUME bad # {} PROVE FALSE
    OBVIOUS
  <2>1. bad \in SUBSET SUBSET D
    OBVIOUS
  <2>2. PICK s \in bad : \A U \in SUBSET s : U # s => U \notin bad
    <3> HIDE DEF bad
    <3> QED
      BY <2>1, LeastSubset
  <2>3. s # {}
    BY <1>3, <1>6, <2>2
  <2>4. C(s) \in s /\ s \ {C(s)} \in SUBSET D
    BY <1>2, <2>2, <2>3
  <2>5. s \ {C(s)} \in SUBSET s /\ s \ {C(s)} # s
    BY <2>4
  <2>6. iter[s \ {C(s)}] = count[s \ {C(s)}]
    BY <2>2, <2>4, <2>5
  <2> QED
    BY <1>3, <1>6, <2>2, <2>3, <2>6
<1>8. D \in SUBSET D
  OBVIOUS
<1>9. iter[D] = count[D]
  BY <1>7, <1>8
<1> QED
  BY <1>1, <1>8, <1>9 DEF count

(* Terms of 0 change no sum.                                               *)
LEMMA SumsAgree ==
  ASSUME NEW f, NEW g, IsFiniteSet(DOMAIN g), DOMAIN f \in SUBSET DOMAIN g,
         \A x \in DOMAIN g : g[x] \in Nat, \A x \in DOMAIN f : f[x] = g[x],
         \A x \in DOMAIN g \ DOMAIN f : g[x] = 0
  PROVE  SumFunction(f) = SumFunction(g)
<1>1. IsFiniteSet(DOMAIN f) /\ \A x \in DOMAIN f : f[x] \in Nat
  BY FS_Subset
<1>2. Units(f, DOMAIN f) = Units(g, DOMAIN g)
  BY DEF Units
<1> QED
  BY <1>1, <1>2, SumCounts

(* The fields of an event, and the dates of a listing.                     *)
LEMMA EventTyped ==
  ASSUME AnalyticsTypeOK
  PROVE  /\ \A e \in events : e.product \in Product /\ e.day \in Nat
         /\ today \in Nat \ {0} /\ \A p \in Product : uploaded[p] \in Nat /\ sold[p] \in Nat
<1>1. ASSUME NEW e \in events PROVE e.product \in Product /\ e.day \in Nat
  <2>1. e \in [n : Nat, product : Product, type : EventType, day : Nat]
    BY DEF AnalyticsTypeOK
  <2> QED
    BY <2>1
<1> QED
  BY <1>1 DEF AnalyticsTypeOK

(* A window begins on a whole day; a shorter one no earlier.               *)
LEMMA FromOrder ==
  ASSUME AnalyticsTypeOK
  PROVE  /\ \A raw \in 0 .. MaxRange + 1 : From(raw) \in Int
         /\ \A short, long \in 1 .. MaxRange : short <= long => From(long) <= From(short)
<1>1. MaxRange \in Nat /\ DefaultRange \in Int /\ today \in Int
  BY AnalyticsAssumption DEF AnalyticsTypeOK
<1>2. \A raw \in 0 .. MaxRange + 1 : Days(raw) \in Int
  BY <1>1 DEF Days
<1>3. \A raw \in 1 .. MaxRange : Days(raw) = raw
  BY <1>1 DEF Days
<1> QED
  BY <1>1, <1>2, <1>3 DEF From

(* The counts of one listing, whichever listings the query is about.       *)
LEMMA RowCounts ==
  ASSUME AnalyticsTypeOK, NEW ps, NEW p \in ps, NEW t, NEW from \in Int
  PROVE  /\ CountEvents(ps, p, t, from) = CountEvents({p}, p, t, from)
         /\ CountEvents(ps, p, t, from) \in Nat
<1>1. {e \in events : e.product \in ps /\ e.product = p /\ e.type = t /\ Within(e.day, from)}
      = {e \in events : e.product \in {p} /\ e.product = p /\ e.type = t /\ Within(e.day, from)}
  OBVIOUS
<1> DEFINE S == {e \in events : e.product \in ps /\ e.product = p /\ e.type = t /\ Within(e.day, from)}
<1>2. S \in SUBSET events /\ IsFiniteSet(events)
  BY DEF AnalyticsTypeOK
<1> HIDE DEF S
<1>3. Cardinality(S) \in Nat
  BY <1>2, FS_Subset, FS_CardinalityType
<1> QED
  BY <1>1, <1>3 DEF S, CountEvents

Sales(p, from) == IF sold[p] > 0 /\ Within(sold[p], from) THEN 1 ELSE 0
Column(key, ps, p, from) ==
    CASE key = "impressions" -> CountEvents(ps, p, "IMPRESSION", from)
      [] key = "clicks" -> CountEvents(ps, p, "CLICK", from)
      [] key = "sales" -> Sales(p, from)

(* The columns of a row that a total sums.                                 *)
LEMMA RowColumn ==
  ASSUME NEW ps, NEW p, NEW from, NEW key \in {"impressions", "clicks", "sales"}
  PROVE  ToProductRow(ps, p, from)[key] = Column(key, ps, p, from)
  BY DEF ToProductRow, Column, Sales

(* A listing the window leaves out has nothing to count.                   *)
LEMMA LeftOut ==
  ASSUME AnalyticsTypeOK, NEW p \in Product, uploaded[p] > 0, NEW from \in Int, p \notin LoadSellerProducts(from),
         NEW key \in {"impressions", "clicks", "sales"}
  PROVE  Column(key, {p}, p, from) = 0
<1>1. /\ ~(sold[p] >= from) /\ \A e \in events : e.product = p => ~(e.day >= from)
  BY DEF LoadSellerProducts
<1>2. \A t : {e \in events : e.product \in {p} /\ e.product = p /\ e.type = t /\ Within(e.day, from)} = {}
  BY <1>1 DEF Within
<1>3. \A t : CountEvents({p}, p, t, from) = 0
  BY <1>2, FS_EmptySet DEF CountEvents
<1>4. Sales(p, from) = 0
  BY <1>1 DEF Sales, Within
<1> QED
  BY <1>3, <1>4 DEF Column

(* The sums of the traffic.                                                *)
LEMMA ColumnSums ==
  ASSUME AnalyticsTypeOK, NEW from \in Int, NEW key \in {"impressions", "clicks", "sales"}
  PROVE  LET ps == LoadSellerProducts(from)
             all == {q \in Product : uploaded[q] > 0}
         IN  SumFunction([p \in ps |-> ToProductRow(ps, p, from)[key]])
             = SumFunction([p \in all |-> ToProductRow({p}, p, from)[key]])
<1> DEFINE ps == LoadSellerProducts(from)
           all == {q \in Product : uploaded[q] > 0}
           f == [p \in ps |-> ToProductRow(ps, p, from)[key]]
           g == [p \in all |-> ToProductRow({p}, p, from)[key]]
<1>1. ps \in SUBSET all /\ ps \in SUBSET Product /\ all \in SUBSET Product /\ IsFiniteSet(all)
  BY DEF LoadSellerProducts, AnalyticsTypeOK
<1>2. \A p \in ps : f[p] = Column(key, ps, p, from)
  BY RowColumn
<1>3. \A p \in all : g[p] = Column(key, {p}, p, from)
  BY RowColumn
<1>4. \A p \in Product : Column(key, {p}, p, from) \in Nat
  <2>1. \A p \in Product : Sales(p, from) \in Nat
    BY DEF Sales
  <2>2. \A p \in Product, t \in EventType : CountEvents({p}, p, t, from) \in Nat
    <3> SUFFICES ASSUME NEW p \in Product, NEW t \in EventType PROVE CountEvents({p}, p, t, from) \in Nat
      OBVIOUS
    <3>1. p \in {p}
      OBVIOUS
    <3> QED
      BY <3>1, RowCounts
  <2> QED
    BY <2>1, <2>2 DEF Column, EventType
<1>5. \A p \in ps : Column(key, ps, p, from) = Column(key, {p}, p, from)
  <2>1. \A p \in ps, t \in EventType : CountEvents(ps, p, t, from) = CountEvents({p}, p, t, from)
    BY RowCounts
  <2> QED
    BY <2>1 DEF Column, EventType
<1>6. \A p \in all \ ps : Column(key, {p}, p, from) = 0
  BY <1>1, LeftOut
<1>7. DOMAIN f = ps /\ DOMAIN g = all
  OBVIOUS
<1> HIDE DEF ps, all, f, g
<1>8. /\ IsFiniteSet(DOMAIN g) /\ DOMAIN f \in SUBSET DOMAIN g /\ \A x \in DOMAIN g : g[x] \in Nat
      /\ \A x \in DOMAIN f : f[x] = g[x]
      /\ \A x \in DOMAIN g \ DOMAIN f : g[x] = 0
  BY <1>1, <1>2, <1>3, <1>4, <1>5, <1>6, <1>7
<1>9. SumFunction(f) = SumFunction(g)
  BY <1>8, SumsAgree
<1> QED
  BY <1>9 DEF f, g, ps, all

(* The totals are the sums, and windows nest, whatever the facts.          *)
LEMMA TrafficStands == AnalyticsTypeOK => TrafficAgrees
<1> SUFFICES ASSUME AnalyticsTypeOK PROVE TrafficAgrees
  OBVIOUS
<1>1. ASSUME NEW raw \in 0 .. MaxRange + 1, NEW key \in {"impressions", "clicks", "sales", "clickThroughRate", "conversionRate"}
      PROVE  LET sum == ToTotals([p \in {q \in Product : uploaded[q] > 0} |-> ProductStats(p, raw)])
             IN  SellerOverview(raw)[key] = sum[key]
  <2> DEFINE from == From(raw)
             ps == LoadSellerProducts(from)
             all == {q \in Product : uploaded[q] > 0}
             whole(k) == SumFunction([p \in ps |-> ToProductRow(ps, p, from)[k]])
             parts(k) == SumFunction([p \in all |-> ToProductRow({p}, p, from)[k]])
             Totals(sum(_)) ==
                [impressions |-> sum("impressions"), clicks |-> sum("clicks"), sales |-> sum("sales"),
                 inquiries |-> sum("inquiries"), inquiryMessages |-> sum("inquiryMessages"),
                 clickThroughRate |-> SafeRate(sum("clicks"), sum("impressions")),
                 conversionRate |-> SafeRate(sum("sales"), sum("clicks"))]
  <2>1. from \in Int
    BY FromOrder
  <2>2. \A k \in {"impressions", "clicks", "sales"} : whole(k) = parts(k)
    BY <2>1, ColumnSums
  <2>3. /\ DOMAIN [p \in ps |-> ToProductRow(ps, p, from)] = ps
        /\ DOMAIN [p \in all |-> ToProductRow({p}, p, from)] = all
    OBVIOUS
  <2>4. SellerOverview(raw) = Totals(whole)
    BY <2>3 DEF SellerOverview, ToTotals
  <2>5. ToTotals([p \in all |-> ProductStats(p, raw)]) = Totals(parts)
    BY <2>3 DEF ProductStats, ToTotals
  <2> HIDE DEF whole, parts
  <2>6. Totals(whole)[key] = Totals(parts)[key]
    BY <2>2
  <2> HIDE DEF Totals
  <2> QED
    BY <2>4, <2>5, <2>6 DEF all
<1>2. Agrees({"impressions", "clicks", "sales", "clickThroughRate", "conversionRate"})
  BY <1>1 DEF Agrees
<1>3. ASSUME NEW short \in 1 .. MaxRange, NEW long \in 1 .. MaxRange, short <= long
      PROVE  LoadSellerProducts(From(short)) \subseteq LoadSellerProducts(From(long))
  <2>1. From(long) <= From(short) /\ From(short) \in Int /\ From(long) \in Int
    <3>1. MaxRange \in Nat
      BY AnalyticsAssumption
    <3> QED
      BY <1>3, <3>1, FromOrder
  <2> HIDE DEF From
  <2> QED
    BY <2>1, EventTyped DEF LoadSellerProducts
<1> QED
  BY <1>2, <1>3 DEF TrafficAgrees

(* Every step writes finite facts.                                         *)
LEMMA AnalyticsStep == AnalyticsTypeOK /\ [AnalyticsNext]_analyticsVars => AnalyticsTypeOK'
<1> SUFFICES ASSUME AnalyticsTypeOK, [AnalyticsNext]_analyticsVars PROVE AnalyticsTypeOK'
  OBVIOUS
<1> USE DEF AnalyticsTypeOK
<1>1. ASSUME NEW p \in Product, Upload(p) PROVE AnalyticsTypeOK'
  <2>1. {q \in Product : uploaded'[q] > 0} = {q \in Product : uploaded[q] > 0} \cup {p}
    BY <1>1 DEF Upload
  <2>2. IsFiniteSet({q \in Product : uploaded[q] > 0} \cup {p})
    BY FS_AddElement
  <2> QED
    BY <1>1, <2>1, <2>2 DEF Upload
<1>2. ASSUME NEW p \in Product, Sell(p) PROVE AnalyticsTypeOK'
  BY <1>2 DEF Sell
<1>3. ASSUME NEW p \in Product, NEW t \in EventType, View(p, t) PROVE AnalyticsTypeOK'
  <2>1. IsFiniteSet(events') /\ Cardinality(events) \in Nat
    BY <1>3, FS_AddElement, FS_CardinalityType DEF View
  <2> QED
    BY <1>3, <2>1 DEF View
<1>4. ASSUME NEW r \in Room, NEW side \in Side, Say(r, side) PROVE AnalyticsTypeOK'
  <2>1. IsFiniteSet(messages') /\ Cardinality(messages) \in Nat
    BY <1>4, FS_AddElement, FS_CardinalityType DEF Say
  <2> QED
    BY <1>4, <2>1 DEF Say
<1>5. CASE NextDay
  BY <1>5 DEF NextDay
<1>6. CASE UNCHANGED analyticsVars
  BY <1>6 DEF analyticsVars
<1> QED
  BY <1>1, <1>2, <1>3, <1>4, <1>5, <1>6 DEF AnalyticsNext

(* Type correctness of Analytics.                                          *)
THEOREM AnalyticsAreTyped == AnalyticsSpec => []AnalyticsTypeOK
<1>1. AnalyticsInit => AnalyticsTypeOK
  <2> SUFFICES ASSUME AnalyticsInit PROVE AnalyticsTypeOK
    OBVIOUS
  <2>1. {p \in Product : uploaded[p] > 0} = {}
    BY DEF AnalyticsInit
  <2> QED
    BY <2>1, FS_EmptySet DEF AnalyticsInit, AnalyticsTypeOK
<1> QED
  BY <1>1, AnalyticsStep, PTL DEF AnalyticsSpec

(* For every catalogue, history and range, the overview's traffic, sales   *)
(* and rates are those the listings' own pages add up to, and a shorter    *)
(* range never has more listings (analytics.service.js:198-227, 309-375).  *)
THEOREM TrafficAlwaysAgrees == AnalyticsSpec => []TrafficAgrees
  BY AnalyticsAreTyped, TrafficStands, PTL
=============================================================================
