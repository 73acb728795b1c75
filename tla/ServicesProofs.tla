--------------------------- MODULE ServicesProofs ---------------------------
(***************************************************************************)
(* Tickets, notifications and the reading side of the chat, for every      *)
(* number of users, rooms, messages and requests: messages are heard,      *)
(* listings are whole, and rooms are told as they are.                     *)
(***************************************************************************)
EXTENDS Support, Threads, FiniteSetTheorems, SequenceTheorems, TLAPS

(* Tickets and notifications.                                              *)

(* A finite set with a strict order has an element nothing is above.       *)
LEMMA Greatest ==
  ASSUME NEW S, IsFiniteSet(S), S # {}, NEW R,
         \A x \in S : <<x, x>> \notin R,
         \A x, y, z \in S : <<x, y>> \in R /\ <<y, z>> \in R => <<x, z>> \in R
  PROVE  \E x \in S : \A y \in S : <<x, y>> \notin R
<1> DEFINE Above(x) == {y \in S : <<x, y>> \in R}
           family == {Above(x) : x \in S}
<1>1. family \subseteq FiniteSubsetsOf(S) /\ family # {}
  <2>1. ASSUME NEW x \in S PROVE Above(x) \in FiniteSubsetsOf(S)
    <3>1. Above(x) \in SUBSET S
      OBVIOUS
    <3> HIDE DEF Above
    <3> QED
      BY <3>1, FS_Subset DEF FiniteSubsetsOf
  <2> HIDE DEF Above
  <2> QED
    BY <2>1
<1> HIDE DEF family
<1>2. PICK U \in family : \A V \in family : <<V, U>> \notin StrictSubsetOrdering(S)
  BY <1>1, FS_StrictSubsetOrderingWellFounded, WFMin
<1>3. PICK x \in S : U = Above(x)
  BY <1>2 DEF family
<1>4. ASSUME NEW y \in S, <<x, y>> \in R PROVE FALSE
  <2>1. Above(y) \subseteq Above(x) /\ y \in Above(x) /\ y \notin Above(y)
    BY <1>4
  <2>2. Above(y) \in SUBSET S /\ Above(x) \in SUBSET S
    OBVIOUS
  <2>3. Above(y) \in family
    BY DEF family
  <2> HIDE DEF Above
  <2>4. <<Above(y), Above(x)>> \in StrictSubsetOrdering(S)
    BY <2>1, <2>2 DEF StrictSubsetOrdering
  <2> QED
    BY <1>2, <1>3, <2>3, <2>4
<1> QED
  BY <1>4

(* Rows are ordered by date and id.                                        *)
LEMMA OlderOrder ==
  ASSUME NEW a, NEW b, NEW c, a.at \in Int, a.id \in Int, b.at \in Int, b.id \in Int,
         c.at \in Int, c.id \in Int
  PROVE  /\ ~Older(a, a)
         /\ Older(a, b) /\ Older(b, c) => Older(a, c)
         /\ a.id # b.id => Older(a, b) \/ Older(b, a)
         /\ Older(a, b) => ~Older(b, a)
         /\ Older(a, b) /\ ~Older(c, b) => Older(a, c) \/ (a.at = c.at /\ a.id = c.id)
  BY DEF Older

(* The fields of a stored notification.                                    *)
LEMMA RowTyped ==
  ASSUME SupportTypeOK, NEW a \in inbox
  PROVE  a.at \in 1 .. LastInstant /\ a.at \in Int /\ a.id \in NoteId /\ a.id \in Int
<1>1. a \in [to : User, at : 1 .. LastInstant, id : NoteId, req : Asker, isRead : BOOLEAN, against : BOOLEAN]
  BY DEF SupportTypeOK
<1>2. a.at \in 1 .. LastInstant /\ a.id \in NoteId
  BY <1>1
<1>3. a.at \in Int
  BY <1>2
<1>4. a.id \in Int
  BY <1>2, SupportAssumption
<1> QED
  BY <1>2, <1>3, <1>4

Top(rows) == {a \in rows : Cardinality({b \in rows : Older(a, b)}) < PageSize}
IsLast(l, page) == l \in page /\ \A b \in page : l = b \/ Older(l, b)

(* A page holds the newest rows, and all of them when it is not full.      *)
LEMMA PageCut ==
  ASSUME SupportTypeOK, CursorSplits, NEW rows \in SUBSET inbox
  PROVE  /\ IsFiniteSet(Top(rows)) /\ Top(rows) \subseteq rows
         /\ Cardinality(Top(rows)) < PageSize => Top(rows) = rows
         /\ Top(rows) # {} => \E l \in Top(rows) : IsLast(l, Top(rows))
         /\ \A l \in Top(rows) : IsLast(l, Top(rows)) => \A a \in rows \ Top(rows) : Older(a, l)
<1> USE SupportAssumption
<1>1. \A a \in rows : a \in inbox /\ a.at \in Int /\ a.id \in Int
  BY RowTyped
<1>2. \A a, b \in rows : a # b => a.id # b.id
  BY <1>1 DEF CursorSplits
<1>3. IsFiniteSet(rows)
  BY FS_Subset DEF SupportTypeOK
<1>4. Top(rows) \subseteq rows /\ IsFiniteSet(Top(rows))
  <2>1. Top(rows) \in SUBSET rows
    BY DEF Top
  <2> QED
    BY <1>3, <2>1, FS_Subset
<1> DEFINE Newer(a) == {b \in rows : Older(a, b)}
<1>5. ASSUME NEW a \in rows
      PROVE  IsFiniteSet(Newer(a)) /\ Cardinality(Newer(a)) \in Nat
  <2>1. Newer(a) \in SUBSET rows
    OBVIOUS
  <2> HIDE DEF Newer
  <2> QED
    BY <1>3, <2>1, FS_Subset, FS_CardinalityType
<1>6. ASSUME Cardinality(Top(rows)) < PageSize, rows \ Top(rows) # {} PROVE FALSE
  <2> DEFINE S == rows \ Top(rows)
             R == {p \in S \X S : Older(p[1], p[2])}
  <2>1. IsFiniteSet(S) /\ S # {}
    BY <1>3, <1>6, FS_Difference
  <2>2. \A x \in S : <<x, x>> \notin R
    BY <1>1, OlderOrder
  <2>3. \A x, y, z \in S : <<x, y>> \in R /\ <<y, z>> \in R => <<x, z>> \in R
    BY <1>1, OlderOrder
  <2>4. PICK x \in S : \A y \in S : <<x, y>> \notin R
    <3> HIDE DEF R, S
    <3> QED
      BY <2>1, <2>2, <2>3, Greatest
  <2>5. Newer(x) \in SUBSET Top(rows)
    BY <2>4
  <2>6. Cardinality(Newer(x)) <= Cardinality(Top(rows)) /\ Cardinality(Top(rows)) \in Nat
    <3> HIDE DEF Newer
    <3> QED
      BY <1>4, <2>5, FS_Subset, FS_CardinalityType
  <2>7. Cardinality(Newer(x)) < PageSize
    BY <1>5, <1>6, <2>6
  <2> QED
    BY <2>4, <2>7 DEF Top
<1>7. ASSUME Top(rows) # {} PROVE \E l \in Top(rows) : IsLast(l, Top(rows))
  <2> DEFINE S == Top(rows)
             R == {p \in S \X S : Older(p[2], p[1])}
  <2>1. \A x \in S : <<x, x>> \notin R
    BY <1>1, <1>4, OlderOrder
  <2>2. \A x, y, z \in S : <<x, y>> \in R /\ <<y, z>> \in R => <<x, z>> \in R
    BY <1>1, <1>4, OlderOrder
  <2>3. PICK x \in S : \A y \in S : <<x, y>> \notin R
    <3> HIDE DEF R, S
    <3>1. IsFiniteSet(S) /\ S # {}
      BY <1>4, <1>7 DEF S
    <3> QED
      BY <2>1, <2>2, <3>1, Greatest
  <2>4. ASSUME NEW y \in S PROVE x = y \/ Older(x, y)
    <3>1. ~Older(y, x)
      BY <2>3
    <3> QED
      BY <1>1, <1>2, <1>4, <3>1, OlderOrder
  <2> QED
    BY <2>4 DEF IsLast
<1>8. ASSUME NEW l \in Top(rows), IsLast(l, Top(rows)), NEW a \in rows \ Top(rows), ~Older(a, l)
      PROVE  FALSE
  <2>1. a \in rows /\ l \in rows /\ a # l
    BY <1>4, <1>8
  <2>2. Older(l, a)
    BY <1>1, <1>2, <1>8, <2>1, OlderOrder
  <2>3. Newer(a) \in SUBSET Newer(l)
    BY <1>1, <2>1, <2>2, OlderOrder
  <2>4. Cardinality(Newer(a)) <= Cardinality(Newer(l))
    <3> HIDE DEF Newer
    <3> QED
      BY <1>5, <2>1, <2>3, FS_Subset
  <2>5. Cardinality(Newer(l)) < PageSize
    BY DEF Top
  <2>6. Cardinality(Newer(a)) < PageSize
    <3> HIDE DEF Newer
    <3>1. Cardinality(Newer(a)) \in Nat /\ Cardinality(Newer(l)) \in Nat
      BY <1>5, <2>1
    <3>2. Cardinality(Newer(l)) < PageSize
      BY <2>5 DEF Newer
    <3> QED
      BY <2>4, <3>1, <3>2
  <2> QED
    BY <2>1, <2>6 DEF Top
<1> QED
  BY <1>4, <1>6, <1>7, <1>8

(* A page of list takes rows behind the cursor only, and leaves none       *)
(* behind that is due and not yet got, once it is not full.                *)
LEMMA ListPageSound ==
  ASSUME SupportInv, NEW u \in User, ListPage(u)
  PROVE  SupportInv'
<1> USE SupportAssumption
<1> DEFINE rows == Page(u, reader.cursor)
           page == Top(rows)
           last == CHOOSE a \in page : \A b \in page : a = b \/ Older(a, b)
<1>1. /\ ~reader.over /\ reader.user \in {"none", u} /\ u # "none"
      /\ reader' = [user |-> u,
                    cursor |-> IF page = {} THEN reader.cursor ELSE [at |-> last.at, id |-> last.id],
                    got |-> [x \in NoteId |-> reader.got[x] + Cardinality({a \in page : a.id = x})],
                    due |-> IF reader.user = "none" THEN {row.id : row \in {x \in inbox : x.to = u}} ELSE reader.due,
                    over |-> Cardinality(page) < PageSize]
      /\ UNCHANGED <<tickets, thread, replying, optedOut, inbox, instant, held>>
  BY DEF ListPage, Top
<1>2. SupportTypeOK /\ CursorSplits /\ SupportHeard /\ RequestsHold
  BY DEF SupportInv
<1>3. rows \in SUBSET inbox /\ \A a \in rows : a.to = u /\ Older(a, reader.cursor)
  BY DEF Page
<1>4. \A a \in inbox : a.at \in 1 .. LastInstant /\ a.at \in Int /\ a.id \in NoteId /\ a.id \in Int
  BY <1>2, RowTyped
<1>5. reader.cursor.at \in Int /\ reader.cursor.id \in Int /\ reader.got \in [NoteId -> Nat]
  BY <1>2 DEF SupportTypeOK
<1>6. /\ IsFiniteSet(page) /\ page \subseteq rows
      /\ Cardinality(page) < PageSize => page = rows
      /\ page # {} => \E l \in page : IsLast(l, page)
      /\ \A l \in page : IsLast(l, page) => \A a \in rows \ page : Older(a, l)
  <2> HIDE DEF rows
  <2> QED
    BY <1>2, <1>3, PageCut
<1> HIDE DEF rows, page
<1>7. page # {} => /\ last \in page /\ last \in inbox /\ \A a \in page : a = last \/ Older(last, a)
                   /\ \A a \in rows \ page : Older(a, last)
                   /\ reader'.cursor = [at |-> last.at, id |-> last.id]
  <2> SUFFICES ASSUME page # {}
               PROVE  /\ last \in page /\ last \in inbox /\ \A a \in page : a = last \/ Older(last, a)
                      /\ \A a \in rows \ page : Older(a, last)
                      /\ reader'.cursor = [at |-> last.at, id |-> last.id]
    OBVIOUS
  <2>1. \E a \in page : \A b \in page : a = b \/ Older(a, b)
    BY <1>6 DEF IsLast
  <2>2. last \in page /\ \A b \in page : last = b \/ Older(last, b)
    BY <2>1
  <2> HIDE DEF last
  <2> QED
    BY <1>1, <1>3, <1>6, <2>2 DEF IsLast
<1> HIDE DEF last
<1>8. ASSUME NEW x \in NoteId
      PROVE  /\ (\E a \in page : a.id = x) => reader'.got[x] = reader.got[x] + 1
             /\ (\A a \in page : a.id # x) => reader'.got[x] = reader.got[x]
  <2>1. reader'.got[x] = reader.got[x] + Cardinality({a \in page : a.id = x}) /\ reader.got[x] \in Nat
    BY <1>1, <1>5
  <2>2. CASE \A a \in page : a.id # x
    <3>1. {a \in page : a.id = x} = {}
      BY <2>2
    <3>2. reader'.got[x] = reader.got[x] + 0
      BY <2>1, <3>1, FS_EmptySet
    <3> QED
      BY <2>1, <2>2, <3>2
  <2>3. ASSUME NEW a \in page, a.id = x
        PROVE  reader'.got[x] = reader.got[x] + 1
    <3>1. {b \in page : b.id = x} = {a}
      BY <1>2, <1>3, <1>6, <2>3 DEF CursorSplits
    <3> QED
      BY <2>1, <3>1, FS_Singleton
  <2> QED
    BY <2>2, <2>3
<1>9. \A a \in page : reader.got[a.id] = 0
  <2> SUFFICES ASSUME NEW a \in page, reader.got[a.id] > 0 PROVE FALSE
    BY <1>3, <1>4, <1>5, <1>6
  <2>1. a \in inbox /\ Older(a, reader.cursor) /\ a.id \in NoteId
    BY <1>3, <1>4, <1>6
  <2>2. PICK row \in inbox : row.id = a.id /\ ~Older(row, reader.cursor)
    BY <1>2, <2>1 DEF CursorSplits
  <2> QED
    BY <1>2, <2>1, <2>2 DEF CursorSplits
<1>10. ASSUME NEW x \in NoteId
       PROVE  /\ reader'.got[x] <= 1 /\ reader'.got[x] \in Nat
              /\ reader'.got[x] > 0 => \E row \in inbox : row.id = x /\ ~Older(row, reader'.cursor)
              /\ reader.got[x] = 1 => reader'.got[x] = 1
              /\ (\E a \in page : a.id = x) => reader'.got[x] = 1
  <2>1. reader.got[x] \in Nat /\ reader.got[x] <= 1
    BY <1>2, <1>5 DEF SupportHeard, PagesCover
  <2>2. CASE \E a \in page : a.id = x
    <3>1. PICK a \in page : a.id = x
      BY <2>2
    <3>2. reader'.got[x] = 1 /\ reader.got[x] = 0
      <4>1. reader.got[x] = 0
        BY <1>9, <3>1
      <4>2. reader'.got[x] = reader.got[x] + 1
        BY <1>8, <2>2
      <4> QED
        BY <4>1, <4>2
    <3>3. a \in inbox /\ last \in inbox /\ reader'.cursor = [at |-> last.at, id |-> last.id]
      BY <1>3, <1>6, <1>7, <3>1
    <3>4. ~Older(a, last)
      BY <1>4, <1>7, <3>1, <3>3, OlderOrder
    <3>5. ~Older(a, reader'.cursor)
      BY <3>3, <3>4 DEF Older
    <3> QED
      BY <3>1, <3>2, <3>3, <3>5
  <2>3. CASE \A a \in page : a.id # x
    <3>1. reader'.got[x] = reader.got[x]
      BY <1>8, <2>3
    <3>2. ASSUME reader.got[x] > 0
          PROVE  \E row \in inbox : row.id = x /\ ~Older(row, reader'.cursor)
      <4>1. PICK row \in inbox : row.id = x /\ ~Older(row, reader.cursor)
        BY <1>2, <3>2 DEF CursorSplits
      <4>2. CASE page = {}
        BY <1>1, <4>1, <4>2
      <4>3. CASE page # {}
        <5>1. /\ last \in inbox /\ Older(last, reader.cursor)
              /\ reader'.cursor = [at |-> last.at, id |-> last.id]
          BY <1>3, <1>6, <1>7, <4>3
        <5>2. ~Older(row, last)
          BY <1>4, <1>5, <4>1, <5>1, OlderOrder
        <5>3. ~Older(row, reader'.cursor)
          BY <5>1, <5>2 DEF Older
        <5> QED
          BY <4>1, <5>3
      <4> QED
        BY <4>2, <4>3
    <3> QED
      BY <2>1, <2>3, <3>1, <3>2
  <2> QED
    BY <2>2, <2>3
<1>11. ASSUME NEW x \in reader'.due
       PROVE  /\ \E row \in inbox :
                    row.id = x /\ row.to = u /\ (reader'.got[x] = 1 \/ Older(row, reader'.cursor))
              /\ reader'.over => reader'.got[x] = 1
  <2>1. \E row \in inbox : row.id = x /\ row.to = u /\ (reader.got[x] = 1 \/ Older(row, reader.cursor))
    <3>1. CASE reader.user = "none"
      <4>1. PICK row \in inbox : row.id = x /\ row.to = u
        BY <1>1, <1>11, <3>1
      <4>2. reader.cursor.at = LastInstant + 1
        BY <1>2, <3>1 DEF CursorSplits, NoCursor
      <4>3. Older(row, reader.cursor)
        BY <1>4, <4>1, <4>2 DEF Older
      <4> QED
        BY <4>1, <4>3
    <3>2. CASE reader.user # "none"
      BY <1>1, <1>2, <1>11, <3>2 DEF CursorSplits
    <3> QED
      BY <3>1, <3>2
  <2>2. PICK row \in inbox : row.id = x /\ row.to = u /\ (reader.got[x] = 1 \/ Older(row, reader.cursor))
    BY <2>1
  <2>3. x \in NoteId
    BY <1>4, <2>2
  <2>4. CASE reader.got[x] = 1
    BY <1>10, <2>2, <2>3, <2>4
  <2>5. CASE row \in page
    BY <1>10, <2>2, <2>3, <2>5
  <2>6. CASE reader.got[x] # 1 /\ row \notin page
    <3>1. row \in rows
      BY <2>2, <2>6 DEF rows, Page
    <3>2. page # rows
      BY <2>6, <3>1
    <3>3. ~reader'.over
      BY <1>1, <1>6, <3>2
    <3>4. page # {}
      <4>1. page = {} => Cardinality(page) < PageSize
        BY FS_EmptySet
      <4> QED
        BY <1>6, <3>2, <4>1
    <3>5. Older(row, last) /\ reader'.cursor = [at |-> last.at, id |-> last.id]
      BY <1>7, <2>6, <3>1, <3>4
    <3>6. Older(row, reader'.cursor)
      BY <3>5 DEF Older
    <3> QED
      BY <2>2, <3>3, <3>6
  <2> QED
    BY <2>4, <2>5, <2>6
<1>12. SupportTypeOK'
  <2>1. reader'.got \in [NoteId -> Nat]
    <3>1. reader'.got = [x \in NoteId |-> reader'.got[x]]
      BY <1>1
    <3> QED
      BY <1>10, <3>1
  <2>2. reader'.cursor \in [at : Int, id : Int]
    <3>1. CASE page = {}
      BY <1>1, <1>2, <3>1 DEF SupportTypeOK
    <3>2. CASE page # {}
      BY <1>4, <1>7, <3>2
    <3> QED
      BY <3>1, <3>2
  <2>3. reader'.due \in SUBSET NoteId
    <3>1. \A row \in inbox : row.id \in NoteId
      BY <1>4
    <3>2. reader.due \in SUBSET NoteId
      BY <1>2 DEF SupportTypeOK
    <3> QED
      BY <1>1, <3>1, <3>2
  <2>4. reader' \in [user : User \cup {"none"}, cursor : [at : Int, id : Int], got : [NoteId -> Nat],
                     due : SUBSET NoteId, over : BOOLEAN]
    <3>1. reader' = [user |-> u, cursor |-> reader'.cursor, got |-> reader'.got, due |-> reader'.due,
                     over |-> Cardinality(page) < PageSize]
      BY <1>1
    <3> DEFINE full == Cardinality(page) < PageSize
    <3>2. full \in BOOLEAN
      OBVIOUS
    <3>3. u \in User \cup {"none"}
      OBVIOUS
    <3> HIDE DEF full
    <3>4. [user |-> u, cursor |-> reader'.cursor, got |-> reader'.got, due |-> reader'.due, over |-> full]
            \in [user : User \cup {"none"}, cursor : [at : Int, id : Int], got : [NoteId -> Nat],
                due : SUBSET NoteId, over : BOOLEAN]
      BY <2>1, <2>2, <2>3, <3>2, <3>3
    <3> QED
      BY <3>1, <3>4 DEF full
  <2> QED
    BY <1>1, <1>2, <2>4 DEF SupportTypeOK, Opened
<1>13. RequestsHold'
  BY <1>1, <1>2 DEF RequestsHold, Recipient, Opened
<1>14. CursorSplits'
  <2>1. reader'.user = u
    BY <1>1
  <2> QED
    BY <1>1, <1>2, <1>10, <1>11, <2>1 DEF CursorSplits
<1>15. SupportHeard'
  <2>1. PagesCover'
    BY <1>10, <1>11 DEF PagesCover
  <2> QED
    BY <1>1, <1>2, <2>1 DEF SupportHeard, LateRepliesWereOpen, ToldRightly
<1> QED
  BY <1>12, <1>13, <1>14, <1>15 DEF SupportInv

(* A system without tickets or notifications satisfies the invariant.      *)
LEMMA InitSupport == SupportInit => SupportInv
<1> SUFFICES ASSUME SupportInit PROVE SupportInv
  OBVIOUS
<1> USE SupportAssumption
<1>1. SupportTypeOK
  <2>1. IsFiniteSet(inbox) /\ thread \in Seq([ticket : Number \cup {0}, req : Asker, internal : BOOLEAN, late : BOOLEAN])
    BY FS_EmptySet DEF SupportInit
  <2>2. Opened = {} /\ tickets \in [Opened -> [owner : User, status : {"ACTIVE", "CLOSED"}]]
    BY DEF SupportInit, Opened
  <2>3. reader \in [user : User \cup {"none"}, cursor : [at : Int, id : Int], got : [NoteId -> Nat],
                    due : SUBSET NoteId, over : BOOLEAN]
    BY DEF SupportInit, NoCursor
  <2> QED
    BY <2>1, <2>2, <2>3 DEF SupportInit, SupportTypeOK, Idle
<1>2. RequestsHold
  BY DEF SupportInit, RequestsHold, Idle
<1>3. CursorSplits
  BY DEF SupportInit, CursorSplits
<1>4. SupportHeard
  BY DEF SupportInit, SupportHeard, LateRepliesWereOpen, ToldRightly, PagesCover
<1> QED
  BY <1>1, <1>2, <1>3, <1>4 DEF SupportInv

(* Rows marked read stay what they were to the cursor.                     *)
LEMMA Marked ==
  ASSUME SupportInv, NEW marked \in SUBSET inbox,
         inbox' = {IF row \in marked THEN [row EXCEPT !.isRead = TRUE] ELSE row : row \in inbox},
         UNCHANGED <<tickets, thread, replying, optedOut, instant, reader, held>>
  PROVE  SupportInv'
<1> DEFINE f == [row \in inbox |-> IF row \in marked THEN [row EXCEPT !.isRead = TRUE] ELSE row]
           Rows == [to : User, at : 1 .. LastInstant, id : NoteId, req : Asker, isRead : BOOLEAN, against : BOOLEAN]
<1>1. SupportTypeOK /\ CursorSplits /\ SupportHeard /\ RequestsHold /\ inbox \subseteq Rows
  BY DEF SupportInv, SupportTypeOK
<1>2. ASSUME NEW row \in inbox
      PROVE  /\ f[row] \in Rows /\ f[row].to = row.to /\ f[row].at = row.at /\ f[row].id = row.id
             /\ f[row].req = row.req /\ f[row].against = row.against
  <2>1. row \in Rows
    BY <1>1
  <2>2. CASE row \in marked
    <3>1. f[row] = [row EXCEPT !.isRead = TRUE]
      BY <2>2
    <3> QED
      BY <2>1, <3>1
  <2>3. CASE row \notin marked
    BY <2>1, <2>3
  <2> QED
    BY <2>2, <2>3
<1>3. inbox' = {f[row] : row \in inbox} /\ DOMAIN f = inbox
  OBVIOUS
<1> HIDE DEF f
<1>4. IsFiniteSet(inbox')
  <2>1. f \in [inbox -> inbox']
    <3>1. \A row \in inbox : f[row] \in inbox'
      BY <1>3
    <3>2. f = [row \in inbox |-> f[row]]
      BY DEF f
    <3> QED
      BY <3>1, <3>2
  <2>2. \A a \in inbox' : \E row \in inbox : f[row] = a
    BY <1>3
  <2>3. f \in Surjection(inbox, inbox')
    BY <2>1, <2>2 DEF Surjection
  <2>4. IsFiniteSet(inbox)
    BY <1>1 DEF SupportTypeOK
  <2> QED
    BY <2>3, <2>4, FS_Surjection
<1>5. SupportTypeOK'
  <2>1. inbox' \subseteq Rows
    BY <1>2, <1>3
  <2> QED
    BY <1>1, <1>4, <2>1 DEF SupportTypeOK, Opened
<1>6. RequestsHold'
  BY <1>1 DEF RequestsHold, Recipient, Opened
<1>7. \A a \in inbox' : \E row \in inbox : a = f[row]
  BY <1>3
<1>8. \A row \in inbox : f[row] \in inbox'
  BY <1>3
<1>9. CursorSplits'
  <2>1. ASSUME NEW a \in inbox', NEW b \in inbox', a.id = b.id PROVE a = b
    <3>1. PICK x \in inbox, y \in inbox : a = f[x] /\ b = f[y]
      BY <1>7
    <3>2. x.id = y.id
      BY <1>2, <2>1, <3>1
    <3> QED
      BY <1>1, <3>1, <3>2 DEF CursorSplits
  <2>2. ASSUME NEW x \in NoteId, reader.got[x] > 0
        PROVE  \E row \in inbox' : row.id = x /\ ~Older(row, reader.cursor)
    <3>1. PICK row \in inbox : row.id = x /\ ~Older(row, reader.cursor)
      BY <1>1, <2>2 DEF CursorSplits
    <3>2. f[row].id = x /\ ~Older(f[row], reader.cursor)
      BY <1>2, <3>1 DEF Older
    <3> QED
      BY <1>8, <3>2
  <2>3. ASSUME NEW x \in reader.due
        PROVE  \E row \in inbox' :
                  row.id = x /\ row.to = reader.user /\ (reader.got[x] = 1 \/ Older(row, reader.cursor))
    <3>1. PICK row \in inbox :
              row.id = x /\ row.to = reader.user /\ (reader.got[x] = 1 \/ Older(row, reader.cursor))
      BY <1>1 DEF CursorSplits
    <3>2. /\ f[row].id = x /\ f[row].to = reader.user
          /\ Older(row, reader.cursor) => Older(f[row], reader.cursor)
      BY <1>2, <3>1 DEF Older
    <3> QED
      BY <1>8, <3>1, <3>2
  <2> QED
    BY <1>1, <2>1, <2>2, <2>3 DEF CursorSplits
<1>10. SupportHeard'
  <2>1. ToldRightly'
    <3> SUFFICES ASSUME NEW a \in inbox'
                 PROVE  /\ \E i \in DOMAIN thread : thread[i].req = a.req /\ ~thread[i].internal
                        /\ a.against => <<a.req, "wanted">> \in held
      BY DEF ToldRightly
    <3>1. PICK row \in inbox : a = f[row]
      BY <1>7
    <3> QED
      BY <1>1, <1>2, <3>1 DEF SupportHeard, ToldRightly
  <2> QED
    BY <1>1, <2>1 DEF SupportHeard, LateRepliesWereOpen, PagesCover
<1> QED
  BY <1>5, <1>6, <1>9, <1>10 DEF SupportInv

Places == {"idle", "opening", "read", "stored", "wanted", "done", "failed"}
Requests == [at : Places, ticket : Number \cup {0}, by : User \cup {"staff", "none"}, internal : BOOLEAN, tries : Nat]

(* A new row is not yet got; what is due stays.                            *)
LEMMA NotifySound ==
  ASSUME SupportInv, NEW r \in Asker, NEW id \in NoteId, Notify(r, id)
  PROVE  SupportInv'
<1> USE SupportAssumption
<1> DEFINE note == [to |-> Recipient(r), at |-> instant, id |-> id, req |-> r, isRead |-> FALSE,
                    against |-> Recipient(r) \in optedOut]
<1>1. SupportTypeOK /\ CursorSplits /\ SupportHeard /\ RequestsHold
  BY DEF SupportInv
<1>2. /\ replying[r].at = "wanted" /\ \A row \in inbox : row.id # id
      /\ inbox' = inbox \cup {note} /\ replying' = [replying EXCEPT ![r].at = "done"]
      /\ UNCHANGED <<tickets, thread, optedOut, instant, reader, held>>
  BY DEF Notify, At
<1>3. Recipient(r) \in User
  <2>1. replying[r].ticket \in Opened
    BY <1>1, <1>2 DEF RequestsHold
  <2>2. tickets[replying[r].ticket] \in [owner : User, status : {"ACTIVE", "CLOSED"}]
    BY <1>1, <2>1 DEF SupportTypeOK
  <2> QED
    BY <2>2 DEF Recipient
<1>4. note \in [to : User, at : 1 .. LastInstant, id : NoteId, req : Asker, isRead : BOOLEAN, against : BOOLEAN]
  <2> DEFINE to == Recipient(r)
             against == Recipient(r) \in optedOut
  <2>1. against \in BOOLEAN /\ to \in User /\ instant \in 1 .. LastInstant
    BY <1>1, <1>3 DEF SupportTypeOK
  <2> HIDE DEF to, against
  <2>2. [to |-> to, at |-> instant, id |-> id, req |-> r, isRead |-> FALSE, against |-> against]
           \in [to : User, at : 1 .. LastInstant, id : NoteId, req : Asker, isRead : BOOLEAN, against : BOOLEAN]
    BY <2>1
  <2> QED
    BY <2>2 DEF to, against
<1>5. note.id = id /\ note.req = r /\ (note.against <=> Recipient(r) \in optedOut)
  OBVIOUS
<1> HIDE DEF note
<1>10. /\ replying' \in [Asker -> Requests]
       /\ \A x \in Asker : (x # r => replying'[x].at = replying[x].at) /\ replying'[x].ticket = replying[x].ticket
       /\ replying'[r].at = "done"
  <2>1. "done" \in Places /\ replying \in [Asker -> Requests]
    BY <1>1 DEF Places, Requests, SupportTypeOK
  <2> QED
    BY <1>2, <2>1 DEF Requests
<1>6. SupportTypeOK'
  <2>1. IsFiniteSet(inbox')
    BY <1>1, <1>2, FS_AddElement DEF SupportTypeOK
  <2>2. replying' \in [Asker -> Requests]
    BY <1>10
  <2>3. inbox' \subseteq [to : User, at : 1 .. LastInstant, id : NoteId, req : Asker, isRead : BOOLEAN, against : BOOLEAN]
    BY <1>1, <1>2, <1>4 DEF SupportTypeOK
  <2> QED
    BY <1>1, <1>2, <2>1, <2>2, <2>3 DEF SupportTypeOK, Opened, Requests, Places
<1>7. RequestsHold'
  BY <1>1, <1>2, <1>10 DEF RequestsHold, Recipient, Opened
<1>8. CursorSplits'
  BY <1>1, <1>2, <1>5 DEF CursorSplits
<1>9. ToldRightly'
  <2>1. /\ \E i \in DOMAIN thread : thread[i].req = r /\ ~thread[i].internal
        /\ note.against => <<r, "wanted">> \in held
    BY <1>1, <1>2, <1>5 DEF RequestsHold
  <2> QED
    BY <1>1, <1>2, <1>5, <2>1 DEF SupportHeard, ToldRightly
<1> QED
  BY <1>1, <1>2, <1>6, <1>7, <1>8, <1>9 DEF SupportInv, SupportHeard, LateRepliesWereOpen, PagesCover

(* The steps that leave the inbox and its reader alone.                    *)
LEMMA InboxUntouched ==
  ASSUME SupportInv, UNCHANGED <<inbox, reader>>, LateRepliesWereOpen',
         held \subseteq held', \A i \in DOMAIN thread : i \in DOMAIN thread' /\ thread'[i] = thread[i]
  PROVE  CursorSplits' /\ SupportHeard'
<1>1. CursorSplits /\ ToldRightly /\ PagesCover
  BY DEF SupportInv, SupportHeard
<1>2. CursorSplits'
  BY <1>1 DEF CursorSplits
<1>3. ToldRightly'
  <2> SUFFICES ASSUME NEW a \in inbox
               PROVE  /\ \E i \in DOMAIN thread' : thread'[i].req = a.req /\ ~thread'[i].internal
                      /\ a.against => <<a.req, "wanted">> \in held'
    BY DEF ToldRightly
  <2>1. PICK i \in DOMAIN thread : thread[i].req = a.req /\ ~thread[i].internal
    BY <1>1 DEF ToldRightly
  <2>2. i \in DOMAIN thread' /\ thread'[i].req = a.req /\ ~thread'[i].internal
    BY <2>1
  <2> QED
    BY <1>1, <2>2 DEF ToldRightly
<1> QED
  BY <1>1, <1>2, <1>3 DEF SupportHeard, PagesCover

(* A request moves and nothing else does.                                  *)
LEMMA MoveSound ==
  ASSUME SupportInv, NEW r \in Asker, Fails(r) \/ IsEnabled(r)
  PROVE  SupportInv'
<1>1. SupportTypeOK /\ RequestsHold /\ SupportHeard /\ UNCHANGED <<tickets, thread, optedOut, inbox, instant, reader, held>>
  BY DEF SupportInv, Fails, IsEnabled
<1>2. PICK where \in {"failed", "done", "wanted"} :
          /\ replying' = [replying EXCEPT ![r].at = where]
          /\ where = "wanted" => replying[r].at = "stored" /\ Recipient(r) \notin optedOut
  BY DEF Fails, IsEnabled, At
<1>3. /\ replying' \in [Asker -> Requests]
      /\ \A x \in Asker : (x # r => replying'[x].at = replying[x].at) /\ replying'[x].ticket = replying[x].ticket
      /\ replying'[r].at = where
  <2>1. where \in Places /\ replying \in [Asker -> Requests]
    BY <1>1 DEF Places, Requests, SupportTypeOK
  <2> QED
    BY <1>2, <2>1 DEF Requests
<1>4. SupportTypeOK'
  BY <1>1, <1>3 DEF SupportTypeOK, Opened, Requests, Places
<1>5. RequestsHold'
  <2> SUFFICES ASSUME NEW x \in Asker
               PROVE  /\ replying'[x].at \in {"read", "stored", "wanted"} => replying[x].ticket \in Opened
                      /\ replying'[x].at = "read" /\ tickets[replying[x].ticket].status = "CLOSED"
                           => <<x, "read">> \in held
                      /\ replying'[x].at \in {"stored", "wanted"} =>
                           \E i \in DOMAIN thread : thread[i].req = x /\ ~thread[i].internal
                      /\ replying'[x].at = "wanted" /\ Recipient(x) \in optedOut => <<x, "wanted">> \in held
    BY <1>1, <1>3 DEF RequestsHold, Recipient, Opened
  <2>1. CASE x # r
    BY <1>1, <1>3, <2>1 DEF RequestsHold
  <2>2. CASE x = r
    BY <1>1, <1>2, <1>3, <2>2 DEF RequestsHold
  <2> QED
    BY <2>1, <2>2
<1>6. LateRepliesWereOpen'
  BY <1>1 DEF SupportHeard, LateRepliesWereOpen
<1>7. CursorSplits' /\ SupportHeard'
  BY <1>1, <1>6, InboxUntouched
<1> QED
  BY <1>4, <1>5, <1>7 DEF SupportInv

(* A draw that misses costs an attempt, one that hits adds a ticket.       *)
LEMMA DrawSound ==
  ASSUME SupportInv, NEW r \in Asker, NEW u \in User, NEW n \in Number, Draw(r, u, n)
  PROVE  SupportInv'
<1>1. /\ SupportTypeOK /\ RequestsHold /\ SupportHeard
      /\ UNCHANGED <<thread, optedOut, inbox, instant, reader, held>>
      /\ replying \in [Asker -> Requests] /\ replying[r] \in Requests
  BY DEF SupportInv, Draw, SupportTypeOK, Requests, Places
<1>2. /\ Opened \subseteq Opened' /\ Opened' \subseteq Number
      /\ tickets' \in [Opened' -> [owner : User, status : {"ACTIVE", "CLOSED"}]]
      /\ \A m \in Opened : tickets'[m] = tickets[m]
  <2>1. CASE n \in Opened
    BY <1>1, <2>1 DEF Draw, Opened, SupportTypeOK
  <2>2. CASE n \notin Opened
    <3> DEFINE fresh == [owner |-> u, status |-> "ACTIVE"]
    <3>1. tickets' = [m \in Opened \cup {n} |-> IF m = n THEN fresh ELSE tickets[m]]
      BY <2>2 DEF Draw
    <3>2. Opened' = Opened \cup {n}
      BY <3>1 DEF Opened
    <3>3. fresh \in [owner : User, status : {"ACTIVE", "CLOSED"}]
      OBVIOUS
    <3> HIDE DEF fresh
    <3>4. \A m \in Opened : tickets[m] \in [owner : User, status : {"ACTIVE", "CLOSED"}]
      BY <1>1 DEF SupportTypeOK
    <3>5. Opened \subseteq Number
      BY <1>1 DEF SupportTypeOK
    <3>6. tickets' \in [Opened \cup {n} -> [owner : User, status : {"ACTIVE", "CLOSED"}]]
      BY <3>1, <3>3, <3>4
    <3> QED
      BY <2>2, <3>1, <3>2, <3>5, <3>6
  <2> QED
    BY <2>1, <2>2
<1>3. /\ replying' \in [Asker -> Requests]
      /\ \A x \in Asker \ {r} : replying'[x] = replying[x]
      /\ replying'[r].at \in {"opening", "done"}
  <2>1. CASE n \in Opened
    <3> DEFINE where == IF replying[r].tries + 1 = Attempts THEN "done" ELSE "opening"
               n1 == replying[r].tries + 1
               new == [at |-> where, ticket |-> 0, by |-> u, internal |-> FALSE, tries |-> n1]
    <3>1. replying' = [replying EXCEPT ![r] = new]
      BY <2>1 DEF Draw
    <3>2. where \in {"opening", "done"} /\ where \in Places /\ n1 \in Nat
      BY <1>1 DEF Places, Requests
    <3> HIDE DEF where, n1
    <3>4. new \in Requests /\ new.at = where
      BY <3>2 DEF Requests
    <3> HIDE DEF new
    <3> QED
      BY <1>1, <3>1, <3>2, <3>4
  <2>2. CASE n \notin Opened
    <3>1. replying' = [replying EXCEPT ![r].at = "done"]
      BY <2>2 DEF Draw, At
    <3>2. "done" \in Places
      BY DEF Places
    <3> QED
      BY <1>1, <3>1, <3>2 DEF Requests
  <2> QED
    BY <2>1, <2>2
<1>4. SupportTypeOK'
  BY <1>1, <1>2, <1>3 DEF SupportTypeOK, Requests, Places
<1>5. RequestsHold'
  <2> SUFFICES ASSUME NEW x \in Asker, replying'[x].at \in {"read", "stored", "wanted"}
               PROVE  replying'[x] = replying[x] /\ replying[x].ticket \in Opened'
                      /\ tickets'[replying[x].ticket] = tickets[replying[x].ticket]
    BY ZenonT(40), <1>1 DEF RequestsHold, Recipient
  <2>1. x # r
    BY <1>3
  <2> QED
    BY <1>1, <1>2, <1>3, <2>1 DEF RequestsHold
<1>6. LateRepliesWereOpen'
  BY <1>1 DEF SupportHeard, LateRepliesWereOpen
<1>7. CursorSplits' /\ SupportHeard'
  BY <1>1, <1>6, InboxUntouched
<1> QED
  BY <1>4, <1>5, <1>7 DEF SupportInv

(* A reply starts from an open ticket.                                     *)
LEMMA ReadTicketSound ==
  ASSUME SupportInv, NEW r \in Asker, NEW n \in Number, NEW by \in User \cup {"staff"},
         NEW internal \in BOOLEAN, ReadTicket(r, n, by, internal)
  PROVE  SupportInv'
<1>1. /\ SupportTypeOK /\ RequestsHold /\ SupportHeard
      /\ UNCHANGED <<tickets, thread, optedOut, inbox, instant, reader, held>>
      /\ replying \in [Asker -> Requests]
      /\ n \in Opened /\ tickets[n].status = "ACTIVE"
  BY DEF SupportInv, ReadTicket, SupportTypeOK, Requests, Places
<1> DEFINE new == [at |-> "read", ticket |-> n, by |-> by, internal |-> internal, tries |-> 0]
<1>2. replying' = [replying EXCEPT ![r] = new]
  BY DEF ReadTicket
<1>3. new \in Requests /\ new.at = "read" /\ new.ticket = n
  BY DEF Requests, Places
<1> HIDE DEF new
<1>4. /\ replying' \in [Asker -> Requests] /\ replying'[r] = new
      /\ \A x \in Asker \ {r} : replying'[x] = replying[x]
  BY <1>1, <1>2, <1>3
<1>5. SupportTypeOK'
  BY <1>1, <1>4 DEF SupportTypeOK, Opened, Requests, Places
<1>6. RequestsHold'
  BY <1>1, <1>3, <1>4 DEF RequestsHold, Recipient, Opened
<1>7. LateRepliesWereOpen'
  BY <1>1 DEF SupportHeard, LateRepliesWereOpen
<1>8. CursorSplits' /\ SupportHeard'
  BY <1>1, <1>7, InboxUntouched
<1> QED
  BY <1>5, <1>6, <1>8 DEF SupportInv

(* A message stored late was written by a reply that the close overtook.   *)
LEMMA StoreReplySound ==
  ASSUME SupportInv, NEW r \in Asker, StoreReply(r)
  PROVE  SupportInv'
<1> DEFINE message == [ticket |-> replying[r].ticket, req |-> r, internal |-> replying[r].internal,
                       late |-> tickets[replying[r].ticket].status = "CLOSED"]
           Messages == [ticket : Number \cup {0}, req : Asker, internal : BOOLEAN, late : BOOLEAN]
           where == IF replying[r].by = "staff" /\ ~replying[r].internal THEN "stored" ELSE "done"
<1>1. /\ SupportTypeOK /\ RequestsHold /\ SupportHeard
      /\ UNCHANGED <<tickets, optedOut, inbox, instant, reader, held>>
      /\ thread \in Seq(Messages) /\ thread' = Append(thread, message)
      /\ replying[r].at = "read" /\ replying' = [replying EXCEPT ![r].at = where]
  BY DEF SupportInv, StoreReply, SupportTypeOK, At
<1>2. message \in Messages
  <2> DEFINE late == tickets[replying[r].ticket].status = "CLOSED"
  <2>1. late \in BOOLEAN /\ replying[r] \in Requests
    BY <1>1 DEF SupportTypeOK, Requests, Places
  <2> HIDE DEF late
  <2>2. [ticket |-> replying[r].ticket, req |-> r, internal |-> replying[r].internal, late |-> late] \in Messages
    BY <2>1 DEF Requests
  <2> QED
    BY <2>2 DEF late
<1>3. /\ message.req = r /\ message.internal = replying[r].internal
      /\ message.late => tickets[replying[r].ticket].status = "CLOSED"
      /\ where \in {"stored", "done"}
      /\ where = "stored" => ~replying[r].internal
  OBVIOUS
<1> HIDE DEF message, where
<1>4. /\ thread' \in Seq(Messages) /\ Len(thread) \in Nat /\ DOMAIN thread = 1 .. Len(thread)
      /\ DOMAIN thread' = 1 .. Len(thread) + 1
      /\ \A i \in 1 .. Len(thread) : thread'[i] = thread[i]
      /\ thread'[Len(thread) + 1] = message
  <2> HIDE DEF Messages
  <2>1. /\ thread' \in Seq(Messages) /\ Len(thread') = Len(thread) + 1
        /\ \A i \in 1 .. Len(thread) : thread'[i] = thread[i]
        /\ thread'[Len(thread) + 1] = message
    BY <1>1, <1>2, AppendProperties
  <2>2. Len(thread) \in Nat /\ DOMAIN thread = 1 .. Len(thread) /\ DOMAIN thread' = 1 .. Len(thread')
    BY <1>1, <2>1, LenProperties
  <2> QED
    BY <2>1, <2>2
<1>5. /\ Len(thread) + 1 \in DOMAIN thread'
      /\ \A i \in DOMAIN thread : i \in DOMAIN thread' /\ thread'[i] = thread[i]
      /\ \A i \in DOMAIN thread' : i \in DOMAIN thread \/ i = Len(thread) + 1
  BY <1>4
<1>6. /\ replying' \in [Asker -> Requests]
      /\ \A x \in Asker : (x # r => replying'[x].at = replying[x].at) /\ replying'[x].ticket = replying[x].ticket
      /\ replying'[r].at = where
  <2>1. where \in Places /\ replying \in [Asker -> Requests]
    BY <1>1, <1>3 DEF Places, Requests, SupportTypeOK
  <2> QED
    BY <1>1, <2>1 DEF Requests
<1>7. SupportTypeOK'
  BY <1>1, <1>4, <1>6 DEF SupportTypeOK, Opened, Requests, Places
<1>8. RequestsHold'
  <2> SUFFICES ASSUME NEW x \in Asker
               PROVE  /\ replying'[x].at \in {"read", "stored", "wanted"} => replying'[x].ticket \in Opened'
                      /\ replying'[x].at = "read" /\ tickets'[replying'[x].ticket].status = "CLOSED"
                           => <<x, "read">> \in held'
                      /\ replying'[x].at \in {"stored", "wanted"} =>
                           \E i \in DOMAIN thread' : thread'[i].req = x /\ ~thread'[i].internal
                      /\ replying'[x].at = "wanted" /\ Recipient(x)' \in optedOut' => <<x, "wanted">> \in held'
    BY DEF RequestsHold
  <2>1. /\ replying[x].at \in {"read", "stored", "wanted"} => replying[x].ticket \in Opened
        /\ replying[x].at = "read" /\ tickets[replying[x].ticket].status = "CLOSED" => <<x, "read">> \in held
        /\ replying[x].at \in {"stored", "wanted"} =>
             \E i \in DOMAIN thread : thread[i].req = x /\ ~thread[i].internal
        /\ replying[x].at = "wanted" /\ Recipient(x) \in optedOut => <<x, "wanted">> \in held
    BY <1>1 DEF RequestsHold
  <2>2. CASE x # r
    BY <1>1, <1>5, <1>6, <2>1, <2>2 DEF Opened, Recipient
  <2>3. CASE x = r
    <3>1. ASSUME where = "stored"
          PROVE  thread'[Len(thread) + 1].req = r /\ ~thread'[Len(thread) + 1].internal
      BY <1>3, <1>4, <3>1
    <3> QED
      BY <1>1, <1>3, <1>5, <1>6, <2>1, <2>3, <3>1 DEF Opened
  <2> QED
    BY <2>2, <2>3
<1>9. LateRepliesWereOpen'
  <2>1. message.late => <<r, "read">> \in held
    BY <1>1, <1>3 DEF RequestsHold
  <2> QED
    BY <1>1, <1>3, <1>4, <1>5, <2>1 DEF SupportHeard, LateRepliesWereOpen
<1>10. CursorSplits' /\ SupportHeard'
  BY <1>1, <1>5, <1>9, InboxUntouched
<1> QED
  BY <1>7, <1>8, <1>10 DEF SupportInv

(* A close, a preference and the clock: what they make stale is held.      *)
LEMMA AroundSound ==
  ASSUME SupportInv,
         \/ \E n \in Number : Close(n)
         \/ \E u \in User, enabled \in BOOLEAN : SetPreference(u, enabled)
         \/ Instant
  PROVE  SupportInv'
<1>1. SupportTypeOK /\ RequestsHold /\ SupportHeard /\ UNCHANGED <<thread, replying, inbox, reader>>
  BY DEF SupportInv, Close, SetPreference, Instant
<1>2. /\ SupportTypeOK' /\ RequestsHold' /\ held \subseteq held'
  <2>1. ASSUME NEW n \in Number, Close(n) PROVE SupportTypeOK' /\ RequestsHold' /\ held \subseteq held'
    <3>1. /\ n \in Opened /\ tickets' = [tickets EXCEPT ![n].status = "CLOSED"]
          /\ held' = held \cup {<<r, "read">> : r \in {x \in Asker : replying[x].at = "read" /\ replying[x].ticket = n}}
          /\ UNCHANGED <<optedOut, instant>>
      BY <2>1 DEF Close
    <3>2. tickets[n] \in [owner : User, status : {"ACTIVE", "CLOSED"}]
      BY <1>1, <3>1 DEF SupportTypeOK
    <3>3. tickets'[n] \in [owner : User, status : {"ACTIVE", "CLOSED"}] /\ tickets'[n].owner = tickets[n].owner
      BY <1>1, <3>1, <3>2 DEF SupportTypeOK
    <3>4. /\ Opened' = Opened /\ tickets' \in [Opened' -> [owner : User, status : {"ACTIVE", "CLOSED"}]]
          /\ \A m \in Opened \ {n} : tickets'[m] = tickets[m]
      BY <1>1, <3>1, <3>3 DEF SupportTypeOK, Opened
    <3>5. SupportTypeOK'
      BY <1>1, <3>1, <3>4 DEF SupportTypeOK
    <3>6. ASSUME NEW r \in Asker
          PROVE  /\ replying[r].at = "read" /\ tickets'[replying[r].ticket].status = "CLOSED"
                      => <<r, "read">> \in held'
                 /\ replying[r].at = "wanted" => Recipient(r)' = Recipient(r)
      <4>1. replying[r].at \in {"read", "wanted"} => replying[r].ticket \in Opened
        BY <1>1 DEF RequestsHold
      <4>2. replying[r].at = "read" /\ replying[r].ticket = n => <<r, "read">> \in held'
        BY <3>1
      <4>3. replying[r].at = "read" /\ tickets[replying[r].ticket].status = "CLOSED" => <<r, "read">> \in held'
        BY <1>1, <3>1 DEF RequestsHold
      <4> QED
        BY <1>1, <3>3, <3>4, <4>1, <4>2, <4>3 DEF Recipient
    <3>7. RequestsHold'
      <4>1. Opened' = Opened /\ optedOut' = optedOut /\ held \subseteq held'
        BY <3>1, <3>4
      <4> QED
        BY <1>1, <3>6, <4>1 DEF RequestsHold
    <3> QED
      BY <3>1, <3>5, <3>7
  <2>2. ASSUME NEW u \in User, NEW enabled \in BOOLEAN, SetPreference(u, enabled)
        PROVE  SupportTypeOK' /\ RequestsHold' /\ held \subseteq held'
    <3>1. /\ UNCHANGED <<tickets, instant>> /\ held \subseteq held'
          /\ \A r \in Asker : Recipient(r)' = Recipient(r)
      BY <1>1, <2>2 DEF SetPreference, Recipient
    <3>2. ASSUME NEW r \in Asker, replying[r].at = "wanted", Recipient(r) \in optedOut'
          PROVE  <<r, "wanted">> \in held'
      BY <1>1, <2>2, <3>1, <3>2 DEF SetPreference, RequestsHold
    <3> QED
      BY <1>1, <3>1, <3>2 DEF RequestsHold, SupportTypeOK, Opened
  <2>3. CASE Instant
    <3>1. UNCHANGED <<tickets, optedOut, held>> /\ instant' \in 1 .. LastInstant
      BY <1>1, <2>3, SupportAssumption DEF Instant, SupportTypeOK
    <3> QED
      BY <1>1, <3>1 DEF RequestsHold, SupportTypeOK, Opened, Recipient
  <2> QED
    BY <2>1, <2>2, <2>3
<1>3. LateRepliesWereOpen'
  BY <1>1, <1>2 DEF SupportHeard, LateRepliesWereOpen
<1>4. CursorSplits' /\ SupportHeard'
  BY <1>1, <1>2, <1>3, InboxUntouched
<1> QED
  BY <1>2, <1>4 DEF SupportInv

(* No step breaks the invariant.                                           *)
LEMMA SupportStep == SupportInv /\ [SupportNext]_supportVars => SupportInv'
<1> SUFFICES ASSUME SupportInv, [SupportNext]_supportVars PROVE SupportInv'
  OBVIOUS
<1>1. ASSUME NEW r \in Asker, StoreReply(r) PROVE SupportInv'
  BY <1>1, StoreReplySound
<1>2. ASSUME NEW r \in Asker, Fails(r) \/ IsEnabled(r) PROVE SupportInv'
  BY <1>2, MoveSound
<1>3. ASSUME NEW r \in Asker, NEW id \in NoteId, Notify(r, id) PROVE SupportInv'
  BY <1>3, NotifySound
<1>4. ASSUME NEW r \in Asker, NEW u \in User, NEW n \in Number, Draw(r, u, n) PROVE SupportInv'
  BY <1>4, DrawSound
<1>5. ASSUME NEW r \in Asker, NEW n \in Number, NEW by \in User \cup {"staff"}, NEW internal \in BOOLEAN,
             ReadTicket(r, n, by, internal)
      PROVE  SupportInv'
  BY <1>5, ReadTicketSound
<1>6. ASSUME \/ \E n \in Number : Close(n)
             \/ \E u \in User, enabled \in BOOLEAN : SetPreference(u, enabled)
             \/ Instant
      PROVE  SupportInv'
  BY <1>6, AroundSound
<1>7. ASSUME NEW u \in User, ListPage(u) PROVE SupportInv'
  BY <1>7, ListPageSound
<1>8. ASSUME NEW u \in User, MarkAllRead(u) PROVE SupportInv'
  <2> DEFINE marked == {row \in inbox : row.to = u}
  <2>1. inbox' = {IF row \in marked THEN [row EXCEPT !.isRead = TRUE] ELSE row : row \in inbox}
    BY <1>8 DEF MarkAllRead
  <2>2. marked \in SUBSET inbox
    OBVIOUS
  <2> HIDE DEF marked
  <2> QED
    BY <1>8, <2>1, <2>2, Marked DEF MarkAllRead
<1>9. ASSUME NEW u \in User, NEW id \in NoteId, MarkRead(u, id) PROVE SupportInv'
  <2> DEFINE marked == {row \in inbox : row.to = u /\ row.id = id}
  <2>1. inbox' = {IF row \in marked THEN [row EXCEPT !.isRead = TRUE] ELSE row : row \in inbox}
    BY <1>9 DEF MarkRead
  <2>2. marked \in SUBSET inbox
    OBVIOUS
  <2> HIDE DEF marked
  <2> QED
    BY <1>9, <2>1, <2>2, Marked DEF MarkRead
<1>10. CASE UNCHANGED supportVars
  BY ZenonT(40), <1>10 DEF supportVars, SupportInv, SupportTypeOK, RequestsHold, CursorSplits, SupportHeard,
               LateRepliesWereOpen, ToldRightly, PagesCover, Opened, Recipient
<1> QED
  BY <1>1, <1>2, <1>3, <1>4, <1>5, <1>6, <1>7, <1>8, <1>9, <1>10 DEF SupportNext

(* Tickets, requests, inbox and cursor are as SupportInv says at every     *)
(* step.                                                                   *)
THEOREM SupportIsSound == SupportSpec => []SupportInv
<1>1. SupportInv /\ [SupportNext]_supportVars => SupportInv'
  BY SupportStep
<1> QED
  BY <1>1, InitSupport, PTL DEF SupportSpec

(* For any number of requests, tickets and notifications and any page      *)
(* size: a message in a closed ticket, a notification against a preference *)
(* and a page are what SupportHeard allows.                                *)
THEOREM SupportIsHeard == SupportSpec => []SupportHeard
<1>1. SupportInv => SupportHeard
  BY DEF SupportInv
<1> QED
  BY <1>1, SupportIsSound, PTL

-----------------------------------------------------------------------------
(* Rooms.                                                                  *)

IdsOf(B) == {b.id : b \in B}
Told(B, ids) == {b \in B : b.id \in ids}

(* Messages are as many as their ids.                                      *)
LEMMA AsManyIds ==
  ASSUME NEW B, IsFiniteSet(B), \A a, b \in B : a.id = b.id => a = b
  PROVE  IsFiniteSet(IdsOf(B)) /\ Cardinality(IdsOf(B)) = Cardinality(B)
<1> DEFINE f == [b \in B |-> b.id]
<1>1. f \in Surjection(B, IdsOf(B)) /\ f \in Injection(B, IdsOf(B))
  BY DEF Surjection, Injection, IsInjective, IdsOf
<1> HIDE DEF f
<1>2. /\ IsFiniteSet(IdsOf(B))
      /\ Cardinality(IdsOf(B)) = Cardinality(B) <=> f \in Injection(B, IdsOf(B))
  BY <1>1, FS_Surjection
<1> QED
  BY <1>1, <1>2

(* Some of the ids name as many messages.                                  *)
LEMMA ToldOfIds ==
  ASSUME NEW B, IsFiniteSet(B), \A a, b \in B : a.id = b.id => a = b, NEW ids \in SUBSET IdsOf(B)
  PROVE  /\ IdsOf(Told(B, ids)) = ids /\ IsFiniteSet(Told(B, ids)) /\ IsFiniteSet(ids)
         /\ Cardinality(Told(B, ids)) = Cardinality(ids) /\ Cardinality(ids) \in Nat
<1>1. IdsOf(Told(B, ids)) = ids
  BY DEF IdsOf, Told
<1>2. Told(B, ids) \in SUBSET B
  BY DEF Told
<1>3. IsFiniteSet(Told(B, ids))
  BY <1>2, FS_Subset
<1>4. \A a, b \in Told(B, ids) : a.id = b.id => a = b
  BY <1>2
<1>5. IsFiniteSet(IdsOf(Told(B, ids))) /\ Cardinality(IdsOf(Told(B, ids))) = Cardinality(Told(B, ids))
  BY <1>3, <1>4, AsManyIds
<1> QED
  BY <1>1, <1>3, <1>5, FS_CardinalityType

(* The order of a room: by date, then by id.                               *)
Before(a, b) == a.date < b.date \/ (a.date = b.date /\ a.id <= b.id)

(* It is a total order.                                                    *)
LEMMA BeforeOrder ==
  ASSUME NEW a, NEW b, NEW c, a.date \in Nat, a.id \in Int, b.date \in Nat, b.id \in Int,
         c.date \in Nat, c.id \in Int
  PROVE  /\ Before(a, a)
         /\ Before(a, b) /\ Before(b, c) => Before(a, c)
         /\ Before(a, b) \/ Before(b, a)
         /\ Before(a, b) /\ Before(b, a) => a.id = b.id
         /\ Before(a, b) => a.date <= b.date
  BY DEF Before

(* The fields of a message.                                                *)
LEMMA BubbleTyped ==
  ASSUME ThreadsTypeOK, NEW b \in bubbles
  PROVE  b.id \in Bubble /\ b.id \in Int /\ b.talk \in Talk /\ b.date \in Nat
<1>1. b \in [id : Bubble, talk : Talk, by : Member, date : Nat, readBy : Visitor \cup {Unread}]
  BY DEF ThreadsTypeOK
<1>2. b.id \in Bubble /\ b.talk \in Talk /\ b.date \in Nat
  BY <1>1
<1> QED
  BY <1>2, ThreadsAssumption

(* The cut by rank takes the oldest messages of a room: all of them, or    *)
(* ThreadLimit.                                                            *)
LEMMA RankCut ==
  ASSUME ThreadsTypeOK, NEW t \in Talk,
         NEW T, T = {b \in Of(t) : Rank(b) <= ThreadLimit}
  PROVE  /\ T = Of(t) \/ Cardinality(T) = ThreadLimit
         /\ \A a \in T, b \in Of(t) \ T : a.date <= b.date
<1> USE ThreadsAssumption
<1> DEFINE S == Of(t)
           Upto(b) == {c \in S : Before(c, b)}
<1>1. /\ S \in SUBSET bubbles /\ IsFiniteSet(S) /\ T \in SUBSET S /\ IsFiniteSet(T) /\ Cardinality(T) \in Nat
      /\ \A b \in S : b.talk = t /\ b.date \in Nat /\ b.id \in Int
      /\ \A a, b \in S : a.id = b.id => a = b
  <2>1. S \in SUBSET bubbles /\ IsFiniteSet(bubbles) /\ \A a, b \in bubbles : a.id = b.id => a = b
    BY DEF Of, ThreadsTypeOK
  <2>2. T \in SUBSET S /\ \A b \in S : b.talk = t
    BY DEF Of
  <2> HIDE DEF S
  <2>3. IsFiniteSet(S) /\ IsFiniteSet(T) /\ Cardinality(T) \in Nat
    BY <2>1, <2>2, FS_Subset, FS_CardinalityType
  <2> QED
    BY <2>1, <2>2, <2>3, BubbleTyped
<1>2. \A b \in S : Rank(b) = Cardinality(Upto(b))
  BY <1>1 DEF Rank, Before
<1> HIDE DEF S
<1>3. ASSUME NEW b \in S
      PROVE  IsFiniteSet(Upto(b)) /\ Rank(b) \in Nat
  <2>1. Upto(b) \in SUBSET S
    OBVIOUS
  <2> HIDE DEF Upto
  <2> QED
    BY <1>1, <1>2, <2>1, FS_Subset, FS_CardinalityType
<1>4. ASSUME NEW a \in S, NEW b \in S, Before(a, b)
      PROVE  Rank(a) <= Rank(b)
  <2>1. Upto(a) \in SUBSET Upto(b)
    BY <1>1, <1>4, BeforeOrder
  <2> HIDE DEF Upto
  <2> QED
    BY <1>2, <1>3, <2>1, FS_Subset
<1>5. \A b \in S : b \in T <=> Rank(b) <= ThreadLimit
  BY DEF S
<1>6. \A a \in T, b \in S \ T : Before(a, b) /\ ~Before(b, a)
  <2> SUFFICES ASSUME NEW a \in T, NEW b \in S \ T, ~Before(a, b) \/ Before(b, a) PROVE FALSE
    OBVIOUS
  <2>1. a \in S /\ b \in S
    BY <1>1
  <2>2. Before(b, a)
    BY <1>1, <2>1, BeforeOrder
  <2>3. Rank(b) <= Rank(a) /\ Rank(a) \in Nat /\ Rank(b) \in Nat
    BY <1>3, <1>4, <2>1, <2>2
  <2> QED
    BY <1>5, <2>1, <2>3
<1>7. ASSUME T # S PROVE Cardinality(T) = ThreadLimit
  <2> DEFINE U == S \ T
             R == {p \in U \X U : Before(p[2], p[1]) /\ p[1] # p[2]}
  <2>1. IsFiniteSet(U) /\ U # {}
    <3>1. IsFiniteSet(U)
      BY <1>1, FS_Difference
    <3>2. U # {}
      BY <1>1, <1>7
    <3> QED
      BY <3>1, <3>2
  <2>2. \A x \in U : <<x, x>> \notin R
    OBVIOUS
  <2>3. \A x, y, z \in U : <<x, y>> \in R /\ <<y, z>> \in R => <<x, z>> \in R
    BY <1>1, BeforeOrder
  <2>4. PICK m \in U : \A y \in U : <<m, y>> \notin R
    <3> HIDE DEF U, R
    <3> QED
      BY <2>1, <2>2, <2>3, Greatest
  <2>5. \A y \in U : Before(y, m) => y = m
    BY <2>4
  <2>6. Upto(m) = T \cup {m} /\ m \notin T /\ m \in S
    BY <1>1, <1>6, <2>5, BeforeOrder
  <2>7. Rank(m) = Cardinality(T) + 1
    <3>1. Cardinality(T \cup {m}) = Cardinality(T) + 1
      BY <1>1, <2>6, FS_AddElement
    <3> QED
      BY <1>2, <2>6, <3>1
  <2>8. Cardinality(T) >= ThreadLimit
    BY <1>1, <1>3, <1>5, <2>6, <2>7
  <2>9. Cardinality(T) <= ThreadLimit
    <3>1. CASE T = {}
      BY <3>1, FS_EmptySet
    <3>2. CASE T # {}
      <4> DEFINE Q == {p \in T \X T : Before(p[1], p[2]) /\ p[1] # p[2]}
      <4>1. \A x \in T : <<x, x>> \notin Q
        OBVIOUS
      <4>2. \A x, y, z \in T : <<x, y>> \in Q /\ <<y, z>> \in Q => <<x, z>> \in Q
        BY <1>1, BeforeOrder
      <4>3. PICK g \in T : \A y \in T : <<g, y>> \notin Q
        <5> HIDE DEF Q
        <5>1. IsFiniteSet(T) /\ T # {}
          BY <1>1, <3>2
        <5> QED
          BY <4>1, <4>2, <5>1, Greatest
      <4>4. g \in S /\ \A y \in T : Before(y, g)
        <5>1. \A y \in T : Before(g, y) => y = g
          BY <4>3
        <5> QED
          BY <1>1, <5>1, BeforeOrder
      <4>5. T \in SUBSET Upto(g)
        BY <1>1, <4>4
      <4>6. Cardinality(T) <= Rank(g)
        <5> HIDE DEF Upto
        <5> QED
          BY <1>2, <1>3, <4>4, <4>5, FS_Subset
      <4>7. Rank(g) <= ThreadLimit /\ Rank(g) \in Nat
        BY <1>3, <1>5, <4>4
      <4> QED
        BY <1>1, <4>6, <4>7
    <3> QED
      BY <3>1, <3>2
  <2> QED
    BY <1>1, <2>8, <2>9
<1>8. \A a \in T, b \in S \ T : a.date <= b.date
  BY <1>1, <1>6, BeforeOrder
<1> QED
  BY <1>7, <1>8 DEF S

(* An answer that holds what the cut took from a room says the truth of it,*)
(* and names every message of the room unless it is full.                  *)
LEMMA CutIsTrue ==
  ASSUME ThreadsTypeOK, NEW t \in Talk, NEW T \in SUBSET Of(t),
         T = Of(t) \/ Cardinality(T) = ThreadLimit,
         \A a \in T, b \in Of(t) \ T : a.date <= b.date
  PROVE  /\ IdsOf(T) \in SUBSET Ids /\ IdsOf(T) \in SUBSET Bubble
         /\ Told(bubbles, IdsOf(T)) = T /\ Cardinality(T) = Cardinality(IdsOf(T))
         /\ \A b \in Of(t) : b \in T \/ (Cardinality(T) = ThreadLimit /\ \A a \in T : a.date <= b.date)
<1>1. T \in SUBSET bubbles /\ IsFiniteSet(bubbles) /\ \A a, b \in bubbles : a.id = b.id => a = b
  BY DEF Of, ThreadsTypeOK
<1>2. IdsOf(T) \in SUBSET IdsOf(bubbles)
  BY <1>1 DEF IdsOf
<1>3. Told(bubbles, IdsOf(T)) = T
  BY <1>1 DEF Told, IdsOf
<1>4. Cardinality(Told(bubbles, IdsOf(T))) = Cardinality(IdsOf(T))
  BY <1>1, <1>2, ToldOfIds
<1>5. IdsOf(T) \in SUBSET Bubble
  BY <1>1, BubbleTyped DEF IdsOf
<1> QED
  BY <1>2, <1>3, <1>4, <1>5 DEF Ids, IdsOf

(* The messages of room t stored when visit v began.                       *)
Stored(v, t) == Told(Of(t), visits[v].base)

(* What an answer says of a room, given the messages.                      *)
Tells(B, q, t) ==
    LET row == q.rows[t]
        told == Told(B, row.thread)
        room == {b \in B : b.talk = t}
        before == Told(room, q.base)
    IN  IF q.kind = "inbox"
        THEN row.product = About[t] /\ Cardinality(before) <= row.count /\ row.count <= Cardinality(room)
        ELSE /\ told \subseteq room /\ Cardinality(told) = Cardinality(row.thread)
             /\ q.kind = "get" => row.product = About[t]
             /\ \A b \in before : b \in told \/
                   (Cardinality(told) = ThreadLimit /\ \A a \in told : a.date <= b.date)

(* An answer is true if it is room by room ...                             *)
LEMMA AnswerForm ==
  ASSUME NEW v
  PROVE  AnswerTrue(v) <=> \A t \in DOMAIN visits[v].rows : Tells(bubbles, visits[v], t)
  BY DEF AnswerTrue, Tells, Told, Of

(* ... and so after a step.                                                *)
LEMMA AnswerFormNext ==
  ASSUME NEW v
  PROVE  AnswerTrue(v)' <=> \A t \in DOMAIN visits'[v].rows : Tells(bubbles', visits'[v], t)
  BY DEF AnswerTrue, Tells, Told, Of

(* Messages come, and are marked read once; none is changed or dropped.    *)
Same(a, b) == a.id = b.id /\ a.talk = b.talk /\ a.by = b.by /\ a.date = b.date

(* So an answer that was true stays true.                                  *)
LEMMA AnswersStay ==
  ASSUME ThreadsTypeOK, VisitsSound, NEW v \in Visitor, AnswerTrue(v), visits'[v] = visits[v],
         IsFiniteSet(bubbles'), \A a, b \in bubbles' : a.id = b.id => a = b,
         \A b \in bubbles : \E c \in bubbles' : Same(b, c),
         \A c \in bubbles' : c.id \in Ids => \E b \in bubbles : Same(b, c)
  PROVE  AnswerTrue(v)'
<1> SUFFICES ASSUME NEW t \in DOMAIN visits[v].rows, Tells(bubbles, visits[v], t)
             PROVE  Tells(bubbles', visits[v], t)
  BY AnswerForm, AnswerFormNext
<1> DEFINE row == visits[v].rows[t]
           base == visits[v].base
<1>1. /\ IsFiniteSet(bubbles) /\ \A a, b \in bubbles : a.id = b.id => a = b
      /\ row.thread \in SUBSET IdsOf(bubbles) /\ base \in SUBSET IdsOf(bubbles) /\ row.count \in Nat
  <2>1. row \in [product : Goods, count : Nat, thread : SUBSET Bubble]
    BY DEF ThreadsTypeOK
  <2> QED
    BY <2>1 DEF ThreadsTypeOK, VisitsSound, Ids, IdsOf
<1>2. IdsOf(bubbles) \in SUBSET IdsOf(bubbles')
  BY DEF IdsOf, Same
<1>3. row.thread \in SUBSET IdsOf(bubbles') /\ base \in SUBSET IdsOf(bubbles')
  BY <1>1, <1>2
<1>4. IdsOf(bubbles) = Ids
  BY DEF Ids, IdsOf
<1>5. \A c \in bubbles', b \in bubbles : c.id = b.id => Same(b, c)
  <2> SUFFICES ASSUME NEW c \in bubbles', NEW b \in bubbles, c.id = b.id PROVE Same(b, c)
    OBVIOUS
  <2>1. c.id \in Ids
    BY DEF Ids
  <2>2. PICK d \in bubbles : Same(d, c)
    BY <2>1
  <2>3. d = b
    BY <1>1, <2>2 DEF Same
  <2> QED
    BY <2>2, <2>3
<1> HIDE DEF row, base
<1>6. Cardinality(Told(bubbles', row.thread)) = Cardinality(row.thread)
      /\ Cardinality(Told(bubbles, row.thread)) = Cardinality(row.thread)
  BY <1>1, <1>3, ToldOfIds
<1>7. ASSUME NEW ids \in SUBSET Ids, NEW c \in Told(bubbles', ids)
      PROVE  \E b \in Told(bubbles, ids) : Same(b, c)
  BY <1>7 DEF Told, Same
<1>8. CASE visits[v].kind # "inbox"
  <2>1. /\ Told(bubbles, row.thread) \subseteq Of(t)
        /\ visits[v].kind = "get" => row.product = About[t]
        /\ \A b \in Stored(v, t) : b \in Told(bubbles, row.thread) \/
              (Cardinality(Told(bubbles, row.thread)) = ThreadLimit
                 /\ \A a \in Told(bubbles, row.thread) : a.date <= b.date)
    BY <1>8 DEF row, Tells, Stored, Told, Of
  <2>2. Told(bubbles', row.thread) \subseteq Of(t)'
    <3> SUFFICES ASSUME NEW c \in Told(bubbles', row.thread) PROVE c \in Of(t)'
      OBVIOUS
    <3>1. PICK b \in Told(bubbles, row.thread) : Same(b, c)
      BY <1>1, <1>4, <1>7
    <3>2. b \in Of(t)
      BY <2>1, <3>1
    <3>3. b.talk = t /\ c \in bubbles'
      BY <3>2 DEF Of, Told
    <3> QED
      BY <3>1, <3>3 DEF Of, Same
  <2>3. ASSUME NEW c \in Told(Of(t)', base)
        PROVE  c \in Told(bubbles', row.thread) \/
                 (Cardinality(Told(bubbles', row.thread)) = ThreadLimit
                    /\ \A a \in Told(bubbles', row.thread) : a.date <= c.date)
    <3>1. c \in Told(bubbles', base) /\ c.talk = t
      BY DEF Told, Of
    <3>2. PICK b \in Told(bubbles, base) : Same(b, c)
      BY <1>1, <1>4, <1>7, <3>1
    <3>3. b \in Stored(v, t)
      BY <3>1, <3>2 DEF Told, Stored, Of, Same, base
    <3>4. CASE b \in Told(bubbles, row.thread)
      BY <3>1, <3>2, <3>4 DEF Told, Same
    <3>5. CASE b \notin Told(bubbles, row.thread)
      <4>1. /\ Cardinality(Told(bubbles, row.thread)) = ThreadLimit
            /\ \A a \in Told(bubbles, row.thread) : a.date <= b.date
        BY <2>1, <3>3, <3>5
      <4>2. ASSUME NEW a \in Told(bubbles', row.thread) PROVE a.date <= c.date
        <5>1. PICK d \in Told(bubbles, row.thread) : Same(d, a)
          BY <1>1, <1>4, <1>7
        <5> QED
          BY <3>2, <4>1, <5>1 DEF Same
      <4> QED
        BY <1>6, <4>1, <4>2
    <3> QED
      BY <3>4, <3>5
  <2> QED
    BY <1>6, <1>8, <2>1, <2>2, <2>3 DEF row, base, Tells, Of
<1>9. CASE visits[v].kind = "inbox"
  <2>1. /\ row.product = About[t]
        /\ Cardinality(Stored(v, t)) <= row.count /\ row.count <= Cardinality(Of(t))
    BY <1>9 DEF row, Tells, Stored, Told, Of
  <2>2. /\ IsFiniteSet(Of(t)) /\ IsFiniteSet(Of(t)') /\ Of(t) \in SUBSET bubbles /\ Of(t)' \in SUBSET bubbles'
        /\ Stored(v, t) \in SUBSET bubbles /\ Told(Of(t)', base) \in SUBSET bubbles'
        /\ IsFiniteSet(Stored(v, t)) /\ IsFiniteSet(Told(Of(t)', base))
    <3>1. Of(t) \in SUBSET bubbles /\ Of(t)' \in SUBSET bubbles'
      BY DEF Of
    <3>2. Stored(v, t) \in SUBSET Of(t) /\ Told(Of(t)', base) \in SUBSET Of(t)'
      BY DEF Stored, Told
    <3>3. IsFiniteSet(Of(t)) /\ IsFiniteSet(Of(t)')
      BY <1>1, <3>1, FS_Subset
    <3>4. IsFiniteSet(Stored(v, t)) /\ IsFiniteSet(Told(Of(t)', base))
      BY <3>2, <3>3, FS_Subset
    <3> QED
      BY <3>1, <3>2, <3>3, <3>4
  <2>3. IdsOf(Of(t)) \in SUBSET IdsOf(Of(t)')
    BY DEF IdsOf, Of, Same
  <2>4. IdsOf(Told(Of(t)', base)) \in SUBSET IdsOf(Stored(v, t))
    <3> SUFFICES ASSUME NEW c \in Told(Of(t)', base) PROVE c.id \in IdsOf(Stored(v, t))
      BY DEF IdsOf
    <3>1. c \in Told(bubbles', base) /\ c.talk = t
      BY DEF Told, Of
    <3>2. PICK b \in Told(bubbles, base) : Same(b, c)
      BY <1>1, <1>4, <1>7, <3>1
    <3>3. b \in Stored(v, t) /\ b.id = c.id
      BY <3>1, <3>2 DEF Told, Stored, Of, Same, base
    <3> QED
      BY <3>3 DEF IdsOf
  <2>5. /\ IsFiniteSet(IdsOf(Of(t))) /\ Cardinality(IdsOf(Of(t))) = Cardinality(Of(t))
        /\ IsFiniteSet(IdsOf(Stored(v, t))) /\ Cardinality(IdsOf(Stored(v, t))) = Cardinality(Stored(v, t))
    BY <1>1, <2>2, AsManyIds
  <2>6. /\ IsFiniteSet(IdsOf(Of(t)')) /\ Cardinality(IdsOf(Of(t)')) = Cardinality(Of(t)')
    BY <2>2, AsManyIds
  <2>7. /\ IsFiniteSet(IdsOf(Told(Of(t)', base)))
        /\ Cardinality(IdsOf(Told(Of(t)', base))) = Cardinality(Told(Of(t)', base))
    BY <2>2, AsManyIds
  <2>8. Cardinality(Of(t)) <= Cardinality(Of(t)') /\ Cardinality(Told(Of(t)', base)) <= Cardinality(Stored(v, t))
    BY <2>3, <2>4, <2>5, <2>6, <2>7, FS_Subset
  <2>9. /\ Cardinality(Of(t)) \in Nat /\ Cardinality(Of(t)') \in Nat
        /\ Cardinality(Stored(v, t)) \in Nat /\ Cardinality(Told(Of(t)', base)) \in Nat
    BY <2>2, FS_CardinalityType
  <2>10. Cardinality(Told(Of(t)', base)) <= row.count /\ row.count <= Cardinality(Of(t)')
    BY <1>1, <2>1, <2>8, <2>9
  <2> QED
    BY <1>9, <2>1, <2>10 DEF row, base, Tells, Of
<1> QED
  BY <1>8, <1>9

Kinds == {"none", "get", "inbox", "history", "agent"}
Stages == {"idle", "member", "product", "marked", "answered", "dropped"}
RowType == [product : Goods, count : Nat, thread : SUBSET Bubble]

(* What a thread of messages B shows of one of them, and what a mark says.  *)
Fits(B, row, b) ==
    \/ b.id \in row.thread
    \/ /\ Cardinality(row.thread) = ThreadLimit
       /\ \A a \in B : a.talk = b.talk /\ a.id \in row.thread => a.date <= b.date
ReadIn(B, q, b) ==
    b.by # q.by /\ b.talk \in DOMAIN q.rows /\ (q.at = "answered" => Fits(B, q.rows[b.talk], b))

(* The same, of the messages that are stored.                              *)
LEMMA ReadForm ==
  ASSUME NEW b
  PROVE  ReadMeansShown(b) <=> ReadIn(bubbles, visits[b.readBy], b)
  BY DEF ReadMeansShown, ShownOrCut, ReadIn, Fits, Of

(* The same, after a step.                                                 *)
LEMMA ReadFormNext ==
  ASSUME NEW b
  PROVE  ReadMeansShown(b)' <=> ReadIn(bubbles', visits'[b.readBy], b)
  BY DEF ReadMeansShown, ShownOrCut, ReadIn, Fits, Of

(* What came since is not in the thread, and marks change no date.         *)
LEMMA ReadStays ==
  ASSUME VisitsSound, NEW b, NEW c, NEW v \in Visitor, ReadIn(bubbles, visits[v], b), Same(b, c),
         b.talk \in DOMAIN visits[v].rows,
         \A x \in bubbles' : x.id \in Ids => \E y \in bubbles : Same(y, x)
  PROVE  ReadIn(bubbles', visits[v], c)
<1> DEFINE row == visits[v].rows[b.talk]
<1>1. row.thread \subseteq Ids
  BY DEF VisitsSound
<1>2. c.by = b.by /\ c.talk = b.talk /\ c.id = b.id /\ c.date = b.date
  BY DEF Same
<1>3. visits[v].at = "answered" => Fits(bubbles, row, b)
  BY DEF ReadIn
<1> HIDE DEF row
<1>4. Fits(bubbles, row, b) => Fits(bubbles', row, c)
  BY <1>1, <1>2 DEF Fits, Same
<1> QED
  BY <1>2, <1>3, <1>4 DEF ReadIn, row

(* The fields of a request, and what makes one.                            *)
IsVisit(q) ==
    /\ q \in [at : Stages, kind : Kinds, by : Member \cup {"none"}, rows : {q.rows}, base : SUBSET Bubble]
    /\ DOMAIN q.rows \subseteq Talk /\ q.rows \in [DOMAIN q.rows -> RowType]

(* What the type invariant says of each request.                           *)
LEMMA VisitTyped ==
  ASSUME ThreadsTypeOK
  PROVE  DOMAIN visits = Visitor /\ \A v \in Visitor : IsVisit(visits[v])
  BY DEF ThreadsTypeOK, IsVisit, Stages, Kinds, RowType

(* A request made of typed parts.                                          *)
LEMMA VisitMade ==
  ASSUME NEW at \in Stages, NEW kind \in Kinds, NEW by \in Member \cup {"none"}, NEW rows, NEW base \in SUBSET Bubble,
         DOMAIN rows \subseteq Talk, rows \in [DOMAIN rows -> RowType]
  PROVE  IsVisit(Visit(at, kind, by, rows, base))
  BY DEF IsVisit, Visit

(* One request is replaced.                                                *)
LEMMA VisitStored ==
  ASSUME ThreadsTypeOK, NEW v \in Visitor, NEW q, IsVisit(q), visits' = [visits EXCEPT ![v] = q]
  PROVE  /\ visits' \in [Visitor -> {visits'[w] : w \in Visitor}]
         /\ \A w \in Visitor : IsVisit(visits'[w])
         /\ visits'[v] = q /\ \A w \in Visitor \ {v} : visits'[w] = visits[w]
<1>1. DOMAIN visits = Visitor /\ \A w \in Visitor : IsVisit(visits[w])
  BY VisitTyped
<1>2. /\ DOMAIN visits' = Visitor /\ visits'[v] = q /\ \A w \in Visitor \ {v} : visits'[w] = visits[w]
      /\ visits' = [w \in Visitor |-> visits'[w]]
  <2>1. visits \in [Visitor -> {visits[w] : w \in Visitor}]
    BY DEF ThreadsTypeOK
  <2> QED
    BY <1>1, <2>1
<1>3. visits' \in [Visitor -> {visits'[w] : w \in Visitor}]
  BY <1>2
<1> QED
  BY <1>1, <1>2, <1>3

(* A read step: one request changes, no message does.                      *)
LEMMA ReadStep ==
  ASSUME ThreadsInv, NEW v \in Visitor, NEW q, IsVisit(q), visits' = [visits EXCEPT ![v] = q], bubbles' = bubbles,
         q.base \subseteq Ids, \A t \in DOMAIN q.rows : q.rows[t].thread \subseteq Ids,
         q.kind \in {"get", "history", "agent"} => \E t \in Talk : DOMAIN q.rows = {t},
         q.at = "member" => q.kind # "none",
         q.at = "product" => q.kind \in {"get", "inbox"} /\ \A t \in DOMAIN q.rows : q.rows[t].product = About[t],
         q.at = "marked" => q.kind = "history",
         \A b \in bubbles : b.readBy = v /\ b.readBy # Unread =>
             q.kind = "history" /\ q.at \in {"marked", "answered", "dropped"} /\ q.by = visits[v].by
             /\ DOMAIN q.rows = DOMAIN visits[v].rows
             /\ (q.at = "answered" => Fits(bubbles, q.rows[b.talk], b)),
         q.at = "answered" => \A t \in DOMAIN q.rows : Tells(bubbles, q, t)
  PROVE  ThreadsInv'
<1>1. ThreadsTypeOK /\ VisitsSound /\ MarkedByHistory /\ RoomsTold
  BY DEF ThreadsInv
<1>2. /\ visits' \in [Visitor -> {visits'[w] : w \in Visitor}]
      /\ \A w \in Visitor : IsVisit(visits'[w])
      /\ visits'[v] = q /\ \A w \in Visitor \ {v} : visits'[w] = visits[w]
  BY <1>1, VisitStored
<1>3. ThreadsTypeOK'
  BY <1>1, <1>2 DEF ThreadsTypeOK, IsVisit, Stages, Kinds, RowType, Goods
<1>4. VisitsSound'
  <2>1. Ids' = Ids
    BY DEF Ids
  <2> SUFFICES ASSUME NEW w \in Visitor
               PROVE  /\ visits'[w].base \subseteq Ids /\ \A t \in DOMAIN visits'[w].rows : visits'[w].rows[t].thread \subseteq Ids
                      /\ visits'[w].kind \in {"get", "history", "agent"} => \E t \in Talk : DOMAIN visits'[w].rows = {t}
                      /\ visits'[w].at = "member" => visits'[w].kind # "none"
                      /\ visits'[w].at = "product" =>
                            visits'[w].kind \in {"get", "inbox"}
                              /\ \A t \in DOMAIN visits'[w].rows : visits'[w].rows[t].product = About[t]
                      /\ visits'[w].at = "marked" => visits'[w].kind = "history"
    BY <2>1 DEF VisitsSound
  <2>2. CASE w = v
    BY <1>2, <2>2
  <2>3. CASE w # v
    BY <1>1, <1>2, <2>3 DEF VisitsSound
  <2> QED
    BY <2>2, <2>3
<1>5. \A b \in bubbles : b.readBy # Unread => b.readBy \in Visitor
  <2> SUFFICES ASSUME NEW b \in bubbles, b.readBy # Unread PROVE b.readBy \in Visitor
    OBVIOUS
  <2>1. b \in [id : Bubble, talk : Talk, by : Member, date : Nat, readBy : Visitor \cup {Unread}]
    BY <1>1 DEF ThreadsTypeOK
  <2> QED
    BY <2>1
<1>6. MarkedByHistory'
  <2> SUFFICES ASSUME NEW b \in bubbles, b.readBy # Unread
               PROVE  visits'[b.readBy].kind = "history" /\ visits'[b.readBy].at \in {"marked", "answered", "dropped"}
    BY DEF MarkedByHistory
  <2>1. CASE b.readBy = v
    BY <1>2, <2>1
  <2>2. CASE b.readBy # v
    BY <1>1, <1>2, <1>5, <2>2 DEF MarkedByHistory
  <2> QED
    BY <2>1, <2>2
<1>7. RoomsTold'
  <2>1. ASSUME NEW w \in Visitor, visits'[w].at = "answered"
        PROVE  AnswerTrue(w)'
    <3>1. CASE w = v
      BY <1>2, <2>1, <3>1, AnswerFormNext
    <3>2. CASE w # v
      <4>1. AnswerTrue(w)
        BY <1>1, <1>2, <2>1, <3>2 DEF RoomsTold
      <4>2. \A t \in DOMAIN visits[w].rows : Tells(bubbles, visits[w], t)
        BY <4>1, AnswerForm
      <4> QED
        BY <1>2, <3>2, <4>2, AnswerFormNext
    <3> QED
      BY <3>1, <3>2
  <2>2. ASSUME NEW b \in bubbles, b.readBy # Unread
        PROVE  ReadMeansShown(b)'
    <3>1. ReadIn(bubbles, visits[b.readBy], b)
      BY <1>1, <2>2, ReadForm DEF RoomsTold
    <3>2. CASE b.readBy = v
      <4>1. b.by # q.by /\ b.talk \in DOMAIN q.rows /\ (q.at = "answered" => Fits(bubbles, q.rows[b.talk], b))
        BY <2>2, <3>1, <3>2 DEF ReadIn
      <4> QED
        BY <1>2, <3>2, <4>1, ReadFormNext DEF ReadIn
    <3>3. CASE b.readBy # v
      BY <1>2, <1>5, <2>2, <3>1, <3>3, ReadFormNext
    <3> QED
      BY <3>2, <3>3
  <2> QED
    BY <2>1, <2>2 DEF RoomsTold
<1> QED
  BY <1>3, <1>4, <1>6, <1>7 DEF ThreadsInv

(* Rooms without messages satisfy the invariant.                           *)
LEMMA InitThreads == ThreadsInit => ThreadsInv
<1> SUFFICES ASSUME ThreadsInit PROVE ThreadsInv
  OBVIOUS
<1>1. bubbles = {} /\ visits = [v \in Visitor |-> NoVisit] /\ \A v \in Visitor : visits[v] = NoVisit
  BY DEF ThreadsInit
<1>2. IsVisit(NoVisit)
  <2>1. DOMAIN <<>> = {} /\ <<>> \in [{} -> RowType]
    OBVIOUS
  <2> QED
    BY <2>1 DEF NoVisit, Visit, IsVisit, Stages, Kinds
<1>3. ThreadsTypeOK
  <2>1. visits \in [Visitor -> {visits[v] : v \in Visitor}]
    BY <1>1
  <2> QED
    BY <1>1, <1>2, <2>1, FS_EmptySet DEF ThreadsTypeOK, IsVisit, Stages, Kinds, RowType
<1>4. VisitsSound
  <2>1. DOMAIN <<>> = {}
    OBVIOUS
  <2> QED
    BY <1>1, <2>1 DEF VisitsSound, NoVisit, Visit
<1>5. MarkedByHistory /\ RoomsTold
  BY <1>1 DEF MarkedByHistory, RoomsTold, NoVisit, Visit
<1> QED
  BY <1>3, <1>4, <1>5 DEF ThreadsInv

(* What a request in course can rely on.                                   *)
LEMMA InCourse ==
  ASSUME ThreadsInv, NEW v \in Visitor, visits[v].at \notin {"marked", "answered", "dropped"}
  PROVE  \A b \in bubbles : b.readBy = v => b.readBy = Unread
  BY DEF ThreadsInv, MarkedByHistory

(* A request begins with rows that hold nothing yet.                       *)
LEMMA BeginsSound ==
  ASSUME ThreadsInv, NEW v \in Visitor, NEW kind \in Kinds, kind # "none", NEW by \in Member \cup {"none"},
         NEW rooms \in SUBSET Talk, kind \in {"get", "history", "agent"} => \E t \in Talk : rooms = {t},
         Begins(v, kind, by, rooms)
  PROVE  ThreadsInv'
<1> DEFINE rows == [t \in rooms |-> Row(t)]
           base == {b.id : b \in bubbles}
           q == Visit("member", kind, by, rows, base)
<1>1. visits[v].at = "idle" /\ visits' = [visits EXCEPT ![v] = q] /\ bubbles' = bubbles
  BY DEF Begins
<1>2. DOMAIN rows = rooms /\ rows \in [DOMAIN rows -> RowType] /\ \A t \in rooms : rows[t].thread = {}
  <2>1. \A t \in rooms : Row(t) \in RowType /\ Row(t).thread = {}
    BY DEF Row, RowType, Goods
  <2> QED
    BY <2>1
<1>3. base \in SUBSET Bubble /\ base = Ids
  <2>1. ThreadsTypeOK
    BY DEF ThreadsInv
  <2> QED
    BY <2>1, BubbleTyped DEF Ids
<1> HIDE DEF rows, base
<1>4. IsVisit(q)
  BY <1>2, <1>3, VisitMade DEF Stages
<1>5. q.at = "member" /\ q.kind = kind /\ q.rows = rows /\ q.base = base
  BY DEF Visit
<1> HIDE DEF q
<1>6. \A b \in bubbles : b.readBy = v => b.readBy = Unread
  BY <1>1, InCourse
<1> QED
  BY <1>1, <1>2, <1>3, <1>4, <1>5, <1>6, ReadStep

(* The three hydrations fill one column of every row.                      *)
LEMMA AttachManyRows ==
  ASSUME NEW rows, DOMAIN rows \subseteq Talk, rows \in [DOMAIN rows -> RowType]
  PROVE  LET new == AttachMany(rows)
         IN  /\ DOMAIN new = DOMAIN rows /\ new \in [DOMAIN rows -> RowType]
             /\ \A t \in DOMAIN rows : new[t].product = About[t] /\ new[t].thread = rows[t].thread
<1> DEFINE byId == {About[t] : t \in DOMAIN rows} \ {NoGood}
           good(t) == IF About[t] \in byId THEN About[t] ELSE NoGood
           new == AttachMany(rows)
<1>1. new = [t \in DOMAIN rows |-> [rows[t] EXCEPT !.product = good(t)]]
  BY DEF AttachMany
<1>2. \A t \in DOMAIN rows : good(t) = About[t] /\ About[t] \in Goods
  BY DEF Goods
<1> HIDE DEF good, new
<1>3. ASSUME NEW t \in DOMAIN rows
      PROVE  new[t] \in RowType /\ new[t].product = About[t] /\ new[t].thread = rows[t].thread
  <2>1. rows[t] \in RowType /\ new[t] = [rows[t] EXCEPT !.product = good(t)] /\ good(t) = About[t] /\ About[t] \in Goods
    BY <1>1, <1>2
  <2> QED
    BY <2>1 DEF RowType
<1> QED
  BY <1>1, <1>3 DEF new

(* The threads are the cut of each room.                                   *)
LEMMA AttachChildrenRows ==
  ASSUME ThreadsTypeOK, NEW rows, DOMAIN rows \subseteq Talk, rows \in [DOMAIN rows -> RowType]
  PROVE  LET new == AttachChildren(rows)
         IN  /\ DOMAIN new = DOMAIN rows /\ new \in [DOMAIN rows -> RowType]
             /\ \A t \in DOMAIN rows : new[t].product = rows[t].product
                                      /\ new[t].thread = IdsOf({b \in Of(t) : Rank(b) <= ThreadLimit})
<1> DEFINE children == {b \in bubbles : b.talk \in DOMAIN rows /\ Rank(b) <= ThreadLimit}
           named(t) == {b.id : b \in {c \in children : c.talk = t}}
           new == AttachChildren(rows)
<1>1. new = [t \in DOMAIN rows |-> [rows[t] EXCEPT !.thread = named(t)]]
  BY DEF AttachChildren
<1>2. ASSUME NEW t \in DOMAIN rows
      PROVE  named(t) = IdsOf({b \in Of(t) : Rank(b) <= ThreadLimit}) /\ named(t) \in SUBSET Bubble
  <2>1. {c \in children : c.talk = t} = {b \in Of(t) : Rank(b) <= ThreadLimit}
    BY DEF Of
  <2>2. \A c \in {c \in children : c.talk = t} : c.id \in Bubble
    BY BubbleTyped
  <2> HIDE DEF children
  <2> QED
    BY <2>1, <2>2 DEF IdsOf
<1> HIDE DEF named, new
<1>3. ASSUME NEW t \in DOMAIN rows
      PROVE  new[t] \in RowType /\ new[t].product = rows[t].product /\ new[t].thread = named(t)
  <2>1. rows[t] \in RowType /\ new[t] = [rows[t] EXCEPT !.thread = named(t)] /\ named(t) \in SUBSET Bubble
    BY <1>1, <1>2
  <2> QED
    BY <2>1 DEF RowType
<1> QED
  BY <1>1, <1>2, <1>3 DEF new

(* The counts are those of each room, 0 where there is none.               *)
LEMMA CountChildrenRows ==
  ASSUME ThreadsTypeOK, NEW rows, DOMAIN rows \subseteq Talk, rows \in [DOMAIN rows -> RowType]
  PROVE  LET new == CountChildren(rows)
         IN  /\ DOMAIN new = DOMAIN rows /\ new \in [DOMAIN rows -> RowType]
             /\ \A t \in DOMAIN rows : new[t].product = rows[t].product /\ new[t].thread = rows[t].thread
                                      /\ new[t].count = Cardinality(Of(t))
<1> DEFINE grouped == {<<t, Cardinality(Of(t))>> : t \in {b.talk : b \in bubbles}}
           counted(t) == {g \in grouped : g[1] = t}
           count(t) == IF counted(t) = {} THEN 0 ELSE (CHOOSE g \in counted(t) : TRUE)[2]
           new == CountChildren(rows)
<1>1. new = [t \in DOMAIN rows |-> [rows[t] EXCEPT !.count = count(t)]]
  BY DEF CountChildren
<1>2. ASSUME NEW t \in DOMAIN rows
      PROVE  count(t) = Cardinality(Of(t)) /\ count(t) \in Nat
  <2>1. IsFiniteSet(Of(t)) /\ Cardinality(Of(t)) \in Nat
    <3>1. Of(t) \in SUBSET bubbles
      BY DEF Of
    <3> QED
      BY <3>1, FS_Subset, FS_CardinalityType DEF ThreadsTypeOK
  <2>2. CASE Of(t) = {}
    <3>1. counted(t) = {}
      <4>1. \A g \in grouped : g[1] \in {b.talk : b \in bubbles}
        OBVIOUS
      <4>2. t \notin {b.talk : b \in bubbles}
        BY <2>2 DEF Of
      <4> QED
        BY <4>1, <4>2
    <3>2. Cardinality(Of(t)) = 0
      BY <2>2, FS_EmptySet
    <3> QED
      BY <3>1, <3>2
  <2>3. CASE Of(t) # {}
    <3>1. counted(t) = {<<t, Cardinality(Of(t))>>}
      <4>1. t \in {b.talk : b \in bubbles}
        BY <2>3 DEF Of
      <4>2. <<t, Cardinality(Of(t))>> \in counted(t)
        BY <4>1
      <4>3. \A g \in counted(t) : g = <<t, Cardinality(Of(t))>>
        OBVIOUS
      <4> HIDE DEF counted
      <4> QED
        BY <4>2, <4>3
    <3>2. (CHOOSE g \in counted(t) : TRUE) = <<t, Cardinality(Of(t))>>
      BY <3>1
    <3>3. count(t) = Cardinality(Of(t))
      BY <3>1, <3>2
    <3> HIDE DEF count
    <3> QED
      BY <2>1, <3>3
  <2> QED
    BY <2>2, <2>3
<1> HIDE DEF count, new
<1>3. ASSUME NEW t \in DOMAIN rows
      PROVE  new[t] \in RowType /\ new[t].product = rows[t].product /\ new[t].thread = rows[t].thread
             /\ new[t].count = count(t)
  <2>1. rows[t] \in RowType /\ new[t] = [rows[t] EXCEPT !.count = count(t)] /\ count(t) \in Nat
    BY <1>1, <1>2
  <2> QED
    BY <2>1 DEF RowType
<1> QED
  BY <1>1, <1>2, <1>3 DEF new

(* A request that goes on with what it holds.                              *)
LEMMA GoesOn ==
  ASSUME ThreadsInv, NEW v \in Visitor, NEW where \in Stages \ {"idle", "member"}, NEW rows,
         visits' = [visits EXCEPT ![v] = Visit(where, visits[v].kind, visits[v].by, rows, visits[v].base)],
         bubbles' = bubbles,
         DOMAIN rows = DOMAIN visits[v].rows, rows \in [DOMAIN rows -> RowType],
         \A t \in DOMAIN rows : rows[t].thread \subseteq Ids,
         where = "product" => visits[v].kind \in {"get", "inbox"} /\ \A t \in DOMAIN rows : rows[t].product = About[t],
         where = "marked" => visits[v].kind = "history",
         where = "answered" =>
             \A t \in DOMAIN rows : Tells(bubbles, Visit(where, visits[v].kind, visits[v].by, rows, visits[v].base), t),
         visits[v].at \in {"member", "product"} \/
            (where = "answered" /\ visits[v].at = "marked" /\ \A b \in bubbles :
               b.talk \in DOMAIN rows => Fits(bubbles, rows[b.talk], b))
  PROVE  ThreadsInv'
<1> DEFINE q == Visit(where, visits[v].kind, visits[v].by, rows, visits[v].base)
<1>1. ThreadsTypeOK /\ VisitsSound /\ MarkedByHistory /\ RoomsTold /\ IsVisit(visits[v])
  BY VisitTyped DEF ThreadsInv
<1>2. visits' = [visits EXCEPT ![v] = q]
  OBVIOUS
<1>3. /\ q.at = where /\ q.kind = visits[v].kind /\ q.by = visits[v].by /\ q.rows = rows /\ q.base = visits[v].base
  BY DEF Visit
<1>4. IsVisit(q)
  <2>1. /\ visits[v].kind \in Kinds /\ visits[v].by \in Member \cup {"none"} /\ visits[v].base \in SUBSET Bubble
        /\ DOMAIN rows \subseteq Talk
    BY <1>1 DEF IsVisit
  <2> QED
    BY <2>1, VisitMade
<1>5. where = "answered" => \A t \in DOMAIN q.rows : Tells(bubbles, q, t)
  BY <1>3
<1> HIDE DEF q
<1>6. /\ q.base \subseteq Ids /\ \A t \in DOMAIN q.rows : q.rows[t].thread \subseteq Ids
      /\ q.kind \in {"get", "history", "agent"} => \E t \in Talk : DOMAIN q.rows = {t}
  BY <1>1, <1>3 DEF VisitsSound
<1>7. ASSUME NEW b \in bubbles, b.readBy = v, b.readBy # Unread
      PROVE  q.kind = "history" /\ q.at \in {"marked", "answered", "dropped"} /\ q.by = visits[v].by
             /\ DOMAIN q.rows = DOMAIN visits[v].rows
             /\ (q.at = "answered" => Fits(bubbles, q.rows[b.talk], b))
  <2>1. /\ visits[v].kind = "history" /\ visits[v].at \in {"marked", "answered", "dropped"}
        /\ b.talk \in DOMAIN visits[v].rows
    BY <1>1, <1>7 DEF MarkedByHistory, RoomsTold, ReadMeansShown
  <2> QED
    BY <1>3, <2>1
<1> QED
  BY <1>2, <1>3, <1>4, <1>5, <1>6, <1>7, ReadStep

(* The products are attached.                                              *)
LEMMA WithProductsSound ==
  ASSUME ThreadsInv, NEW v \in Visitor, WithProducts(v)
  PROVE  ThreadsInv'
<1> DEFINE rows == AttachMany(visits[v].rows)
<1>1. VisitsSound /\ IsVisit(visits[v])
  BY VisitTyped DEF ThreadsInv
<1>2. /\ visits[v].at = "member" /\ visits[v].kind \in {"get", "inbox"} /\ bubbles' = bubbles
      /\ visits' = [visits EXCEPT ![v] = Visit("product", visits[v].kind, visits[v].by, rows, visits[v].base)]
  BY DEF WithProducts, Proceeds
<1>3. /\ DOMAIN rows = DOMAIN visits[v].rows /\ rows \in [DOMAIN rows -> RowType]
      /\ \A t \in DOMAIN rows : rows[t].product = About[t] /\ rows[t].thread = visits[v].rows[t].thread
  BY <1>1, AttachManyRows DEF IsVisit
<1>4. \A t \in DOMAIN rows : rows[t].thread \subseteq Ids
  BY <1>1, <1>3 DEF VisitsSound
<1>5. "product" \in Stages \ {"idle", "member"}
  BY DEF Stages
<1>6. \A t \in DOMAIN rows : rows[t].product = About[t]
  BY <1>3
<1> HIDE DEF rows
<1>7. "product" # "answered" /\ "product" # "marked" /\ DOMAIN rows = DOMAIN visits[v].rows
      /\ rows \in [DOMAIN rows -> RowType]
  BY <1>3
<1> QED
  BY <1>2, <1>4, <1>5, <1>6, <1>7, GoesOn

(* A thread that the cut filled tells the truth of its room.               *)
LEMMA ThreadTells ==
  ASSUME ThreadsTypeOK, NEW q, NEW t \in Talk, q.kind # "inbox", NEW T \in SUBSET Of(t),
         T = Of(t) \/ Cardinality(T) = ThreadLimit, \A a \in T, b \in Of(t) \ T : a.date <= b.date,
         q.rows[t].thread = IdsOf(T), q.kind = "get" => q.rows[t].product = About[t]
  PROVE  Tells(bubbles, q, t)
<1>1. /\ Told(bubbles, IdsOf(T)) = T /\ Cardinality(T) = Cardinality(IdsOf(T))
      /\ \A b \in Of(t) : b \in T \/ (Cardinality(T) = ThreadLimit /\ \A a \in T : a.date <= b.date)
  BY CutIsTrue
<1> QED
  BY <1>1 DEF Tells, Told, Of

(* The end of a read of one room, whose thread is in the row.              *)
LEMMA RoomAnswered ==
  ASSUME ThreadsInv, NEW v \in Visitor, NEW rows, NEW t \in Talk, DOMAIN visits[v].rows = {t},
         visits' = [visits EXCEPT ![v] = Visit("answered", visits[v].kind, visits[v].by, rows, visits[v].base)],
         bubbles' = bubbles, visits[v].kind # "inbox", visits[v].at \in {"member", "product", "marked"},
         DOMAIN rows = {t}, rows \in [DOMAIN rows -> RowType],
         NEW T \in SUBSET Of(t), rows[t].thread = IdsOf(T),
         T = Of(t) \/ Cardinality(T) = ThreadLimit, \A a \in T, b \in Of(t) \ T : a.date <= b.date,
         visits[v].kind = "get" => rows[t].product = About[t]
  PROVE  ThreadsInv'
<1> DEFINE q == Visit("answered", visits[v].kind, visits[v].by, rows, visits[v].base)
<1>1. ThreadsTypeOK
  BY DEF ThreadsInv
<1>2. q.kind = visits[v].kind /\ q.rows = rows
  BY DEF Visit
<1> HIDE DEF q
<1>3. Tells(bubbles, q, t)
  BY <1>1, <1>2, ThreadTells
<1>4. \A u \in DOMAIN rows : rows[u].thread \subseteq Ids /\ Tells(bubbles, q, u)
  BY <1>1, <1>3, CutIsTrue
<1>5. ASSUME NEW b \in bubbles, b.talk \in DOMAIN rows
      PROVE  Fits(bubbles, rows[b.talk], b)
  <2>1. b \in Of(t) /\ b.talk = t
    BY <1>5 DEF Of
  <2>2. Cardinality(T) = Cardinality(IdsOf(T))
    BY <1>1, CutIsTrue
  <2>3. CASE b \in T
    BY <2>1, <2>3 DEF Fits, IdsOf
  <2>4. CASE b \notin T
    <3>1. Cardinality(IdsOf(T)) = ThreadLimit /\ \A a \in T : a.date <= b.date
      BY <2>1, <2>2, <2>4
    <3>2. \A a \in bubbles : a.talk = t /\ a.id \in IdsOf(T) => a \in T
      BY <1>1 DEF IdsOf, ThreadsTypeOK, Of
    <3> QED
      BY <2>1, <3>1, <3>2 DEF Fits
  <2> QED
    BY <2>3, <2>4
<1>6. "answered" \in Stages \ {"idle", "member"}
  BY DEF Stages
<1>7. DOMAIN rows = DOMAIN visits[v].rows
  OBVIOUS
<1> QED
  BY ZenonT(40), <1>4, <1>5, <1>6, <1>7, GoesOn DEF q

(* get and history end with the threads of their room.                     *)
LEMMA ThreadAnswered ==
  ASSUME ThreadsInv, NEW v \in Visitor,
         visits[v].at \in {"product", "marked"}, visits[v].kind \in {"get", "history"},
         visits[v].kind = "get" => visits[v].at = "product", Answered(v, AttachChildren(visits[v].rows))
  PROVE  ThreadsInv'
<1> DEFINE rows == AttachChildren(visits[v].rows)
<1>1. ThreadsTypeOK /\ VisitsSound /\ IsVisit(visits[v])
  BY VisitTyped DEF ThreadsInv
<1>2. PICK t \in Talk : DOMAIN visits[v].rows = {t}
  BY <1>1 DEF VisitsSound
<1> DEFINE T == {b \in Of(t) : Rank(b) <= ThreadLimit}
<1>3. /\ DOMAIN rows = {t} /\ rows \in [DOMAIN rows -> RowType]
      /\ rows[t].product = visits[v].rows[t].product /\ rows[t].thread = IdsOf(T)
  BY <1>1, <1>2, AttachChildrenRows DEF IsVisit
<1>4. /\ T = Of(t) \/ Cardinality(T) = ThreadLimit
      /\ \A a \in T, b \in Of(t) \ T : a.date <= b.date
  BY <1>1, RankCut
<1>5. visits[v].kind = "get" => rows[t].product = About[t]
  BY <1>1, <1>2, <1>3 DEF VisitsSound
<1>6. /\ visits' = [visits EXCEPT ![v] = Visit("answered", visits[v].kind, visits[v].by, rows, visits[v].base)]
      /\ bubbles' = bubbles
  BY DEF Answered, Proceeds
<1>7. T \in SUBSET Of(t)
  OBVIOUS
<1> HIDE DEF rows, T
<1> QED
  BY <1>2, <1>3, <1>4, <1>5, <1>6, <1>7, RoomAnswered

(* inbox ends with the counts of its rooms.                                *)
LEMMA HydrateInboxSound ==
  ASSUME ThreadsInv, NEW v \in Visitor, HydrateInbox(v)
  PROVE  ThreadsInv'
<1> DEFINE rows == CountChildren(visits[v].rows)
           q == Visit("answered", visits[v].kind, visits[v].by, rows, visits[v].base)
<1>1. ThreadsTypeOK /\ VisitsSound /\ IsVisit(visits[v])
  BY VisitTyped DEF ThreadsInv
<1>2. visits[v].at = "product" /\ visits[v].kind = "inbox" /\ visits' = [visits EXCEPT ![v] = q] /\ bubbles' = bubbles
  BY DEF HydrateInbox, Answered, Proceeds
<1>3. /\ DOMAIN rows = DOMAIN visits[v].rows /\ rows \in [DOMAIN rows -> RowType]
      /\ \A t \in DOMAIN rows : rows[t].product = visits[v].rows[t].product
             /\ rows[t].thread = visits[v].rows[t].thread /\ rows[t].count = Cardinality(Of(t))
  BY <1>1, CountChildrenRows DEF IsVisit
<1>4. \A t \in DOMAIN rows : rows[t].thread \subseteq Ids /\ rows[t].product = About[t]
  BY <1>1, <1>2, <1>3 DEF VisitsSound
<1>5. q.kind = "inbox" /\ q.rows = rows
  BY <1>2 DEF Visit
<1> HIDE DEF rows, q
<1>6. ASSUME NEW t \in DOMAIN rows PROVE Tells(bubbles, q, t)
  <2>1. Of(t) \in SUBSET bubbles /\ Told(Of(t), q.base) \in SUBSET Of(t) /\ IsFiniteSet(bubbles)
    BY <1>1 DEF Of, Told, ThreadsTypeOK
  <2>2. IsFiniteSet(Of(t)) /\ Cardinality(Of(t)) \in Nat
    BY <2>1, FS_Subset, FS_CardinalityType
  <2>3. Cardinality(Told(Of(t), q.base)) <= Cardinality(Of(t))
    BY <2>1, <2>2, FS_Subset
  <2> QED
    BY <1>3, <1>4, <1>5, <2>2, <2>3 DEF Tells, Of
<1>7. "answered" \in Stages \ {"idle", "member"}
  BY DEF Stages
<1>8. \A t \in DOMAIN rows : rows[t].thread \subseteq Ids
  BY <1>4
<1>9. DOMAIN rows = DOMAIN visits[v].rows /\ rows \in [DOMAIN rows -> RowType]
  BY <1>3
<1>10. /\ visits' = [visits EXCEPT ![v] = Visit("answered", visits[v].kind, visits[v].by, rows, visits[v].base)]
       /\ \A t \in DOMAIN rows : Tells(bubbles, Visit("answered", visits[v].kind, visits[v].by, rows, visits[v].base), t)
  BY <1>2, <1>6 DEF q
<1>11. /\ visits[v].at \in {"member", "product"} /\ "answered" # "product" /\ "answered" # "marked"
       /\ bubbles' = bubbles
  BY <1>2
<1> QED
  BY <1>7, <1>8, <1>9, <1>10, <1>11, GoesOn

(* The agent's read ends with the oldest messages by date, ties cut        *)
(* anywhere.                                                               *)
LEMMA AgentReadsSound ==
  ASSUME ThreadsInv, NEW v \in Visitor, AgentReads(v)
  PROVE  ThreadsInv'
<1>1. ThreadsTypeOK /\ VisitsSound /\ IsVisit(visits[v])
  BY VisitTyped DEF ThreadsInv
<1>2. visits[v].at = "member" /\ visits[v].kind = "agent"
  BY DEF AgentReads
<1>3. PICK u \in DOMAIN visits[v].rows, S \in SUBSET bubbles :
         /\ S \subseteq Of(u) /\ Cardinality(S) = Smallest(Cardinality(Of(u)), ThreadLimit)
         /\ \A a \in S, b \in Of(u) \ S : a.date <= b.date
         /\ visits' = [visits EXCEPT ![v] = Visit("answered", visits[v].kind, visits[v].by,
                [visits[v].rows EXCEPT ![u].thread = IdsOf(S)], visits[v].base)]
         /\ bubbles' = bubbles
  BY DEF AgentReads, Answered, Proceeds, IdsOf
<1>4. PICK t \in Talk : DOMAIN visits[v].rows = {t}
  BY <1>1, <1>2 DEF VisitsSound
<1>5. u = t /\ S \in SUBSET Of(t)
  BY <1>3, <1>4
<1> DEFINE rows == [visits[v].rows EXCEPT ![u].thread = IdsOf(S)]
<1>6. S = Of(t) \/ Cardinality(S) = ThreadLimit
  <2>1. Of(t) \in SUBSET bubbles /\ IsFiniteSet(bubbles)
    BY <1>1 DEF Of, ThreadsTypeOK
  <2>2. IsFiniteSet(Of(t))
    BY <2>1, FS_Subset
  <2>3. Cardinality(S) = Cardinality(Of(t)) => S = Of(t)
    BY <1>5, <2>2, FS_Subset
  <2> QED
    BY <1>3, <1>5, <2>3 DEF Smallest
<1>7. IdsOf(S) \in SUBSET Bubble
  BY <1>1, <1>3, BubbleTyped DEF IdsOf
<1>8. /\ DOMAIN rows = {t} /\ rows \in [DOMAIN rows -> RowType] /\ rows[t].thread = IdsOf(S)
  <2>1. visits[v].rows \in [{t} -> RowType]
    BY <1>1, <1>4 DEF IsVisit
  <2>2. [visits[v].rows[t] EXCEPT !.thread = IdsOf(S)] \in RowType
    BY <1>7, <2>1 DEF RowType
  <2> QED
    BY <1>5, <2>1, <2>2 DEF RowType
<1>9. /\ visits' = [visits EXCEPT ![v] = Visit("answered", visits[v].kind, visits[v].by, rows, visits[v].base)]
      /\ bubbles' = bubbles /\ \A a \in S, b \in Of(t) \ S : a.date <= b.date
  BY <1>3, <1>5
<1> HIDE DEF rows
<1>10. /\ visits[v].kind # "inbox" /\ visits[v].kind # "get" /\ visits[v].at \in {"member", "product", "marked"}
  BY <1>2
<1>11. S \in SUBSET Of(t)
  BY <1>5
<1>12. rows \in [DOMAIN rows -> RowType] /\ DOMAIN rows = {t} /\ rows[t].thread = IdsOf(S)
  BY <1>8
<1> QED
  BY <1>4, <1>6, <1>9, <1>10, <1>11, <1>12, RoomAnswered

(* A request that is cut short keeps what its marks need.                  *)
LEMMA VisitFailsSound ==
  ASSUME ThreadsInv, NEW v \in Visitor, VisitFails(v)
  PROVE  ThreadsInv'
<1>1. ThreadsTypeOK /\ VisitsSound /\ MarkedByHistory /\ RoomsTold /\ IsVisit(visits[v])
  BY VisitTyped DEF ThreadsInv
<1>2. CASE visits[v].at = "marked"
  <2> DEFINE q == Visit("dropped", visits[v].kind, visits[v].by, visits[v].rows, {})
  <2>1. visits' = [visits EXCEPT ![v] = q] /\ bubbles' = bubbles
    BY <1>2 DEF VisitFails
  <2>2. /\ visits[v].kind \in Kinds /\ visits[v].by \in Member \cup {"none"} /\ "dropped" \in Stages
        /\ DOMAIN visits[v].rows \subseteq Talk /\ visits[v].rows \in [DOMAIN visits[v].rows -> RowType]
    BY <1>1 DEF IsVisit, Stages
  <2>3. {} \in SUBSET Bubble
    OBVIOUS
  <2>4. IsVisit(q)
    BY <2>2, <2>3, VisitMade
  <2>5. q.at = "dropped" /\ q.kind = visits[v].kind /\ q.by = visits[v].by /\ q.rows = visits[v].rows /\ q.base = {}
    BY DEF Visit
  <2> HIDE DEF q
  <2>6. /\ q.base \subseteq Ids /\ \A t \in DOMAIN q.rows : q.rows[t].thread \subseteq Ids
        /\ q.kind \in {"get", "history", "agent"} => \E t \in Talk : DOMAIN q.rows = {t}
    BY <1>1, <2>5 DEF VisitsSound
  <2>7. \A b \in bubbles : b.readBy = v /\ b.readBy # Unread => q.kind = "history"
    BY <1>1, <2>5 DEF MarkedByHistory
  <2> QED
    BY <2>1, <2>4, <2>5, <2>6, <2>7, ReadStep
<1>3. CASE visits[v].at # "marked"
  <2> DEFINE q == Visit("dropped", "none", "none", <<>>, {})
  <2>1. visits' = [visits EXCEPT ![v] = q] /\ bubbles' = bubbles /\ visits[v].at \in {"member", "product"}
    BY <1>3 DEF VisitFails
  <2>2. DOMAIN <<>> = {} /\ <<>> \in [{} -> RowType]
    OBVIOUS
  <2>3. "dropped" \in Stages /\ "none" \in Kinds /\ "none" \in Member \cup {"none"} /\ {} \in SUBSET Bubble
    BY DEF Stages, Kinds
  <2>4. DOMAIN <<>> \subseteq Talk /\ <<>> \in [DOMAIN <<>> -> RowType]
    BY <2>2
  <2>5. IsVisit(q)
    BY <2>3, <2>4, VisitMade
  <2>6. q.at = "dropped" /\ q.kind = "none" /\ q.by = "none" /\ q.rows = <<>> /\ q.base = {} /\ DOMAIN q.rows = {}
    BY <2>2 DEF Visit
  <2> HIDE DEF q
  <2>7. \A b \in bubbles : b.readBy = v => b.readBy = Unread
    BY <2>1, InCourse
  <2> QED
    BY <2>1, <2>5, <2>6, <2>7, ReadStep
<1> QED
  BY <1>2, <1>3

(* A request arrives.                                                      *)
LEMMA ArrivesSound ==
  ASSUME ThreadsInv, NEW v \in Visitor,
         InboxRooms(v) \/ \E by \in Member, t \in Talk, kind \in {"get", "history", "agent"} : AssertMember(v, kind, by, t)
  PROVE  ThreadsInv'
<1>1. CASE InboxRooms(v)
  <2>1. PICK S \in SUBSET Talk : Begins(v, "inbox", "none", S)
    BY <1>1 DEF InboxRooms
  <2>2. "inbox" \in Kinds /\ "inbox" # "none" /\ "inbox" \notin {"get", "history", "agent"} /\ "none" \in Member \cup {"none"}
    BY DEF Kinds
  <2> QED
    BY <2>1, <2>2, BeginsSound
<1>2. ASSUME NEW by \in Member, NEW t \in Talk, NEW kind \in {"get", "history", "agent"}, AssertMember(v, kind, by, t)
      PROVE  ThreadsInv'
  <2> DEFINE asks == IF kind = "history" THEN by ELSE "none"
             rooms == {t}
  <2>1. Begins(v, kind, asks, rooms)
    BY <1>2 DEF AssertMember
  <2>2. asks \in Member \cup {"none"} /\ rooms \in SUBSET Talk /\ \E u \in Talk : rooms = {u}
    OBVIOUS
  <2>3. kind \in Kinds /\ kind # "none"
    BY DEF Kinds
  <2> HIDE DEF asks, rooms
  <2> QED
    BY <2>1, <2>2, <2>3, BeginsSound
<1> QED
  BY <1>1, <1>2

(* What a message is marked with, and that it is still the message.        *)
MarkedBy(b, t, by, v) == IF b \in ToMark(t, by) THEN [b EXCEPT !.readBy = v] ELSE b

(* A marked message.                                                       *)
LEMMA MarkedSame ==
  ASSUME ThreadsTypeOK, NEW b \in bubbles, NEW t, NEW by, NEW v \in Visitor
  PROVE  /\ Same(b, MarkedBy(b, t, by, v))
         /\ MarkedBy(b, t, by, v) \in [id : Bubble, talk : Talk, by : Member, date : Nat, readBy : Visitor \cup {Unread}]
         /\ MarkedBy(b, t, by, v).readBy = IF b \in ToMark(t, by) THEN v ELSE b.readBy
<1>1. b \in [id : Bubble, talk : Talk, by : Member, date : Nat, readBy : Visitor \cup {Unread}]
  BY DEF ThreadsTypeOK
<1>2. CASE b \in ToMark(t, by)
  BY <1>1, <1>2 DEF MarkedBy, Same
<1>3. CASE b \notin ToMark(t, by)
  BY <1>1, <1>3 DEF MarkedBy, Same
<1> QED
  BY <1>2, <1>3

(* history marks what the other side wrote.                                *)
LEMMA MarkOthersSound ==
  ASSUME ThreadsInv, NEW v \in Visitor, MarkOthers(v)
  PROVE  ThreadsInv'
<1> DEFINE q == Visit("marked", visits[v].kind, visits[v].by, visits[v].rows, visits[v].base)
           by == visits[v].by
<1>1. ThreadsTypeOK /\ VisitsSound /\ MarkedByHistory /\ RoomsTold /\ IsVisit(visits[v])
  BY VisitTyped DEF ThreadsInv
<1>2. /\ visits[v].at = "member" /\ visits[v].kind = "history" /\ visits' = [visits EXCEPT ![v] = q]
  BY DEF MarkOthers, Proceeds
<1>3. PICK t \in DOMAIN visits[v].rows :
         bubbles' = (bubbles \ ToMark(t, by)) \cup {[b EXCEPT !.readBy = v] : b \in ToMark(t, by)}
  BY DEF MarkOthers
<1> DEFINE M(b) == MarkedBy(b, t, by, v)
<1>4. bubbles' = {M(b) : b \in bubbles}
  <2>1. ToMark(t, by) \subseteq bubbles
    BY DEF ToMark
  <2> QED
    BY <1>3, <2>1 DEF MarkedBy
<1>5. q.at = "marked" /\ q.kind = "history" /\ q.by = by /\ q.rows = visits[v].rows /\ q.base = visits[v].base
  BY <1>2 DEF Visit
<1>6. IsVisit(q)
  <2>1. /\ visits[v].kind \in Kinds /\ visits[v].by \in Member \cup {"none"} /\ "marked" \in Stages
        /\ DOMAIN visits[v].rows \subseteq Talk /\ visits[v].rows \in [DOMAIN visits[v].rows -> RowType]
        /\ visits[v].base \in SUBSET Bubble
    BY <1>1 DEF IsVisit, Stages
  <2> QED
    BY <2>1, VisitMade
<1> HIDE DEF q, by
<1>7. \A b \in bubbles :
        /\ Same(b, M(b))
        /\ M(b) \in [id : Bubble, talk : Talk, by : Member, date : Nat, readBy : Visitor \cup {Unread}]
        /\ M(b).readBy = IF b \in ToMark(t, by) THEN v ELSE b.readBy
  BY <1>1, MarkedSame
<1> HIDE DEF M
<1>8. \A a, b \in bubbles' : a.id = b.id => a = b
  <2>1. \A a, b \in bubbles : M(a).id = M(b).id => a = b
    BY <1>1, <1>7 DEF Same, ThreadsTypeOK
  <2> QED
    BY <1>4, <2>1
<1>9. IsFiniteSet(bubbles')
  <2> DEFINE f == [b \in bubbles |-> M(b)]
  <2>1. f \in Surjection(bubbles, bubbles')
    BY <1>4 DEF Surjection
  <2>2. IsFiniteSet(bubbles)
    BY <1>1 DEF ThreadsTypeOK
  <2> HIDE DEF f
  <2> QED
    BY <2>1, <2>2, FS_Surjection
<1>10. /\ visits' \in [Visitor -> {visits'[w] : w \in Visitor}]
       /\ \A w \in Visitor : IsVisit(visits'[w])
       /\ visits'[v] = q /\ \A w \in Visitor \ {v} : visits'[w] = visits[w]
  BY <1>1, <1>2, <1>6, VisitStored
<1>11. ThreadsTypeOK'
  <2>1. bubbles' \subseteq [id : Bubble, talk : Talk, by : Member, date : Nat, readBy : Visitor \cup {Unread}]
    BY <1>4, <1>7
  <2> QED
    BY <1>8, <1>9, <1>10, <2>1 DEF ThreadsTypeOK, IsVisit, Stages, Kinds, RowType, Goods
<1>12. Ids' = Ids
  BY <1>4, <1>7 DEF Ids, Same
<1>13. VisitsSound'
  <2> SUFFICES ASSUME NEW w \in Visitor
               PROVE  /\ visits'[w].base \subseteq Ids /\ \A u \in DOMAIN visits'[w].rows : visits'[w].rows[u].thread \subseteq Ids
                      /\ visits'[w].kind \in {"get", "history", "agent"} => \E u \in Talk : DOMAIN visits'[w].rows = {u}
                      /\ visits'[w].at = "member" => visits'[w].kind # "none"
                      /\ visits'[w].at = "product" =>
                            visits'[w].kind \in {"get", "inbox"}
                              /\ \A u \in DOMAIN visits'[w].rows : visits'[w].rows[u].product = About[u]
                      /\ visits'[w].at = "marked" => visits'[w].kind = "history"
    BY <1>12 DEF VisitsSound
  <2>1. CASE w = v
    BY <1>1, <1>2, <1>5, <1>10, <2>1 DEF VisitsSound
  <2>2. CASE w # v
    BY <1>1, <1>10, <2>2 DEF VisitsSound
  <2> QED
    BY <2>1, <2>2
<1>14. ASSUME NEW c \in bubbles', c.readBy # Unread
       PROVE  /\ visits'[c.readBy].kind = "history" /\ visits'[c.readBy].at \in {"marked", "answered", "dropped"}
              /\ ReadMeansShown(c)'
  <2>1. PICK b \in bubbles : c = M(b)
    BY <1>4
  <2>2. CASE b \in ToMark(t, by)
    <3>1. c.readBy = v /\ c.by = b.by /\ c.talk = b.talk /\ b.by # by /\ b.talk = t
      BY <1>7, <2>1, <2>2 DEF Same, ToMark
    <3>2. ReadIn(bubbles', q, c)
      BY <1>3, <1>5, <3>1 DEF ReadIn
    <3> QED
      BY <1>5, <1>10, <3>1, <3>2, ReadFormNext
  <2>3. CASE b \notin ToMark(t, by)
    <3>1. c.readBy = b.readBy /\ Same(b, c)
      BY <1>7, <2>1, <2>3
    <3>2. b.readBy # v
      BY <1>2, <1>14, <3>1, InCourse
    <3>3. b \in [id : Bubble, talk : Talk, by : Member, date : Nat, readBy : Visitor \cup {Unread}]
      BY <1>1 DEF ThreadsTypeOK
    <3>4. b.readBy \in Visitor \ {v}
      BY <1>14, <3>1, <3>2, <3>3
    <3>5. ReadIn(bubbles, visits[b.readBy], b) /\ visits[b.readBy].kind = "history" /\ visits[b.readBy].at \in {"marked", "answered", "dropped"}
      BY <1>1, <1>14, <3>1, ReadForm DEF RoomsTold, MarkedByHistory
    <3>6. \A x \in bubbles' : \E y \in bubbles : Same(y, x)
      BY <1>4, <1>7
    <3>7. b.talk \in DOMAIN visits[b.readBy].rows
      BY <3>5 DEF ReadIn
    <3>8. ReadIn(bubbles', visits[b.readBy], c)
      BY <1>1, <3>1, <3>4, <3>5, <3>6, <3>7, ReadStays
    <3> QED
      BY <1>10, <3>1, <3>4, <3>5, <3>8, ReadFormNext
  <2> QED
    BY <2>2, <2>3
<1>15. ASSUME NEW w \in Visitor, visits'[w].at = "answered"
       PROVE  AnswerTrue(w)'
  <2>1. w # v
    BY <1>5, <1>10, <1>15
  <2>2. visits'[w] = visits[w] /\ AnswerTrue(w)
    BY <1>1, <1>10, <1>15, <2>1 DEF RoomsTold
  <2>3. \A b \in bubbles : \E c \in bubbles' : Same(b, c)
    BY <1>4, <1>7
  <2>4. \A c \in bubbles' : c.id \in Ids => \E b \in bubbles : Same(b, c)
    BY <1>4, <1>7
  <2> QED
    BY <1>1, <1>8, <1>9, <2>2, <2>3, <2>4, AnswersStay
<1>16. MarkedByHistory' /\ RoomsTold'
  BY <1>14, <1>15 DEF MarkedByHistory, RoomsTold
<1> QED
  BY <1>11, <1>13, <1>16 DEF ThreadsInv

(* A message commits between two statements of a read.                     *)
LEMMA SendSound ==
  ASSUME ThreadsInv, NEW t \in Talk, NEW by \in Member, NEW id \in Bubble, NEW date \in 1 .. LastDate, Send(t, by, id, date)
  PROVE  ThreadsInv'
<1> DEFINE new == [id |-> id, talk |-> t, by |-> by, date |-> date, readBy |-> Unread]
<1>1. ThreadsTypeOK /\ VisitsSound /\ MarkedByHistory /\ RoomsTold
  BY DEF ThreadsInv
<1>2. bubbles' = bubbles \cup {new} /\ visits' = visits /\ \A b \in bubbles : b.id # id
  BY DEF Send
<1>3. new \in [id : Bubble, talk : Talk, by : Member, date : Nat, readBy : Visitor \cup {Unread}]
      /\ new.id = id /\ new.readBy = Unread
  BY ThreadsAssumption
<1> HIDE DEF new
<1>4. IsFiniteSet(bubbles') /\ \A a, b \in bubbles' : a.id = b.id => a = b
  <2>1. IsFiniteSet(bubbles) /\ \A a, b \in bubbles : a.id = b.id => a = b
    BY <1>1 DEF ThreadsTypeOK
  <2>2. IsFiniteSet(bubbles')
    BY <1>2, <2>1, FS_AddElement
  <2> QED
    BY <1>2, <1>3, <2>1, <2>2
<1>5. ThreadsTypeOK'
  <2>1. bubbles' \subseteq [id : Bubble, talk : Talk, by : Member, date : Nat, readBy : Visitor \cup {Unread}]
    BY <1>1, <1>2, <1>3 DEF ThreadsTypeOK
  <2> QED
    BY <1>1, <1>2, <1>4, <2>1 DEF ThreadsTypeOK, Goods
<1>6. Ids \subseteq Ids'
  BY <1>2 DEF Ids
<1>7. VisitsSound'
  BY <1>1, <1>2, <1>6 DEF VisitsSound
<1>8. MarkedByHistory'
  BY <1>1, <1>2, <1>3 DEF MarkedByHistory
<1>9. ASSUME NEW w \in Visitor, visits'[w].at = "answered"
      PROVE  AnswerTrue(w)'
  <2>1. visits'[w] = visits[w] /\ AnswerTrue(w)
    BY <1>1, <1>2, <1>9 DEF RoomsTold
  <2>2. \A b \in bubbles : \E c \in bubbles' : Same(b, c)
    BY <1>2 DEF Same
  <2>3. \A c \in bubbles' : c.id \in Ids => \E b \in bubbles : Same(b, c)
    BY <1>2, <1>3 DEF Same, Ids
  <2> QED
    BY <1>1, <1>4, <2>1, <2>2, <2>3, AnswersStay
<1>10. RoomsTold'
  <2>1. ASSUME NEW b \in bubbles', b.readBy # Unread PROVE ReadMeansShown(b)'
    <3>1. b \in bubbles /\ ReadIn(bubbles, visits[b.readBy], b)
      BY <1>1, <1>2, <1>3, <2>1, ReadForm DEF RoomsTold
    <3>2. \A x \in bubbles' : x.id \in Ids => \E y \in bubbles : Same(y, x)
      BY <1>2, <1>3 DEF Same, Ids
    <3>3. b.readBy \in Visitor
      BY <1>1, <2>1, <3>1 DEF ThreadsTypeOK
    <3>4. b.talk \in DOMAIN visits[b.readBy].rows /\ Same(b, b)
      BY <3>1 DEF ReadIn, Same
    <3>5. ReadIn(bubbles', visits[b.readBy], b)
      BY <1>1, <3>1, <3>2, <3>3, <3>4, ReadStays
    <3> QED
      BY <1>2, <3>5, ReadFormNext
  <2> QED
    BY <1>9, <2>1 DEF RoomsTold
<1> QED
  BY <1>5, <1>7, <1>8, <1>10 DEF ThreadsInv

(* Every step keeps the invariant.                                         *)
LEMMA ThreadsStep == ThreadsInv /\ [ThreadsNext]_threadVars => ThreadsInv'
<1> SUFFICES ASSUME ThreadsInv, [ThreadsNext]_threadVars PROVE ThreadsInv'
  OBVIOUS
<1>1. ASSUME NEW t \in Talk, NEW by \in Member, NEW id \in Bubble, NEW date \in 1 .. LastDate, Send(t, by, id, date)
      PROVE  ThreadsInv'
  BY <1>1, SendSound
<1>2. ASSUME NEW v \in Visitor,
             InboxRooms(v) \/ \E by \in Member, t \in Talk, kind \in {"get", "history", "agent"} : AssertMember(v, kind, by, t)
      PROVE  ThreadsInv'
  BY <1>2, ArrivesSound
<1>3. ASSUME NEW v \in Visitor, WithProducts(v) PROVE ThreadsInv'
  BY <1>3, WithProductsSound
<1>4. ASSUME NEW v \in Visitor, HydrateRoom(v) \/ History(v) PROVE ThreadsInv'
  <2>1. visits[v].at = "marked" => visits[v].kind = "history"
    BY DEF ThreadsInv, VisitsSound
  <2> QED
    BY <1>4, <2>1, ThreadAnswered DEF HydrateRoom, History
<1>5. ASSUME NEW v \in Visitor, HydrateInbox(v) PROVE ThreadsInv'
  BY <1>5, HydrateInboxSound
<1>6. ASSUME NEW v \in Visitor, MarkOthers(v) PROVE ThreadsInv'
  BY <1>6, MarkOthersSound
<1>7. ASSUME NEW v \in Visitor, AgentReads(v) PROVE ThreadsInv'
  BY <1>7, AgentReadsSound
<1>8. ASSUME NEW v \in Visitor, VisitFails(v) PROVE ThreadsInv'
  BY <1>8, VisitFailsSound
<1>9. CASE UNCHANGED threadVars
  <2>1. bubbles' = bubbles /\ visits' = visits
    BY <1>9 DEF threadVars
  <2>2. RoomsTold'
    <3>1. RoomsTold
      BY DEF ThreadsInv
    <3>2. ASSUME NEW v \in Visitor, visits'[v].at = "answered" PROVE AnswerTrue(v)'
      <4>1. AnswerTrue(v)
        BY <2>1, <3>1, <3>2 DEF RoomsTold
      <4>2. \A t \in DOMAIN visits[v].rows : Tells(bubbles, visits[v], t)
        BY <4>1, AnswerForm
      <4> QED
        BY <2>1, <4>2, AnswerFormNext
    <3>3. ASSUME NEW b \in bubbles', b.readBy # Unread PROVE ReadMeansShown(b)'
      <4>1. ReadIn(bubbles, visits[b.readBy], b)
        BY <2>1, <3>1, <3>3, ReadForm DEF RoomsTold
      <4> QED
        BY <2>1, <4>1, ReadFormNext
    <3> QED
      BY <3>2, <3>3 DEF RoomsTold
  <2> QED
    BY <2>1, <2>2 DEF ThreadsInv, ThreadsTypeOK, VisitsSound, MarkedByHistory, Ids, Goods
<1> QED
  BY <1>1, <1>2, <1>3, <1>4, <1>5, <1>6, <1>7, <1>8, <1>9 DEF ThreadsNext

(* The invariant of rooms and requests, types included.                    *)
THEOREM ThreadsAreSound == ThreadsSpec => []ThreadsInv
<1>1. ThreadsInit => ThreadsInv
  BY InitThreads
<1>2. ThreadsInv /\ [ThreadsNext]_threadVars => ThreadsInv'
  BY ThreadsStep
<1> QED
  BY <1>1, <1>2, PTL DEF ThreadsSpec

(* However messages commit between the statements of a read and wherever   *)
(* it is cut short, an answer says the truth of its rooms, and a message   *)
(* marked read was shown unless the room is full (chat.service.js:139-161, *)
(* 251-264, relations.js:41-178).                                          *)
THEOREM RoomsAreTold == ThreadsSpec => []RoomsTold
<1>1. ThreadsInv => RoomsTold
  BY DEF ThreadsInv
<1> QED
  BY <1>1, ThreadsAreSound, PTL
=============================================================================
