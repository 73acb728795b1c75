------------------------------ MODULE SqlWhere ------------------------------
(***************************************************************************)
(* The condition compiler: lib/db/src/sql.js.  The state is the `where`    *)
(* objects a caller has assembled, each a sequence of entries; an entry    *)
(* holds other objects by reference, that is, by their place.              *)
(*                                                                         *)
(* Compiled text is kept as SQL reads it: text without parentheses is an   *)
(* OR of ANDs, a sequence of runs of operands, and joining two texts with  *)
(* AND joins the runs at the seam.  An operand is kept by the truth it has *)
(* on each row, in SQL's three values.                                     *)
(***************************************************************************)
EXTENDS Integers, Sequences, FiniteSets

CONSTANTS
    Null,        \* the null of a column
    Data,        \* the other values of a column, in their order
    Wildcard,    \* those with a % or a _ in them
    Argument,    \* what callers compare a column with
    List,        \* the lists they give
    MaxRelated,  \* bound on the rows related to one
    MaxItems,    \* bound on the items of an OR, an AND or a NOT
    MaxObjects   \* bound on the objects

ASSUME WhereAssumption == MaxRelated \in Nat /\ MaxItems \in Nat /\ MaxObjects \in Nat

\* One column stands for all: which of them an entry names changes nothing here.
Leaf == [value : Data \cup {Null}, related : {{}}]
Row == {[r EXCEPT !.related = kids] : r \in Leaf, kids \in {K \in SUBSET Leaf : Cardinality(K) <= MaxRelated}}

\* An entry of each kind the compiler tells apart; `gte` stands for the four orderings
\* and `contains` for the three searches.
Column ==
    [kind : {"column"}, op : {"is", "not"}, arg : Argument \cup {Null}] \cup
    [kind : {"column"}, op : {"in", "notIn"}, arg : List] \cup
    [kind : {"column"}, op : {"gte", "contains"}, arg : Argument]

VARIABLE objects
whereVars == <<objects>>

-----------------------------------------------------------------------------
(* Three-valued truth *)

Value == {"true", "false", "null"}
Truth(b) == IF b THEN "true" ELSE "false"
AllOf(S) == IF "false" \in S THEN "false" ELSE IF "null" \in S THEN "null" ELSE "true"
AnyOf(S) == IF "true" \in S THEN "true" ELSE IF "null" \in S THEN "null" ELSE "false"
Not(v) == IF v = "null" THEN v ELSE Truth(v = "false")

\* How the database reads a text: AND binds tighter than OR; no text is no condition.
Run(operands, row) == AllOf({operands[i][row] : i \in DOMAIN operands})
Reads(text, row) == IF text = <<>> THEN "true" ELSE AnyOf({Run(text[i], row) : i \in DOMAIN text})

\* What SQL makes of one comparison.
Compared(row, c) ==
    LET v == row.value
    IN  IF c.op = "isNull" THEN Truth((v = Null) = c.arg)
        ELSE IF c.op = "constant" THEN Truth(c.arg)
        ELSE IF v = Null THEN "null"
        ELSE Truth(CASE c.op = "=" -> v = c.arg
                     [] c.op = "<>" -> v # c.arg
                     [] c.op = ">=" -> v >= c.arg
                     [] c.op = "IN" -> v \in c.arg
                     [] c.op = "NOT IN" -> v \notin c.arg
                     [] c.op = "LIKE" -> v = c.arg \/ (~c.escaped /\ c.arg \in Wildcard))

-----------------------------------------------------------------------------
(* The compiler *)

\* compileCondition and escapeLike: null tests, lists that may be empty, LIKE.
CompileCondition(e) ==
    LET sql(o, a) == [op |-> o, arg |-> a]
    IN  CASE e.op = "is"    -> IF e.arg = Null THEN sql("isNull", TRUE) ELSE sql("=", e.arg)
          [] e.op = "not"   -> IF e.arg = Null THEN sql("isNull", FALSE) ELSE sql("<>", e.arg)
          [] e.op = "in"    -> IF e.arg = {} THEN sql("constant", FALSE) ELSE sql("IN", e.arg)
          [] e.op = "notIn" -> IF e.arg = {} THEN sql("constant", TRUE) ELSE sql("NOT IN", e.arg)
          [] e.op = "gte"   -> sql(">=", e.arg)
          [] e.op = "contains" -> [op |-> "LIKE", arg |-> e.arg, escaped |-> TRUE]

Operand(x) == <<<<x>>>>

\* left || ' AND ' || right, and left || ' OR ' || right.
JoinAnd(left, right) ==
    LET seam == <<left[Len(left)] \o Head(right)>>
    IN  SubSeq(left, 1, Len(left) - 1) \o seam \o Tail(right)
Join(word, left, right) == IF word = "OR" THEN left \o right ELSE JoinAnd(left, right)

\* The texts that are not empty, joined by the word.
Joined(word, texts) ==
    LET upTo[n \in 0 .. Len(texts)] ==
            IF n = 0 THEN <<>>
            ELSE LET before == upTo[n - 1]
                     text == texts[n]
                 IN  IF before = <<>> THEN text ELSE IF text = <<>> THEN before ELSE Join(word, before, text)
    IN  upTo[Len(texts)]

\* Mutant: a branch is not parenthesised.
Parenthesised_Bare(key, text) ==
    IF key = "NOT" THEN Operand([row \in Row |-> Not(Reads(text, row))]) ELSE text

\* `NOT (${joined})` or `(${joined})`.
Parenthesised(key, text) ==
    Operand([row \in Row |-> IF key = "NOT" THEN Not(Reads(text, row)) ELSE Reads(text, row)])

\* [NOT] EXISTS (SELECT 1 ... WHERE correlation AND condition).
Exists(some, text) ==
    LET matches(row) ==
            LET tied == Operand([l \in Row |-> Truth(l \in row.related)])
                joined == Joined("AND", <<tied, text>>)
            IN  {k \in Leaf : Reads(joined, k) = "true"}
    IN  Operand([row \in Row |-> Truth((matches(row) # {}) = some)])

\* compileExpression and compileRelation on one entry, the texts of the objects it
\* holds given: a branch whose items all compile to nothing is left out.
CompileEntry(e, text) ==
    CASE e.kind = "column"   -> Operand([row \in Row |-> Compared(row, CompileCondition(e))])
      [] e.kind = "relation" -> Exists(e.some, text[e.inner])
      [] e.kind = "branch"   ->
            LET joined == Joined(e.key, [i \in DOMAIN e.items |-> text[e.items[i]]])
            IN  IF joined = <<>> THEN <<>> ELSE Parenthesised(e.key, joined)

\* The entries are ANDed.
Compile[o \in DOMAIN objects] ==
    LET w == objects[o] IN Joined("AND", [i \in DOMAIN w |-> CompileEntry(w[i], Compile)])

\* buildSelect, buildCount, buildUpdate, buildDelete: the rows a statement touches.
Touched(o) == LET text == Compile[o] IN {row \in Row : Reads(text, row) = "true"}

-----------------------------------------------------------------------------
(* The state: the where objects the callers' helpers can assemble *)

WhereInit == objects = <<<<>>>>

\* { ...where, key: spec }
AddEntry(o, e) ==
    /\ Len(objects) < MaxObjects
    /\ objects' = Append(objects, Append(objects[o], e))

\* An object has one OR, one AND, one NOT and one filter by its relation.  Several
\* operators of a column are as many entries.
Has(o, kind, key) == \E i \in DOMAIN objects[o] : objects[o][i].kind = kind /\ objects[o][i].key = key

AddColumn == \E o \in DOMAIN objects, e \in Column : AddEntry(o, e)

\* { ...where, OR | AND | NOT: [items] }
Branch ==
    \E o \in DOMAIN objects, key \in {"OR", "AND", "NOT"},
       items \in UNION {[1 .. n -> DOMAIN objects] : n \in 0 .. MaxItems} :
        /\ ~Has(o, "branch", key)
        /\ AddEntry(o, [kind |-> "branch", key |-> key, items |-> items])

\* { ...where, relation: { some | none: inner } }
Relate ==
    \E o, inner \in DOMAIN objects, some \in BOOLEAN :
        /\ ~Has(o, "relation", "related")
        /\ AddEntry(o, [kind |-> "relation", key |-> "related", some |-> some, inner |-> inner])

WhereNext == AddColumn \/ Branch \/ Relate
WhereSpec == WhereInit /\ [][WhereNext]_whereVars

-----------------------------------------------------------------------------
(* What an object means, entry by entry, whatever text it becomes. *)

\* An object says something if an entry of it does; a branch that holds nothing or
\* only what says nothing is silent.
Spoken(e, says) == e.kind = "branch" => \E i \in DOMAIN e.items : says[e.items[i]]
Says[o \in DOMAIN objects] == \E i \in DOMAIN objects[o] : Spoken(objects[o][i], Says)

\* A null is unknown to every comparison but the null tests, an empty list holds
\* nothing, and a search term stands for itself.
ColumnMeans(e, v) ==
    CASE e.op \in {"is", "not"} /\ e.arg = Null -> Truth((v = Null) = (e.op = "is"))
      [] e.op \in {"in", "notIn"} /\ e.arg = {} -> Truth(e.op = "notIn")
      [] ~(e.op \in {"is", "not"} /\ e.arg = Null) /\ ~(e.op \in {"in", "notIn"} /\ e.arg = {}) ->
            IF v = Null THEN "null"
            ELSE Truth(CASE e.op \in {"is", "contains"} -> v = e.arg
                         [] e.op = "not" -> v # e.arg
                         [] e.op = "gte" -> v >= e.arg
                         [] e.op = "in" -> v \in e.arg
                         [] e.op = "notIn" -> v \notin e.arg)

EntryMeans(e, row, means) ==
    CASE e.kind = "column"   -> ColumnMeans(e, row.value)
      [] e.kind = "relation" -> Truth((\E k \in row.related : means[e.inner][k] = "true") = e.some)
      [] e.kind = "branch"   ->
            LET said == {means[e.items[i]][row] : i \in {j \in DOMAIN e.items : Says[e.items[j]]}}
            IN  IF said = {} THEN "true"
                ELSE IF e.key = "OR" THEN AnyOf(said)
                ELSE IF e.key = "AND" THEN AllOf(said) ELSE Not(AllOf(said))

Means[o \in DOMAIN objects] ==
    [row \in Row |-> AllOf({EntryMeans(objects[o][i], row, Means) : i \in DOMAIN objects[o]})]

\* A statement touches the rows its where object means and no other, however
\* the object was assembled: no branch loosens the entries beside it and no
\* empty list widens the result (sql.js:55-208).
TouchesWhatIsMeant ==
    LET o == Len(objects)
        meaning == Means[o]
    IN  Touched(o) = {row \in Row : meaning[row] = "true"}

-----------------------------------------------------------------------------
(* The invariant behind it: an entry holds objects that were there before.  *)

Entry(n) ==
    Column \cup [kind : {"branch"}, key : {"OR", "AND", "NOT"}, items : Seq(1 .. n)]
           \cup [kind : {"relation"}, key : {"related"}, some : BOOLEAN, inner : 1 .. n]

WhereTypeOK ==
    /\ objects \in Seq({objects[o] : o \in DOMAIN objects}) /\ Len(objects) > 0
    /\ \A o \in DOMAIN objects : objects[o] \in Seq(Entry(o - 1))
=============================================================================
