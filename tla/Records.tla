------------------------------- MODULE Records -------------------------------
(***************************************************************************)
(* The row operations of lib/db/src/db.js over the builders of sql.js, run *)
(* by several callers on one table outside a transaction: each statement   *)
(* is atomic, an operation of two statements is not.                       *)
(***************************************************************************)
EXTENDS Integers, FiniteSets

CONSTANTS
    Key,      \* values of the column an upsert looks a row up by
    Other,    \* values of a second unique column
    Client,   \* callers
    Nothing,  \* an empty local
    Cap       \* the bound an increment's `where` keeps the counter under

ASSUME RecordsAssumption == Cap \in Nat /\ Nothing \notin Key /\ Nothing \notin Other

VARIABLES
    table,     \* the rows, by key: second unique column, counter, patched or not
    upserting, \* where each caller's upsert stands
    rowKey,    \* the row it is about
    second,    \* what its insert writes in the second column
    result,    \* what its last operation answered
    excused,   \* history: callers whose row was rewritten or removed, or second value taken
    counted    \* history: increments that answered 1, by row

recordVars == <<table, upserting, rowKey, second, result, excused, counted>>

Missing == [other |-> Nothing, n |-> 0, patched |-> FALSE]
Present(k) == table[k] # Missing

RecordsInit ==
    /\ table = [k \in Key |-> Missing]
    /\ upserting = [c \in Client |-> "idle"]
    /\ rowKey = [c \in Client |-> Nothing]
    /\ second = [c \in Client |-> Nothing]
    /\ result = [c \in Client |-> "none"]
    /\ excused = {}
    /\ counted = [k \in Key |-> 0]

Taken(k, o) == \E j \in Key \ {k} : table[j].other = o
On(k) == {c \in Client : rowKey[c] = k}
Then(c, to) == upserting' = [upserting EXCEPT ![c] = to]

\* upsert: its first select.
UpsertSelect(c, k, o) ==
    /\ upserting[c] = "idle"
    /\ Then(c, IF Present(k) THEN "reapply" ELSE "insert")
    /\ rowKey' = [rowKey EXCEPT ![c] = k]
    /\ second' = [second EXCEPT ![c] = o]
    /\ result' = [result EXCEPT ![c] = "none"]
    /\ excused' = excused \ {c}
    /\ UNCHANGED <<table, counted>>

\* Mutant: a lost race is answered by the row as it is, without the patch.
UpsertInsert_NoReapply(c) ==
    /\ upserting[c] = "insert"
    /\ Then(c, "reread")
    /\ IF Present(rowKey[c]) \/ Taken(rowKey[c], second[c])
       THEN /\ UNCHANGED table
            /\ excused' = IF Taken(rowKey[c], second[c]) THEN excused \cup {c} ELSE excused
       ELSE /\ table' = [table EXCEPT ![rowKey[c]] = [other |-> second[c], n |-> 0, patched |-> TRUE]]
            /\ UNCHANGED excused
    /\ UNCHANGED <<rowKey, second, result, counted>>

\* Its insert.  Any duplicate key is taken for a lost race on the row itself,
\* one of the second column included.
UpsertInsert(c) ==
    /\ upserting[c] = "insert"
    /\ IF Present(rowKey[c]) \/ Taken(rowKey[c], second[c])
       THEN /\ Then(c, "reapply") /\ UNCHANGED table
            /\ excused' = IF Taken(rowKey[c], second[c]) THEN excused \cup {c} ELSE excused
       ELSE /\ table' = [table EXCEPT ![rowKey[c]] = [other |-> second[c], n |-> 0, patched |-> TRUE]]
            /\ Then(c, "reread") /\ UNCHANGED excused
    /\ UNCHANGED <<rowKey, second, result, counted>>

\* reapply: the patch, whose count of rows nobody looks at.
UpsertReapply(c) ==
    /\ upserting[c] = "reapply"
    /\ table' = IF Present(rowKey[c]) THEN [table EXCEPT ![rowKey[c]].patched = TRUE] ELSE table
    /\ Then(c, "reread")
    /\ UNCHANGED <<rowKey, second, result, excused, counted>>

\* The row is read back.
UpsertReread(c) ==
    /\ upserting[c] = "reread"
    /\ result' = [result EXCEPT ![c] = IF Present(rowKey[c]) THEN "row" ELSE "null"]
    /\ Then(c, "idle")
    /\ UNCHANGED <<table, rowKey, second, excused, counted>>

\* insert, by a caller that does not upsert.
Insert(c, k, o) ==
    /\ upserting[c] = "idle" /\ ~Present(k) /\ ~Taken(k, o)
    /\ table' = [table EXCEPT ![k] = [other |-> o, n |-> 0, patched |-> FALSE]]
    /\ UNCHANGED <<upserting, rowKey, second, result, excused, counted>>

\* Mutant: a condition of the caller shadows the row's identity.
Increment_Shadowed(c, k) ==
    /\ upserting[c] = "idle"
    /\ Present(k) /\ table[k].n < Cap
    /\ table' = [j \in Key |-> IF Present(j) /\ table[j].n < Cap
                               THEN [table[j] EXCEPT !.n = @ + 1] ELSE table[j]]
    /\ counted' = [counted EXCEPT ![k] = @ + 1]
    /\ UNCHANGED <<upserting, rowKey, second, result, excused>>

\* `col = col + ?` on the row of that id, while the caller's condition holds.
Increment(c, k) ==
    /\ upserting[c] = "idle"
    /\ Present(k) /\ table[k].n < Cap
    /\ table' = [table EXCEPT ![k].n = @ + 1]
    /\ counted' = [counted EXCEPT ![k] = @ + 1]
    /\ UNCHANGED <<upserting, rowKey, second, result, excused>>

\* update / updateMany: the columns it is given and no other; matched rows count.
UpdateRow(c, k) ==
    /\ upserting[c] = "idle" /\ Present(k)
    /\ table' = [table EXCEPT ![k].patched = FALSE]
    /\ excused' = excused \cup On(k)
    /\ UNCHANGED <<upserting, rowKey, second, result, counted>>

RemoveRow(c, k) ==
    /\ upserting[c] = "idle" /\ Present(k)
    /\ table' = [table EXCEPT ![k] = Missing]
    /\ excused' = excused \cup On(k)
    /\ counted' = [counted EXCEPT ![k] = 0]
    /\ UNCHANGED <<upserting, rowKey, second, result>>

RecordsNext ==
    \E c \in Client :
        \/ \E k \in Key, o \in Other : UpsertSelect(c, k, o) \/ Insert(c, k, o)
        \/ UpsertInsert(c) \/ UpsertReapply(c) \/ UpsertReread(c)
        \/ \E k \in Key : Increment(c, k) \/ UpdateRow(c, k) \/ RemoveRow(c, k)

RecordsSpec == RecordsInit /\ [][RecordsNext]_recordVars

-----------------------------------------------------------------------------
\* The counter of a row is the number of increments that counted since it was
\* inserted, and within the bound of their condition, whatever upserts and updates
\* run beside them (sql.js:373-404, db.js:243-247).
CountsExact == \A k \in Key : table[k].n = counted[k] /\ table[k].n <= Cap

\* An upsert answers with the row, its patch applied, however it raced; it answers
\* with nothing, or with the row unpatched, only when another caller removed or
\* rewrote the row meanwhile, or a second unique column refused it (db.js:177-194).
UpsertSettles ==
    \A c \in Client : upserting[c] = "idle" /\ result[c] # "none" /\ c \notin excused
        => result[c] = "row" /\ table[rowKey[c]].patched

Stages == {"idle", "insert", "reapply", "reread"}

RecordsTypeOK ==
    /\ table \in [Key -> [other : Other \cup {Nothing}, n : Nat, patched : BOOLEAN]]
    /\ upserting \in [Client -> Stages]
    /\ rowKey \in [Client -> Key \cup {Nothing}]
    /\ second \in [Client -> Other \cup {Nothing}]
    /\ result \in [Client -> {"none", "row", "null"}]
    /\ counted \in [Key -> Nat]

\* Why: unless it is excused, an upsert that is to patch finds its row, and one that
\* is to read it back, or has, finds it patched.
UpsertsSound ==
    \A c \in Client :
        /\ upserting[c] # "idle" \/ result[c] # "none" => rowKey[c] \in Key
        /\ c \notin excused =>
             /\ upserting[c] = "reapply" => Present(rowKey[c])
             /\ upserting[c] = "reread" => table[rowKey[c]].patched

RecordsInv == RecordsTypeOK /\ UpsertsSound /\ CountsExact /\ UpsertSettles
=============================================================================
