--------------------------- MODULE AccountsProofs ---------------------------
(***************************************************************************)
(* AccountsInv is an invariant of the two account stores for any number of *)
(* requests, addresses and usernames; so an update nobody overlapped and   *)
(* nothing cut short leaves them agreed, in every instance.                *)
(***************************************************************************)
EXTENDS Accounts, TLAPS

LEMMA NoCallTyped == NoCall \in CallRecord
  BY DEF NoCall, CallRecord, CallStage

(* What a change of some fields leaves as it was.                          *)
SameBut(q, r, changed) ==
    /\ "at" \notin changed => q.at = r.at
    /\ "email" \notin changed => q.email = r.email
    /\ "handle" \notin changed => q.handle = r.handle
    /\ "flag" \notin changed => q.flag = r.flag
    /\ "clean" \notin changed => q.clean = r.clean
    /\ "swept" \notin changed => q.swept = r.swept

LEMMA WithStage ==
  ASSUME NEW r \in CallRecord, NEW where \in CallStage
  PROVE  /\ [r EXCEPT !.at = where] \in CallRecord /\ [r EXCEPT !.at = where].at = where
         /\ SameBut([r EXCEPT !.at = where], r, {"at"})
  BY DEF CallRecord, SameBut

LEMMA WithHandle ==
  ASSUME NEW r \in CallRecord, NEW h \in Handle
  PROVE  /\ [r EXCEPT !.handle = h] \in CallRecord /\ [r EXCEPT !.handle = h].handle = h
         /\ SameBut([r EXCEPT !.handle = h], r, {"handle"})
  BY DEF CallRecord, SameBut

LEMMA WithProvider ==
  ASSUME NEW r \in CallRecord, NEW p \in Provider
  PROVE  [r EXCEPT !.provider = p] \in CallRecord /\ SameBut([r EXCEPT !.provider = p], r, {})
  BY DEF CallRecord, SameBut

LEMMA WithClean ==
  ASSUME NEW r \in CallRecord, NEW g \in BOOLEAN
  PROVE  /\ [r EXCEPT !.clean = g] \in CallRecord /\ [r EXCEPT !.clean = g].clean = g
         /\ SameBut([r EXCEPT !.clean = g], r, {"clean"})
  BY DEF CallRecord, SameBut

LEMMA WithSwept ==
  ASSUME NEW r \in CallRecord, NEW n \in 0 .. 2
  PROVE  /\ [r EXCEPT !.swept = n] \in CallRecord /\ [r EXCEPT !.swept = n].swept = n
         /\ SameBut([r EXCEPT !.swept = n], r, {"swept"})
  BY DEF CallRecord, SameBut

(* What a request begins with.                                             *)
LEMMA Asked ==
  ASSUME NEW c, NEW e \in Email, NEW where \in CallStage
  PROVE  /\ Asks(c, e, where) \in CallRecord /\ Asks(c, e, where).at = where
         /\ Asks(c, e, where).email = e /\ Asks(c, e, where).swept = 0
<1>1. NoCall.swept = 0
  BY DEF NoCall
<1> QED
  BY <1>1, NoCallTyped DEF Asks, CallRecord

LEMMA InitAccounts == AccountsInit => AccountsInv
<1> SUFFICES ASSUME AccountsInit PROVE AccountsInv
  OBVIOUS
<1> USE AccountsAssumption DEF AccountsInit
<1>1. AccountsTypeOK
  BY NoCallTyped DEF AccountsTypeOK
<1>2. \A c \in Caller : CallSound(c)
  BY DEF CallSound, NoCall, SwitchStage
<1>3. \A e \in Email : StoreSound(e)
  BY DEF StoreSound
<1> QED
  BY <1>1, <1>2, <1>3 DEF AccountsInv

(* A step of a request that is no update: rows are kept, or added enabled; *)
(* and who is let in once disabled is noted.                               *)
LEMMA Quiet ==
  ASSUME AccountsInv, NEW c \in Caller, NEW call \in CallRecord,
         calls' = [calls EXCEPT ![c] = call], calls[c].at \notin SwitchStage, call.at \notin SwitchStage,
         AccountsTypeOK', UNCHANGED torn,
         \A e \in Email : UserRow(e) =>
             /\ users'[e] # Unset /\ admins'[e] = admins[e]
             /\ users'[e].staff = users[e].staff /\ users'[e].active = users[e].active,
         \A e \in Email : ~UserRow(e) =>
             /\ admins'[e] = admins[e] \/ admins'[e] = "on"
             /\ users'[e] # Unset => users'[e].active,
         \A e \in Email : UserRow(e) /\ ~users[e].active =>
             (e \in live' => e \in live \/ e \in late') /\ (e \in late => e \in late'),
         call.at # "idle" => call.email \in Email,
         call.at \in {"register", "create", "shell", "rename"} => call.handle \in Handle,
         call.at \in {"issue", "link", "rename"} => users'[call.email] # Unset
  PROVE  AccountsInv'
<1> USE AccountsAssumption DEF AccountsInv
<1>1. /\ users \in [Email -> AccountRow \cup {Unset}] /\ admins \in [Email -> {Unset, "on", "off"}]
      /\ calls \in [Caller -> CallRecord]
  BY DEF AccountsTypeOK
<1>2. calls'[c] = call /\ \A d \in Caller \ {c} : calls'[d] = calls[d]
  BY <1>1
<1>3. \A d \in Caller, e \in Email : Switching(d, e)' <=> Switching(d, e)
  BY <1>2 DEF Switching, SwitchStage
<1>4. \A d \in Caller, e \in Email : Halfway(d, e)' <=> Halfway(d, e)
  BY <1>2 DEF Halfway, SwitchStage
<1>5. ASSUME NEW d \in Caller PROVE CallSound(d)'
  <2>1. CASE d = c
    BY <1>2, <2>1 DEF CallSound, SwitchStage, UserRow
  <2>2. CASE d # c
    <3> DEFINE e == calls[d].email
    <3>1. calls'[d] = calls[d] /\ CallSound(d)
      BY <1>2, <2>2
    <3>2. CASE calls[d].at \in SwitchStage
      <4>1. /\ e \in Email /\ UserRow(e) /\ users'[e] # Unset /\ admins'[e] = admins[e]
            /\ users'[e].staff = users[e].staff /\ users'[e].active = users[e].active
        BY <3>1, <3>2 DEF CallSound, SwitchStage
      <4>2. calls[d].clean => \A b \in Caller \ {d} : ~Switching(b, e)'
        BY <1>3, <3>1, <3>2, <4>1 DEF CallSound
      <4>3. ~users[e].active => (e \in live' => e \in live \/ e \in late') /\ (e \in late => e \in late')
        BY <4>1
      <4> QED
        BY <3>1, <3>2, <4>1, <4>2, <4>3 DEF CallSound, UserRow, SwitchStage
    <3>3. CASE calls[d].at \notin SwitchStage
      BY <3>1, <3>3 DEF CallSound, UserRow, SwitchStage
    <3> QED
      BY <3>2, <3>3
  <2> QED
    BY <2>1, <2>2
<1>6. ASSUME NEW e \in Email PROVE StoreSound(e)'
  <2>1. StoreSound(e)
    OBVIOUS
  <2>2. CASE UserRow(e)
    BY <1>4, <2>1, <2>2 DEF StoreSound, Staff, UserRow
  <2>3. CASE ~UserRow(e)
    <3>1. admins[e] # "off"
      BY <2>1, <2>3 DEF StoreSound, Staff
    <3> QED
      BY <1>1, <2>3, <3>1 DEF StoreSound, Staff, UserRow
  <2> QED
    BY <2>2, <2>3
<1> QED
  BY <1>5, <1>6

(* The two stores as they stand ...                                        *)
LEMMA Stores ==
  ASSUME AccountsInv
  PROVE  /\ users \in [Email -> AccountRow \cup {Unset}] /\ admins \in [Email -> {Unset, "on", "off"}]
         /\ live \subseteq Email /\ torn \subseteq Email /\ late \subseteq Email
         /\ calls \in [Caller -> CallRecord]
         /\ \A e \in Email : StoreSound(e)
         /\ \A e \in Email : UserRow(e) <=> users[e] \in AccountRow
<1> USE AccountsAssumption DEF AccountsInv
<1>1. /\ users \in [Email -> AccountRow \cup {Unset}] /\ admins \in [Email -> {Unset, "on", "off"}]
      /\ live \subseteq Email /\ torn \subseteq Email /\ late \subseteq Email
      /\ calls \in [Caller -> CallRecord]
  BY DEF AccountsTypeOK
<1> QED
  BY <1>1 DEF UserRow

(* ... and a request's own record.                                         *)
LEMMA Standing ==
  ASSUME AccountsInv, NEW c \in Caller
  PROVE  /\ CallSound(c) /\ calls[c] \in CallRecord /\ NoCall \in CallRecord
         /\ users \in [Email -> AccountRow \cup {Unset}] /\ admins \in [Email -> {Unset, "on", "off"}]
         /\ live \subseteq Email /\ torn \subseteq Email /\ late \subseteq Email
         /\ calls \in [Caller -> CallRecord]
         /\ \A e \in Email : StoreSound(e)
         /\ \A e \in Email : UserRow(e) <=> users[e] \in AccountRow
BY Stores, NoCallTyped DEF AccountsInv

LEMMA CheckNewSound ==
  ASSUME AccountsInv, NEW c \in Caller, NEW e \in Email, NEW h \in Handle, NEW staff \in BOOLEAN,
         CheckNew(c, e, h, staff)
  PROVE  AccountsInv'
<1> USE AccountsAssumption DEF CheckNew
<1> DEFINE where == IF staff THEN "create" ELSE "register"
           call == [Asks(c, e, where) EXCEPT !.handle = h]
<1>1. where \in CallStage /\ where \in {"create", "register"}
  BY DEF CallStage
<1>2. Asks(c, e, where) \in CallRecord /\ Asks(c, e, where).at = where /\ Asks(c, e, where).email = e
  BY <1>1, Asked
<1>3. call \in CallRecord /\ call.at = where /\ call.email = e /\ call.handle = h
  BY <1>2, WithHandle DEF SameBut
<1>4. AccountsTypeOK'
  BY <1>3, Standing DEF AccountsTypeOK, Call
<1>5. calls' = [calls EXCEPT ![c] = call]
  BY DEF Call
<1>6. call.at \in {"create", "register"} /\ call.at \notin SwitchStage /\ calls[c].at \notin SwitchStage
  BY <1>1, <1>3 DEF SwitchStage
<1> HIDE DEF call, where
<1> QED
  BY <1>3, <1>4, <1>5, <1>6, Standing, Quiet DEF UserRow

LEMMA ReadsSound ==
  ASSUME AccountsInv, NEW c \in Caller, NEW e \in Email,
         ReadLogin(c, e) \/ ReadRenewal(c, e) \/ \E p \in Provider : ReadLinked(c, e, p)
  PROVE  AccountsInv'
<1> USE AccountsAssumption
<1>1. \A where \in {"issue", "byEmail"} :
         Asks(c, e, where) \in CallRecord /\ Asks(c, e, where).at = where /\ Asks(c, e, where).email = e
  BY Asked DEF CallStage
<1>2. PICK call \in CallRecord :
         /\ calls' = [calls EXCEPT ![c] = call] /\ call.email = e
         /\ call.at = "byEmail" \/ (call.at = "issue" /\ UserRow(e))
  <2>1. CASE ReadLogin(c, e) \/ ReadRenewal(c, e)
    BY <1>1, <2>1 DEF ReadLogin, ReadRenewal, Call
  <2>2. CASE \E p \in Provider : ReadLinked(c, e, p)
    <3> DEFINE asked == Asks(c, e, "byEmail")
    <3>1. PICK p \in Provider : ReadLinked(c, e, p)
      BY <2>2
    <3>2. asked \in CallRecord /\ asked.at = "byEmail" /\ asked.email = e
      BY <1>1
    <3>3. calls' = [calls EXCEPT ![c] = [asked EXCEPT !.provider = p]]
      BY <3>1 DEF ReadLinked, Call
    <3> HIDE DEF asked
    <3> DEFINE linked == [asked EXCEPT !.provider = p]
    <3>4. linked \in CallRecord /\ linked.at = "byEmail" /\ linked.email = e
      BY <3>2, WithProvider DEF SameBut
    <3> QED
      BY <3>3, <3>4
  <2> QED
    BY <2>1, <2>2
<1>3. calls[c].at = "idle" /\ UNCHANGED <<users, admins, live, torn, late>>
  BY DEF ReadLogin, ReadRenewal, ReadLinked
<1>4. AccountsTypeOK'
  BY <1>2, <1>3, Standing DEF AccountsTypeOK
<1>5. call.at \notin SwitchStage /\ calls[c].at \notin SwitchStage
  BY <1>2, <1>3 DEF SwitchStage
<1> QED
  BY <1>2, <1>3, <1>4, <1>5, Standing, Quiet DEF UserRow

LEMMA ReadByEmailSound ==
  ASSUME AccountsInv, NEW c \in Caller, NEW h \in Handle, ReadByEmail(c, h) PROVE AccountsInv'
<1> USE AccountsAssumption DEF ReadByEmail
<1> DEFINE e == calls[c].email
<1>1. e \in Email /\ calls[c] \in CallRecord /\ calls \in [Caller -> CallRecord]
  BY Standing DEF CallSound
<1>2. PICK call \in CallRecord :
         /\ calls' = [calls EXCEPT ![c] = call] /\ call.email = e
         /\ (call.at = "link" /\ UserRow(e)) \/ (call.at = "shell" /\ call.handle = h)
  <2>1. CASE UserRow(e)
    <3> DEFINE found == [calls[c] EXCEPT !.at = "link"]
    <3>1. calls' = [calls EXCEPT ![c] = found]
      BY <1>1, <2>1 DEF Move
    <3>2. found \in CallRecord /\ found.at = "link" /\ found.email = e
      BY ZenonT(40), <1>1, WithStage DEF SameBut, CallStage
    <3> QED
      BY <2>1, <3>1, <3>2
  <2>2. CASE ~UserRow(e)
    <3> DEFINE fresh == [calls[c] EXCEPT !.at = "shell", !.handle = h]
    <3>1. calls' = [calls EXCEPT ![c] = fresh]
      BY <2>2 DEF Call
    <3>2. fresh \in CallRecord /\ fresh.at = "shell" /\ fresh.email = e /\ fresh.handle = h
      <4>1. "shell" \in CallStage /\ calls[c] \in CallRecord
        BY <1>1 DEF CallStage
      <4> HIDE DEF ReadByEmail
      <4>2. fresh \in CallRecord /\ fresh.at = "shell" /\ fresh.handle = h /\ SameBut(fresh, calls[c], {"at", "handle"})
        BY <4>1 DEF CallRecord, SameBut
      <4> QED
        BY <4>2 DEF SameBut
    <3> QED
      BY <3>1, <3>2
  <2> QED
    BY <2>1, <2>2
<1>3. AccountsTypeOK'
  BY <1>2, Standing DEF AccountsTypeOK
<1>4. call.at \notin SwitchStage /\ calls[c].at \notin SwitchStage
  BY <1>2 DEF SwitchStage
<1> QED
  BY <1>1, <1>2, <1>3, <1>4, Standing, Quiet DEF UserRow

LEMMA CheckHandleSound ==
  ASSUME AccountsInv, NEW c \in Caller, NEW e \in Email, NEW h \in Handle, CheckHandle(c, e, h)
  PROVE  AccountsInv'
<1> USE AccountsAssumption DEF CheckHandle
<1> DEFINE call == [Asks(c, e, "rename") EXCEPT !.handle = h]
<1>1. Asks(c, e, "rename") \in CallRecord /\ Asks(c, e, "rename").at = "rename" /\ Asks(c, e, "rename").email = e
  BY Asked DEF CallStage
<1>2. call \in CallRecord /\ call.at = "rename" /\ call.email = e /\ call.handle = h
  BY <1>1, WithHandle DEF SameBut
<1>3. AccountsTypeOK'
  BY <1>2, Standing DEF AccountsTypeOK, Call
<1>4. calls' = [calls EXCEPT ![c] = call]
  BY DEF Call
<1>5. call.at \notin SwitchStage /\ calls[c].at \notin SwitchStage
  BY <1>2 DEF SwitchStage
<1> HIDE DEF call
<1> QED
  BY <1>2, <1>3, <1>4, <1>5, Standing, Quiet DEF UserRow

(* A request that ends, and what it leaves in the two stores.              *)
LEMMA NoCallIdle == NoCall \in CallRecord /\ NoCall.at = "idle" /\ NoCall.at \notin SwitchStage
  BY NoCallTyped DEF NoCall, SwitchStage

(* The row of a new account.                                               *)
LEMMA NewRowSound ==
  ASSUME AccountsInv, NEW c \in Caller, calls[c].at \in {"register", "create", "shell"}, FreeRow(c),
         NEW staff \in BOOLEAN, users' = NewRow(c, staff)
  PROVE  /\ calls[c].email \in Email /\ ~UserRow(calls[c].email)
         /\ users' \in [Email -> AccountRow \cup {Unset}]
         /\ users'[calls[c].email] # Unset
         /\ users'[calls[c].email].staff = staff /\ users'[calls[c].email].active
         /\ \A f \in Email \ {calls[c].email} : users'[f] = users[f]
<1> USE AccountsAssumption
<1> DEFINE e == calls[c].email
           row == [handle |-> calls[c].handle, provider |-> calls[c].provider, staff |-> staff, active |-> TRUE]
<1>1. /\ e \in Email /\ calls[c].handle \in Handle /\ calls[c].provider \in Provider \cup {Unset}
  BY Standing DEF CallSound, CallRecord
<1>2. row \in AccountRow /\ row.staff = staff /\ row.active
  BY <1>1 DEF AccountRow
<1>3. users' = [users EXCEPT ![e] = row] /\ ~UserRow(e)
  BY DEF NewRow, FreeRow
<1> HIDE DEF row
<1>4. row # Unset
  BY <1>2
<1> QED
  BY <1>1, <1>2, <1>3, <1>4, Standing

LEMMA InsertUserSound ==
  ASSUME AccountsInv, NEW c \in Caller, InsertUser(c) PROVE AccountsInv'
<1> USE AccountsAssumption DEF InsertUser
<1> DEFINE e == calls[c].email
           moved == [calls[c] EXCEPT !.at = "issue"]
<1>1. /\ e \in Email /\ calls[c] \in CallRecord /\ calls[c].handle \in Handle
      /\ calls[c].provider \in Provider \cup {Unset}
  BY Standing DEF CallSound, CallRecord
<1>2. moved \in CallRecord /\ moved.at = "issue" /\ moved.email = e
  BY ZenonT(40), <1>1, WithStage DEF SameBut, CallStage
<1>3. calls[c].at \notin SwitchStage /\ "issue" \notin SwitchStage
  BY DEF SwitchStage
<1>4. calls' = [calls EXCEPT ![c] = moved] \/ calls' = [calls EXCEPT ![c] = NoCall]
  BY <1>1 DEF Over, Call, Move
<1>5. CASE FreeRow(c)
  <2>1. users' = NewRow(c, FALSE) /\ calls[c].at \in {"register", "create", "shell"}
    BY <1>5
  <2>2. /\ ~UserRow(e) /\ users' \in [Email -> AccountRow \cup {Unset}]
        /\ users'[e] # Unset /\ users'[e].active /\ \A f \in Email \ {e} : users'[f] = users[f]
    BY <1>5, <2>1, NewRowSound
  <2>3. UNCHANGED <<admins, live, torn, late>>
    OBVIOUS
  <2>4. AccountsTypeOK'
    BY <1>2, <1>4, <2>2, Standing DEF AccountsTypeOK
  <2>5. \A f \in Email : UserRow(f) =>
            /\ users'[f] # Unset /\ admins'[f] = admins[f]
            /\ users'[f].staff = users[f].staff /\ users'[f].active = users[f].active
    BY <2>2, <2>3 DEF UserRow
  <2>6. \A f \in Email : ~UserRow(f) =>
            (admins'[f] = admins[f] \/ admins'[f] = "on") /\ (users'[f] # Unset => users'[f].active)
    BY <2>2, <2>3 DEF UserRow
  <2> HIDE DEF moved, InsertUser
  <2>7. CASE calls' = [calls EXCEPT ![c] = moved]
    <3>1. /\ moved.at \notin SwitchStage /\ moved.at \notin {"register", "create", "shell", "rename"}
          /\ moved.email \in Email /\ users'[moved.email] # Unset
      BY <1>1, <1>2, <1>3, <2>2
    <3> QED
      BY <1>2, <1>3, <2>3, <2>4, <2>5, <2>6, <2>7, <3>1, Quiet
  <2>8. CASE calls' = [calls EXCEPT ![c] = NoCall]
    BY <1>3, <2>3, <2>4, <2>5, <2>6, <2>8, Quiet, NoCallIdle
  <2> QED
    BY <1>4, <2>7, <2>8
<1>6. CASE ~FreeRow(c)
  <2>1. calls' = [calls EXCEPT ![c] = NoCall] /\ UNCHANGED <<users, admins, live, torn, late>>
    BY <1>6 DEF Over, Call
  <2>2. AccountsTypeOK'
    BY <2>1, Standing DEF AccountsTypeOK
  <2> QED
    BY <1>3, <2>1, <2>2, Standing, Quiet, NoCallIdle DEF UserRow
<1> QED
  BY <1>5, <1>6

LEMMA CreateAdminSound ==
  ASSUME AccountsInv, NEW c \in Caller, CreateAdmin(c) PROVE AccountsInv'
<1> USE AccountsAssumption DEF CreateAdmin
<1> DEFINE e == calls[c].email
<1>1. e \in Email
  BY Standing DEF CallSound
<1>2. calls[c].at \notin SwitchStage /\ calls' = [calls EXCEPT ![c] = NoCall]
  BY DEF SwitchStage, Over, Call
<1>3. CASE FreeRow(c) /\ admins[e] = Unset
  <2>1. users' = NewRow(c, TRUE) /\ admins' = [admins EXCEPT ![e] = "on"]
    BY <1>3
  <2>2. /\ ~UserRow(e) /\ users' \in [Email -> AccountRow \cup {Unset}]
        /\ users'[e] # Unset /\ users'[e].staff /\ users'[e].active
        /\ \A f \in Email \ {e} : users'[f] = users[f]
    BY <1>3, <2>1, NewRowSound
  <2>3. /\ admins' \in [Email -> {Unset, "on", "off"}] /\ admins'[e] = "on"
        /\ \A f \in Email \ {e} : admins'[f] = admins[f]
    BY <1>1, <2>1, Standing
  <2>4. AccountsTypeOK'
    BY <1>2, <2>2, <2>3, Standing DEF AccountsTypeOK
  <2>5. \A f \in Email : UserRow(f) =>
            /\ users'[f] # Unset /\ admins'[f] = admins[f]
            /\ users'[f].staff = users[f].staff /\ users'[f].active = users[f].active
    BY <2>2, <2>3 DEF UserRow
  <2>6. \A f \in Email : ~UserRow(f) =>
            (admins'[f] = admins[f] \/ admins'[f] = "on") /\ (users'[f] # Unset => users'[f].active)
    BY <2>2, <2>3 DEF UserRow
  <2>7. UNCHANGED <<live, torn, late>>
    OBVIOUS
  <2> HIDE DEF CreateAdmin
  <2> QED
    BY <1>2, <2>4, <2>5, <2>6, <2>7, Quiet, NoCallIdle
<1>4. CASE ~(FreeRow(c) /\ admins[e] = Unset)
  <2>1. AccountsTypeOK' /\ UNCHANGED <<users, admins>>
    BY <1>2, <1>4, Standing DEF AccountsTypeOK
  <2> QED
    BY <1>2, <2>1, Standing, Quiet, NoCallIdle DEF UserRow
<1> QED
  BY <1>3, <1>4

(* A request that rewrites a column neither store has to agree on.         *)
LEMMA Rewritten ==
  ASSUME AccountsInv, NEW c \in Caller, calls[c].at \notin SwitchStage, Over(c),
         users' \in [Email -> AccountRow \cup {Unset}],
         \A e \in Email : UserRow(e) <=> users'[e] # Unset,
         \A e \in Email : UserRow(e) => users'[e].staff = users[e].staff /\ users'[e].active = users[e].active,
         \A e \in Email : UserRow(e) /\ ~users[e].active =>
             (e \in live' => e \in live \/ e \in late') /\ (e \in late => e \in late'),
         live' \subseteq Email, late' \subseteq Email, UNCHANGED <<admins, torn>>
  PROVE  AccountsInv'
<1> USE AccountsAssumption
<1>1. calls' = [calls EXCEPT ![c] = NoCall]
  BY DEF Over, Call
<1>2. AccountsTypeOK'
  BY <1>1, Standing DEF AccountsTypeOK
<1> QED
  BY <1>1, <1>2, Standing, Quiet, NoCallIdle DEF UserRow

LEMMA LastStepsSound ==
  ASSUME AccountsInv, NEW c \in Caller, Link(c) \/ Rename(c) \/ IssueSession(c) PROVE AccountsInv'
<1> USE AccountsAssumption
<1> DEFINE e == calls[c].email
<1>1. e \in Email /\ UserRow(e) /\ users[e] \in AccountRow /\ calls[c] \in CallRecord
  BY Standing DEF CallSound, Link, Rename, IssueSession
<1>2. Over(c) /\ calls[c].at \notin SwitchStage /\ UNCHANGED <<admins, torn>>
  BY DEF Link, Rename, IssueSession, SwitchStage
<1>3. CASE Link(c)
  <2>1. calls[c].provider \in Provider \cup {Unset}
    BY <1>1 DEF CallRecord
  <2>2. [users[e] EXCEPT !.provider = calls[c].provider] \in AccountRow
    BY <1>1, <2>1 DEF AccountRow
  <2>3. /\ UNCHANGED <<live, late>>
        /\ \/ UNCHANGED users
           \/ users' = [users EXCEPT ![e].provider = calls[c].provider]
    BY <1>3 DEF Link
  <2>4. /\ users' \in [Email -> AccountRow \cup {Unset}] /\ \A f \in Email : UserRow(f) <=> users'[f] # Unset
        /\ \A f \in Email : UserRow(f) => users'[f].staff = users[f].staff /\ users'[f].active = users[f].active
    BY <1>1, <2>2, <2>3, Standing DEF UserRow, AccountRow
  <2>5. live' = live /\ late' = late /\ live' \subseteq Email /\ late' \subseteq Email
    BY <1>3, Standing DEF Link
  <2> QED
    BY <1>2, <2>4, <2>5, Rewritten
<1>4. CASE Rename(c)
  <2>1. calls[c].handle \in Handle
    BY <1>4, Standing DEF Rename, CallSound
  <2>2. [users[e] EXCEPT !.handle = calls[c].handle] \in AccountRow
    BY <1>1, <2>1 DEF AccountRow
  <2>3. /\ UNCHANGED <<live, late>>
        /\ \/ UNCHANGED users
           \/ users' = [users EXCEPT ![e].handle = calls[c].handle]
    BY <1>4 DEF Rename
  <2>4. /\ users' \in [Email -> AccountRow \cup {Unset}] /\ \A f \in Email : UserRow(f) <=> users'[f] # Unset
        /\ \A f \in Email : UserRow(f) => users'[f].staff = users[f].staff /\ users'[f].active = users[f].active
    BY <1>1, <2>2, <2>3, Standing DEF UserRow, AccountRow
  <2>5. live' = live /\ late' = late /\ live' \subseteq Email /\ late' \subseteq Email
    BY <1>4, Standing DEF Rename
  <2> QED
    BY <1>2, <2>4, <2>5, Rewritten
<1>5. CASE IssueSession(c)
  BY <1>1, <1>2, <1>5, Standing, Rewritten DEF IssueSession, UserRow
<1> QED
  BY <1>3, <1>4, <1>5

(* A step of an update rewrites one account, in either store, and the      *)
(* other requests on that account know they were overlapped.               *)
LEMMA Alone ==
  ASSUME AccountsInv, NEW c \in Caller, NEW call \in CallRecord, NEW e \in Email,
         calls[c].at \in SwitchStage, calls[c].email = e,
         calls' = [calls EXCEPT ![c] = call],
         call.at = "idle" \/ (call.at \in SwitchStage /\ call.email = e),
         AccountsTypeOK',
         \A f \in Email \ {e} :
             /\ users'[f] = users[f] /\ admins'[f] = admins[f]
             /\ f \in live' <=> f \in live
             /\ f \in torn' <=> f \in torn
             /\ f \in late' <=> f \in late,
         users'[e] # Unset, users'[e].staff,
         CallSound(c)', StoreSound(e)'
  PROVE  AccountsInv'
<1> USE AccountsAssumption
<1>1. calls \in [Caller -> CallRecord] /\ \A d \in Caller : CallSound(d) /\ calls[d] \in CallRecord
  BY DEF AccountsInv, AccountsTypeOK
<1>2. calls'[c] = call /\ \A d \in Caller \ {c} : calls'[d] = calls[d]
  BY <1>1
<1>3. \A d \in Caller, f \in Email \ {e} : (Switching(d, f)' <=> Switching(d, f)) /\ (Halfway(d, f)' <=> Halfway(d, f))
  BY <1>2 DEF Switching, Halfway, SwitchStage
<1>4. Switching(c, e)
  BY DEF Switching, SwitchStage
<1>5. ASSUME NEW d \in Caller PROVE CallSound(d)'
  <2>1. CASE d = c
    BY <2>1
  <2>2. CASE d # c
    <3> DEFINE f == calls[d].email
    <3>1. calls'[d] = calls[d] /\ CallSound(d)
      BY <1>1, <1>2, <2>2
    <3>2. CASE f = e
      <4>1. calls[d].at \in SwitchStage => ~calls[d].clean
        BY <1>4, <2>2, <3>1, <3>2 DEF CallSound
      <4> QED
        BY <3>1, <3>2, <4>1 DEF CallSound, UserRow, SwitchStage
    <3>3. CASE f # e
      <4>1. calls[d].at \in SwitchStage /\ calls[d].clean => \A b \in Caller \ {d} : ~Switching(b, f)'
        BY <1>3, <3>1, <3>3 DEF CallSound, SwitchStage
      <4>2. calls[d].at # "idle" => /\ f \in Email /\ users'[f] = users[f] /\ admins'[f] = admins[f]
                                    /\ f \in live' <=> f \in live
                                    /\ f \in late' <=> f \in late
        BY <3>1, <3>3 DEF CallSound
      <4> QED
        BY <3>1, <4>1, <4>2 DEF CallSound, UserRow, SwitchStage
    <3> QED
      BY <3>2, <3>3
  <2> QED
    BY <2>1, <2>2
<1>6. ASSUME NEW f \in Email PROVE StoreSound(f)'
  <2>1. CASE f = e
    BY <2>1
  <2>2. CASE f # e
    <3>1. StoreSound(f)
      BY DEF AccountsInv
    <3> QED
      BY <1>3, <2>2, <3>1 DEF StoreSound, Staff, UserRow
  <2> QED
    BY <2>1, <2>2
<1> QED
  BY <1>5, <1>6 DEF AccountsInv

(* Overlapped or not, an update that is over is not halfway any more.      *)
LEMMA SwitchingRow ==
  ASSUME AccountsInv, NEW c \in Caller, calls[c].at \in SwitchStage
  PROVE  /\ calls[c].email \in Email /\ UserRow(calls[c].email) /\ users[calls[c].email].staff
         /\ users[calls[c].email] \in AccountRow /\ calls[c].flag \in BOOLEAN /\ calls[c].clean \in BOOLEAN
         /\ calls[c].swept \in 0 .. 2
<1>1. calls[c].email \in Email /\ UserRow(calls[c].email)
  BY Standing DEF CallSound, SwitchStage
<1> QED
  BY <1>1, Standing DEF CallSound, CallRecord

LEMMA SwitchUserSound ==
  ASSUME AccountsInv, NEW c \in Caller, SwitchUser(c) PROVE AccountsInv'
<1> USE AccountsAssumption DEF SwitchUser
<1>0. PICK e \in Email : calls[c].email = e
  BY SwitchingRow DEF SwitchStage
<1> DEFINE call == [calls[c] EXCEPT !.at = "switched"]
           row == [users[e] EXCEPT !.active = calls[c].flag]
<1>1. /\ UserRow(e) /\ users[e].staff /\ users[e] \in AccountRow
      /\ calls[c].flag \in BOOLEAN /\ calls[c] \in CallRecord /\ calls \in [Caller -> CallRecord]
  BY <1>0, SwitchingRow, Standing DEF SwitchStage
<1>2. row \in AccountRow /\ row.staff /\ row.active = calls[c].flag /\ users' = [users EXCEPT ![e] = row]
  BY <1>0, <1>1 DEF AccountRow
<1>3. /\ call \in CallRecord /\ call.at = "switched" /\ SameBut(call, calls[c], {"at"})
      /\ calls' = [calls EXCEPT ![c] = call]
  BY <1>1, WithStage DEF CallStage, Move
<1>4. calls[c].at = "target" /\ UNCHANGED <<admins, live, torn, late>> /\ CallSound(c) /\ StoreSound(e)
  BY <1>1, Standing
<1> HIDE DEF call, row, SwitchUser
<1>5. row # Unset /\ AccountsTypeOK'
  BY <1>1, <1>2, <1>3, <1>4, Standing DEF AccountsTypeOK
<1>6. calls'[c] = call /\ users'[e] = row /\ \A d \in Caller \ {c} : calls'[d] = calls[d]
  BY <1>1, <1>2, <1>3, Standing
<1>7. CallSound(c)'
  <2>1. calls[c].clean => \A d \in Caller \ {c} : ~Switching(d, e)'
    BY <1>0, <1>4, <1>6 DEF CallSound, SwitchStage, Switching
  <2> QED
    BY <1>0, <1>1, <1>2, <1>3, <1>4, <1>5, <1>6, <2>1 DEF CallSound, SwitchStage, UserRow, SameBut
<1>8. StoreSound(e)'
  <2>1. Halfway(c, e)'
    BY <1>0, <1>3, <1>6 DEF Halfway, SameBut
  <2> QED
    BY <1>2, <1>5, <1>6, <2>1 DEF StoreSound, Staff, UserRow
<1>9. /\ calls[c].at \in SwitchStage /\ call.at \in SwitchStage /\ call.email = e
      /\ users'[e] # Unset /\ users'[e].staff
  BY <1>0, <1>2, <1>3, <1>4, <1>5, <1>6 DEF SwitchStage, SameBut
<1>10. \A f \in Email \ {e} :
           /\ users'[f] = users[f] /\ admins'[f] = admins[f]
           /\ f \in live' <=> f \in live
           /\ f \in torn' <=> f \in torn
           /\ f \in late' <=> f \in late
  BY <1>2, <1>4, Standing
<1> QED
  BY <1>0, <1>1, <1>3, <1>5, <1>7, <1>8, <1>9, <1>10, Alone

(* An update that is over, in whatever way, leaves its account agreed or   *)
(* on the list of those that are torn.                                     *)
LEMMA Ends ==
  ASSUME AccountsInv, NEW c \in Caller, NEW e \in Email, calls[c].email = e,
         calls[c].at \in SwitchStage, Over(c), AccountsTypeOK',
         \A f \in Email \ {e} :
             /\ users'[f] = users[f] /\ admins'[f] = admins[f]
             /\ f \in live' <=> f \in live
             /\ f \in torn' <=> f \in torn
             /\ f \in late' <=> f \in late,
         users'[e] # Unset, users'[e].staff, StoreSound(e)'
  PROVE  AccountsInv'
<1>1. calls' = [calls EXCEPT ![c] = NoCall] /\ calls \in [Caller -> CallRecord]
  BY Standing DEF Over, Call
<1>2. calls'[c] = NoCall
  BY <1>1
<1>3. CallSound(c)'
  BY <1>2, NoCallIdle DEF CallSound, SwitchStage
<1> QED
  BY <1>1, <1>3, NoCallIdle, Alone

LEMMA SwitchAdminSound ==
  ASSUME AccountsInv, NEW c \in Caller, SwitchAdmin(c) PROVE AccountsInv'
<1> USE AccountsAssumption DEF SwitchAdmin
<1>0. PICK e \in Email : calls[c].email = e
  BY SwitchingRow DEF SwitchStage
<1> DEFINE call == [calls[c] EXCEPT !.at = "copied"]
           to == IF admins[e] = Unset THEN Unset ELSE IF calls[c].flag THEN "on" ELSE "off"
<1>1. /\ UserRow(e) /\ users[e].staff /\ calls[c].clean \in BOOLEAN /\ calls[c].flag \in BOOLEAN
      /\ calls[c] \in CallRecord /\ calls \in [Caller -> CallRecord]
  BY <1>0, SwitchingRow, Standing DEF SwitchStage
<1>2. /\ calls[c].at = "switched" /\ UNCHANGED <<users, live, late>> /\ CallSound(c) /\ StoreSound(e)
      /\ calls[c].swept = 0
      /\ calls[c].clean => (users[e].active <=> calls[c].flag)
  BY <1>0, Standing DEF CallSound
<1>3. admins' = [admins EXCEPT ![e] = to] /\ to \in {Unset, "on", "off"}
  BY <1>0
<1>4. /\ admins' \in [Email -> {Unset, "on", "off"}] /\ admins'[e] = to
      /\ \A f \in Email \ {e} : admins'[f] = admins[f]
  BY <1>3, Standing
<1>5. torn' = torn \/ torn' = torn \cup {e} \/ torn' = torn \ {e}
  BY <1>0 DEF Settled
<1>6. \A f \in Email \ {e} :
          /\ users'[f] = users[f] /\ admins'[f] = admins[f]
          /\ f \in live' <=> f \in live
          /\ f \in torn' <=> f \in torn
          /\ f \in late' <=> f \in late
  BY <1>2, <1>4, <1>5
<1>7. torn' \subseteq Email /\ users'[e] # Unset /\ users'[e].staff
  BY <1>1, <1>2, <1>5, Standing DEF UserRow
<1>8. CASE calls[c].flag
  <2>1. Over(c) /\ torn' = (IF calls[c].clean THEN torn \ {e} ELSE torn \cup {e})
    BY <1>0, <1>8 DEF Settled
  <2>2. AccountsTypeOK'
    BY <1>2, <1>4, <1>7, <2>1, Standing DEF AccountsTypeOK, Over, Call
  <2>3. to = Unset \/ to = "on"
    BY <1>8
  <2>4. CASE calls[c].clean
    <3>1. users'[e].active
      BY <1>2, <1>8, <2>4
    <3> HIDE DEF to, SwitchAdmin
    <3>2. StoreSound(e)'
      BY <1>4, <1>7, <2>3, <3>1 DEF StoreSound, Staff, UserRow
    <3> QED
      BY <1>0, <1>2, <1>6, <1>7, <2>1, <2>2, <3>2, Ends DEF SwitchStage
  <2>5. CASE ~calls[c].clean
    <3> HIDE DEF to, SwitchAdmin
    <3>1. StoreSound(e)'
      BY <1>7, <2>1, <2>5 DEF StoreSound, Staff, UserRow
    <3> QED
      BY <1>0, <1>2, <1>6, <1>7, <2>1, <2>2, <3>1, Ends DEF SwitchStage
  <2> QED
    BY <2>4, <2>5
<1>9. CASE ~calls[c].flag
  <2>1. calls' = [calls EXCEPT ![c] = call] /\ torn' = torn
    BY <1>9 DEF Move
  <2>2. call \in CallRecord /\ call.at = "copied" /\ SameBut(call, calls[c], {"at"})
    BY <1>1, WithStage DEF CallStage
  <2> HIDE DEF call, to, SwitchAdmin
  <2>3. calls'[c] = call /\ \A d \in Caller \ {c} : calls'[d] = calls[d]
    BY <1>1, <2>1
  <2>4. AccountsTypeOK'
    BY <1>2, <1>4, <2>1, <2>2, Standing DEF AccountsTypeOK
  <2>5. calls[c].clean => \A d \in Caller \ {c} : ~Switching(d, e)'
    BY <1>0, <1>2, <2>3 DEF CallSound, SwitchStage, Switching
  <2>6. admins'[e] # "on"
    BY <1>4, <1>9 DEF to
  <2>7. CallSound(c)'
    BY <1>0, <1>1, <1>2, <1>9, <2>2, <2>3, <2>5, <2>6 DEF CallSound, SwitchStage, UserRow, SameBut
  <2>8. Halfway(c, e)' /\ call.email = e
    BY <1>0, <2>2, <2>3 DEF Halfway, SameBut
  <2>9. StoreSound(e)'
    BY <1>7, <2>8 DEF StoreSound, Staff, UserRow
  <2> QED
    BY <1>0, <1>2, <1>6, <1>7, <2>1, <2>2, <2>4, <2>7, <2>8, <2>9, Alone DEF SwitchStage
<1> QED
  BY <1>8, <1>9

LEMMA RevokeSound ==
  ASSUME AccountsInv, NEW c \in Caller, Revoke(c) PROVE AccountsInv'
<1> USE AccountsAssumption
<1>0. PICK e \in Email : calls[c].email = e
  BY SwitchingRow DEF SwitchStage, Revoke
<1> DEFINE n == calls[c].swept + 1
           call == [calls[c] EXCEPT !.swept = n]
<1>1. /\ UserRow(e) /\ users[e].staff /\ calls[c].swept \in 0 .. 2
      /\ calls[c] \in CallRecord /\ calls \in [Caller -> CallRecord] /\ calls[c].at = "copied"
  BY <1>0, SwitchingRow, Standing DEF SwitchStage, Revoke
<1>2. UNCHANGED <<users, admins>> /\ CallSound(c) /\ StoreSound(e) /\ admins \in [Email -> {Unset, "on", "off"}]
  BY <1>0, Standing DEF Revoke
<1>3. n \in 1 .. 3 /\ (n = Len(Swept) <=> n = 3) /\ (Swept[n] = "user" <=> n = 1)
  BY <1>1 DEF Swept
<1>4. /\ live' = (IF n = 1 THEN live \ {e} ELSE live) /\ late' = (IF n = 1 THEN late \ {e} ELSE late)
      /\ Call(c, IF n = 3 THEN NoCall ELSE call)
      /\ torn' = (IF n = 3 THEN Settled(c) ELSE torn)
  BY <1>0, <1>3 DEF Revoke
<1>5. torn' = torn \/ torn' = torn \cup {e} \/ torn' = torn \ {e}
  BY <1>0, <1>4 DEF Settled
<1>6. /\ torn' \subseteq Email /\ live' \subseteq Email /\ late' \subseteq Email /\ users'[e] # Unset /\ users'[e].staff
      /\ \A f \in Email \ {e} :
             /\ users'[f] = users[f] /\ admins'[f] = admins[f]
             /\ f \in live' <=> f \in live
             /\ f \in torn' <=> f \in torn
             /\ f \in late' <=> f \in late
  BY <1>1, <1>2, <1>4, <1>5, Standing DEF UserRow
<1>7. calls[c].clean => ~users[e].active /\ admins[e] # "on" /\ (n > 1 => e \notin live \/ e \in late)
  BY <1>0, <1>1, <1>2 DEF CallSound
<1>8. CASE n = 3
  <2>1. Over(c) /\ live' = live /\ late' = late /\ torn' = (IF calls[c].clean THEN torn \ {e} ELSE torn \cup {e})
    BY <1>0, <1>4, <1>8 DEF Settled, Over
  <2>2. AccountsTypeOK'
    BY <1>2, <1>6, <2>1, Standing DEF AccountsTypeOK, Over, Call
  <2>3. StoreSound(e)'
    BY <1>1, <1>2, <1>7, <1>8, <2>1 DEF StoreSound, Staff, UserRow
  <2> QED
    BY <1>0, <1>1, <1>6, <2>1, <2>2, <2>3, Ends DEF SwitchStage
<1>9. CASE n # 3
  <2>1. calls' = [calls EXCEPT ![c] = call] /\ torn' = torn /\ n \in 0 .. 2
    BY <1>3, <1>4, <1>9 DEF Call
  <2>2. call \in CallRecord /\ call.swept = n /\ SameBut(call, calls[c], {"swept"})
    BY <1>1, <2>1, WithSwept
  <2>3. calls[c].clean => e \notin live' \/ e \in late'
    BY <1>4, <1>7, <1>3
  <2> HIDE DEF call, n
  <2>4. calls'[c] = call /\ \A d \in Caller \ {c} : calls'[d] = calls[d]
    BY <1>1, <2>1
  <2>5. AccountsTypeOK'
    BY <1>2, <1>6, <2>1, <2>2, Standing DEF AccountsTypeOK
  <2>6. calls[c].clean => \A d \in Caller \ {c} : ~Switching(d, e)'
    BY <1>0, <1>1, <1>2, <2>4 DEF CallSound, SwitchStage, Switching
  <2>7. CallSound(c)'
    BY <1>0, <1>1, <1>2, <1>7, <2>2, <2>3, <2>4, <2>6 DEF CallSound, SwitchStage, UserRow, SameBut
  <2>8. Halfway(c, e)' /\ call.email = e /\ call.at = "copied"
    BY <1>0, <1>1, <2>2, <2>4 DEF Halfway, SameBut
  <2>9. StoreSound(e)'
    BY <1>6, <2>8 DEF StoreSound, Staff, UserRow
  <2> QED
    BY <1>0, <1>1, <1>6, <2>1, <2>2, <2>5, <2>7, <2>8, <2>9, Alone DEF SwitchStage
<1> QED
  BY <1>8, <1>9

LEMMA CallFailsSound ==
  ASSUME AccountsInv, NEW c \in Caller, CallFails(c) PROVE AccountsInv'
<1> USE AccountsAssumption DEF CallFails
<1>1. /\ Over(c) /\ UNCHANGED <<users, admins, live, late>> /\ users \in [Email -> AccountRow \cup {Unset}]
      /\ live \subseteq Email /\ late \subseteq Email
  BY Standing
<1>2. CASE calls[c].at \notin SwitchStage
  <2>1. UNCHANGED torn
    BY <1>2 DEF SwitchStage
  <2> QED
    BY <1>1, <1>2, <2>1, Rewritten DEF UserRow
<1>3. CASE calls[c].at \in SwitchStage
  <2>0. PICK e \in Email : calls[c].email = e
    BY <1>3, SwitchingRow
  <2>1. UserRow(e) /\ users[e].staff /\ StoreSound(e) /\ calls \in [Caller -> CallRecord]
    BY <1>3, <2>0, SwitchingRow, Standing
  <2>2. torn' = torn \cup {e} \/ (torn' = torn /\ calls[c].at = "target")
    BY <1>3, <2>0 DEF SwitchStage
  <2>3. AccountsTypeOK'
    BY <1>1, <2>2, Standing DEF AccountsTypeOK, Over, Call
  <2>4. StoreSound(e)'
    <3>1. CASE e \in torn'
      BY <1>1, <2>1, <3>1 DEF StoreSound, Staff, UserRow
    <3>2. CASE e \notin torn'
      <4>1. torn' = torn /\ calls[c].at = "target"
        BY <2>2, <3>2
      <4>2. \A d \in Caller \ {c} : calls'[d] = calls[d]
        BY <2>1 DEF Over, Call
      <4>3. \A d \in Caller : Halfway(d, e) => Halfway(d, e)'
        BY <4>1, <4>2 DEF Halfway
      <4> QED
        BY <1>1, <2>1, <4>1, <4>3 DEF StoreSound, Staff, UserRow
    <3> QED
      BY <3>1, <3>2
  <2> QED
    BY <1>1, <1>3, <2>0, <2>1, <2>2, <2>3, <2>4, Ends DEF UserRow
<1> QED
  BY <1>2, <1>3

(* A seed's own end: both rows are enabled.                                *)
LEMMA SeedAdminSound ==
  ASSUME AccountsInv, NEW c \in Caller, SeedAdmin(c) PROVE AccountsInv'
<1> USE AccountsAssumption
<1>1. PICK e \in Email : calls[c].email = e
  BY SwitchingRow DEF SwitchStage, SeedAdmin
<1>2. /\ UserRow(e) /\ users[e].staff /\ calls[c].at = "seeded" /\ calls[c].at \in SwitchStage
      /\ CallSound(c) /\ calls \in [Caller -> CallRecord]
  BY <1>1, SwitchingRow, Standing DEF SwitchStage, SeedAdmin
<1>3. /\ admins' = [admins EXCEPT ![e] = "on"] /\ UNCHANGED <<users, live, late>> /\ Over(c)
      /\ torn' = (IF calls[c].clean THEN torn \ {e} ELSE torn \cup {e})
  BY <1>1 DEF SeedAdmin, Settled
<1>4. /\ admins' \in [Email -> {Unset, "on", "off"}] /\ admins'[e] = "on"
      /\ \A f \in Email \ {e} : admins'[f] = admins[f] /\ (f \in torn' <=> f \in torn)
  BY <1>3, Standing
<1>5. torn' \subseteq Email /\ users'[e] # Unset /\ users'[e].staff
  BY <1>2, <1>3, Standing DEF UserRow
<1>6. AccountsTypeOK'
  BY <1>3, <1>4, <1>5, Standing DEF AccountsTypeOK, Over, Call
<1>7. calls[c].clean => users'[e].active
  BY <1>1, <1>2, <1>3 DEF CallSound
<1>8. StoreSound(e)'
  BY <1>3, <1>4, <1>5, <1>7 DEF StoreSound, Staff, UserRow
<1> QED
  BY <1>1, <1>2, <1>3, <1>4, <1>5, <1>6, <1>8, Ends

(* Whoever else is at work on the account is told.                         *)
LEMMA TellsOthers ==
  ASSUME AccountsInv, NEW d \in Caller, NEW e
  PROVE  /\ Told(d, e) \in CallRecord /\ SameBut(Told(d, e), calls[d], {"clean"})
         /\ Told(d, e).clean => calls[d].clean /\ ~Switching(d, e)
<1> DEFINE g == calls[d].clean /\ ~Switching(d, e)
<1>1. calls[d] \in CallRecord /\ g \in BOOLEAN /\ Told(d, e) = [calls[d] EXCEPT !.clean = g]
  BY Standing DEF Told
<1> HIDE DEF g
<1>2. /\ [calls[d] EXCEPT !.clean = g] \in CallRecord /\ [calls[d] EXCEPT !.clean = g].clean = g
      /\ SameBut([calls[d] EXCEPT !.clean = g], calls[d], {"clean"})
  BY <1>1, WithClean
<1> QED
  BY <1>1, <1>2 DEF g

LEMMA StartsSound ==
  ASSUME AccountsInv, NEW c \in Caller, NEW e \in Email, NEW call \in CallRecord, Starts(c, e, call)
  PROVE  /\ calls' \in [Caller -> CallRecord] /\ SameBut(calls'[c], call, {"clean"})
         /\ calls'[c].clean => \A x \in Caller : ~Switching(x, e)
         /\ \A d \in Caller \ {c} : calls'[d] = Told(d, e)
<1> DEFINE clean == \A x \in Caller : ~Switching(x, e)
           own == [call EXCEPT !.clean = clean]
<1>1. calls' = [d \in Caller |-> IF d = c THEN own ELSE Told(d, e)]
  BY DEF Starts
<1>2. own \in CallRecord /\ own.clean = clean /\ SameBut(own, call, {"clean"})
  <2>1. clean \in BOOLEAN
    OBVIOUS
  <2> HIDE DEF clean
  <2> QED
    BY <2>1, WithClean
<1> HIDE DEF own
<1>3. calls'[c] = own /\ \A d \in Caller \ {c} : calls'[d] = Told(d, e)
  BY <1>1
<1>4. calls' \in [Caller -> CallRecord]
  BY <1>1, <1>2, TellsOthers
<1> QED
  BY <1>2, <1>3, <1>4

(* A write to one account beside the requests at work on it: they are told, *)
(* and one of them may be new.                                             *)
LEMMA Overlap ==
  ASSUME AccountsInv, NEW e \in Email, NEW S \in SUBSET Caller, AccountsTypeOK',
         \A d \in Caller \ S : SameBut(calls'[d], calls[d], {"clean"}),
         \A d \in Caller \ S : calls'[d].clean => calls[d].clean /\ ~Switching(d, e),
         \A d \in S : CallSound(d)' /\ calls[d].at = "idle" /\ calls'[d].email = e,
         \A f \in Email \ {e} :
             /\ users'[f] = users[f] /\ admins'[f] = admins[f]
             /\ f \in live' <=> f \in live
             /\ f \in torn' <=> f \in torn
             /\ f \in late' <=> f \in late,
         UserRow(e) => users'[e] # Unset /\ (users[e].staff => users'[e].staff),
         StoreSound(e)'
  PROVE  AccountsInv'
<1> USE AccountsAssumption
<1>1. \A d \in Caller : CallSound(d)
  BY DEF AccountsInv
<1>2. \A d \in Caller \ S :
         /\ calls'[d].at = calls[d].at /\ calls'[d].email = calls[d].email /\ calls'[d].handle = calls[d].handle
         /\ calls'[d].flag = calls[d].flag /\ calls'[d].swept = calls[d].swept
  BY DEF SameBut
<1>3. \A d \in Caller, f \in Email \ {e} : (Switching(d, f)' <=> Switching(d, f)) /\ (Halfway(d, f)' <=> Halfway(d, f))
  <2> SUFFICES ASSUME NEW d \in Caller, NEW f \in Email, f # e
               PROVE  (Switching(d, f)' <=> Switching(d, f)) /\ (Halfway(d, f)' <=> Halfway(d, f))
    OBVIOUS
  <2>1. CASE d \in S
    BY <2>1 DEF Switching, Halfway
  <2>2. CASE d \notin S
    BY <1>2, <2>2 DEF Switching, Halfway
  <2> QED
    BY <2>1, <2>2
<1>4. ASSUME NEW d \in Caller PROVE CallSound(d)'
  <2>1. CASE d \in S
    BY <2>1
  <2>2. CASE d \notin S
    <3>1. PICK f : f = calls[d].email
      OBVIOUS
    <3>2. /\ calls'[d].at = calls[d].at /\ calls'[d].email = f /\ calls'[d].handle = calls[d].handle
          /\ calls'[d].flag = calls[d].flag /\ calls'[d].swept = calls[d].swept /\ CallSound(d)
          /\ calls'[d].clean => calls[d].clean /\ ~Switching(d, e)
      BY <1>1, <1>2, <2>2, <3>1
    <3>3. CASE f = e
      <4>1. calls[d].at \in SwitchStage => ~calls'[d].clean
        BY <3>1, <3>2, <3>3 DEF Switching, SwitchStage
      <4> QED
        BY <3>1, <3>2, <3>3, <4>1 DEF CallSound, UserRow, SwitchStage
    <3>4. CASE f # e
      <4>1. calls[d].at \in SwitchStage /\ calls'[d].clean => \A b \in Caller \ {d} : ~Switching(b, f)'
        BY <1>3, <3>1, <3>2, <3>4 DEF CallSound, SwitchStage
      <4>2. calls[d].at # "idle" => /\ f \in Email /\ users'[f] = users[f] /\ admins'[f] = admins[f]
                                    /\ f \in live' <=> f \in live
                                    /\ f \in late' <=> f \in late
        BY <3>1, <3>2, <3>4 DEF CallSound
      <4> QED
        BY <3>1, <3>2, <4>1, <4>2 DEF CallSound, UserRow, SwitchStage
    <3> QED
      BY <3>3, <3>4
  <2> QED
    BY <2>1, <2>2
<1>5. ASSUME NEW f \in Email PROVE StoreSound(f)'
  <2>1. CASE f = e
    BY <2>1
  <2>2. CASE f # e
    <3>1. StoreSound(f)
      BY DEF AccountsInv
    <3> QED
      BY <1>3, <2>2, <3>1 DEF StoreSound, Staff, UserRow
  <2> QED
    BY <2>1, <2>2
<1> QED
  BY <1>4, <1>5 DEF AccountsInv

(* An update that begins changes no row yet.                               *)
LEMMA ReadTargetSound ==
  ASSUME AccountsInv, NEW c \in Caller, NEW e \in Email, NEW flag \in BOOLEAN, ReadTarget(c, e, flag)
  PROVE  AccountsInv'
<1> USE AccountsAssumption
<1> DEFINE asked == Asks(c, e, "target")
           call == [asked EXCEPT !.flag = flag]
<1>1. asked \in CallRecord /\ asked.at = "target" /\ asked.email = e /\ asked.swept = 0
  BY Asked DEF CallStage
<1>2. /\ calls[c].at = "idle" /\ UserRow(e) /\ users[e].staff /\ UNCHANGED <<users, admins, live, torn, late>>
      /\ Starts(c, e, call)
  BY DEF ReadTarget
<1> HIDE DEF asked
<1>3. call \in CallRecord /\ call.at = "target" /\ call.email = e /\ call.swept = 0
  BY <1>1 DEF CallRecord
<1> HIDE DEF call
<1>4. /\ calls' \in [Caller -> CallRecord] /\ SameBut(calls'[c], call, {"clean"})
      /\ calls'[c].clean => \A x \in Caller : ~Switching(x, e)
      /\ \A d \in Caller \ {c} : calls'[d] = Told(d, e)
  BY <1>2, <1>3, StartsSound
<1>5. AccountsTypeOK'
  BY <1>2, <1>4, Standing DEF AccountsTypeOK
<1>6. /\ \A d \in Caller \ {c} : SameBut(calls'[d], calls[d], {"clean"})
      /\ \A d \in Caller \ {c} : calls'[d].clean => calls[d].clean /\ ~Switching(d, e)
  BY <1>4, TellsOthers
<1>7. calls'[c].at = "target" /\ calls'[c].email = e /\ calls'[c].swept = 0
  BY <1>3, <1>4 DEF SameBut
<1>8. calls'[c].clean => \A d \in Caller \ {c} : ~Switching(d, e)'
  BY <1>4, <1>6 DEF Switching, SameBut
<1>9. CallSound(c)'
  BY <1>2, <1>7, <1>8 DEF CallSound, SwitchStage, UserRow
<1>10. StoreSound(e)'
  <2>1. StoreSound(e)
    BY Standing
  <2>2. \A d \in Caller : Halfway(d, e)' <=> Halfway(d, e)
    BY <1>2, <1>6, <1>7 DEF Halfway, SameBut
  <2> QED
    BY <1>2, <2>1, <2>2 DEF StoreSound, Staff, UserRow
<1>11. \A d \in {c} : CallSound(d)' /\ calls[d].at = "idle" /\ calls'[d].email = e
  BY <1>2, <1>7, <1>9
<1>12. \A f \in Email \ {e} :
           /\ users'[f] = users[f] /\ admins'[f] = admins[f]
           /\ f \in live' <=> f \in live
           /\ f \in torn' <=> f \in torn
           /\ f \in late' <=> f \in late
  BY <1>2
<1>13. {c} \in SUBSET Caller /\ (UserRow(e) => users'[e] # Unset /\ (users[e].staff => users'[e].staff))
  BY <1>2 DEF UserRow
<1> QED
  BY <1>5, <1>6, <1>10, <1>11, <1>12, <1>13, Overlap

(* A seed finds the account or makes it, and leaves it enabled and staff.  *)
LEMMA SeedAccountsSound ==
  ASSUME AccountsInv, NEW c \in Caller, NEW e \in Email, NEW h \in Handle, SeedAccounts(c, e, h)
  PROVE  AccountsInv'
<1> USE AccountsAssumption
<1> DEFINE call == Asks(c, e, "seeded")
           row == IF UserRow(e) THEN [users[e] EXCEPT !.staff = TRUE, !.active = TRUE] ELSE StaffRow(h)
<1>1. call \in CallRecord /\ call.at = "seeded" /\ call.email = e /\ call.flag
  <2>1. call \in CallRecord /\ call.at = "seeded" /\ call.email = e
    BY Asked DEF CallStage
  <2>2. call.flag
    BY DEF NoCall, Asks
  <2> QED
    BY <2>1, <2>2
<1>2. /\ calls[c].at = "idle" /\ users' = [users EXCEPT ![e] = row] /\ UNCHANGED <<admins, live, torn, late>>
      /\ Starts(c, e, call)
  BY DEF SeedAccounts
<1>3. row \in AccountRow /\ row.staff /\ row.active
  BY Standing DEF AccountRow, StaffRow
<1> HIDE DEF call, row
<1>4. /\ calls' \in [Caller -> CallRecord] /\ SameBut(calls'[c], call, {"clean"})
      /\ calls'[c].clean => \A x \in Caller : ~Switching(x, e)
      /\ \A d \in Caller \ {c} : calls'[d] = Told(d, e)
  BY <1>1, <1>2, StartsSound
<1>5. /\ users' \in [Email -> AccountRow \cup {Unset}] /\ users'[e] # Unset
      /\ users'[e].staff /\ users'[e].active /\ \A f \in Email \ {e} : users'[f] = users[f]
  BY <1>2, <1>3, Standing
<1>6. AccountsTypeOK'
  BY <1>2, <1>4, <1>5, Standing DEF AccountsTypeOK
<1>7. /\ \A d \in Caller \ {c} : SameBut(calls'[d], calls[d], {"clean"})
      /\ \A d \in Caller \ {c} : calls'[d].clean => calls[d].clean /\ ~Switching(d, e)
  BY <1>4, TellsOthers
<1>8. calls'[c].at = "seeded" /\ calls'[c].email = e /\ calls'[c].flag
  BY <1>1, <1>4 DEF SameBut
<1>9. calls'[c].clean => \A d \in Caller \ {c} : ~Switching(d, e)'
  BY <1>4, <1>7 DEF Switching, SameBut
<1>10. CallSound(c)'
  BY <1>5, <1>8, <1>9 DEF CallSound, SwitchStage, UserRow
<1>11. StoreSound(e)'
  <2>1. Halfway(c, e)'
    BY <1>8 DEF Halfway
  <2> QED
    BY <1>5, <2>1 DEF StoreSound, Staff, UserRow
<1>12. \A d \in {c} : CallSound(d)' /\ calls[d].at = "idle" /\ calls'[d].email = e
  BY <1>2, <1>8, <1>10
<1>13. \A f \in Email \ {e} :
           /\ users'[f] = users[f] /\ admins'[f] = admins[f]
           /\ f \in live' <=> f \in live
           /\ f \in torn' <=> f \in torn
           /\ f \in late' <=> f \in late
  BY <1>2, <1>5
<1>14. {c} \in SUBSET Caller /\ (UserRow(e) => users'[e] # Unset /\ (users[e].staff => users'[e].staff))
  BY <1>5
<1> QED
  BY <1>6, <1>7, <1>11, <1>12, <1>13, <1>14, Overlap

(* The other script's rows, and the end of an account's last session.      *)
LEMMA OtherSeedSound ==
  ASSUME AccountsInv, NEW e \in Email, SeedDashboard(e) \/ \E h \in Handle : SeedSuperAdmin(e, h)
  PROVE  AccountsInv'
<1> USE AccountsAssumption
<1>1. StoreSound(e)
  BY DEF AccountsInv
<1>2. CASE SeedDashboard(e)
  <2>1. /\ admins[e] = Unset /\ admins' = [admins EXCEPT ![e] = "on"] /\ UNCHANGED <<users, live, late>>
        /\ calls' = [d \in Caller |-> Told(d, e)]
        /\ torn' = IF UserRow(e) /\ users[e].staff /\ ~users[e].active THEN torn \cup {e} ELSE torn
    BY <1>2 DEF SeedDashboard
  <2>2. /\ admins' \in [Email -> {Unset, "on", "off"}] /\ admins'[e] = "on"
        /\ \A f \in Email \ {e} : admins'[f] = admins[f] /\ (f \in torn' <=> f \in torn)
    BY <2>1, Stores
  <2>3. /\ \A d \in Caller : Told(d, e) \in CallRecord /\ calls'[d] = Told(d, e)
        /\ \A d \in Caller : SameBut(calls'[d], calls[d], {"clean"})
        /\ \A d \in Caller : calls'[d].clean => calls[d].clean /\ ~Switching(d, e)
    BY <2>1, TellsOthers
  <2>4. AccountsTypeOK'
    BY <2>1, <2>2, <2>3, Stores DEF AccountsTypeOK
  <2>5. \A d \in Caller : Halfway(d, e)' <=> Halfway(d, e)
    BY <2>3 DEF Halfway, SameBut
  <2>6. StoreSound(e)'
    BY <1>1, <2>1, <2>2, <2>5 DEF StoreSound, Staff, UserRow
  <2>7. /\ \A d \in Caller \ {} : SameBut(calls'[d], calls[d], {"clean"})
        /\ \A d \in Caller \ {} : calls'[d].clean => calls[d].clean /\ ~Switching(d, e)
        /\ \A d \in {} : CallSound(d)' /\ calls[d].at = "idle" /\ calls'[d].email = e
    BY <2>3
  <2>8. \A f \in Email \ {e} :
             /\ users'[f] = users[f] /\ admins'[f] = admins[f]
             /\ f \in live' <=> f \in live
             /\ f \in torn' <=> f \in torn
             /\ f \in late' <=> f \in late
    BY <2>1, <2>2
  <2>9. UserRow(e) => users'[e] # Unset /\ (users[e].staff => users'[e].staff)
    BY <2>1 DEF UserRow
  <2>10. {} \in SUBSET Caller
    OBVIOUS
  <2> QED
    BY <2>4, <2>6, <2>7, <2>8, <2>9, <2>10, Overlap
<1>3. CASE \E h \in Handle : SeedSuperAdmin(e, h)
  <2>1. PICK h \in Handle : SeedSuperAdmin(e, h)
    BY <1>3
  <2>2. /\ ~UserRow(e) /\ users' = [users EXCEPT ![e] = StaffRow(h)]
        /\ UNCHANGED <<admins, live, calls, torn, late>>
    BY <2>1 DEF SeedSuperAdmin
  <2>3. StaffRow(h) \in AccountRow /\ StaffRow(h).staff /\ StaffRow(h).active
    BY DEF StaffRow, AccountRow
  <2>4. /\ users' \in [Email -> AccountRow \cup {Unset}] /\ users'[e] # Unset
        /\ users'[e].staff /\ users'[e].active /\ \A f \in Email \ {e} : users'[f] = users[f]
    BY <2>2, <2>3, Stores
  <2>5. AccountsTypeOK'
    BY <2>2, <2>4, Stores DEF AccountsTypeOK
  <2>6. \A d \in Caller : ~Switching(d, e)
    BY <2>2, SwitchingRow DEF Switching, SwitchStage
  <2>7. \A d \in Caller : SameBut(calls'[d], calls[d], {"clean"})
    BY <2>2 DEF SameBut
  <2>8. admins[e] = Unset \/ admins[e] = "on"
    BY <1>1, <2>2, Stores DEF StoreSound, Staff
  <2>9. StoreSound(e)'
    BY <2>2, <2>4, <2>8 DEF StoreSound, Staff, UserRow
  <2>10. /\ \A d \in Caller \ {} : SameBut(calls'[d], calls[d], {"clean"})
         /\ \A d \in Caller \ {} : calls'[d].clean => calls[d].clean /\ ~Switching(d, e)
         /\ \A d \in {} : CallSound(d)' /\ calls[d].at = "idle" /\ calls'[d].email = e
    BY <2>2, <2>6, <2>7
  <2>11. \A f \in Email \ {e} :
             /\ users'[f] = users[f] /\ admins'[f] = admins[f]
             /\ f \in live' <=> f \in live
             /\ f \in torn' <=> f \in torn
             /\ f \in late' <=> f \in late
    BY <2>2, <2>4
  <2>12. {} \in SUBSET Caller
    OBVIOUS
  <2> QED
    BY <2>2, <2>5, <2>9, <2>10, <2>11, <2>12, Overlap
<1> QED
  BY <1>2, <1>3

LEMMA EndSessionSound ==
  ASSUME AccountsInv, NEW e \in Email, EndSession(e) PROVE AccountsInv'
<1>1. UNCHANGED <<users, admins, calls, torn, late>> /\ live' \subseteq live
  BY DEF EndSession
<1>2. AccountsTypeOK'
  BY <1>1 DEF AccountsInv, AccountsTypeOK
<1>3. ASSUME NEW c \in Caller PROVE CallSound(c)'
  BY <1>1, Standing DEF CallSound, UserRow, Switching
<1>4. ASSUME NEW f \in Email PROVE StoreSound(f)'
  BY <1>1 DEF AccountsInv, StoreSound, Staff, UserRow, Halfway
<1> QED
  BY <1>2, <1>3, <1>4 DEF AccountsInv

LEMMA AccountsStep ==
  ASSUME AccountsInv, [AccountsNext]_accountVars PROVE AccountsInv'
<1>1. CASE UNCHANGED accountVars
  BY <1>1 DEF accountVars, AccountsInv, AccountsTypeOK, CallSound, StoreSound, Staff, Halfway, Switching, UserRow
<1>2. CASE AccountsNext
  BY <1>2, InsertUserSound, CreateAdminSound, LastStepsSound, SwitchUserSound, SwitchAdminSound, RevokeSound,
     CallFailsSound, ReadByEmailSound, CheckHandleSound, CheckNewSound, ReadTargetSound, ReadsSound,
     SeedAccountsSound, SeedAdminSound, OtherSeedSound, EndSessionSound
     DEF AccountsNext
<1> QED
  BY <1>1, <1>2

(* In every reachable state a request's row still stands, and an update    *)
(* nobody overlapped finds what it wrote (auth, social, user and admin     *)
(* services), whatever rows the seeds made or reset meanwhile.             *)
THEOREM AccountsAreSound == AccountsSpec => []AccountsInv
  BY InitAccounts, AccountsStep, PTL DEF AccountsSpec

(* Outside an update that is under way, overlapped or cut short, a staff   *)
(* account with rows in both stores is on or off in both, and one that is  *)
(* off keeps only the sessions of a login or a renewal that had read it    *)
(* before (admin.service.js:101-149, 161-205; the seeds included).         *)
THEOREM StoresStayAgreed == AccountsSpec => []StoresAgree
<1>1. AccountsInv => StoresAgree
  <2> SUFFICES ASSUME AccountsInv, NEW e \in Email, Staff(e), e \notin torn, ~Settling(e)
               PROVE  /\ admins[e] # Unset => (users[e].active <=> admins[e] = "on")
                      /\ ~users[e].active => e \notin live \/ e \in late
    BY DEF StoresAgree
  <2>1. StoreSound(e)
    BY DEF AccountsInv
  <2>2. \A c \in Caller : Halfway(c, e) => Switching(c, e)
    BY DEF Halfway, Switching
  <2> QED
    BY <2>1, <2>2 DEF StoreSound, Settling
<1> QED
  BY <1>1, AccountsAreSound, PTL
==============================================================================
