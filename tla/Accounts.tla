------------------------------ MODULE Accounts -------------------------------
(***************************************************************************)
(* Accounts, which live in two stores: users, and admins for the           *)
(* dashboard.  services/auth/auth.service.js (register, login),            *)
(* services/auth/social.service.js, services/users/user.service.js,        *)
(* services/admin/admin.service.js, and what the two seeds write of them:  *)
(* a dashboard operator of a seed may have no users row.  A request checks *)
(* in some statements and writes in others; the unique keys settle what    *)
(* its checks missed.                                                      *)
(***************************************************************************)
EXTENDS Integers, Sequences, FiniteSets

CONSTANTS
    Caller,         \* requests, and runs of seedAccounts
    Email, Handle,  \* e-mail addresses and usernames
    Provider,       \* ids at a social provider
    Unset           \* no row, or a NULL column

AccountRow == [handle : Handle, provider : Provider \cup {Unset}, staff : BOOLEAN, active : BOOLEAN]

ASSUME AccountsAssumption == Unset \notin Email \cup Handle \cup AccountRow \cup {"on", "off"}

VARIABLES
    users,   \* users, by email: username, staff or not, active, provider id
    admins,  \* admins, by email: active
    live,    \* accounts with a session that can be renewed
    calls,   \* the requests: where they are and what they hold
    torn,    \* history: accounts two switches overlapped on, or one left half done, or
             \* that got a dashboard row while they were disabled
    late     \* history: accounts let in once they were disabled, and not revoked since

accountVars == <<users, admins, live, calls, torn, late>>

\* The subject types of a session, in the order updateAdmin revokes them.  Only the
\* first ever has a row: the dashboard's login and the social sign-ins ask for theirs
\* from issueFor, which refresh.service.js does not export.
Swept == <<"user", "staff", "admin">>
NoCall == [at |-> "idle", email |-> Unset, handle |-> Unset, provider |-> Unset,
           flag |-> TRUE, clean |-> TRUE, swept |-> 0]

AccountsInit ==
    /\ users = [e \in Email |-> Unset] /\ admins = [e \in Email |-> Unset]
    /\ live = {} /\ torn = {} /\ late = {}
    /\ calls = [c \in Caller |-> NoCall]

UserRow(e) == users[e] # Unset
HandleTaken(h, e) == \E f \in Email \ {e} : UserRow(f) /\ users[f].handle = h
Linked(p) == {e \in Email : UserRow(e) /\ users[e].provider = p}
Call(c, call) == calls' = [calls EXCEPT ![c] = call]
Move(c, where) == calls' = [calls EXCEPT ![c].at = where]
Over(c) == Call(c, NoCall)
Asks(c, e, where) == [NoCall EXCEPT !.at = where, !.email = e]

-----------------------------------------------------------------------------
(* New accounts. *)

\* The checks of register and of createAdmin: both stores for an admin.
CheckNew(c, e, h, staff) ==
    /\ calls[c].at = "idle"
    /\ ~UserRow(e) /\ ~HandleTaken(h, e) /\ (staff => admins[e] = Unset)
    /\ Call(c, [Asks(c, e, IF staff THEN "create" ELSE "register") EXCEPT !.handle = h])
    /\ UNCHANGED <<users, admins, live, torn, late>>

\* The unique keys of users: email, username and provider id.
FreeRow(c) ==
    /\ ~UserRow(calls[c].email) /\ ~HandleTaken(calls[c].handle, calls[c].email)
    /\ calls[c].provider # Unset => Linked(calls[c].provider) = {}

NewRow(c, staff) ==
    [users EXCEPT ![calls[c].email] =
        [handle |-> calls[c].handle, provider |-> calls[c].provider, staff |-> staff, active |-> TRUE]]

\* register's insert, with a session to follow, and that of a first social sign-in,
\* whose session fails.
InsertUser(c) ==
    /\ calls[c].at \in {"register", "shell"}
    /\ users' = IF FreeRow(c) THEN NewRow(c, FALSE) ELSE users
    /\ IF FreeRow(c) /\ calls[c].at = "register" THEN Move(c, "issue") ELSE Over(c)
    /\ UNCHANGED <<admins, live, torn, late>>

\* createAdmin's transaction: both rows or neither.
CreateAdmin(c) ==
    /\ calls[c].at = "create"
    /\ IF FreeRow(c) /\ admins[calls[c].email] = Unset
       THEN users' = NewRow(c, TRUE) /\ admins' = [admins EXCEPT ![calls[c].email] = "on"]
       ELSE UNCHANGED <<users, admins>>
    /\ Over(c)
    /\ UNCHANGED <<live, torn, late>>

-----------------------------------------------------------------------------
(* Signing in. *)

\* A login reads the row, compares the password and refuses a disabled one.  The
\* dashboard's login writes nothing.
ReadLogin(c, e) ==
    /\ calls[c].at = "idle" /\ UserRow(e) /\ users[e].active
    /\ Call(c, Asks(c, e, "issue"))
    /\ UNCHANGED <<users, admins, live, torn, late>>

\* A renewal has consumed a token of the account and finds it enabled.
ReadRenewal(c, e) ==
    /\ calls[c].at = "idle" /\ e \in live /\ UserRow(e) /\ users[e].active
    /\ Call(c, Asks(c, e, "issue"))
    /\ UNCHANGED <<users, admins, live, torn, late>>

\* The last session of an account ends: a logout, its expiry, or the renewal that
\* finds the account disabled and revokes the family.
EndSession(e) ==
    /\ e \in live /\ live' = live \ {e}
    /\ UNCHANGED <<users, admins, calls, torn, late>>

\* findOrLinkSocial looks for the provider id; a row that has it is signed in ...
ReadLinked(c, e, p) ==
    /\ calls[c].at = "idle" /\ Linked(p) = {}
    /\ Call(c, [Asks(c, e, "byEmail") EXCEPT !.provider = p])
    /\ UNCHANGED <<users, admins, live, torn, late>>

\* ... then for the e-mail, refusing a disabled row, and without one picks a
\* username: one that was free, or after five draws whichever came last.
ReadByEmail(c, h) ==
    /\ calls[c].at = "byEmail"
    /\ UserRow(calls[c].email) => users[calls[c].email].active
    /\ IF UserRow(calls[c].email) THEN Move(c, "link")
       ELSE Call(c, [calls[c] EXCEPT !.at = "shell", !.handle = h])
    /\ UNCHANGED <<users, admins, live, torn, late>>

\* The link overwrites an earlier one; a provider id linked elsewhere is refused.
Link(c) ==
    /\ calls[c].at = "link"
    /\ users' = IF Linked(calls[c].provider) \subseteq {calls[c].email}
                THEN [users EXCEPT ![calls[c].email].provider = calls[c].provider] ELSE users
    /\ Over(c)
    /\ UNCHANGED <<admins, live, torn, late>>

\* The session is opened last, on whatever the account has become since it was read.
IssueSession(c) ==
    /\ calls[c].at = "issue"
    /\ live' = live \cup {calls[c].email}
    /\ late' = IF users[calls[c].email].active THEN late ELSE late \cup {calls[c].email}
    /\ Over(c)
    /\ UNCHANGED <<users, admins, torn>>

-----------------------------------------------------------------------------
(* Changing an account. *)

\* updateMe of users and of admins: the username is looked up, then written.
CheckHandle(c, e, h) ==
    /\ calls[c].at = "idle" /\ UserRow(e) /\ users[e].handle # h /\ ~HandleTaken(h, e)
    /\ Call(c, [Asks(c, e, "rename") EXCEPT !.handle = h])
    /\ UNCHANGED <<users, admins, live, torn, late>>

Rename(c) ==
    /\ calls[c].at = "rename"
    /\ users' = IF HandleTaken(calls[c].handle, calls[c].email) THEN users
                ELSE [users EXCEPT ![calls[c].email].handle = calls[c].handle]
    /\ Over(c)
    /\ UNCHANGED <<admins, live, torn, late>>

Switching(c, e) == calls[c].email = e /\ calls[c].at \in {"target", "switched", "copied", "seeded"}

\* Two writers of the same account know of each other: history.
Told(d, e) == [calls[d] EXCEPT !.clean = @ /\ ~Switching(d, e)]
Starts(c, e, call) ==
    calls' = [d \in Caller |->
        IF d = c THEN [call EXCEPT !.clean = \A x \in Caller : ~Switching(x, e)] ELSE Told(d, e)]

\* updateAdmin with isActive: reads the staff account ...
ReadTarget(c, e, flag) ==
    /\ calls[c].at = "idle" /\ UserRow(e) /\ users[e].staff
    /\ Starts(c, e, [Asks(c, e, "target") EXCEPT !.flag = flag])
    /\ UNCHANGED <<users, admins, live, torn, late>>

Settled(c) == IF calls[c].clean THEN torn \ {calls[c].email} ELSE torn \cup {calls[c].email}

\* ... switches its users row ...
SwitchUser(c) ==
    /\ calls[c].at = "target"
    /\ users' = [users EXCEPT ![calls[c].email].active = calls[c].flag]
    /\ Move(c, "switched")
    /\ UNCHANGED <<admins, live, torn, late>>

\* Mutant: the dashboard's copy is left alone.
SwitchAdmin_NoCopy(c) ==
    /\ calls[c].at = "switched"
    /\ IF calls[c].flag THEN Over(c) ELSE Move(c, "copied")
    /\ torn' = IF calls[c].flag THEN Settled(c) ELSE torn
    /\ UNCHANGED <<users, live, late, admins>>

\* ... then the row of admins with its e-mail ...
SwitchAdmin(c) ==
    /\ calls[c].at = "switched"
    /\ admins' = [admins EXCEPT ![calls[c].email] = IF @ = Unset THEN Unset ELSE IF calls[c].flag THEN "on" ELSE "off"]
    /\ IF calls[c].flag THEN Over(c) ELSE Move(c, "copied")
    /\ torn' = IF calls[c].flag THEN Settled(c) ELSE torn
    /\ UNCHANGED <<users, live, late>>

\* ... and when disabling revokes the sessions of each subject type in turn.
Revoke(c) ==
    /\ calls[c].at = "copied"
    /\ LET n == calls[c].swept + 1
       IN  /\ live' = IF Swept[n] = "user" THEN live \ {calls[c].email} ELSE live
           /\ late' = IF Swept[n] = "user" THEN late \ {calls[c].email} ELSE late
           /\ Call(c, IF n = Len(Swept) THEN NoCall ELSE [calls[c] EXCEPT !.swept = n])
           /\ torn' = IF n = Len(Swept) THEN Settled(c) ELSE torn
    /\ UNCHANGED <<users, admins>>

-----------------------------------------------------------------------------
(* The seeds. *)

StaffRow(h) == [handle |-> h, provider |-> Unset, staff |-> TRUE, active |-> TRUE]

\* seedAccounts upserts the operator's users row, enabled and on the staff ...
SeedAccounts(c, e, h) ==
    /\ calls[c].at = "idle" /\ (UserRow(e) \/ ~HandleTaken(h, e))
    /\ users' = [users EXCEPT ![e] = IF UserRow(e) THEN [@ EXCEPT !.staff = TRUE, !.active = TRUE] ELSE StaffRow(h)]
    /\ Starts(c, e, Asks(c, e, "seeded"))
    /\ UNCHANGED <<admins, live, torn, late>>

\* ... and then the row of the dashboard, enabled.
SeedAdmin(c) ==
    /\ calls[c].at = "seeded"
    /\ admins' = [admins EXCEPT ![calls[c].email] = "on"]
    /\ torn' = Settled(c)
    /\ Over(c)
    /\ UNCHANGED <<users, live, late>>

\* The other script makes a super admin who is missing, and changes no row it finds
\* beyond the password ...
SeedSuperAdmin(e, h) ==
    /\ ~UserRow(e) /\ ~HandleTaken(h, e)
    /\ users' = [users EXCEPT ![e] = StaffRow(h)]
    /\ UNCHANGED <<admins, live, calls, torn, late>>

\* ... and a dashboard row that is missing: after the super admin's, or on its own, for
\* an operator whose users row, if he has one, it does not look at.
SeedDashboard(e) ==
    /\ admins[e] = Unset
    /\ admins' = [admins EXCEPT ![e] = "on"]
    /\ calls' = [d \in Caller |-> Told(d, e)]
    /\ torn' = IF UserRow(e) /\ users[e].staff /\ ~users[e].active THEN torn \cup {e} ELSE torn
    /\ UNCHANGED <<users, live, late>>

-----------------------------------------------------------------------------
\* A statement fails or the process dies: what is written stays.
CallFails(c) ==
    /\ calls[c].at # "idle"
    /\ Over(c)
    /\ torn' = IF calls[c].at \in {"switched", "copied", "seeded"} THEN torn \cup {calls[c].email} ELSE torn
    /\ UNCHANGED <<users, admins, live, late>>

AccountsNext ==
    \/ \E c \in Caller :
        \/ InsertUser(c) \/ CreateAdmin(c) \/ Link(c) \/ IssueSession(c) \/ Rename(c)
        \/ SwitchUser(c) \/ SwitchAdmin(c) \/ Revoke(c) \/ SeedAdmin(c) \/ CallFails(c)
        \/ \E h \in Handle : ReadByEmail(c, h)
        \/ \E e \in Email, h \in Handle :
              CheckHandle(c, e, h) \/ SeedAccounts(c, e, h) \/ \E staff \in BOOLEAN : CheckNew(c, e, h, staff)
        \/ \E e \in Email, flag \in BOOLEAN : ReadTarget(c, e, flag)
        \/ \E e \in Email : ReadLogin(c, e) \/ ReadRenewal(c, e)
        \/ \E e \in Email, p \in Provider : ReadLinked(c, e, p)
    \/ \E e \in Email : EndSession(e) \/ SeedDashboard(e) \/ \E h \in Handle : SeedSuperAdmin(e, h)

AccountsSpec == AccountsInit /\ [][AccountsNext]_accountVars

-----------------------------------------------------------------------------
Staff(e) == UserRow(e) /\ users[e].staff
Settling(e) == \E c \in Caller : Switching(c, e)

\* Outside an update that is under way, overlapped with another or was cut short, a
\* staff account that has a row in both stores is on or off in both, and one that is
\* off keeps no session but those of a login or a renewal that had read it before
\* (admin.service.js:101-149, 161-205).  A dashboard operator of a seed may have no
\* users row, or, registered since, one that is not staff.  No transaction joins the two
\* stores: "both admin stores are now kept in sync" (13-14) is true only so far.
StoresAgree ==
    \A e \in Email : Staff(e) /\ e \notin torn /\ ~Settling(e) =>
        /\ admins[e] # Unset => (users[e].active <=> admins[e] = "on")
        /\ ~users[e].active => e \notin live \/ e \in late

CallStage == {"idle", "register", "create", "issue", "byEmail", "link", "shell", "rename",
              "target", "switched", "copied", "seeded"}
SwitchStage == {"target", "switched", "copied", "seeded"}
CallRecord ==
    [at : CallStage, email : Email \cup {Unset}, handle : Handle \cup {Unset}, provider : Provider \cup {Unset},
     flag : BOOLEAN, clean : BOOLEAN, swept : 0 .. 2]

AccountsTypeOK ==
    /\ users \in [Email -> AccountRow \cup {Unset}] /\ admins \in [Email -> {Unset, "on", "off"}]
    /\ live \subseteq Email /\ torn \subseteq Email /\ late \subseteq Email
    /\ calls \in [Caller -> CallRecord]

\* What a request holds still stands: accounts are never deleted, and an update that
\* nobody overlapped finds what it wrote.
CallSound(c) ==
    /\ calls[c].at # "idle" => calls[c].email \in Email
    /\ calls[c].at \in {"register", "create", "shell", "rename"} => calls[c].handle \in Handle
    /\ calls[c].at \in {"issue", "link", "rename"} => UserRow(calls[c].email)
    /\ calls[c].at \in SwitchStage => UserRow(calls[c].email) /\ users[calls[c].email].staff
    /\ calls[c].at = "copied" => ~calls[c].flag
    /\ calls[c].at = "seeded" => calls[c].flag
    /\ calls[c].at \in {"target", "switched"} => calls[c].swept = 0
    /\ calls[c].at \in SwitchStage /\ calls[c].clean =>
           \A d \in Caller \ {c} : ~Switching(d, calls[c].email)
    /\ calls[c].at \in {"switched", "seeded"} /\ calls[c].clean => (users[calls[c].email].active <=> calls[c].flag)
    /\ calls[c].at = "copied" /\ calls[c].clean =>
           /\ ~users[calls[c].email].active /\ admins[calls[c].email] # "on"
           /\ calls[c].swept > 0 => calls[c].email \notin live \/ calls[c].email \in late

\* Agreement is lost only between the two writes of an update or of a seed.
Halfway(c, e) == calls[c].email = e /\ calls[c].at \in {"switched", "copied", "seeded"}

StoreSound(e) ==
    /\ admins[e] = "off" => Staff(e)
    /\ Staff(e) /\ e \notin torn /\ (\A c \in Caller : ~Halfway(c, e)) =>
           /\ admins[e] # Unset => (users[e].active <=> admins[e] = "on")
           /\ ~users[e].active => e \notin live \/ e \in late

AccountsInv ==
    /\ AccountsTypeOK
    /\ \A c \in Caller : CallSound(c)
    /\ \A e \in Email : StoreSound(e)
=============================================================================
