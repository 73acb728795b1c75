---------------------------- MODULE Marketplace ----------------------------
(***************************************************************************)
(* Listings and their moderation: services/products/product.service.js     *)
(* (create, update, archive, markSold), services/verifications/            *)
(* verification.service.js (submit, review) and services/reports/          *)
(* report.service.js (file, review), behind middlewares/auth/auth.js.      *)
(*                                                                         *)
(* One step per statement or transaction.  A handler reads a row, judges   *)
(* it, awaits, and then writes: only markSold repeats its condition in the *)
(* WHERE clause of the write, so what the others do between the two steps  *)
(* is what the properties are about.                                       *)
(***************************************************************************)
EXTENDS Integers

CONSTANTS
    Account,     \* rows of `users` whose role is BUYER or SELLER
    Staff,       \* the moderators (ADMIN, SUPER_ADMIN): never moderated
    Listing,     \* ids of `products`
    Report,      \* ids of `reports`
    Price,       \* stands for every column a PATCH may rewrite
    Request,     \* requests the server may be handling at a time
    None,        \* the absence of a row, and an empty local
    MaxTime      \* bound of the clock

ASSUME NamesAssumption ==
    /\ Staff \notin Account
    /\ None \notin Account \cup {Staff} \cup Listing
    /\ None \notin {"NONE", "WARNING", "DELETE_PRODUCT", "BAN_USER"}
ASSUME ClockAssumption == MaxTime \in Nat

VARIABLES
    role,        \* users.role
    active,      \* users with isActive true
    standing,    \* seller_verifications.status, None without a row
    enabled,     \* users whose seller_verifications.isActive is true
    seller,      \* products.sellerId, None for an id not used yet
    status,      \* products.status
    soldAt,      \* products.soldAt, 0 for NULL
    price,       \* products.price
    verdict,     \* reports.status and action: None, "PENDING" or the decision
    target,      \* reports.reportedUserId and reportedProductId
    now,         \* Date.now()
    pc,          \* where each request stands
    by,          \* req.user: the account, or Staff
    on,          \* the id the request works on
    saw          \* existing.soldAt as markSold read it

products == <<seller, status, soldAt, price>>
users == <<role, active, standing, enabled>>
reports == <<verdict, target>>
locals == <<by, on, saw>>
vars == <<products, users, reports, now, pc, locals>>

Idle == "idle"
SellerOp == {"edit", "archive", "sell"}
PC == {Idle, "create", "publish", "rewrite", "withdraw", "vet", "claim", "apply", "enter",
       "resubmit", "judge", "rule", "review", "enforce", "file"} \cup SellerOp
Action == {"NONE", "WARNING", "DELETE_PRODUCT", "BAN_USER"}

TypeOK ==
    /\ role \in [Account -> {"BUYER", "SELLER"}]
    /\ active \subseteq Account
    /\ standing \in [Account -> {None, "PENDING", "APPROVED", "REJECTED"}]
    /\ enabled \subseteq Account
    /\ seller \in [Listing -> Account \cup {Staff, None}]
    /\ status \in [Listing -> {"ACTIVE", "SOLD", "ARCHIVED"}]
    /\ soldAt \in [Listing -> Nat]
    /\ price \in [Listing -> Price]
    /\ verdict \in [Report -> Action \cup {None, "PENDING"}]
    /\ target \in [Report -> [user : Account \cup {None}, product : Listing \cup {None}]]
    /\ now \in Nat \ {0}
    /\ pc \in [Request -> PC]
    /\ by \in [Request -> Account \cup {Staff, None}]
    /\ on \in [Request -> Account \cup Listing \cup Report \cup {None}]
    /\ saw \in [Request -> Nat]

Init ==
    /\ role = [a \in Account |-> "BUYER"]
    /\ active = Account
    /\ standing = [a \in Account |-> None]
    /\ enabled = {}
    /\ seller = [l \in Listing |-> None]
    /\ status = [l \in Listing |-> "ACTIVE"]
    /\ soldAt = [l \in Listing |-> 0]
    /\ price \in [Listing -> Price]
    /\ verdict = [p \in Report |-> None]
    /\ target = [p \in Report |-> [user |-> None, product |-> None]]
    /\ now = 1
    /\ pc = [r \in Request |-> Idle]
    /\ by = [r \in Request |-> None]
    /\ on = [r \in Request |-> None]
    /\ saw = [r \in Request |-> 0]

Stored == {l \in Listing : seller[l] # None}
Decided(p) == verdict[p] \in Action

-----------------------------------------------------------------------------
Goto(r, where) == pc' = [pc EXCEPT ![r] = where]

Finish(r) ==
    /\ Goto(r, Idle)
    /\ by' = [by EXCEPT ![r] = None]
    /\ on' = [on EXCEPT ![r] = None]
    /\ saw' = [saw EXCEPT ![r] = 0]

(* The request read id and goes on with it.                                *)
Take(r, id, where) ==
    /\ Goto(r, where)
    /\ on' = [on EXCEPT ![r] = id]
    /\ UNCHANGED <<by, saw>>

(* `authenticate` and `requireRole`, from the live row, never the token.   *)
\* Mutant: the token's claims are trusted.
AdmittedByToken(who, op) ==
    IF who = Staff THEN op \in SellerOp \cup {"create", "file", "judge", "review"}
    ELSE op \in SellerOp \cup {"file", "apply"} \/ (op = "create" /\ role[who] = "SELLER")

Admitted(who, op) ==
    IF who = Staff THEN op \in SellerOp \cup {"create", "file", "judge", "review"}
    ELSE /\ who \in active
         /\ op \in SellerOp \cup {"file", "apply"} \/ (op = "create" /\ role[who] = "SELLER")

Arrive(r, who, op) ==
    /\ pc[r] = Idle
    /\ Admitted(who, op)
    /\ Goto(r, op)
    /\ by' = [by EXCEPT ![r] = who]
    /\ UNCHANGED <<products, users, reports, now, on, saw>>

(* A request that is refused, fails or loses its process changes nothing   *)
(* more.  Every read below that does not go on ends here.                  *)
Drop(r) ==
    /\ pc[r] # Idle
    /\ Finish(r)
    /\ UNCHANGED <<products, users, reports, now>>

-----------------------------------------------------------------------------
(* Listings.                                                               *)
MayTouch(r, l) == l \in Stored /\ by[r] \in {seller[l], Staff}

(* `assertActiveSeller`, which staff skip.                                 *)
Vet(r) ==
    /\ pc[r] \in {"create", "vet"}
    /\ by[r] # Staff => standing[by[r]] = "APPROVED" /\ by[r] \in enabled
    /\ Goto(r, IF pc[r] = "create" THEN "publish" ELSE "claim")
    /\ UNCHANGED <<products, users, reports, now, locals>>

Publish(r, l, amount) ==
    /\ pc[r] = "publish"
    /\ l \notin Stored
    /\ seller' = [seller EXCEPT ![l] = by[r]]
    /\ price' = [price EXCEPT ![l] = amount]
    /\ Finish(r)
    /\ UNCHANGED <<status, soldAt, users, reports, now>>

ReadForEdit(r, l) ==
    /\ pc[r] = "edit"
    /\ MayTouch(r, l) /\ status[l] = "ACTIVE"
    /\ Take(r, l, "rewrite")
    /\ UNCHANGED <<products, users, reports, now>>

Rewrite(r, amount) ==
    /\ pc[r] = "rewrite"
    /\ price' = [price EXCEPT ![on[r]] = amount]
    /\ Finish(r)
    /\ UNCHANGED <<seller, status, soldAt, users, reports, now>>

ReadForArchive(r, l) ==
    /\ pc[r] = "archive"
    /\ MayTouch(r, l) /\ status[l] # "SOLD"
    /\ Take(r, l, "withdraw")
    /\ UNCHANGED <<products, users, reports, now>>

Withdraw(r) ==
    /\ pc[r] = "withdraw"
    /\ status' = [status EXCEPT ![on[r]] = "ARCHIVED"]
    /\ Finish(r)
    /\ UNCHANGED <<seller, soldAt, price, users, reports, now>>

ReadForSale(r, l) ==
    /\ pc[r] = "sell"
    /\ MayTouch(r, l) /\ status[l] # "ARCHIVED"
    /\ Goto(r, "vet")
    /\ on' = [on EXCEPT ![r] = l]
    /\ saw' = [saw EXCEPT ![r] = soldAt[l]]
    /\ UNCHANGED <<products, users, reports, now, by>>

(* markSold's write, with the status in its WHERE clause.                  *)
\* Mutant: the update goes by id alone.
ClaimById(r) ==
    /\ pc[r] = "claim"
    /\ status' = [status EXCEPT ![on[r]] = "SOLD"]
    /\ soldAt' = [soldAt EXCEPT ![on[r]] = IF saw[r] # 0 THEN saw[r] ELSE now]
    /\ Finish(r)
    /\ UNCHANGED <<seller, price, users, reports, now>>

\* Mutant: a repeated sale is dated anew.
ClaimRedated(r) ==
    /\ pc[r] = "claim"
    /\ status[on[r]] \in {"ACTIVE", "SOLD"}
    /\ status' = [status EXCEPT ![on[r]] = "SOLD"]
    /\ soldAt' = [soldAt EXCEPT ![on[r]] = now]
    /\ Finish(r)
    /\ UNCHANGED <<seller, price, users, reports, now>>

Claim(r) ==
    /\ pc[r] = "claim"
    /\ status[on[r]] \in {"ACTIVE", "SOLD"}
    /\ status' = [status EXCEPT ![on[r]] = "SOLD"]
    /\ soldAt' = [soldAt EXCEPT ![on[r]] = IF saw[r] # 0 THEN saw[r] ELSE now]
    /\ Finish(r)
    /\ UNCHANGED <<seller, price, users, reports, now>>

-----------------------------------------------------------------------------
(* Seller verification.                                                    *)
ReadOwnApplication(r) ==
    /\ pc[r] = "apply"
    /\ standing[by[r]] \in {None, "REJECTED"}
    /\ Take(r, by[r], IF standing[by[r]] = None THEN "enter" ELSE "resubmit")
    /\ UNCHANGED <<products, users, reports, now>>

(* The insert: userId is unique and isActive defaults to true.             *)
\* Mutant: the value of the column `action` ends up in `status`.
EnterAction(r) ==
    /\ pc[r] = "enter"
    /\ standing[on[r]] = None
    /\ standing' = [standing EXCEPT ![on[r]] = "NONE"]
    /\ enabled' = enabled \cup {on[r]}
    /\ Finish(r)
    /\ UNCHANGED <<products, role, active, reports, now>>

Enter(r) ==
    /\ pc[r] = "enter"
    /\ standing[on[r]] = None
    /\ standing' = [standing EXCEPT ![on[r]] = "PENDING"]
    /\ enabled' = enabled \cup {on[r]}
    /\ Finish(r)
    /\ UNCHANGED <<products, role, active, reports, now>>

(* The update, whatever the row has become since it was read.              *)
Resubmit(r) ==
    /\ pc[r] = "resubmit"
    /\ standing' = [standing EXCEPT ![on[r]] = "PENDING"]
    /\ Finish(r)
    /\ UNCHANGED <<products, role, active, enabled, reports, now>>

ReadApplication(r, a) ==
    /\ pc[r] = "judge"
    /\ standing[a] = "PENDING"
    /\ Take(r, a, "rule")
    /\ UNCHANGED <<products, users, reports, now>>

(* The review transaction: the row by id, and the role of a BUYER only, so *)
(* that a REJECT demotes nobody.                                           *)
\* Mutant: the user row is left out of the unit of work.
RuleHalf(r, approve) ==
    /\ pc[r] = "rule"
    /\ standing' = [standing EXCEPT ![on[r]] = IF approve THEN "APPROVED" ELSE "REJECTED"]
    /\ enabled' = IF approve THEN enabled \cup {on[r]} ELSE enabled \ {on[r]}
    /\ Finish(r)
    /\ UNCHANGED <<products, role, active, reports, now>>

Rule(r, approve) ==
    /\ pc[r] = "rule"
    /\ standing' = [standing EXCEPT ![on[r]] = IF approve THEN "APPROVED" ELSE "REJECTED"]
    /\ enabled' = IF approve THEN enabled \cup {on[r]} ELSE enabled \ {on[r]}
    /\ role' = IF approve THEN [role EXCEPT ![on[r]] = "SELLER"] ELSE role
    /\ Finish(r)
    /\ UNCHANGED <<products, active, reports, now>>

-----------------------------------------------------------------------------
(* Reports.  Nothing that `file` reads before it inserts can change: users *)
(* and listings are never deleted, and no account joins or leaves the      *)
(* staff.                                                                  *)
File(r, p, user, product) ==
    /\ pc[r] = "file"
    /\ verdict[p] = None
    /\ user # None \/ product # None
    /\ user # by[r] /\ product \in Stored \cup {None}
    /\ verdict' = [verdict EXCEPT ![p] = "PENDING"]
    /\ target' = [target EXCEPT ![p] = [user |-> user, product |-> product]]
    /\ Finish(r)
    /\ UNCHANGED <<products, users, now>>

\* Mutant: a decided report may be reviewed again.
ReadAnyReport(r, p) ==
    /\ pc[r] = "review"
    /\ verdict[p] # None
    /\ Take(r, p, "enforce")
    /\ UNCHANGED <<products, users, reports, now>>

ReadReport(r, p) ==
    /\ pc[r] = "review"
    /\ verdict[p] = "PENDING"
    /\ Take(r, p, "enforce")
    /\ UNCHANGED <<products, users, reports, now>>

Archived(l, action) == action = "DELETE_PRODUCT" /\ l # None
Banned(a, action) == action = "BAN_USER" /\ a # None

(* The review transaction: the listing whatever its status, the account,   *)
(* and the report by id alone.                                             *)
\* Mutant: a WARNING puts the reported account back.
EnforceForgiving(r, action) ==
    LET p == on[r]
        a == target[p].user
    IN  /\ pc[r] = "enforce"
        /\ status' = [l \in Listing |-> IF l = target[p].product /\ Archived(l, action)
                                        THEN "ARCHIVED" ELSE status[l]]
        /\ enabled' = IF Banned(a, action) THEN enabled \ {a} ELSE enabled
        /\ active' = IF Banned(a, action) THEN active \ {a}
                     ELSE IF action = "WARNING" /\ a # None THEN active \cup {a} ELSE active
        /\ role' = IF Banned(a, action) THEN [role EXCEPT ![a] = "BUYER"] ELSE role
        /\ verdict' = [verdict EXCEPT ![p] = action]
        /\ Finish(r)
        /\ UNCHANGED <<seller, soldAt, price, standing, target, now>>

Enforce(r, action) ==
    LET p == on[r]
        a == target[p].user
    IN  /\ pc[r] = "enforce"
        /\ status' = [l \in Listing |-> IF l = target[p].product /\ Archived(l, action)
                                        THEN "ARCHIVED" ELSE status[l]]
        /\ enabled' = IF Banned(a, action) THEN enabled \ {a} ELSE enabled
        /\ active' = IF Banned(a, action) THEN active \ {a} ELSE active
        /\ role' = IF Banned(a, action) THEN [role EXCEPT ![a] = "BUYER"] ELSE role
        /\ verdict' = [verdict EXCEPT ![p] = action]
        /\ Finish(r)
        /\ UNCHANGED <<seller, soldAt, price, standing, target, now>>

Tick ==
    /\ now < MaxTime
    /\ now' = now + 1
    /\ UNCHANGED <<products, users, reports, pc, locals>>

-----------------------------------------------------------------------------
Next ==
    \/ \E r \in Request :
        \/ \E who \in Account \cup {Staff}, op \in PC : Arrive(r, who, op)
        \/ Vet(r) \/ Withdraw(r) \/ Claim(r) \/ Drop(r)
        \/ \E l \in Listing : ReadForEdit(r, l) \/ ReadForArchive(r, l) \/ ReadForSale(r, l)
        \/ \E l \in Listing, amount \in Price : Publish(r, l, amount)
        \/ \E amount \in Price : Rewrite(r, amount)
        \/ ReadOwnApplication(r) \/ Enter(r) \/ Resubmit(r)
        \/ \E a \in Account : ReadApplication(r, a)
        \/ \E approve \in BOOLEAN : Rule(r, approve)
        \/ \E p \in Report, user \in Account \cup {None}, product \in Listing \cup {None} :
              File(r, p, user, product)
        \/ \E p \in Report : ReadReport(r, p)
        \/ \E action \in Action : Enforce(r, action)
    \/ Tick

Spec == Init /\ [][Next]_vars

-----------------------------------------------------------------------------
(* "A concurrent archive cannot be silently undone"                        *)
(* (product.service.js:226): whoever archives a listing, its owner or a    *)
(* moderator, no sale or edit in flight brings it back.                    *)
ArchivedIsFinal ==
    [][\A l \in Listing : status[l] = "ARCHIVED" => status'[l] = "ARCHIVED"]_vars

(* A sale settles.  Requests that read the listing before it was sold may  *)
(* still edit, re-date or archive it; once they have drained, neither its  *)
(* price nor its date changes again, and only a decided report takes it    *)
(* off SOLD (product.service.js:169, 225).                                 *)
Unaware(r, l) ==
    /\ on[r] = l
    /\ pc[r] \in {"rewrite", "withdraw"} \/ (pc[r] \in {"vet", "claim"} /\ saw[r] # soldAt[l])
SettledSale(l) == status[l] = "SOLD" /\ \A r \in Request : ~Unaware(r, l)
SaleSettles ==
    [][\A l \in Listing :
          SettledSale(l) =>
              /\ price'[l] = price[l] /\ soldAt'[l] = soldAt[l]
              /\ \/ SettledSale(l)'
                 \/ \E p \in Report :
                       target[p].product = l /\ verdict'[p] = "DELETE_PRODUCT"]_vars

(* What a decided report says was done, and has not been undone since by a *)
(* sale, an approval, a later report or a stale write: the listing stays   *)
(* archived, the account stays off (report.service.js:121-123).            *)
EnforcedAsDecided ==
    \A p \in Report :
        /\ Archived(target[p].product, verdict[p]) => status[target[p].product] = "ARCHIVED"
        /\ Banned(target[p].user, verdict[p]) => target[p].user \notin active

(* No APPROVED seller is left unable to sell, whatever reviews, bans and   *)
(* resubmissions overlap (verification.service.js:114-116).                *)
ApprovedCanSell ==
    \A a \in Account : standing[a] = "APPROVED" /\ a \in enabled => role[a] = "SELLER"

(* A banned seller stops.  Once the requests let in before the ban have    *)
(* drained, the account never gets another one in, and its listings change *)
(* only when a request of the staff completes (product.service.js:34-38,   *)
(* auth.js loadIdentity), whatever its token, role and application say.    *)
Stopped(a) == a \notin active /\ \A r \in Request : by[r] # a
Listed(l) == <<seller[l], status[l], soldAt[l], price[l]>>
BannedStop ==
    [][\A a \in Account :
          Stopped(a) =>
              /\ Stopped(a)'
              /\ \A l \in Listing :
                    (a \in {seller[l], seller'[l]} /\ Listed(l)' # Listed(l)) =>
                        \E r \in Request : by[r] = Staff /\ pc'[r] = Idle]_vars

(* A decision settles: once no other review that read the report PENDING   *)
(* is under way, nobody rewrites it (report.service.js:128-130).           *)
SettledReport(p) == Decided(p) /\ \A r \in Request : ~(pc[r] = "enforce" /\ on[r] = p)
DecisionSettles ==
    [][\A p \in Report : SettledReport(p) => SettledReport(p)' /\ verdict'[p] = verdict[p]]_vars

(* What a request has secured by the time it writes.                       *)
InFlightSound ==
    \A r \in Request :
        /\ pc[r] = Idle => by[r] = None
        /\ pc[r] # Idle => by[r] \in Account \cup {Staff}
        /\ pc[r] \in {"apply", "enter", "resubmit"} => by[r] \in Account
        /\ pc[r] \in {"judge", "rule", "review", "enforce"} => by[r] = Staff
        /\ pc[r] \in {"rewrite", "withdraw", "vet", "claim"} =>
              on[r] \in Listing /\ MayTouch(r, on[r])
        /\ pc[r] \in {"enter", "resubmit", "rule"} => on[r] \in Account
        /\ pc[r] = "enforce" => on[r] \in Report

(* A sale is of a stored row and has a date, which is not the NULL that    *)
(* markSold dates anew.                                                    *)
SaleDated == \A l \in Listing : status[l] = "SOLD" => l \in Stored /\ soldAt[l] # 0

\* The inductive invariant of MarketplaceProofs.
MarketInv ==
    /\ TypeOK
    /\ InFlightSound
    /\ SaleDated
    /\ EnforcedAsDecided
    /\ ApprovedCanSell

=============================================================================
