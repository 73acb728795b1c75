------------------------- MODULE MarketplaceProofs -------------------------
(***************************************************************************)
(* MarketInv is an invariant of listings and moderation for any number of  *)
(* accounts, listings, reports and requests in flight; the action          *)
(* properties of Marketplace follow from it.                               *)
(***************************************************************************)
EXTENDS Marketplace, TLAPS

(* Everybody starts as an active BUYER, with no row in the other tables.   *)
LEMMA InitSound == Init => MarketInv
<1> SUFFICES ASSUME Init PROVE MarketInv
  OBVIOUS
<1> USE NamesAssumption DEF Init
<1>1. TypeOK
  BY DEF TypeOK, PC, Idle, SellerOp
<1>2. InFlightSound
  BY DEF InFlightSound, Idle
<1>3. SaleDated /\ EnforcedAsDecided /\ ApprovedCanSell
  BY DEF SaleDated, EnforcedAsDecided, Archived, Banned, ApprovedCanSell
<1> QED
  BY <1>1, <1>2, <1>3 DEF MarketInv

-----------------------------------------------------------------------------
(* The columns and locals keep their types.                                *)
LEMMA TypeStep == MarketInv /\ [Next]_vars => TypeOK'
<1> SUFFICES ASSUME MarketInv, [Next]_vars PROVE TypeOK'
  OBVIOUS
<1> USE NamesAssumption, ClockAssumption
    DEF MarketInv, TypeOK, PC, Idle, SellerOp, Action, products, users, reports, locals,
        Goto, Finish, Take, InFlightSound
<1>1. ASSUME NEW r \in Request, NEW who \in Account \cup {Staff}, NEW op \in PC,
             Arrive(r, who, op)
      PROVE  TypeOK'
  <2>1. pc' \in [Request -> PC] /\ by' \in [Request -> Account \cup {Staff, None}]
    BY <1>1 DEF Arrive
  <2> QED
    BY <1>1, <2>1 DEF Arrive
<1>2. ASSUME NEW r \in Request, Vet(r) \/ Drop(r) PROVE TypeOK'
  BY <1>2 DEF Vet, Drop
<1>3. ASSUME NEW r \in Request, Withdraw(r) \/ Claim(r) PROVE TypeOK'
  <2>1. on[r] \in Listing
    BY <1>3 DEF Withdraw, Claim
  <2>2. CASE Withdraw(r)
    BY <2>1, <2>2 DEF Withdraw
  <2>3. CASE Claim(r)
    <3>1. soldAt' \in [Listing -> Nat]
      BY <2>1, <2>3 DEF Claim
    <3> QED
      BY <2>1, <2>3, <3>1 DEF Claim
  <2> QED
    BY <1>3, <2>2, <2>3
<1>4. ASSUME NEW r \in Request, NEW l \in Listing,
             ReadForEdit(r, l) \/ ReadForArchive(r, l) \/ ReadForSale(r, l)
      PROVE  TypeOK'
  BY <1>4 DEF ReadForEdit, ReadForArchive, ReadForSale
<1>5. ASSUME NEW r \in Request, NEW amount \in Price, Rewrite(r, amount) PROVE TypeOK'
  BY <1>5 DEF Rewrite
<1>6. ASSUME NEW r \in Request, NEW amount \in Price, NEW l \in Listing,
              Publish(r, l, amount)
       PROVE  TypeOK'
  BY <1>6 DEF Publish
<1>7. ASSUME NEW r \in Request, ReadOwnApplication(r) \/ Enter(r) \/ Resubmit(r)
      PROVE  TypeOK'
  BY SMTT(20), <1>7 DEF ReadOwnApplication, Enter, Resubmit
<1>8. ASSUME NEW r \in Request, NEW a \in Account, ReadApplication(r, a) PROVE TypeOK'
  BY <1>8 DEF ReadApplication
<1>9. ASSUME NEW r \in Request, NEW approve \in BOOLEAN, Rule(r, approve) PROVE TypeOK'
  BY <1>9 DEF Rule
<1>10. ASSUME NEW r \in Request, NEW p \in Report, ReadReport(r, p) PROVE TypeOK'
  BY <1>10 DEF ReadReport
<1>11. ASSUME NEW r \in Request, NEW action \in Action, Enforce(r, action) PROVE TypeOK'
  BY <1>11 DEF Enforce, Archived, Banned
<1>12. ASSUME NEW p \in Report, NEW user \in Account \cup {None},
              NEW product \in Listing \cup {None}, NEW r \in Request,
              File(r, p, user, product)
       PROVE  TypeOK'
  BY <1>12 DEF File
<1>13. CASE Tick
  BY <1>13 DEF Tick
<1>14. CASE UNCHANGED vars
  BY <1>14 DEF vars
<1> QED
  BY SMTT(20), <1>1, <1>2, <1>3, <1>4, <1>5, <1>6, <1>7, <1>8, <1>9, <1>10, <1>11, <1>12, <1>13,
     <1>14
  DEF Next

(* A request keeps the right it has secured: nobody else changes who owns  *)
(* a listing.                                                              *)
LEMMA InFlightStep == MarketInv /\ [Next]_vars => InFlightSound'
<1> SUFFICES ASSUME MarketInv, [Next]_vars PROVE InFlightSound'
  OBVIOUS
<1> USE NamesAssumption
    DEF MarketInv, TypeOK, Idle, SellerOp, products, users, reports, locals,
        Goto, Finish, Take, InFlightSound, MayTouch, Stored
<1>1. ASSUME NEW r \in Request, NEW who \in Account \cup {Staff}, NEW op \in PC,
             Arrive(r, who, op)
      PROVE  InFlightSound'
  BY <1>1 DEF Arrive, Admitted
<1>2. ASSUME NEW r \in Request, Vet(r) \/ Drop(r) PROVE InFlightSound'
  BY <1>2 DEF Vet, Drop
<1>3. ASSUME NEW r \in Request, Withdraw(r) \/ Claim(r) PROVE InFlightSound'
  BY <1>3 DEF Withdraw, Claim
<1>4. ASSUME NEW r \in Request, NEW l \in Listing,
             ReadForEdit(r, l) \/ ReadForArchive(r, l) \/ ReadForSale(r, l)
      PROVE  InFlightSound'
  BY <1>4 DEF ReadForEdit, ReadForArchive, ReadForSale
<1>5. ASSUME NEW r \in Request, NEW amount \in Price, Rewrite(r, amount)
      PROVE  InFlightSound'
  BY <1>5 DEF Rewrite
<1>6. ASSUME NEW r \in Request, NEW amount \in Price, NEW l \in Listing,
             Publish(r, l, amount)
      PROVE  InFlightSound'
  BY <1>6 DEF Publish
<1>7. ASSUME NEW r \in Request, ReadOwnApplication(r) \/ Enter(r) \/ Resubmit(r)
      PROVE  InFlightSound'
  BY <1>7 DEF ReadOwnApplication, Enter, Resubmit
<1>8. ASSUME NEW r \in Request, NEW a \in Account, ReadApplication(r, a)
      PROVE  InFlightSound'
  BY <1>8 DEF ReadApplication
<1>9. ASSUME NEW r \in Request, NEW approve \in BOOLEAN, Rule(r, approve)
      PROVE  InFlightSound'
  BY <1>9 DEF Rule
<1>10. ASSUME NEW r \in Request, NEW p \in Report, ReadReport(r, p) PROVE InFlightSound'
  BY <1>10 DEF ReadReport
<1>11. ASSUME NEW r \in Request, NEW action \in Action, Enforce(r, action)
       PROVE  InFlightSound'
  BY <1>11 DEF Enforce
<1>12. CASE Tick \/ (\E r \in Request, p \in Report,
                        user \in Account \cup {None}, product \in Listing \cup {None} :
                        File(r, p, user, product))
  BY <1>12 DEF Tick, File
<1>13. CASE UNCHANGED vars
  BY <1>13 DEF vars
<1> QED
  BY <1>1, <1>2, <1>3, <1>4, <1>5, <1>6, <1>7, <1>8, <1>9, <1>10, <1>11, <1>12, <1>13
  DEF Next

(* The columns change in few ways; every other step leaves them.           *)
LEMMA ColumnChanges ==
    [Next]_vars =>
        \/ UNCHANGED <<products, users, reports>>
        \/ \E r \in Request :
              \/ Withdraw(r) \/ Claim(r) \/ Enter(r) \/ Resubmit(r)
              \/ \E l \in Listing, amount \in Price : Publish(r, l, amount)
              \/ \E amount \in Price : Rewrite(r, amount)
              \/ \E approve \in BOOLEAN : Rule(r, approve)
              \/ \E action \in Action : Enforce(r, action)
              \/ \E p \in Report, user \in Account \cup {None},
                    product \in Listing \cup {None} : File(r, p, user, product)
<1>1. ASSUME NEW r \in Request, NEW who \in Account \cup {Staff}, NEW op \in PC,
             Arrive(r, who, op)
      PROVE  UNCHANGED <<products, users, reports>>
  BY <1>1 DEF Arrive
<1>2. ASSUME NEW r \in Request, Vet(r) \/ Drop(r) \/ ReadOwnApplication(r)
      PROVE  UNCHANGED <<products, users, reports>>
  BY <1>2 DEF Vet, Drop, ReadOwnApplication
<1>3. ASSUME NEW r \in Request, NEW l \in Listing,
             ReadForEdit(r, l) \/ ReadForArchive(r, l) \/ ReadForSale(r, l)
      PROVE  UNCHANGED <<products, users, reports>>
  BY <1>3 DEF ReadForEdit, ReadForArchive, ReadForSale
<1>4. ASSUME NEW r \in Request, NEW a \in Account, ReadApplication(r, a)
      PROVE  UNCHANGED <<products, users, reports>>
  BY <1>4 DEF ReadApplication
<1>5. ASSUME NEW r \in Request, NEW p \in Report, ReadReport(r, p)
      PROVE  UNCHANGED <<products, users, reports>>
  BY <1>5 DEF ReadReport
<1>6. ASSUME Tick \/ UNCHANGED vars PROVE UNCHANGED <<products, users, reports>>
  BY <1>6 DEF Tick, vars
<1> QED
  BY <1>1, <1>2, <1>3, <1>4, <1>5, <1>6 DEF Next

(* Sales stay dated, enforcement stays done, approved sellers can sell.    *)
LEMMA OutcomeStep ==
    MarketInv /\ [Next]_vars => SaleDated' /\ EnforcedAsDecided' /\ ApprovedCanSell'
<1> DEFINE Goal == SaleDated /\ EnforcedAsDecided /\ ApprovedCanSell
<1> SUFFICES ASSUME MarketInv, [Next]_vars PROVE Goal'
  OBVIOUS
<1> USE NamesAssumption
    DEF MarketInv, TypeOK, products, users, reports, SaleDated, EnforcedAsDecided,
        ApprovedCanSell, Archived, Banned, Stored
<1>1. ASSUME NEW r \in Request, Withdraw(r) PROVE Goal'
  BY <1>1 DEF Withdraw
<1>2. ASSUME NEW r \in Request, Claim(r) PROVE Goal'
  \* The WHERE clause spares the listings a moderator has archived.
  BY <1>2 DEF Claim, InFlightSound, MayTouch
<1>3. ASSUME NEW r \in Request, Enter(r) \/ Resubmit(r) PROVE Goal'
  BY <1>3 DEF Enter, Resubmit
<1>4. ASSUME NEW r \in Request, NEW l \in Listing, NEW amount \in Price,
             Publish(r, l, amount)
      PROVE  Goal'
  BY <1>4 DEF Publish
<1>5. ASSUME NEW r \in Request, NEW amount \in Price, Rewrite(r, amount) PROVE Goal'
  BY <1>5 DEF Rewrite
<1>6. ASSUME NEW r \in Request, NEW approve \in BOOLEAN, Rule(r, approve) PROVE Goal'
  BY <1>6 DEF Rule, InFlightSound
<1>7. ASSUME NEW r \in Request, NEW action \in Action, Enforce(r, action) PROVE Goal'
  \* A later decision on the same report or target undoes nothing.
  <2>1. on[r] \in Report
    BY <1>7 DEF Enforce, InFlightSound
  <2>2. SaleDated' /\ ApprovedCanSell'
    BY <1>7, <2>1 DEF Enforce
  <2>3. EnforcedAsDecided'
    BY <1>7, <2>1 DEF Enforce
  <2> QED
    BY <2>2, <2>3
<1>8. ASSUME NEW r \in Request, NEW p \in Report,
             NEW user \in Account \cup {None}, NEW product \in Listing \cup {None},
             File(r, p, user, product)
      PROVE  Goal'
  BY <1>8 DEF File
<1>9. CASE UNCHANGED <<products, users, reports>>
  BY <1>9
<1> QED
  BY <1>1, <1>2, <1>3, <1>4, <1>5, <1>6, <1>7, <1>8, <1>9, ColumnChanges

-----------------------------------------------------------------------------
(* MarketInv always holds: the types, the rights of requests in flight,    *)
(* and the outcomes they protect.                                          *)
THEOREM MarketInvariant == Spec => []MarketInv
<1>1. MarketInv /\ [Next]_vars => MarketInv'
  BY TypeStep, InFlightStep, OutcomeStep DEF MarketInv
<1> QED
  BY InitSound, <1>1, PTL DEF Spec

(* Every column and local always has its type.                             *)
THEOREM MarketTypeCorrect == Spec => []TypeOK
BY MarketInvariant, PTL DEF MarketInv

(* A decided report's enforcement is never undone, by any interleaving of  *)
(* sales, approvals, other reports and overlapping reviews.                *)
THEOREM EnforcementHolds == Spec => []EnforcedAsDecided
BY MarketInvariant, PTL DEF MarketInv

(* The review transaction leaves no approved seller without the role.      *)
THEOREM ApprovedSellersCanSell == Spec => []ApprovedCanSell
BY MarketInvariant, PTL DEF MarketInv

(* No step takes a listing out of ARCHIVED.                                *)
THEOREM ArchivedStaysArchived == Spec => ArchivedIsFinal
<1>1. MarketInv /\ [Next]_vars =>
          \A l \in Listing : status[l] = "ARCHIVED" => status'[l] = "ARCHIVED"
  <2> SUFFICES ASSUME MarketInv, [Next]_vars, NEW l \in Listing, status[l] = "ARCHIVED"
               PROVE  status'[l] = "ARCHIVED"
    OBVIOUS
  <2> USE DEF MarketInv, TypeOK, products, users
  <2>1. ASSUME NEW r \in Request, Withdraw(r) PROVE status'[l] = "ARCHIVED"
    BY <2>1 DEF Withdraw
  <2>2. ASSUME NEW r \in Request, Claim(r) PROVE status'[l] = "ARCHIVED"
    BY <2>2 DEF Claim
  <2>3. ASSUME NEW r \in Request, Enter(r) \/ Resubmit(r) PROVE status'[l] = "ARCHIVED"
    BY <2>3 DEF Enter, Resubmit
  <2>4. ASSUME NEW r \in Request, NEW amount \in Price,
               Rewrite(r, amount) \/ \E k \in Listing : Publish(r, k, amount)
        PROVE  status'[l] = "ARCHIVED"
    BY <2>4 DEF Rewrite, Publish
  <2>5. ASSUME NEW r \in Request, NEW approve \in BOOLEAN, Rule(r, approve)
        PROVE  status'[l] = "ARCHIVED"
    BY <2>5 DEF Rule
  <2>6. ASSUME NEW r \in Request, NEW action \in Action, Enforce(r, action)
        PROVE  status'[l] = "ARCHIVED"
    BY <2>6 DEF Enforce
  <2>7. ASSUME NEW r \in Request, NEW p \in Report,
               NEW user \in Account \cup {None}, NEW product \in Listing \cup {None},
               File(r, p, user, product)
        PROVE  status'[l] = "ARCHIVED"
    BY <2>7 DEF File
  <2>8. CASE UNCHANGED <<products, users, reports>>
    BY <2>8
  <2> QED
    BY <2>1, <2>2, <2>3, <2>4, <2>5, <2>6, <2>7, <2>8, ColumnChanges
<1> QED
  BY MarketInvariant, <1>1, PTL DEF Spec, ArchivedIsFinal

(* Once the requests that read a listing before its sale have drained, no  *)
(* step but an enforcement touches the sale, and none becomes unaware.     *)
LEMMA SettledSaleStep ==
    ASSUME MarketInv, [Next]_vars, NEW l \in Listing, SettledSale(l)
    PROVE  /\ price'[l] = price[l] /\ soldAt'[l] = soldAt[l]
           /\ \/ SettledSale(l)'
              \/ \E p \in Report : target[p].product = l /\ verdict'[p] = "DELETE_PRODUCT"
<1> DEFINE Kept == price'[l] = price[l] /\ soldAt'[l] = soldAt[l] /\ SettledSale(l)'
<1> USE NamesAssumption
    DEF MarketInv, TypeOK, Idle, SellerOp, products, users, reports, locals, Goto, Finish,
        Take, InFlightSound, SettledSale, Unaware
<1>1. ASSUME NEW r \in Request, NEW who \in Account \cup {Staff}, NEW op \in PC,
             Arrive(r, who, op)
      PROVE  Kept
  BY <1>1 DEF Arrive, Admitted
<1>2. ASSUME NEW r \in Request, Vet(r) \/ Drop(r) PROVE Kept
  BY <1>2 DEF Vet, Drop
<1>3. ASSUME NEW r \in Request, Withdraw(r) PROVE Kept
  \* It withdraws another listing.
  BY <1>3 DEF Withdraw
<1>4. ASSUME NEW r \in Request, Claim(r) PROVE Kept
  \* It has read the date of the sale and writes the same one.
  BY <1>4 DEF Claim, SaleDated
<1>5. ASSUME NEW r \in Request, NEW k \in Listing,
             ReadForEdit(r, k) \/ ReadForArchive(r, k) \/ ReadForSale(r, k)
      PROVE  Kept
  BY <1>5 DEF ReadForEdit, ReadForArchive, ReadForSale
<1>6. ASSUME NEW r \in Request, NEW amount \in Price, Rewrite(r, amount) PROVE Kept
  BY <1>6 DEF Rewrite
<1>7. ASSUME NEW r \in Request, NEW amount \in Price, NEW k \in Listing,
             Publish(r, k, amount)
      PROVE  Kept
  <2>1. k # l
    BY <1>7 DEF Publish, SaleDated
  <2> QED
    BY <1>7, <2>1 DEF Publish
<1>8. ASSUME NEW r \in Request, ReadOwnApplication(r) \/ Enter(r) \/ Resubmit(r)
      PROVE  Kept
  BY <1>8 DEF ReadOwnApplication, Enter, Resubmit
<1>9. ASSUME NEW r \in Request, NEW a \in Account, ReadApplication(r, a) PROVE Kept
  BY <1>9 DEF ReadApplication
<1>10. ASSUME NEW r \in Request, NEW approve \in BOOLEAN, Rule(r, approve) PROVE Kept
  BY <1>10 DEF Rule
<1>11. ASSUME NEW r \in Request, NEW p \in Report, ReadReport(r, p) PROVE Kept
  BY <1>11 DEF ReadReport
<1>12. ASSUME NEW r \in Request, NEW action \in Action, Enforce(r, action)
       PROVE  \/ Kept
              \/ /\ price'[l] = price[l] /\ soldAt'[l] = soldAt[l]
                 /\ \E p \in Report : target[p].product = l /\ verdict'[p] = "DELETE_PRODUCT"
  <2>1. on[r] \in Report
    BY <1>12 DEF Enforce
  <2>2. CASE target[on[r]].product = l /\ Archived(l, action)
    BY <1>12, <2>1, <2>2 DEF Enforce, Archived
  <2>3. CASE ~(target[on[r]].product = l /\ Archived(l, action))
    <3>1. status'[l] = status[l] /\ UNCHANGED <<price, soldAt>>
      BY <1>12, <2>3 DEF Enforce
    <3> QED
      BY <1>12, <3>1 DEF Enforce
  <2> QED
    BY <2>2, <2>3
<1>13. ASSUME NEW p \in Report, NEW user \in Account \cup {None},
              NEW product \in Listing \cup {None}, NEW r \in Request,
              File(r, p, user, product)
       PROVE  Kept
  BY <1>13 DEF File
<1>14. CASE Tick \/ UNCHANGED vars
  BY <1>14 DEF Tick, vars
<1> QED
  BY <1>1, <1>2, <1>3, <1>4, <1>5, <1>6, <1>7, <1>8, <1>9, <1>10, <1>11, <1>12, <1>13,
     <1>14
  DEF Next

(* A sale is final once the requests that had not seen it have drained.    *)
THEOREM SalesSettle == Spec => SaleSettles
<1> DEFINE Keeps ==
        \A l \in Listing :
            SettledSale(l) =>
                /\ price'[l] = price[l] /\ soldAt'[l] = soldAt[l]
                /\ \/ SettledSale(l)'
                   \/ \E p \in Report :
                         target[p].product = l /\ verdict'[p] = "DELETE_PRODUCT"
<1>1. MarketInv /\ [Next]_vars => [Keeps]_vars
  BY SettledSaleStep
<1> QED
  BY MarketInvariant, <1>1, PTL DEF Spec, SaleSettles

(* A decision is never rewritten by a review that reads the report later.  *)
LEMMA SettledReportStep ==
    ASSUME MarketInv, [Next]_vars, NEW p \in Report, SettledReport(p)
    PROVE  SettledReport(p)' /\ verdict'[p] = verdict[p]
<1> DEFINE Kept == SettledReport(p)' /\ verdict'[p] = verdict[p]
<1> USE NamesAssumption
    DEF MarketInv, TypeOK, Idle, SellerOp, products, users, reports, locals, Goto, Finish,
        Take, SettledReport, Decided, Action
<1>1. ASSUME NEW r \in Request, NEW who \in Account \cup {Staff}, NEW op \in PC,
             Arrive(r, who, op)
      PROVE  Kept
  BY <1>1 DEF Arrive, Admitted
<1>2. ASSUME NEW r \in Request, Vet(r) \/ Drop(r) \/ Withdraw(r) \/ Claim(r) PROVE Kept
  BY <1>2 DEF Vet, Drop, Withdraw, Claim
<1>3. ASSUME NEW r \in Request, NEW l \in Listing,
             ReadForEdit(r, l) \/ ReadForArchive(r, l) \/ ReadForSale(r, l)
      PROVE  Kept
  BY <1>3 DEF ReadForEdit, ReadForArchive, ReadForSale
<1>4. ASSUME NEW r \in Request, NEW amount \in Price,
             Rewrite(r, amount) \/ \E l \in Listing : Publish(r, l, amount)
      PROVE  Kept
  BY <1>4 DEF Rewrite, Publish
<1>5. ASSUME NEW r \in Request, ReadOwnApplication(r) \/ Enter(r) \/ Resubmit(r)
      PROVE  Kept
  <2>1. CASE ReadOwnApplication(r)
    BY <2>1 DEF ReadOwnApplication
  <2>2. CASE Enter(r) \/ Resubmit(r)
    BY <2>2 DEF Enter, Resubmit
  <2> QED
    BY <1>5, <2>1, <2>2
<1>6. ASSUME NEW r \in Request, NEW a \in Account, ReadApplication(r, a) PROVE Kept
  BY <1>6 DEF ReadApplication
<1>7. ASSUME NEW r \in Request, NEW approve \in BOOLEAN, Rule(r, approve) PROVE Kept
  BY <1>7 DEF Rule
<1>8. ASSUME NEW r \in Request, NEW q \in Report, ReadReport(r, q) PROVE Kept
  \* It reads a PENDING report, hence another one.
  BY <1>8 DEF ReadReport
<1>9. ASSUME NEW r \in Request, NEW action \in Action, Enforce(r, action) PROVE Kept
  BY <1>9 DEF Enforce
<1>10. ASSUME NEW q \in Report, NEW user \in Account \cup {None},
              NEW product \in Listing \cup {None}, NEW r \in Request,
              File(r, q, user, product)
       PROVE  Kept
  BY <1>10 DEF File
<1>11. CASE Tick \/ UNCHANGED vars
  BY <1>11 DEF Tick, vars
<1> QED
  BY <1>1, <1>2, <1>3, <1>4, <1>5, <1>6, <1>7, <1>8, <1>9, <1>10, <1>11 DEF Next

(* A report is decided once, among reviews that do not overlap.            *)
THEOREM DecisionsSettle == Spec => DecisionSettles
<1>1. MarketInv /\ [Next]_vars =>
          [\A p \in Report : SettledReport(p) => SettledReport(p)' /\ verdict'[p] = verdict[p]]_vars
  BY SettledReportStep
<1> QED
  BY MarketInvariant, <1>1, PTL DEF Spec, DecisionSettles

(* Nothing the requests of others do lets a stopped account move again.    *)
LEMMA StoppedStep ==
    ASSUME MarketInv, [Next]_vars, NEW a \in Account, Stopped(a)
    PROVE  Stopped(a)'
<1> USE NamesAssumption
    DEF MarketInv, TypeOK, Idle, products, users, reports, locals, Goto, Finish, Take,
        Stopped
<1>1. ASSUME NEW r \in Request, NEW who \in Account \cup {Staff}, NEW op \in PC,
             Arrive(r, who, op)
      PROVE  Stopped(a)'
  BY <1>1 DEF Arrive, Admitted
<1>2. ASSUME NEW r \in Request, Vet(r) \/ Drop(r) \/ Withdraw(r) \/ Claim(r)
      PROVE  Stopped(a)'
  BY <1>2 DEF Vet, Drop, Withdraw, Claim
<1>3. ASSUME NEW r \in Request, NEW l \in Listing,
             ReadForEdit(r, l) \/ ReadForArchive(r, l) \/ ReadForSale(r, l)
      PROVE  Stopped(a)'
  BY <1>3 DEF ReadForEdit, ReadForArchive, ReadForSale
<1>4. ASSUME NEW r \in Request, NEW amount \in Price,
             Rewrite(r, amount) \/ \E l \in Listing : Publish(r, l, amount)
      PROVE  Stopped(a)'
  BY <1>4 DEF Rewrite, Publish
<1>5. ASSUME NEW r \in Request, ReadOwnApplication(r) \/ Enter(r) \/ Resubmit(r)
      PROVE  Stopped(a)'
  BY <1>5 DEF ReadOwnApplication, Enter, Resubmit
<1>6. ASSUME NEW r \in Request, NEW b \in Account, ReadApplication(r, b)
      PROVE  Stopped(a)'
  BY <1>6 DEF ReadApplication
<1>7. ASSUME NEW r \in Request, NEW approve \in BOOLEAN, Rule(r, approve)
      PROVE  Stopped(a)'
  BY <1>7 DEF Rule
<1>8. ASSUME NEW r \in Request, NEW p \in Report, ReadReport(r, p) PROVE Stopped(a)'
  BY <1>8 DEF ReadReport
<1>9. ASSUME NEW r \in Request, NEW action \in Action, Enforce(r, action)
      PROVE  Stopped(a)'
  BY <1>9 DEF Enforce
<1>10. ASSUME NEW p \in Report, NEW user \in Account \cup {None},
              NEW product \in Listing \cup {None}, NEW r \in Request,
              File(r, p, user, product)
       PROVE  Stopped(a)'
  BY <1>10 DEF File
<1>11. CASE Tick \/ UNCHANGED vars
  BY <1>11 DEF Tick, vars
<1> QED
  BY <1>1, <1>2, <1>3, <1>4, <1>5, <1>6, <1>7, <1>8, <1>9, <1>10, <1>11 DEF Next

(* A step that changes a listing of a stopped account is a completion by   *)
(* the staff.                                                              *)
LEMMA StoppedListingStep ==
    ASSUME MarketInv, [Next]_vars, NEW a \in Account, Stopped(a), NEW l \in Listing,
           a \in {seller[l], seller'[l]}, Listed(l)' # Listed(l)
    PROVE  \E r \in Request : by[r] = Staff /\ pc'[r] = Idle
<1> USE NamesAssumption
    DEF MarketInv, TypeOK, products, users, reports, Goto, Finish, Stopped, Listed,
        InFlightSound, MayTouch, Stored
<1>1. ASSUME NEW r \in Request, Withdraw(r)
      PROVE  by[r] = Staff /\ pc'[r] = Idle
  BY <1>1 DEF Withdraw
<1>2. ASSUME NEW r \in Request, Claim(r) PROVE by[r] = Staff /\ pc'[r] = Idle
  BY <1>2 DEF Claim
<1>3. ASSUME NEW r \in Request, Enter(r) \/ Resubmit(r) PROVE FALSE
  BY <1>3 DEF Enter, Resubmit
<1>4. ASSUME NEW r \in Request, NEW amount \in Price, Rewrite(r, amount)
      PROVE  by[r] = Staff /\ pc'[r] = Idle
  BY <1>4 DEF Rewrite
<1>5. ASSUME NEW r \in Request, NEW amount \in Price, NEW k \in Listing,
             Publish(r, k, amount)
      PROVE  FALSE
  \* The listing it creates belongs to nobody before, to its author after.
  BY <1>5 DEF Publish, Idle
<1>6. ASSUME NEW r \in Request, NEW approve \in BOOLEAN, Rule(r, approve) PROVE FALSE
  BY <1>6 DEF Rule
<1>7. ASSUME NEW r \in Request, NEW action \in Action, Enforce(r, action)
      PROVE  by[r] = Staff /\ pc'[r] = Idle
  BY <1>7 DEF Enforce
<1>8. ASSUME NEW p \in Report, NEW user \in Account \cup {None},
              NEW product \in Listing \cup {None}, NEW r \in Request,
              File(r, p, user, product)
      PROVE  FALSE
  BY <1>8 DEF File
<1>9. ~ UNCHANGED <<products, users, reports>>
  OBVIOUS
<1> QED
  BY <1>1, <1>2, <1>3, <1>4, <1>5, <1>6, <1>7, <1>8, <1>9, ColumnChanges

(* A banned account whose requests have drained is out for good.           *)
THEOREM BannedAccountsStop == Spec => BannedStop
<1> DEFINE Keeps ==
        \A a \in Account :
            Stopped(a) =>
                /\ Stopped(a)'
                /\ \A l \in Listing :
                      (a \in {seller[l], seller'[l]} /\ Listed(l)' # Listed(l)) =>
                          \E r \in Request : by[r] = Staff /\ pc'[r] = Idle
<1>1. MarketInv /\ [Next]_vars => [Keeps]_vars
  BY StoppedStep, StoppedListingStep
<1> QED
  BY MarketInvariant, <1>1, PTL DEF Spec, BannedStop
=============================================================================
