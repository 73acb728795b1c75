------------------------------ MODULE Analytics ------------------------------
(***************************************************************************)
(* The seller's numbers: services/analytics/analytics.service.js, read     *)
(* side.  The same facts are reported twice, by sellerOverview over the    *)
(* catalogue and by productStats for one listing, and each picks the       *)
(* listings it looks at in its own way.  Dates are days.                   *)
(***************************************************************************)
EXTENDS Integers, FiniteSets, Functions

CONSTANTS
    Product,       \* one seller's listings
    Room,          \* conversations: one buyer, one listing each
    Listing,       \* the listing of each room
    DefaultRange,  \* DEFAULT_RANGE_DAYS
    MaxRange,      \* MAX_RANGE_DAYS
    MaxProducts,   \* MAX_PRODUCTS_PER_QUERY
    LastDay,       \* bound of the clock
    MaxFacts       \* bound: events and messages

ASSUME AnalyticsAssumption ==
    /\ Listing \in [Room -> Product]
    /\ DefaultRange \in 1 .. MaxRange /\ MaxRange \in Nat /\ MaxProducts \in Nat
    /\ LastDay \in Nat /\ MaxFacts \in Nat

VARIABLES
    today,     \* the clock
    uploaded,  \* createdAt of each listing, 0 before
    sold,      \* soldAt of each listing, 0 while it is for sale
    events,    \* product_events
    messages   \* messages of the rooms

analyticsVars == <<today, uploaded, sold, events, messages>>

EventType == {"IMPRESSION", "CLICK"}
Side == {"buyer", "seller"}

AnalyticsInit ==
    /\ today = 1
    /\ uploaded = [p \in Product |-> 0] /\ sold = [p \in Product |-> 0]
    /\ events = {} /\ messages = {}

-----------------------------------------------------------------------------
(* The facts, written by the rest of the server. *)

MoreFacts == Cardinality(events) + Cardinality(messages) < MaxFacts

Upload(p) ==
    /\ uploaded[p] = 0
    /\ uploaded' = [uploaded EXCEPT ![p] = today]
    /\ UNCHANGED <<today, sold, events, messages>>

Sell(p) ==
    /\ uploaded[p] > 0 /\ sold[p] = 0
    /\ sold' = [sold EXCEPT ![p] = today]
    /\ UNCHANGED <<today, uploaded, events, messages>>

\* The n-th event of the bound, or the n-th message: equal facts are told apart.
View(p, t) ==
    /\ uploaded[p] > 0 /\ MoreFacts
    /\ events' = events \cup {[n |-> Cardinality(events), product |-> p, type |-> t, day |-> today]}
    /\ UNCHANGED <<today, uploaded, sold, messages>>

Say(r, side) ==
    /\ uploaded[Listing[r]] > 0 /\ MoreFacts
    /\ messages' = messages \cup {[n |-> Cardinality(messages), room |-> r, by |-> side, day |-> today]}
    /\ UNCHANGED <<today, uploaded, sold, events>>

NextDay == today < LastDay /\ today' = today + 1 /\ UNCHANGED <<uploaded, sold, events, messages>>

AnalyticsNext ==
    \/ \E p \in Product : Upload(p) \/ Sell(p) \/ \E t \in EventType : View(p, t)
    \/ \E r \in Room, side \in Side : Say(r, side)
    \/ NextDay

AnalyticsSpec == AnalyticsInit /\ [][AnalyticsNext]_analyticsVars

-----------------------------------------------------------------------------
(* The answers. *)

\* `days` of the query, clamped; 0 stands for a query without it.
Days(raw) == IF raw = 0 THEN DefaultRange ELSE IF raw > MaxRange THEN MaxRange ELSE raw
From(raw) == today - (Days(raw) - 1)
Within(day, from) == day >= from /\ day <= today

\* A ratio in ten-thousandths, rounded half up; 0 over nothing.
SafeRate(n, d) == IF d <= 0 THEN 0 ELSE (2 * 10000 * n + d) \div (2 * d)

CountEvents(ps, p, t, from) ==
    Cardinality({e \in events : e.product \in ps /\ e.product = p /\ e.type = t /\ Within(e.day, from)})

\* Messages are grouped by room and sender, and only the buyer's groups count:
\* one inquiry for the group, and its messages.
BuyerGroups(ps, p, from) ==
    {m \in messages : Listing[m.room] \in ps /\ Listing[m.room] = p /\ m.by = "buyer" /\ Within(m.day, from)}
CountInquiries(ps, p, from) ==
    [rooms |-> Cardinality({m.room : m \in BuyerGroups(ps, p, from)}), said |-> Cardinality(BuyerGroups(ps, p, from))]

\* One listing's row: the sale is counted by its date, whatever became of the listing.
ToProductRow(ps, p, from) ==
    LET seenBy == CountEvents(ps, p, "IMPRESSION", from)
        clicks == CountEvents(ps, p, "CLICK", from)
        sales == IF sold[p] > 0 /\ Within(sold[p], from) THEN 1 ELSE 0
    IN  [impressions |-> seenBy, clicks |-> clicks, sales |-> sales,
         inquiries |-> CountInquiries(ps, p, from).rooms, inquiryMessages |-> CountInquiries(ps, p, from).said,
         clickThroughRate |-> SafeRate(clicks, seenBy), conversionRate |-> SafeRate(sales, clicks)]

\* The sums, and the rates of the sums (not the sums of the rates).
ToTotals(rows) ==
    LET sum(key) == SumFunction([p \in DOMAIN rows |-> rows[p][key]])
    IN  [impressions |-> sum("impressions"), clicks |-> sum("clicks"), sales |-> sum("sales"),
         inquiries |-> sum("inquiries"), inquiryMessages |-> sum("inquiryMessages"),
         clickThroughRate |-> SafeRate(sum("clicks"), sum("impressions")),
         conversionRate |-> SafeRate(sum("sales"), sum("clicks"))]

\* Mutant: the listings of the window are those uploaded in it.
LoadSellerProducts_Uploaded(from) == {p \in Product : uploaded[p] > 0 /\ uploaded[p] >= from}

\* The listings of the overview: uploaded, sold or seen since the window began.
LoadSellerProducts(from) ==
    {p \in Product :
        /\ uploaded[p] > 0
        /\ uploaded[p] >= from \/ sold[p] >= from \/ \E e \in events : e.product = p /\ e.day >= from}

Refused(raw) == Cardinality(LoadSellerProducts(From(raw))) > MaxProducts

SellerOverview(raw) ==
    LET ps == LoadSellerProducts(From(raw))
    IN  ToTotals([p \in ps |-> ToProductRow(ps, p, From(raw))])

ProductStats(p, raw) == ToProductRow({p}, p, From(raw))

-----------------------------------------------------------------------------
\* What the overview totals is what the listings' own pages add up to.
Agrees(keys) ==
    \A raw \in 0 .. MaxRange + 1 :
        ~Refused(raw) =>
            LET whole == SellerOverview(raw)
                sum == ToTotals([p \in {q \in Product : uploaded[q] > 0} |-> ProductStats(p, raw)])
            IN  \A key \in keys : whole[key] = sum[key]

\* For every window the overview serves, its traffic, its sales and their rates are
\* those of the listings' own pages, and a seller refused for too many listings is
\* served once the range is short enough: a shorter one never has more
\* (analytics.service.js:198-227, 309-375).
TrafficAgrees ==
    /\ Agrees({"impressions", "clicks", "sales", "clickThroughRate", "conversionRate"})
    /\ \A short, long \in 1 .. MaxRange :
           short <= long => LoadSellerProducts(From(short)) \subseteq LoadSellerProducts(From(long))

\* The same of inquiries: analytics.service.js:203-207 scopes the overview "by
\* activity" so that it agrees with the per-product endpoint.
InquiriesAgree == Agrees({"inquiries", "inquiryMessages"})

-----------------------------------------------------------------------------
(* The invariant behind TrafficAgrees: the numbers are read off finite data. *)

AnalyticsTypeOK ==
    /\ today \in Nat \ {0} /\ uploaded \in [Product -> Nat] /\ sold \in [Product -> Nat]
    /\ events \subseteq [n : Nat, product : Product, type : EventType, day : Nat] /\ IsFiniteSet(events)
    /\ messages \subseteq [n : Nat, room : Room, by : Side, day : Nat] /\ IsFiniteSet(messages)
    /\ IsFiniteSet({p \in Product : uploaded[p] > 0})
=============================================================================
