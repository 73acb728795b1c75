\* Two requests at once over one seller, one listing and two reports.
CONSTANTS
    Account = {a1}
    Staff = Staff
    Listing = {l1}
    Report = {p1, p2}
    Price = {c1, c2}
    Request = {r1, r2}
    None = None
    MaxTime = 2
SPECIFICATION Spec
SYMMETRY Interchangeable
INVARIANTS TypeOK EnforcedAsDecided ApprovedCanSell
PROPERTIES ArchivedIsFinal SaleSettles BannedStop DecisionSettles
CHECK_DEADLOCK FALSE
