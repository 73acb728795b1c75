CONSTANTS
    User = {u1}
    Request = {r1, r2, r3}
    None = None
    MaxAttempts = 2
    MaxTickets = 2
SPECIFICATION Spec
INVARIANT LockedAfterFive
CHECK_DEADLOCK FALSE
