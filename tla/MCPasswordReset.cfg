\* Three requests at once, two accounts and two codes, a lock after two wrong ones.
CONSTANTS
    User = {u1, u2}
    Request = {r1, r2, r3}
    None = None
    MaxAttempts = 2
    MaxTickets = 2
SPECIFICATION Spec
SYMMETRY Interchangeable
INVARIANTS TypeOK OneLiveCode SingleUse GuessesBounded ResetEndsSessions
PROPERTY OnlyNewestResets
CHECK_DEADLOCK FALSE
