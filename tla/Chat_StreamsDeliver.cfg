CONSTANTS
    Room = {c1}
    MaxMessages = 3
    Request = {r1, r2}
    None = None
    PageSize = 2
    MaxWaits = 1
    MaxTime = 2
SPECIFICATION Spec
PROPERTY StreamsDeliver
CHECK_DEADLOCK FALSE
