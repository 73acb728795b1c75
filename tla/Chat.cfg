\* Two requests at once over one room and three messages, a page of two.
CONSTANTS
    Room = {c1}
    MaxMessages = 3
    Request = {r1, r2}
    None = None
    PageSize = 2
    MaxWaits = 1
    MaxTime = 2
SPECIFICATION Spec
INVARIANTS TypeOK NothingSkipped InOrderOnce RoomFresh WaitsCounted
PROPERTY CursorDelivers
CHECK_DEADLOCK FALSE
