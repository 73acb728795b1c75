\* The services, for what the overview promises of a listing nobody but a buyer wrote about.
CONSTANTS
    Address = {a1, a2, a3}
    Limit = 1
    Window = 2
    MaxBuckets = 2
    LastMoment = 4
    Viewer = {v1, v2, v3, own}
    SellerKey = own
    Hold = 2
    MaxEntries = 3
    LastTick = 4
    Product = {"p1", "p2"}
    Room = {"r1", "r2"}
    Listing <- MCListing
    DefaultRange = 2
    MaxRange = 2
    MaxProducts = 1
    LastDay = 3
    MaxFacts = 2
    Asker = {q1, q2, q3}
    User = {u}
    Number = {1}
    NoteId = {1, 2}
    Attempts = 2
    PageSize = 1
    LastInstant = 2
    Caller = {c1, c2}
    Email = {e}
    Handle = {h1, h2}
    Provider = {g}
    Unset = Unset
    Talk = {"k1", "k2"}
    About <- MCAbout
    NoGood = NoGood
    Bubble = {1, 2, 3}
    Visitor = {w1}
    ThreadLimit = 2
    InboxLimit = 2
    LastDate = 2
    Turn = {t1, t2}
    Account = {x, y}
    Conversation = {chat1}
    Ownerless = Ownerless
    MaxChunks = 2
SPECIFICATION Spec
INVARIANT InquiriesAgree
CHECK_DEADLOCK FALSE
