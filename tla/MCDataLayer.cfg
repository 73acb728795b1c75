\* Each part at the size its hazards need; parts end, so a stop is no error.
CONSTANTS
    Slot = {s1, s2}
    Caller = {c1, c2}
    Nobody = Nobody
    Gone = Gone
    Writes = 2
    MaxQueue = 2
    Key = {k1, k2}
    Other = {o1, o2}
    Client = {u1, u2}
    Nothing = Nothing
    Cap = 2
    Null = Null
    Data = {0, 1, 2}
    Wildcard = {1}
    Argument = {1}
    List = {{}, {1}}
    MaxRelated = 1
    MaxItems = 2
    MaxObjects = 4
    LastMigration = 2
    Creates <- MCCreates
    Foreign = "other"
    Deploy = {d1, d2, d3}
    LastRevision = 2
    LogRows <- MCLogRows
    Fixtures = 4
    Markets = 2
    Field = {"password", "profile", "origin"}
    Password = "password"
    Patch <- MCPatch
SPECIFICATION Spec
INVARIANTS AllOrNothing PoolIntegrity CountsExact UpsertSettles TouchesWhatIsMeant LedgerTrue Refreshed
PROPERTIES WaiterServed
CHECK_DEADLOCK FALSE
