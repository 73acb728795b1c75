CONSTANTS
    Token = {t1, t2, t3}
    Account = {a1}
    Request = {r1, r2}
    None = None
    Ttl = 2
    Grace = 0
    MaxTime = 3
SPECIFICATION Spec
INVARIANT RevokedAsAWhole
CHECK_DEADLOCK FALSE
