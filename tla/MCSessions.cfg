\* Two requests at once: every interleaving of renewals, sign-ins, logouts,
\* revocations, purges, faults and crashes over three rows.
CONSTANTS
    Token = {t1, t2, t3}
    Account = {a1}
    Request = {r1, r2}
    None = None
    Ttl = 1
    Grace = 0
    MaxTime = 2
SPECIFICATION Spec
SYMMETRY Interchangeable
INVARIANTS TypeOK NeverStranded SuccessorSound NoSilentReplay
PROPERTIES ClosedStaysClosed ImplementsLifecycle
CHECK_DEADLOCK FALSE
