\* The session operations, two requests at a time, with faults.
CONSTANTS
    Null = Null
    r1 = r1  r2 = r2  u1 = u1  u2 = u2  s1 = s1  s2 = s2
    p1 = p1  p2 = p2  p3 = p3  p4 = p4
    Request = {r1, r2}
    User = {u1, u2}
    Sid = {s1, s2}
    Pair = {p1, p2, p3}
    Ops = {"login", "refresh", "logout", "logoutAll", "logoutSessions", "expire"}
    InitVerified = {u1, u2}
    Faults = TRUE
SPECIFICATION Spec
SYMMETRY Symmetry
INVARIANTS
    TypeOK
    SlotIntegrity
    IndexSound
    AuthenticatedAsOwner
PROPERTIES
    ReturnsOnlyByRefresh
    UnlistedOnlyByRaces
    LedgerSpec
\* The requests stop when the session ids and the pairs run out.
CHECK_DEADLOCK FALSE
