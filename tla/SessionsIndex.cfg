\* Users who become active, are deleted and come back, and logoutAll, with faults.
CONSTANTS
    Null = Null
    r1 = r1  r2 = r2  u1 = u1  u2 = u2  s1 = s1  s2 = s2
    p1 = p1  p2 = p2  p3 = p3  p4 = p4
    Request = {r1, r2}
    User = {u1, u2}
    Sid = {s1, s2}
    Pair = {p1, p2, p3}
    Ops = {"login", "verifyEmail", "resetPassword", "refresh", "logout", "expire", "softDelete", "restore", "logoutAll"}
    InitVerified = {}
    Faults = TRUE
SPECIFICATION Spec
SYMMETRY Symmetry
INVARIANTS
    StrangerOnlyWithoutSubject
PROPERTIES
    UnlistedOnlyByRaces
\* The requests stop when the session ids and the pairs run out.
CHECK_DEADLOCK FALSE
