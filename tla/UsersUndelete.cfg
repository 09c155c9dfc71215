\* A deletion and a password reset at once, no faults.
CONSTANTS
    Null = Null
    r1 = r1  r2 = r2  u1 = u1  u2 = u2
    e1 = e1  e2 = e2  w1 = w1  w2 = w2
    Request = {r1, r2}
    UserId = {u1, u2}
    Email = {e1, e2}
    Password = {w1, w2}
    Ops = {"create", "sendReset", "resetPassword", "softDelete", "restore", "delete"}
    Bodies <- AllBodies
    Faults = FALSE
SPECIFICATION Spec
SYMMETRY Symmetry
PROPERTIES
    DeletedStaysDeleted
\* The requests stop when the ids of new rows run out.
CHECK_DEADLOCK FALSE
