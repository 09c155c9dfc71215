\* Users are created, one request at a time, no faults.
CONSTANTS
    Null = Null
    r1 = r1  r2 = r2  u1 = u1  u2 = u2
    e1 = e1  e2 = e2  w1 = w1  w2 = w2
    Request = {r1}
    UserId = {u1, u2}
    Email = {e1, e2}
    Password = {w1, w2}
    Ops = {"create", "register"}
    Bodies <- AllBodies
    Faults = FALSE
SPECIFICATION Spec
SYMMETRY Symmetry
PROPERTIES
    CreateOnlyAdds
\* The requests stop when the ids of new rows run out.
CHECK_DEADLOCK FALSE
