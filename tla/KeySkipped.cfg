\* The job meets a call that creates a key, no faults.
CONSTANTS
    Null = Null
    c1 = c1  c2 = c2  k1 = k1  k2 = k2  k3 = k3  k4 = k4  k5 = k5  k6 = k6
    Caller = {c1, c2}
    KeyId = {k1, k2, k3, k4, k5, k6}
    Rotation <- SessionKeys
    Calendars <- OneMidnight
    Offsets = {0, 1}
    Faults = FALSE
SPECIFICATION Spec
SYMMETRY Symmetry
INVARIANTS
    RotatesEveryType
\* Time ends with the last midnight.
CHECK_DEADLOCK FALSE
