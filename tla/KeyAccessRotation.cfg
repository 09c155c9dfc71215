\* Three months of the access keys, on every calendar, no faults.
CONSTANTS
    Null = Null
    c1 = c1  c2 = c2  k1 = k1  k2 = k2  k3 = k3  k4 = k4  k5 = k5  k6 = k6
    Caller = {c1}
    KeyId = {k1, k2, k3, k4, k5}
    Rotation <- AccessKeys
    Calendars <- ThreeMonths
    Offsets <- MonthOffsets
    Faults = FALSE
SPECIFICATION Spec
SYMMETRY Symmetry
INVARIANTS
    KeysOutliveTokens
\* Time ends with the last midnight.
CHECK_DEADLOCK FALSE
