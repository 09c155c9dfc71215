\* Three months of the refresh keys, on every calendar, with failing saves, restarts and missed jobs.
CONSTANTS
    Null = Null
    c1 = c1  c2 = c2  k1 = k1  k2 = k2  k3 = k3  k4 = k4  k5 = k5  k6 = k6
    Caller = {c1}
    KeyId = {k1, k2, k3, k4, k5}
    Rotation <- RefreshKeys
    Calendars <- ThreeMonths
    Offsets <- MonthOffsets
    Faults = TRUE
SPECIFICATION Spec
SYMMETRY Symmetry
INVARIANTS
    RefreshKeysOutlive
PROPERTIES
    CurrentKeyKept
\* Time ends with the last midnight.
CHECK_DEADLOCK FALSE
