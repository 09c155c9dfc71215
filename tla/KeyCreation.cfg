\* Calls and the job at one midnight, in that second, two key types, faults,
\* under fairness (so without symmetry).
CONSTANTS
    Null = Null
    c1 = c1  c2 = c2  k1 = k1  k2 = k2  k3 = k3  k4 = k4  k5 = k5  k6 = k6
    Caller = {c1, c2}
    KeyId = {k1, k2, k3, k4, k5, k6}
    Rotation <- SessionKeys
    Calendars <- OneMidnight
    Offsets = {0}
    Faults = TRUE
SPECIFICATION FairSpec
INVARIANTS
    TypeOK
    FlagMeansCreating
PROPERTIES
    FlagGivenBack
    KeyObtained
\* Time ends with the last midnight.
CHECK_DEADLOCK FALSE
