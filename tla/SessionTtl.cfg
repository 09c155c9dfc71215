\* One browser with two requests at a time; tokens of four seconds.
CONSTANTS
    Request = {r1, r2}
    Fraction = 2
    Life = 4
    Delay = 1
    MaxToken = 3
    MaxSec = 10
    None = None
    Never = Never
SPECIFICATION Spec
INVARIANTS
    TypeOK
    EndsWithToken
    CookieBacked
CHECK_DEADLOCK FALSE
