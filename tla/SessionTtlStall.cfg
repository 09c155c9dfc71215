\* One browser with two requests at a time; tokens that live no longer than a
\* request may take.
CONSTANTS
    Request = {r1, r2}
    Fraction = 2
    Life = 2
    Delay = 2
    MaxToken = 3
    MaxSec = 10
    None = None
    Never = Never
SPECIFICATION Spec
INVARIANTS
    EndsWithToken
CHECK_DEADLOCK FALSE
