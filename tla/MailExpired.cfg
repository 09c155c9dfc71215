\* Two mails of any kind.
CONSTANTS
    Mail = {m1, m2}
    Ttl = 3
    MaxTime = 5
SPECIFICATION FairSpec
PROPERTIES
    ConfirmationArrives
\* Time ends, and the mails with it.
CHECK_DEADLOCK FALSE
