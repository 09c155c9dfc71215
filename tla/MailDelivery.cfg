\* The handlers of one user, who may be replaced, and two mails of any kind, with
\* faults, under fairness (so without symmetry).
CONSTANTS
    Null = Null
    e1 = e1  e2 = e2  m1 = m1  m2 = m2
    Request = {r1}
    UserId = {u1}
    Email = {e1, e2}
    Password = {w1}
    Mail = {m1, m2}
    Ops = {"create", "register", "resend", "sendReset", "verifyEmail", "resetPassword", "softDelete"}
    Bodies <- OneBody
    Faults = TRUE
    Ttl = 1
    Life = 2
    MaxTime = 2
SPECIFICATION FairAccountSpec
INVARIANTS
    AccountTypeOK
    NothingLost
PROPERTIES
    UsersSpec
    VerifiedByMail
    NoDeadConfirmation
    ConfirmationSettles
    ResetArrives
\* Time ends, and the mails with it.
CHECK_DEADLOCK FALSE
