------------------------------ MODULE SessionTtl ------------------------------
(* The lifetime of one session: three clocks are set from the expiry of one  *)
(* refresh token - the token's own exp, the TTL of session:<sid> in Redis    *)
(* and the expiry of the browser's cookie - at three moments of a request    *)
(* (src/modules/auth: jwt.service, session.service, auth.controller;         *)
(* src/modules/cache/cache.service; src/common/helpers/date).                *)
(*                                                                           *)
(* Time is a second and a fraction of it.  exp is a whole second, TTLs are   *)
(* whole seconds rounded toward zero, and the clock moves on between signing,*)
(* computing the TTL, executing the SET and answering.  What Sessions says   *)
(* of users, indexes and access tokens is left out.                          *)
EXTENDS Integers

CONSTANTS Request,   \* concurrent requests of the browser
          Fraction,  \* fractions a second is divided into
          Life,      \* JWT_REFRESH_TOKEN_EXPIRATION_TIME, in seconds
          Delay,     \* seconds from signing to the end of the slowest request
          MaxToken,  \* refresh tokens signed (bound)
          MaxSec,    \* the clock stops here (bound)
          None,      \* a missing key, no cookie
          Never      \* the deadline of a key without TTL

Time == [sec : Nat, frac : 0 .. Fraction - 1]
Token == [id : Nat, exp : Nat]

ASSUME SessionTtlAssumption ==
    /\ Fraction \in Nat \ {0}
    /\ Life \in Nat \ {0}
    /\ Delay \in Nat
    /\ MaxToken \in Nat
    /\ MaxSec \in Nat
    /\ Never \notin Time
    /\ None \notin Token
    /\ None \notin [id : Nat, exp : Nat, until : Time \cup {Never}]

VARIABLES now,       \* the clock that Node, Redis and the browser share
          signed,    \* how many refresh tokens were signed
          session,   \* session:<sid>: its token, and when Redis drops it
          cookie,    \* the browser's refreshToken cookie
          loggedOut, \* has a logout removed the session? (history)
          req        \* the locals of each request

vars == <<now, signed, session, cookie, loggedOut, req>>

Locals == [pc : {"idle", "sign", "ttl", "set", "answer"},
           at : Time,            \* when its token was signed
           token : Token,        \* the token it signed
           ttl : Int]            \* the TTL it computed

Zero == [sec |-> 0, frac |-> 0]
Idle == [pc |-> "idle", at |-> Zero, token |-> [id |-> 0, exp |-> 0], ttl |-> 0]

Init ==
    /\ now \in {[sec |-> 0, frac |-> f] : f \in 0 .. Fraction - 1}
    /\ signed = 0
    /\ session = None
    /\ cookie = None
    /\ loggedOut = FALSE
    /\ req = [r \in Request |-> Idle]

-----------------------------------------------------------------------------
(* Helpers *)

Before(s, t) == s.sec < t.sec \/ (s.sec = t.sec /\ s.frac < t.frac)
Later(t, seconds) == [t EXCEPT !.sec = t.sec + seconds]

\* convertTimeStampToSeconds: the seconds from now to exp, rounded toward zero.
SecondsTo(exp) ==
    IF now.frac > 0 /\ exp > now.sec THEN exp - now.sec - 1 ELSE exp - now.sec

\* The key of the session exists.
Held == session # None /\ (session.until # Never => Before(now, session.until))

\* A token or a cookie that expires at the second exp is still accepted.
Valid(exp) == now.sec < exp

-----------------------------------------------------------------------------
(* Requests *)

\* login, verify-email or reset-password: a session is opened.
Open(r) ==
    /\ signed = 0
    /\ \A q \in Request : req[q] = Idle
    /\ req' = [req EXCEPT ![r].pc = "sign"]
    /\ UNCHANGED <<now, signed, session, cookie, loggedOut>>

\* POST /auth/refresh: the cookie's token is in force and is the one the
\* session names, and refresh loads the session.
Load(r) ==
    /\ req[r] = Idle
    /\ cookie # None /\ Valid(cookie.exp)
    /\ Held /\ session.id = cookie.id
    /\ req' = [req EXCEPT ![r].pc = "sign"]
    /\ UNCHANGED <<now, signed, session, cookie, loggedOut>>

\* signRefreshToken: exp counts from the current second.
Sign(r) ==
    /\ req[r].pc = "sign"
    /\ signed < MaxToken
    /\ signed' = signed + 1
    /\ req' = [req EXCEPT ![r] =
                 [pc |-> "ttl", at |-> now, ttl |-> 0,
                  token |-> [id |-> signed + 1, exp |-> now.sec + Life]]]
    /\ UNCHANGED <<now, session, cookie, loggedOut>>

ConfiguredTtl(r) == Life                                                 \* mutant
TtlOf(r) == SecondsTo(req[r].token.exp)

\* storeSession and updateSession compute the TTL; RedisService.set sends
\* nothing when it is negative.
ComputeTtl(r) ==
    /\ req[r].pc = "ttl"
    /\ req' = [req EXCEPT ![r] =
                 [req[r] EXCEPT !.ttl = TtlOf(r),
                                !.pc = IF TtlOf(r) < 0 THEN "answer" ELSE "set"]]
    /\ UNCHANGED <<now, signed, session, cookie, loggedOut>>

\* Redis executes SET: with EX it drops the key ttl seconds from now; a ttl of
\* zero is falsy and leaves EX out.
DeadlineKept(ttl) == IF session = None THEN Later(now, ttl)              \* mutant
                                       ELSE session.until
DeadlineInFractions(ttl) == [now EXCEPT !.frac = now.frac + ttl]         \* mutant
Deadline(ttl) == IF ttl = 0 THEN Never ELSE Later(now, ttl)

Set(r) ==
    /\ req[r].pc = "set"
    /\ session' = [id |-> req[r].token.id, exp |-> req[r].token.exp,
                   until |-> Deadline(req[r].ttl)]
    /\ req' = [req EXCEPT ![r].pc = "answer"]
    /\ UNCHANGED <<now, signed, cookie, loggedOut>>

\* The controller's answer sets the cookie, to expire with the token.
Answer(r) ==
    /\ req[r].pc = "answer"
    /\ cookie' = req[r].token
    /\ req' = [req EXCEPT ![r] = Idle]
    /\ UNCHANGED <<now, signed, session, loggedOut>>

\* An await throws, or the answer is lost.
Fail(r) ==
    /\ req[r] # Idle
    /\ req' = [req EXCEPT ![r] = Idle]
    /\ UNCHANGED <<now, signed, session, cookie, loggedOut>>

\* GET /auth/logout: DEL, then clearCookie, whose answer may be lost.
Logout ==
    /\ Held
    /\ session' = None
    /\ loggedOut' = TRUE
    /\ cookie' \in {cookie, None}
    /\ UNCHANGED <<now, signed, req>>

\* The clock moves, but no request takes longer than Delay after signing.  A
\* browser drops a cookie that has expired.
Tick ==
    LET next == IF now.frac = Fraction - 1 THEN [sec |-> now.sec + 1, frac |-> 0]
                                           ELSE [now EXCEPT !.frac = now.frac + 1]
    IN  /\ next.sec <= MaxSec
        /\ \A r \in Request :
              req[r].pc \in {"ttl", "set", "answer"} =>
                 ~Before(Later(req[r].at, Delay), next)
        /\ now' = next
        /\ cookie' = IF cookie # None /\ cookie.exp <= next.sec THEN None ELSE cookie
        /\ UNCHANGED <<signed, session, loggedOut, req>>

Step(r) == Open(r) \/ Load(r) \/ Sign(r) \/ ComputeTtl(r) \/ Set(r) \/ Answer(r)
           \/ Fail(r)

Next == (\E r \in Request : Step(r)) \/ Logout \/ Tick

Spec == Init /\ [][Next]_vars

-----------------------------------------------------------------------------
(* Properties *)

TypeOK ==
    /\ now \in Time
    /\ signed \in Nat
    /\ session \in [id : Nat, exp : Nat, until : Time \cup {Never}] \cup {None}
    /\ cookie \in Token \cup {None}
    /\ loggedOut \in BOOLEAN
    /\ req \in [Request -> Locals]

\* No rounding and no delay makes a session permanent, and its key never
\* outlives the refresh token it names by more than a request takes.
EndsWithToken ==
    session # None => /\ session.until # Never
                      /\ ~Before([sec |-> session.exp + Delay, frac |-> 0],
                                 session.until)

\* Whatever two refreshes and lost answers do, a browser that still holds a
\* cookie is not refused for a key that Redis dropped early: unless somebody
\* logged out, the session exists until a second and a request's time before
\* the cookie expires.
CookieBacked ==
    (cookie # None /\ ~loggedOut /\ now.sec + Delay + 1 < cookie.exp) => Held
=============================================================================
