--------------------------- MODULE SessionTtlProofs ---------------------------
(* That the three expiries of a session agree, for every token life, every    *)
(* bound on the time a request takes, any division of the second and any      *)
(* number of concurrent requests, as long as a request ends two seconds       *)
(* before the token it signed.                                                *)
EXTENDS SessionTtl, TLAPS

Prompt == Delay + 2 <= Life

Exactly(seconds) == [sec |-> seconds, frac |-> 0]

\* A request that has signed: its token counts from the signing, and the
\* signing is no further back than Delay.
InTime(l) ==
    /\ l.token.exp = l.at.sec + Life
    /\ ~Before(now, l.at)
    /\ ~Before(Later(l.at, Delay), now)

\* The TTL it carries reaches past the last second of the token, counted from
\* now, and not past the token, counted from the signing.
Fits(at, exp, ttl) ==
    /\ ttl > 0
    /\ Before(Exactly(exp), Later(now, ttl + 1))
    /\ ~Before(Exactly(exp), Later(at, ttl))

\* What Redis and the browser hold.
KeyFits ==
    session # None =>
        /\ session.until \in Time
        /\ Before(Exactly(session.exp), Later(session.until, 1))
        /\ ~Before(Exactly(session.exp + Delay), session.until)

\* A token that reached, or may reach, the browser is no newer than the
\* session's by more than Delay.
Covered(exp) == session # None /\ exp <= session.exp + Delay

SignedInTime ==
    \A r \in Request : req[r].pc \in {"ttl", "set", "answer"} => InTime(req[r])
TtlsFit == \A r \in Request :
              req[r].pc = "set" => Fits(req[r].at, req[r].token.exp, req[r].ttl)
CookieRecent == cookie # None => cookie.exp <= now.sec + Life
Backed ==
    ~loggedOut =>
        /\ cookie # None => Covered(cookie.exp)
        /\ \A r \in Request : req[r].pc = "answer" => Covered(req[r].token.exp)

IInv == TypeOK /\ SignedInTime /\ TtlsFit /\ KeyFits /\ CookieRecent /\ Backed

LEMMA InitInv == Init => IInv
  <1> SUFFICES ASSUME Init PROVE IInv
    OBVIOUS
  <1> USE SessionTtlAssumption
  <1>1. now \in Time
    BY DEF Init, Time
  <1>2. Idle \in Locals
    BY DEF Idle, Locals, Time, Token, Zero
  <1>3. TypeOK
    BY <1>1, <1>2 DEF TypeOK, Init
  <1> QED
    BY <1>3 DEF IInv, Init, Idle, KeyFits, SignedInTime, TtlsFit, CookieRecent, Backed

\* The TTL that is computed in time fits the token.
LEMMA TtlFits ==
    ASSUME Prompt, now \in Time, NEW l \in Locals, InTime(l)
    PROVE  /\ SecondsTo(l.token.exp) \in Int
           /\ SecondsTo(l.token.exp) > 0
           /\ Fits(l.at, l.token.exp, SecondsTo(l.token.exp))
  <1> USE SessionTtlAssumption DEF Time, Locals, Token
  <1> DEFINE t == SecondsTo(l.token.exp)
  <1>1. l.token.exp = l.at.sec + Life /\ now.sec <= l.at.sec + Delay
    BY DEF InTime, Before, Later
  <1>2. t \in Int /\ t > 0
    BY <1>1 DEF Prompt, SecondsTo
  <1>3. Before(Exactly(l.token.exp), Later(now, t + 1))
    BY <1>1, <1>2 DEF SecondsTo, Before, Later, Exactly
  <1>4. ~Before(Exactly(l.token.exp), Later(l.at, t))
    BY <1>1, <1>2 DEF InTime, SecondsTo, Before, Later, Exactly
  <1> QED
    BY <1>2, <1>3, <1>4 DEF Fits

\* The deadline of a TTL that fits keeps to the token.
LEMMA DeadlineFits ==
    ASSUME now \in Time, NEW l \in Locals, InTime(l),
           Fits(l.at, l.token.exp, l.ttl)
    PROVE  /\ Deadline(l.ttl) \in Time
           /\ Before(Exactly(l.token.exp), Later(Deadline(l.ttl), 1))
           /\ ~Before(Exactly(l.token.exp + Delay), Deadline(l.ttl))
  BY SessionTtlAssumption
     DEF Time, Locals, Token, InTime, Deadline, Fits, Before, Later, Exactly

\* A TTL on its way to Redis is not negative: RedisService.set sends none that is.
TtlsSent == \A r \in Request : req[r].pc = "set" => req[r].ttl >= 0

LEMMA TypedStep == TypeOK /\ TtlsSent /\ [Next]_vars => TypeOK' /\ TtlsSent'
  <1> SUFFICES ASSUME TypeOK, TtlsSent, [Next]_vars
               PROVE  TypeOK' /\ TtlsSent'
    OBVIOUS
  <1> USE SessionTtlAssumption
  <1>0. /\ now \in Time
        /\ \A r \in Request : req[r] \in Locals
        /\ Idle \in Locals /\ Idle.pc = "idle"
    BY DEF TypeOK, Idle, Locals, Time, Token, Zero
  <1>1. ASSUME NEW r \in Request, Open(r) \/ Load(r)
        PROVE  TypeOK' /\ TtlsSent'
    <2>1. TypeOK'
      BY <1>0, <1>1 DEF Open, Load, TypeOK, Locals, Token
    <2>2. \A q \in Request : req'[q].pc = "set" => req'[q] = req[q]
      BY <1>0, <1>1 DEF Open, Load, TypeOK, Locals
    <2> QED
      BY <2>1, <2>2 DEF TtlsSent
  <1>2. ASSUME NEW r \in Request, Sign(r)
        PROVE  TypeOK' /\ TtlsSent'
    BY <1>0, <1>2 DEF Sign, TypeOK, TtlsSent, Locals, Token, Time
  <1>3. ASSUME NEW r \in Request, ComputeTtl(r)
        PROVE  TypeOK' /\ TtlsSent'
    <2> DEFINE t == TtlOf(r)
    <2>1. t \in Int
      BY <1>0 DEF TtlOf, SecondsTo, Locals, Token, Time
    <2>2. UNCHANGED <<now, signed, session, cookie, loggedOut>>
      BY <1>3 DEF ComputeTtl
    <2>3. CASE req' = [req EXCEPT ![r] = [req[r] EXCEPT !.ttl = t, !.pc = "answer"]]
      BY <1>0, <2>1, <2>2, <2>3 DEF TypeOK, TtlsSent, Locals
    <2>4. CASE /\ t >= 0
               /\ req' = [req EXCEPT ![r] = [req[r] EXCEPT !.ttl = t, !.pc = "set"]]
      BY <1>0, <2>1, <2>2, <2>4 DEF TypeOK, TtlsSent, Locals
    <2>5. req' = [req EXCEPT ![r] = [req[r] EXCEPT !.ttl = t,
                                          !.pc = IF t < 0 THEN "answer" ELSE "set"]]
      BY <1>3 DEF ComputeTtl
    <2> HIDE DEF t
    <2>6. CASE t < 0
      BY <2>3, <2>5, <2>6
    <2>7. CASE ~(t < 0)
      BY <2>1, <2>4, <2>5, <2>7
    <2> QED
      BY <2>6, <2>7
  <1>4. ASSUME NEW r \in Request, Set(r)
        PROVE  TypeOK' /\ TtlsSent'
    <2>1. Deadline(req[r].ttl) \in Time \cup {Never}
      BY <1>0, <1>4 DEF Set, TtlsSent, Deadline, Later, Locals, Time
    <2>2. session' \in [id : Nat, exp : Nat, until : Time \cup {Never}]
      BY <1>0, <1>4, <2>1 DEF Set, Locals, Token
    <2> QED
      BY <1>0, <1>4, <2>2 DEF Set, TypeOK, TtlsSent, Locals, Token
  <1>5. ASSUME NEW r \in Request, Answer(r) \/ Fail(r)
        PROVE  TypeOK' /\ TtlsSent'
    BY <1>0, <1>5 DEF Answer, Fail, TypeOK, TtlsSent, Locals, Token
  <1>6. CASE Logout
    BY <1>0, <1>6 DEF Logout, TypeOK, TtlsSent, Locals, Token
  <1>7. CASE Tick
    BY <1>0, <1>7 DEF Tick, TypeOK, TtlsSent, Locals, Token, Time
  <1>8. CASE UNCHANGED vars
    BY <1>0, <1>8 DEF vars, TypeOK, TtlsSent
  <1> QED
    BY <1>1, <1>2, <1>3, <1>4, <1>5, <1>6, <1>7, <1>8 DEF Next, Step

LEMMA StepInv == Prompt /\ IInv /\ [Next]_vars => IInv'
  <1> SUFFICES ASSUME Prompt, IInv, [Next]_vars
               PROVE  IInv'
    OBVIOUS
  <1> USE SessionTtlAssumption
  <1>0. /\ TypeOK /\ now \in Time
        /\ \A r \in Request : req[r] \in Locals
        /\ Idle \in Locals /\ Idle.pc = "idle"
        /\ TypeOK'
    <2>1. TypeOK /\ TtlsSent
      BY DEF IInv, TtlsFit, Fits, TtlsSent, TypeOK, Locals
    <2> QED
      BY <2>1, TypedStep DEF TypeOK, Idle, Locals, Time, Token, Zero
  <1>1. ASSUME NEW r \in Request, Open(r) \/ Load(r)
       PROVE  IInv'
    <2>0. /\ UNCHANGED <<session, cookie, loggedOut>>
          /\ \A q \in Request : req'[q].pc = "answer" => req'[q] = req[q]
      BY <1>0, <1>1 DEF Open, Load, TypeOK, Locals
    <2>2. SignedInTime'
      BY <1>0, <1>1 DEF Open, Load, IInv, SignedInTime, InTime, TypeOK, Locals, Before, Later
    <2>3. TtlsFit'
      BY <1>0, <1>1 DEF Open, Load, IInv, TtlsFit, Fits, TypeOK, Locals, Before, Later, Exactly
    <2>4. KeyFits'
      BY <1>0, <1>1 DEF Open, Load, IInv, KeyFits, Before, Later, Exactly
    <2>5. CookieRecent'
      BY <1>0, <1>1 DEF Open, Load, IInv, CookieRecent, TypeOK, Token, Time
    <2>6. Backed'
      BY <2>0 DEF IInv, Backed, Covered
    <2> QED
      BY <1>0, <2>2, <2>3, <2>4, <2>5, <2>6 DEF IInv
  <1>2. ASSUME NEW r \in Request, Sign(r)
       PROVE  IInv'
    <2>2. SignedInTime'
      <3>1. InTime(req[r])'
        BY <1>0, <1>2 DEF Sign, TypeOK, Time, InTime, Before, Later
      <3>2. ASSUME NEW q \in Request, q # r PROVE req'[q] = req[q]
        BY <1>0, <1>2, <3>2 DEF Sign, TypeOK
      <3> QED
        BY <1>2, <3>1, <3>2 DEF Sign, IInv, SignedInTime, InTime
    <2>3. TtlsFit'
      BY <1>0, <1>2 DEF Sign, IInv, TtlsFit, Fits, TypeOK, Locals, Before, Later, Exactly
    <2>4. KeyFits'
      BY <1>0, <1>2 DEF Sign, IInv, KeyFits, Before, Later, Exactly
    <2>5. CookieRecent'
      BY <1>0, <1>2 DEF Sign, IInv, CookieRecent, TypeOK, Token, Time
    <2>6. Backed'
      BY <1>0, <1>2 DEF Sign, IInv, Backed, Covered, TypeOK, Locals, Token
    <2> QED
      BY <1>0, <2>2, <2>3, <2>4, <2>5, <2>6 DEF IInv
  <1>3. ASSUME NEW r \in Request, ComputeTtl(r)
       PROVE  IInv'
    <2>0. /\ TtlOf(r) \in Int /\ ~(TtlOf(r) < 0)
          /\ Fits(req[r].at, req[r].token.exp, TtlOf(r))
      BY <1>0, <1>3, TtlFits DEF ComputeTtl, TtlOf, IInv, SignedInTime
    <2>00. /\ req' = [req EXCEPT ![r] = [req[r] EXCEPT !.ttl = TtlOf(r), !.pc = "set"]]
           /\ UNCHANGED <<now, signed, session, cookie, loggedOut>>
      BY <1>3, <2>0 DEF ComputeTtl
    <2>2. SignedInTime'
      BY <1>0, <1>3 DEF ComputeTtl, IInv, SignedInTime, InTime, TypeOK, Locals, Before, Later
    <2>3. TtlsFit'
      BY <1>0, <2>0, <2>00 DEF IInv, TtlsFit, Fits, TypeOK, Locals, Before, Later, Exactly
    <2>4. KeyFits'
      BY <1>0, <1>3 DEF ComputeTtl, IInv, KeyFits, Before, Later, Exactly
    <2>5. CookieRecent'
      BY <1>0, <1>3 DEF ComputeTtl, IInv, CookieRecent, TypeOK, Token, Time
    <2>6. Backed'
      BY <1>0, <2>00 DEF IInv, Backed, Covered, TypeOK, Locals, Token
    <2> QED
      BY <1>0, <2>2, <2>3, <2>4, <2>5, <2>6 DEF IInv
  <1>4. ASSUME NEW r \in Request, Set(r)
       PROVE  IInv'
    <2>0. /\ Deadline(req[r].ttl) \in Time
          /\ Before(Exactly(req[r].token.exp), Later(Deadline(req[r].ttl), 1))
          /\ ~Before(Exactly(req[r].token.exp + Delay), Deadline(req[r].ttl))
      BY <1>0, <1>4, DeadlineFits DEF Set, IInv, SignedInTime, TtlsFit
    <2>2. SignedInTime'
      BY <1>0, <1>4 DEF Set, IInv, SignedInTime, InTime, TypeOK, Locals, Before, Later
    <2>3. TtlsFit'
      BY <1>0, <1>4 DEF Set, IInv, TtlsFit, Fits, TypeOK, Locals, Before, Later, Exactly
    <2>4. KeyFits'
      BY <1>4, <2>0 DEF Set, KeyFits, Before, Later, Exactly
    <2>5. CookieRecent'
      BY <1>0, <1>4 DEF Set, IInv, CookieRecent, TypeOK, Token, Time
    <2>6. Backed'
      <3>1. \A q \in Request :
               req[q].pc \in {"set", "answer"} =>
                  /\ req[q].token.exp <= now.sec + Life
                  /\ now.sec + Life <= req[q].token.exp + Delay
        BY <1>0 DEF IInv, SignedInTime, InTime, Before, Later, Locals, Token, Time
      <3>2. now.sec + Life <= session'.exp + Delay /\ session' # None
        <4>1. session' = [id |-> req[r].token.id, exp |-> req[r].token.exp,
                          until |-> Deadline(req[r].ttl)]
          BY <1>4 DEF Set
        <4>2. session' \in [id : Nat, exp : Nat, until : Time \cup {Never}]
          BY <1>0, <2>0, <4>1 DEF Locals, Token
        <4> QED
          BY <1>4, <3>1, <4>1, <4>2 DEF Set
      <3>3. \A q \in Request : req'[q].pc = "answer" =>
               req'[q].token = req[q].token /\ req[q].pc \in {"set", "answer"}
        BY <1>0, <1>4 DEF Set, TypeOK, Locals
      <3>4. session'.exp \in Nat /\ now.sec \in Nat
        BY <1>0, <3>2 DEF TypeOK, Time
      <3>5. cookie # None => cookie.exp \in Nat /\ cookie.exp <= now.sec + Life
        BY <1>0 DEF IInv, TypeOK, CookieRecent, Token
      <3>6. cookie' # None => Covered(cookie.exp)'
        BY <1>4, <3>2, <3>4, <3>5 DEF Set, Covered
      <3>7. ASSUME NEW q \in Request, req'[q].pc = "answer"
            PROVE  Covered(req[q].token.exp)'
        <4>1. req[q].token.exp \in Nat /\ req[q].token.exp <= now.sec + Life
          BY <1>0, <3>1, <3>3, <3>7 DEF Locals, Token
        <4> QED
          BY <3>2, <3>3, <3>4, <3>7, <4>1 DEF Covered
      <3> QED
        BY <3>6, <3>7 DEF Backed
    <2> QED
      BY <1>0, <2>2, <2>3, <2>4, <2>5, <2>6 DEF IInv
  <1>5. ASSUME NEW r \in Request, Answer(r) \/ Fail(r)
       PROVE  IInv'
    <2>2. SignedInTime'
      BY <1>0, <1>5 DEF Answer, Fail, IInv, SignedInTime, InTime, TypeOK, Locals, Before, Later
    <2>3. TtlsFit'
      BY <1>0, <1>5 DEF Answer, Fail, IInv, TtlsFit, Fits, TypeOK, Locals, Before, Later, Exactly
    <2>4. KeyFits'
      BY <1>0, <1>5 DEF Answer, Fail, IInv, KeyFits, Before, Later, Exactly
    <2>5. CookieRecent'
      <3>1. req[r].pc = "answer" => req[r].token.exp <= now.sec + Life
        BY <1>0 DEF IInv, SignedInTime, InTime, Before, Locals, Token, Time
      <3> QED
        BY <1>5, <3>1 DEF Answer, Fail, IInv, CookieRecent
    <2>6. Backed'
      BY <1>0, <1>5 DEF Answer, Fail, IInv, Backed, Covered, TypeOK, Locals, Token
    <2> QED
      BY <1>0, <2>2, <2>3, <2>4, <2>5, <2>6 DEF IInv
  <1>6. ASSUME Logout
       PROVE  IInv'
    <2>2. SignedInTime'
      BY <1>0, <1>6 DEF Logout, IInv, SignedInTime, InTime, TypeOK, Locals, Before, Later
    <2>3. TtlsFit'
      BY <1>0, <1>6 DEF Logout, IInv, TtlsFit, Fits, TypeOK, Locals, Before, Later, Exactly
    <2>4. KeyFits'
      BY <1>0, <1>6 DEF Logout, IInv, KeyFits, Before, Later, Exactly
    <2>5. CookieRecent'
      BY <1>0, <1>6 DEF Logout, IInv, CookieRecent, TypeOK, Token, Time
    <2>6. Backed'
      BY <1>0, <1>6 DEF Logout, IInv, Backed, Covered, TypeOK, Locals, Token
    <2> QED
      BY <1>0, <2>2, <2>3, <2>4, <2>5, <2>6 DEF IInv
  <1>7. ASSUME Tick
       PROVE  IInv'
    <2>2. SignedInTime'
      BY <1>0, <1>7 DEF Tick, IInv, SignedInTime, InTime, TypeOK, Locals, Before, Later, Time
    <2>3. TtlsFit'
      <3>1. Before(now, now') /\ now' \in Time /\ UNCHANGED req
        BY <1>0, <1>7 DEF Tick, Before, Time
      <3>2. ASSUME NEW l \in Locals, Fits(l.at, l.token.exp, l.ttl)
            PROVE  /\ l.ttl > 0
                   /\ Before(Exactly(l.token.exp), Later(now', l.ttl + 1))
                   /\ ~Before(Exactly(l.token.exp), Later(l.at, l.ttl))
        BY <1>0, <3>1, <3>2 DEF Fits, Before, Later, Exactly, Locals, Token, Time
      <3> QED
        BY <1>0, <3>1, <3>2 DEF IInv, TtlsFit, Fits
    <2>4. KeyFits'
      BY <1>0, <1>7 DEF Tick, IInv, KeyFits, Before, Later, Exactly
    <2>5. CookieRecent'
      BY <1>0, <1>7 DEF Tick, IInv, CookieRecent, TypeOK, Token, Time
    <2>6. Backed'
      BY <1>0, <1>7 DEF Tick, IInv, Backed, Covered, TypeOK, Locals, Token
    <2> QED
      BY <1>0, <2>2, <2>3, <2>4, <2>5, <2>6 DEF IInv
  <1>8. ASSUME UNCHANGED vars
       PROVE  IInv'
    <2>2. SignedInTime'
      BY <1>0, <1>8 DEF vars, IInv, SignedInTime, InTime, TypeOK, Locals, Before, Later
    <2>3. TtlsFit'
      BY <1>0, <1>8 DEF vars, IInv, TtlsFit, Fits, TypeOK, Locals, Before, Later, Exactly
    <2>4. KeyFits'
      BY <1>0, <1>8 DEF vars, IInv, KeyFits, Before, Later, Exactly
    <2>5. CookieRecent'
      BY <1>0, <1>8 DEF vars, IInv, CookieRecent, TypeOK, Token, Time
    <2>6. Backed'
      BY <1>0, <1>8 DEF vars, IInv, Backed, Covered, TypeOK, Locals, Token
    <2> QED
      BY <1>0, <2>2, <2>3, <2>4, <2>5, <2>6 DEF IInv
  <1> QED
    BY <1>1, <1>2, <1>3, <1>4, <1>5, <1>6, <1>7, <1>8 DEF Next, Step

LEMMA Invariance == ASSUME Prompt PROVE Spec => []IInv
  <1> QED
    BY InitInv, StepInv, PTL DEF Spec

\* Every variable keeps its type, however long requests take: a deadline in Redis
\* is a moment, as no TTL that convertTimeStampToSeconds computes is sent when it
\* is negative.
THEOREM TypeCorrect == Spec => []TypeOK
  <1>1. Init => TypeOK /\ TtlsSent
    BY InitInv DEF IInv, TtlsSent, Init, Idle
  <1> QED
    BY <1>1, TypedStep, PTL DEF Spec

\* storeSession and updateSession never leave a session without a TTL, and
\* its key ends with the refresh token it names, give or take a request.
THEOREM EndsWithItsToken == ASSUME Prompt PROVE Spec => []EndsWithToken
  <1>1. IInv => EndsWithToken
    BY SessionTtlAssumption DEF IInv, KeyFits, EndsWithToken, Exactly
  <1> QED
    BY Invariance, <1>1, PTL

\* A browser that holds the refreshToken cookie is not refused for a session
\* Redis dropped early, however refreshes overlap and answers are lost.
THEOREM CookieIsBacked == ASSUME Prompt PROVE Spec => []CookieBacked
  <1>1. ASSUME IInv, cookie # None, ~loggedOut, now.sec + Delay + 1 < cookie.exp
        PROVE  Held
    <2>1. session # None /\ cookie.exp <= session.exp + Delay
      BY <1>1 DEF IInv, Backed, Covered
    <2>2. /\ session.until \in Time
          /\ session.exp \in Nat /\ cookie.exp \in Nat /\ now \in Time
          /\ Before(Exactly(session.exp), Later(session.until, 1))
      BY <1>1, <2>1 DEF IInv, KeyFits, TypeOK, Token
    <2>3. Before(now, session.until)
      BY <1>1, <2>1, <2>2, SessionTtlAssumption DEF Before, Later, Exactly, Time
    <2> QED
      BY <2>1, <2>3 DEF Held
  <1>2. IInv => CookieBacked
    BY <1>1 DEF CookieBacked
  <1> QED
    BY Invariance, <1>2, PTL
=============================================================================
