---------------------------- MODULE SessionsProofs ----------------------------
(* Proofs about Sessions, for every value of its constants: the type          *)
(* invariant, the integrity of stored sessions, the soundness of the index,   *)
(* and that the session store implements the token ledger.                    *)
EXTENDS Sessions, TLAPS

-----------------------------------------------------------------------------
(* The inductive invariant *)

\* Whatever a client holds has been signed, for a session id that was drawn.
Minted ==
    /\ \A p \in delivered : claims[p] # Null
    /\ \A p \in Pair : claims[p] # Null => owner[claims[p].sessionId] # Null

\* What a request holds fits the step it has reached.
Fit(l) == /\ l.pc = "save" => l.who \in User /\ l.op \in AllOps
          /\ l.pc = "lookup" => l.token \in delivered
          /\ l.pc \in {"lookup", "handle"} => l.sid \in Sid
LocalsFit == \A r \in Request : Fit(req[r])

\* The record d is what one signTokens call made, for d's session and owner.
Whole(d) ==
    /\ d \in SessionData
    /\ d.userId = owner[d.sessionId]
    /\ d.jwtAccessId = d.jwtRefreshId
    /\ claims[d.jwtRefreshId] # Null
    /\ claims[d.jwtRefreshId].sessionId = d.sessionId

\* A request about to write a session holds a whole record for it.
InFlightWhole == \A r \in InFlight : Whole(req[r].data)

\* ... of a pair that is not in force yet, and that no other request holds.
InFlightNew ==
    /\ \A r \in InFlight : ~InForce(req[r].data.jwtRefreshId)
    /\ \A r, q \in InFlight :
         r # q => req[r].data.jwtRefreshId # req[q].data.jwtRefreshId

StoredWhole == \A s \in Sid : session[s] # Null =>
                  Whole(session[s]) /\ session[s].sessionId = s

IInv == /\ TypeOK
        /\ Minted
        /\ LocalsFit
        /\ StoredWhole
        /\ InFlightWhole
        /\ InFlightNew
        /\ IndexSound

-----------------------------------------------------------------------------
(* Type correctness *)

LEMMA InitInv == Init => IInv
  <1> SUFFICES ASSUME Init PROVE IInv
    OBVIOUS
  <1> USE SessionsAssumption DEF Init
  <1>1. TypeOK
    BY DEF TypeOK, Locals, Idle, IndexKey
  <1>2. InFlight = {}
    BY DEF InFlight, Idle
  <1>3. Minted /\ LocalsFit
    BY DEF Minted, LocalsFit, Fit, Idle
  <1>4. StoredWhole /\ InFlightWhole /\ InFlightNew
    BY <1>2 DEF StoredWhole, InFlightWhole, InFlightNew
  <1>5. IndexSound
    BY DEF IndexSound, IndexKey
  <1> QED
    BY <1>1, <1>3, <1>4, <1>5 DEF IInv

\* What OpenSession leaves in the variables it writes is well typed.
LEMMA OpenTyped ==
    ASSUME TypeOK, NEW r \in Request, NEW o \in AllOps, NEW u \in User,
           OpenSession(r, o, u)
    PROVE  /\ claims' \in [Pair -> Claims \cup {Null}]
           /\ owner' \in [Sid -> User \cup {Null}]
           /\ req' \in [Request -> Locals]
  <1>1. PICK s \in Sid, p \in Pair :
           /\ claims' = [claims EXCEPT ![p] = NewClaims(s, u)]
           /\ owner' = [owner EXCEPT ![s] = u]
           /\ req' = [req EXCEPT ![r] =
                        [Idle EXCEPT !.pc = "store", !.op = o,
                          !.data = [userId |-> u, sessionId |-> s,
                                    jwtAccessId |-> p, jwtRefreshId |-> p]]]
    BY DEF OpenSession, FreshSids, Fresh
  <1>2. NewClaims(s, u) \in Claims
    BY DEF NewClaims, Claims
  <1>3. [userId |-> u, sessionId |-> s, jwtAccessId |-> p, jwtRefreshId |-> p]
          \in SessionData
    BY DEF SessionData
  <1>4. ASSUME NEW d \in SessionData
        PROVE  [Idle EXCEPT !.pc = "store", !.op = o, !.data = d] \in Locals
    BY DEF Idle, Locals
  <1> QED
    BY <1>1, <1>2, <1>3, <1>4 DEF TypeOK

LEMMA TypeStep ==
    ASSUME IInv, [Next]_vars
    PROVE  TypeOK'
  <1>0. TypeOK /\ Minted /\ LocalsFit /\ InFlightWhole
    BY DEF IInv
  <1> USE DEF TypeOK
  <1>i. Idle \in Locals
    BY DEF Idle, Locals
  <1>1. ASSUME NEW r \in Request, NEW u \in User, Login(r, u) PROVE TypeOK'
    BY <1>0, <1>1, OpenTyped DEF Login, AllOps, store, users
  <1>2. ASSUME NEW r \in Request, NEW o \in AllOps, NEW u \in User,
               ReadUser(r, o, u)
        PROVE  TypeOK'
    <2>1. ASSUME NEW b \in BOOLEAN
          PROVE  [Idle EXCEPT !.pc = "save", !.op = o, !.who = u, !.active = b]
                   \in Locals
      BY DEF Idle, Locals
    <2>2. req' \in [Request -> Locals]
      BY <1>0, <1>2, <2>1 DEF ReadUser
    <2> QED
      BY <1>0, <1>2, <2>2 DEF ReadUser, store, users, minted
  <1>3. ASSUME NEW r \in Request, SaveUser(r) PROVE TypeOK'
    <2>1. req[r].who \in User /\ req[r].op \in AllOps
      BY <1>0, <1>3 DEF SaveUser, LocalsFit, Fit
    <2>2. OpenSession(r, req[r].op, req[r].who)
      BY <1>3 DEF SaveUser
    <2> QED
      BY <1>0, <1>3, <2>1, <2>2, OpenTyped DEF SaveUser, store
  <1>4. ASSUME NEW r \in Request, StoreSession(r) PROVE TypeOK'
    <2>1. req[r].data \in SessionData
      BY <1>0, <1>4 DEF StoreSession, InFlight, InFlightWhole, Whole
    <2>2. /\ req[r].data.userId \in IndexKey
          /\ req[r].data.sessionId \in Sid
          /\ req[r].data.jwtRefreshId \in Pair
      BY <2>1 DEF SessionData, IndexKey
    <2>3. req' \in [Request -> Locals]
      BY <1>0, <1>i, <1>4 DEF StoreSession, Finish
    <2> QED
      BY <1>0, <1>4, <2>1, <2>2, <2>3 DEF StoreSession, minted, users
  <1>5. ASSUME NEW r \in Request, NEW o \in AllOps, NEW n \in Pair,
               Authenticate(r, o, n)
        PROVE  TypeOK'
    <2>1. \A q \in delivered : claims[q].sessionId \in Sid
      BY <1>0 DEF Minted, Claims
    <2>2. \A ids \in Named(o) : ids \subseteq Sid
      BY <2>1 DEF Named, Known
    <2>3. n \in delivered
      BY <1>5 DEF Authenticate
    <2>4. ASSUME NEW s \in Sid, NEW ids \in SUBSET Sid
          PROVE  [Idle EXCEPT !.pc = "lookup", !.op = o, !.token = n,
                              !.sid = s, !.todo = ids] \in Locals
      BY DEF Idle, Locals
    <2>5. PICK ids \in Named(o) :
             req' = [req EXCEPT ![r] = [Idle EXCEPT !.pc = "lookup", !.op = o,
                                          !.token = n,
                                          !.sid = claims[n].sessionId,
                                          !.todo = ids]]
      BY <1>5 DEF Authenticate
    <2>6. req' \in [Request -> Locals]
      <3>1. claims[n].sessionId \in Sid /\ ids \in SUBSET Sid
        BY <2>1, <2>2, <2>3
      <3> QED
        BY <1>0, <2>4, <2>5, <3>1
    <2> QED
      BY <1>0, <1>5, <2>6 DEF Authenticate, store, users, minted
  <1>6. ASSUME NEW r \in Request, ResolveUser(r) PROVE TypeOK'
    <2>1. claims[req[r].token] \in Claims
      BY <1>0, <1>6 DEF ResolveUser, LocalsFit, Fit, Minted
    <2>2. Found(claims[req[r].token].sub) \subseteq User \cup {Null}
      BY <1>0, <2>1 DEF Found, Claims
    <2>3. ASSUME NEW l \in Locals, NEW u \in User \cup {Null}
          PROVE  [l EXCEPT !.pc = "handle", !.who = u] \in Locals
      BY DEF Locals
    <2>4. PICK u \in Found(claims[req[r].token].sub) :
             req' = [req EXCEPT ![r] = [req[r] EXCEPT !.pc = "handle", !.who = u]]
      BY <1>6 DEF ResolveUser
    <2>5. req' \in [Request -> Locals]
      BY <1>0, <2>2, <2>3, <2>4
    <2> QED
      BY <1>0, <1>6, <2>5 DEF ResolveUser, store, users, minted
  <1>7. ASSUME NEW r \in Request, RefreshLoad(r) PROVE TypeOK'
    <2>1. req[r].sid \in Sid /\ req[r].who \in User \cup {Null}
      BY <1>0, <1>7 DEF RefreshLoad, LocalsFit, Fit, Locals
    <2>2. CASE session[req[r].sid] = Null
      BY <1>0, <1>i, <1>7, <2>2 DEF RefreshLoad, Finish, store, users
    <2>3. CASE session[req[r].sid] # Null
      <3>1. PICK p \in Pair :
              /\ claims' = [claims EXCEPT
                              ![p] = NewClaims(req[r].sid, req[r].who)]
              /\ req' = [req EXCEPT ![r] = [req[r] EXCEPT !.pc = "update",
                                                     !.data = Refreshed(r, p)]]
        BY <1>7, <2>3 DEF RefreshLoad, Fresh
      <3>2. Refreshed(r, p) \in SessionData
        BY <1>0, <2>1, <2>3 DEF Refreshed, SessionData
      <3>3. NewClaims(req[r].sid, req[r].who) \in Claims
        BY <2>1 DEF NewClaims, Claims
      <3>4. ASSUME NEW l \in Locals, NEW d \in SessionData
            PROVE  [l EXCEPT !.pc = "update", !.data = d] \in Locals
        BY DEF Locals
      <3>5. req' \in [Request -> Locals]
        BY <1>0, <3>1, <3>2, <3>4
      <3> QED
        BY <1>0, <1>7, <3>1, <3>3, <3>5 DEF RefreshLoad, store, users
    <2> QED
      BY <2>2, <2>3
  <1>8. ASSUME NEW r \in Request, RefreshUpdate(r) PROVE TypeOK'
    <2>1. req[r].data \in SessionData
      BY <1>0, <1>8 DEF RefreshUpdate, InFlight, InFlightWhole, Whole
    <2>2. /\ req[r].data.sessionId \in Sid
          /\ req[r].data.jwtRefreshId \in Pair
      BY <2>1 DEF SessionData
    <2>3. req' \in [Request -> Locals]
      BY <1>0, <1>i, <1>8 DEF RefreshUpdate, Finish
    <2> QED
      BY <1>0, <1>8, <2>1, <2>2, <2>3 DEF RefreshUpdate, minted, users
  <1>9. ASSUME NEW r \in Request, Logout(r) PROVE TypeOK'
    <2>1. req[r].todo \subseteq Sid
      BY <1>0 DEF Locals
    <2>2. req' \in [Request -> Locals]
      BY <1>0, <1>i, <1>9 DEF Logout, Finish
    <2> QED
      BY <1>0, <1>9, <2>1, <2>2
      DEF Logout, LogoutIndex, IndexKey, minted, users, store
  <1>10. ASSUME NEW r \in Request, StartRemoval(r) PROVE TypeOK'
    <2>1. req[r].who \in IndexKey /\ req[r].todo \subseteq Sid
      BY <1>0 DEF Locals, IndexKey
    <2>2. userSessions[req[r].who] \subseteq Sid
      BY <1>0, <2>1
    <2>3. ASSUME NEW l \in Locals, NEW ids \in SUBSET Sid
          PROVE  [l EXCEPT !.pc = "remove", !.todo = ids] \in Locals
      BY DEF Locals
    <2>4. req' \in [Request -> Locals]
      <3>1. CASE req' = [req EXCEPT ![r] = Idle]
        BY <1>0, <1>i, <3>1
      <3>2. CASE \E ids \in SUBSET Sid :
                   req' = [req EXCEPT ![r] = [req[r] EXCEPT !.pc = "remove",
                                                      !.todo = ids]]
        <4>1. PICK ids \in SUBSET Sid :
                req' = [req EXCEPT ![r] = [req[r] EXCEPT !.pc = "remove",
                                                        !.todo = ids]]
          BY <3>2
        <4>2. [req[r] EXCEPT !.pc = "remove", !.todo = ids] \in Locals
          BY <1>0, <2>3
        <4> QED
          BY <1>0, <4>1, <4>2
      <3> QED
        BY <1>10, <2>1, <2>2, <3>1, <3>2 DEF StartRemoval, Finish
    <2> QED
      BY <1>0, <1>10, <2>4 DEF StartRemoval, minted, users, store
  <1>11. ASSUME NEW r \in Request, RemoveOne(r) PROVE TypeOK'
    <2>1. req[r].who \in IndexKey /\ req[r].todo \subseteq Sid
      BY <1>0 DEF Locals, IndexKey
    <2>2. ASSUME NEW l \in Locals, NEW t \in SUBSET Sid,
                 NEW x \in {"recheck", "remove"}
          PROVE  [l EXCEPT !.pc = x, !.todo = t] \in Locals
      BY DEF Locals
    <2>3. req' \in [Request -> Locals]
      <3>1. CASE req' = [req EXCEPT ![r] = Idle]
        BY <1>0, <1>i, <3>1
      <3>2. CASE \E s \in req[r].todo :
                   req' = [req EXCEPT ![r] =
                            [req[r] EXCEPT !.pc = AfterRound(r, s),
                                           !.todo = req[r].todo \ {s}]]
        <4>1. PICK s \in req[r].todo :
                req' = [req EXCEPT ![r] =
                         [req[r] EXCEPT !.pc = AfterRound(r, s),
                                        !.todo = req[r].todo \ {s}]]
          BY <3>2
        <4>2. AfterRound(r, s) \in {"recheck", "remove"}
          BY DEF AfterRound
        <4>3. req[r].todo \ {s} \in SUBSET Sid
          BY <2>1
        <4> QED
          BY <1>0, <2>2, <4>1, <4>2, <4>3
      <3> QED
        BY <1>11, <3>1, <3>2 DEF RemoveOne, Finish
    <2> QED
      BY <1>0, <1>11, <2>1, <2>3 DEF RemoveOne, minted, users
  <1>12. ASSUME NEW r \in Request, Recheck(r) PROVE TypeOK'
    <2>1. req' \in [Request -> Locals]
      BY <1>0, <1>i, <1>12 DEF Recheck, Goto, Finish, Locals
    <2> QED
      BY <1>0, <1>12, <2>1 DEF Recheck, minted, users, store
  <1>13. ASSUME NEW r \in Request, Unlink(r) PROVE TypeOK'
    <2>1. req' \in [Request -> Locals]
      BY <1>0, <1>i, <1>13 DEF Unlink, Finish
    <2> QED
      BY <1>0, <1>13, <2>1 DEF Unlink, IndexKey, minted, users
  <1>14. ASSUME NEW r \in Request, Fail(r) PROVE TypeOK'
    <2>1. req' \in [Request -> Locals]
      BY <1>0, <1>i, <1>14 DEF Fail, Finish
    <2> QED
      BY <1>0, <1>14, <2>1 DEF Fail, minted, users, store
  <1>15. ASSUME NEW s \in Sid, Expire(s) PROVE TypeOK'
    BY <1>0, <1>15 DEF Expire, minted, users
  <1>16. ASSUME NEW u \in User, SoftDelete(u) \/ Restore(u) PROVE TypeOK'
    BY <1>0, <1>16 DEF SoftDelete, Restore, minted, store
  <1>17. CASE UNCHANGED vars
    BY <1>0, <1>17 DEF vars
  <1> QED
    BY <1>1, <1>2, <1>3, <1>4, <1>5, <1>6, <1>7, <1>8, <1>9, <1>10, <1>11,
       <1>12, <1>13, <1>14, <1>15, <1>16, <1>17
    DEF Next, Arrive, Step, Environment, AllOps

-----------------------------------------------------------------------------
(* The inductive step *)

\* What a step does to the signed pairs and the drawn ids: nothing that was
\* there changes.
Grows ==
    /\ \A p \in Pair : claims[p] # Null => claims'[p] = claims[p]
    /\ \A s \in Sid : owner[s] # Null => owner'[s] = owner[s]

LEMMA WholeStable ==
    ASSUME NEW d, Whole(d), Grows
    PROVE  Whole(d)'
  <1>1. /\ d.userId \in User /\ d.sessionId \in Sid /\ d.jwtRefreshId \in Pair
    BY DEF Whole, SessionData
  <1>2. owner[d.sessionId] # Null
    BY <1>1, SessionsAssumption DEF Whole
  <1> QED
    BY <1>1, <1>2 DEF Whole, Grows

\* A drawn session id is not drawn again: all that mentions a fresh id is new.
LEMMA OpenGrows ==
    ASSUME TypeOK, NEW r \in Request, NEW o \in AllOps, NEW u \in User,
           OpenSession(r, o, u)
    PROVE  Grows
  BY DEF OpenSession, FreshSids, Fresh, Grows, TypeOK

LEMMA StepGrows ==
    ASSUME IInv, [Next]_vars
    PROVE  Grows
  <1>0. TypeOK /\ LocalsFit
    BY DEF IInv
  <1>1. ASSUME NEW r \in Request, NEW u \in User, Login(r, u) PROVE Grows
    BY <1>0, <1>1, OpenGrows DEF Login, AllOps
  <1>2. ASSUME NEW r \in Request, SaveUser(r) PROVE Grows
    <2>1. req[r].who \in User /\ req[r].op \in AllOps
      BY <1>0, <1>2 DEF SaveUser, LocalsFit, Fit
    <2> QED
      BY <1>0, <1>2, <2>1, OpenGrows DEF SaveUser
  <1>3. ASSUME NEW r \in Request, RefreshLoad(r) PROVE Grows
    BY <1>0, <1>3 DEF RefreshLoad, Fresh, Grows, TypeOK
  <1>4. CASE UNCHANGED <<claims, owner>>
    BY <1>4 DEF Grows
  <1> QED
    BY <1>1, <1>2, <1>3, <1>4
    DEF Next, vars, Arrive, Step, Environment, ReadUser, StoreSession,
        Authenticate, ResolveUser, RefreshUpdate, Logout, StartRemoval,
        RemoveOne, Recheck, Unlink, Fail, Expire, SoftDelete, Restore, minted

\* A request that has just signed a pair: nothing else has happened.
JustSigned(r) ==
    /\ r \notin InFlight /\ r \in InFlight'
    /\ Whole(req[r].data)'
    /\ claims[req'[r].data.jwtRefreshId] = Null
    /\ \A p \in Pair : p # req'[r].data.jwtRefreshId => claims'[p] = claims[p]
    /\ \A q \in Request : q # r => req'[q] = req[q]
    /\ UNCHANGED <<session, userSessions, delivered>>

\* A request that writes the record it holds: it is answered.
Writes(r) ==
    /\ r \in InFlight
    /\ session' = [session EXCEPT ![req[r].data.sessionId] = req[r].data]
    /\ req' = [req EXCEPT ![r] = Idle]
    /\ \A k \in IndexKey :
         userSessions'[k] \subseteq userSessions[k] \cup
            (IF k = req[r].data.userId THEN {req[r].data.sessionId} ELSE {})
    /\ delivered' \in {delivered, delivered \cup {req[r].data.jwtRefreshId}}
    /\ UNCHANGED claims

\* Any other step only takes away from the store, and puts no request in
\* flight.
Quiet ==
    /\ \A s \in Sid : session'[s] \in {session[s], Null}
    /\ \A k \in IndexKey : userSessions'[k] \subseteq userSessions[k]
    /\ \A r \in InFlight' : r \in InFlight /\ req'[r] = req[r]
    /\ UNCHANGED <<delivered, claims>>

\* What OpenSession signs is whole.
LEMMA OpenSigns ==
    ASSUME TypeOK, NEW r \in Request, NEW o \in AllOps, NEW u \in User,
           OpenSession(r, o, u), r \notin InFlight,
           UNCHANGED <<session, userSessions, delivered>>
    PROVE  JustSigned(r)
  <1>1. PICK s \in FreshSids, p \in Fresh :
           /\ claims' = [claims EXCEPT ![p] = NewClaims(s, u)]
           /\ owner' = [owner EXCEPT ![s] = u]
           /\ req' = [req EXCEPT ![r] =
                        [Idle EXCEPT !.pc = "store", !.op = o,
                          !.data = [userId |-> u, sessionId |-> s,
                                    jwtAccessId |-> p, jwtRefreshId |-> p]]]
    BY DEF OpenSession
  <1>2. s \in Sid /\ p \in Pair /\ claims[p] = Null
    BY DEF FreshSids, Fresh
  <1>3. req'[r].data = [userId |-> u, sessionId |-> s,
                        jwtAccessId |-> p, jwtRefreshId |-> p]
    BY <1>1 DEF TypeOK, Idle
  <1>4. owner'[s] = u
    BY <1>1, <1>2 DEF TypeOK
  <1>5. claims'[p] # Null /\ claims'[p].sessionId = s
    <2>1. NewClaims(s, u) \in [sessionId : Sid, sub : User \cup {Null}]
      BY <1>2 DEF NewClaims
    <2>2. claims'[p] = NewClaims(s, u)
      BY <1>1, <1>2 DEF TypeOK
    <2> QED
      BY <2>1, <2>2, SessionsAssumption DEF NewClaims
  <1>6. Whole(req[r].data)'
    BY <1>2, <1>3, <1>4, <1>5 DEF Whole, SessionData
  <1> QED
    BY <1>1, <1>2, <1>3, <1>6 DEF JustSigned, TypeOK, InFlight, Idle

\* A refresh signs for the session it has just read, and keeps its user.
LEMMA RefreshSigns ==
    ASSUME IInv, NEW r \in Request, RefreshLoad(r), req'[r].pc = "update"
    PROVE  JustSigned(r)
  <1>0. TypeOK /\ LocalsFit /\ StoredWhole
    BY DEF IInv
  <1> DEFINE s == req[r].sid
  <1>1. s \in Sid /\ req[r].who \in User \cup {Null}
    BY <1>0 DEF RefreshLoad, LocalsFit, Fit, TypeOK, Locals
  <1>2. session[s] # Null
    <2>1. req[r] \in Locals /\ DOMAIN req = Request
      BY <1>0 DEF TypeOK
    <2>2. ASSUME Finish(r) PROVE FALSE
      BY <2>1, <2>2 DEF Finish, Idle
    <2> QED
      BY <2>2 DEF RefreshLoad
  <1>3. PICK p \in Fresh :
          /\ claims' = [claims EXCEPT ![p] = NewClaims(s, req[r].who)]
          /\ req' = [req EXCEPT ![r] = [req[r] EXCEPT !.pc = "update",
                                                 !.data = Refreshed(r, p)]]
    BY <1>2 DEF RefreshLoad
  <1>4. p \in Pair /\ claims[p] = Null
    BY DEF Fresh
  <1>5. Whole(session[s]) /\ session[s].sessionId = s
    BY <1>0, <1>1, <1>2 DEF StoredWhole
  <1>6. req'[r].data = Refreshed(r, p)
    BY <1>0, <1>3 DEF TypeOK, Locals
  <1>7. /\ Refreshed(r, p) \in SessionData
        /\ Refreshed(r, p).userId = session[s].userId
        /\ Refreshed(r, p).sessionId = s
        /\ Refreshed(r, p).jwtAccessId = p
        /\ Refreshed(r, p).jwtRefreshId = p
    BY <1>4, <1>5 DEF Refreshed, Whole, SessionData
  <1>8. claims'[p] # Null /\ claims'[p].sessionId = s
    <2>1. NewClaims(s, req[r].who) \in [sessionId : Sid, sub : User \cup {Null}]
      BY <1>1 DEF NewClaims
    <2>2. claims'[p] = NewClaims(s, req[r].who)
      BY <1>0, <1>3, <1>4 DEF TypeOK
    <2> QED
      BY <2>1, <2>2, SessionsAssumption DEF NewClaims
  <1>9. Whole(req[r].data)'
    <2>1. owner' = owner
      BY DEF RefreshLoad
    <2>2. session[s].userId = owner[s]
      BY <1>5 DEF Whole
    <2> QED
      BY <1>6, <1>7, <1>8, <2>1, <2>2 DEF Whole
  <1> QED
    <2>1. r \notin InFlight /\ r \in InFlight'
      BY DEF RefreshLoad, InFlight
    <2> QED
      BY <1>0, <1>3, <1>4, <1>6, <1>7, <1>9, <2>1
      DEF JustSigned, RefreshLoad, TypeOK, store

\* A quiet step: req changes for one request at most, which is not in flight
\* afterwards.
LEMMA QuietReq ==
    ASSUME TypeOK, NEW r \in Request, NEW l,
           req' = [req EXCEPT ![r] = l], l.pc \notin {"store", "update"}
    PROVE  \A q \in InFlight' : q \in InFlight /\ req'[q] = req[q]
  BY DEF TypeOK, InFlight

LEMMA StepShape ==
    ASSUME IInv, [Next]_vars
    PROVE  \/ \E r \in Request : JustSigned(r) \/ Writes(r)
           \/ Quiet
  <1> USE DEF minted, store
  <1>0. TypeOK /\ LocalsFit /\ InFlightWhole
    BY DEF IInv
  <1>q. ASSUME NEW r \in Request, Finish(r)
        PROVE  \A q \in InFlight' : q \in InFlight /\ req'[q] = req[q]
    BY <1>0, <1>q, QuietReq DEF Finish, Idle
  <1>1. ASSUME NEW r \in Request, NEW u \in User, Login(r, u)
        PROVE  JustSigned(r)
    BY <1>0, <1>1, OpenSigns DEF Login, AllOps, InFlight, Idle
  <1>2. ASSUME NEW r \in Request, NEW o \in AllOps, NEW u \in User,
               ReadUser(r, o, u)
        PROVE  Quiet
    <2>1. PICK b \in BOOLEAN : req' = [req EXCEPT ![r] =
             [Idle EXCEPT !.pc = "save", !.op = o, !.who = u, !.active = b]]
      BY <1>2 DEF ReadUser
    <2>2. \A q \in InFlight' : q \in InFlight /\ req'[q] = req[q]
      BY <1>0, <2>1, QuietReq DEF Idle
    <2> QED
      BY <1>2, <2>2 DEF ReadUser, Quiet
  <1>3. ASSUME NEW r \in Request, SaveUser(r) PROVE JustSigned(r)
    <2>1. req[r].who \in User /\ req[r].op \in AllOps
      BY <1>0, <1>3 DEF SaveUser, LocalsFit, Fit
    <2> QED
      BY <1>0, <1>3, <2>1, OpenSigns DEF SaveUser, InFlight
  <1>4. ASSUME NEW r \in Request, StoreSession(r) PROVE Writes(r)
    <2>1. r \in InFlight
      BY <1>4 DEF StoreSession, InFlight
    <2>2. req[r].data.userId \in IndexKey
      BY <1>0, <2>1 DEF InFlightWhole, Whole, SessionData, IndexKey
    <2> QED
      BY <1>0, <1>4, <2>1, <2>2 DEF StoreSession, Finish, Writes, TypeOK
  <1>5. ASSUME NEW r \in Request, NEW o \in AllOps, NEW n \in Pair,
               Authenticate(r, o, n)
        PROVE  Quiet
    <2>1. PICK ids \in Named(o) :
             req' = [req EXCEPT ![r] = [Idle EXCEPT !.pc = "lookup", !.op = o,
                                          !.token = n,
                                          !.sid = claims[n].sessionId,
                                          !.todo = ids]]
      BY <1>5 DEF Authenticate
    <2>2. \A q \in InFlight' : q \in InFlight /\ req'[q] = req[q]
      BY <1>0, <2>1, QuietReq DEF Idle
    <2> QED
      BY <1>5, <2>2 DEF Authenticate, Quiet
  <1>6. ASSUME NEW r \in Request, ResolveUser(r) PROVE Quiet
    <2>1. PICK u : req' = [req EXCEPT ![r] =
                             [req[r] EXCEPT !.pc = "handle", !.who = u]]
      BY <1>6 DEF ResolveUser
    <2>2. [req[r] EXCEPT !.pc = "handle", !.who = u].pc = "handle"
      BY <1>0 DEF TypeOK, Locals
    <2>3. \A q \in InFlight' : q \in InFlight /\ req'[q] = req[q]
      BY <1>0, <2>1, <2>2, QuietReq
    <2> QED
      BY <1>6, <2>3 DEF ResolveUser, Quiet
  <1>7. ASSUME NEW r \in Request, RefreshLoad(r) PROVE JustSigned(r) \/ Quiet
    <2>1. CASE session[req[r].sid] = Null
      BY <1>7, <1>q, <2>1 DEF RefreshLoad, Quiet
    <2>2. CASE session[req[r].sid] # Null
      <3>1. PICK p : req' = [req EXCEPT ![r] =
                               [req[r] EXCEPT !.pc = "update",
                                              !.data = Refreshed(r, p)]]
        BY <1>7, <2>2 DEF RefreshLoad
      <3>2. req'[r].pc = "update"
        BY <1>0, <3>1 DEF TypeOK, Locals
      <3> QED
        BY <1>7, <3>2, RefreshSigns
    <2> QED
      BY <2>1, <2>2
  <1>8. ASSUME NEW r \in Request, RefreshUpdate(r) PROVE Writes(r)
    <2>1. r \in InFlight
      BY <1>8 DEF RefreshUpdate, InFlight
    <2> QED
      BY <1>0, <1>8, <2>1 DEF RefreshUpdate, Finish, Writes
  <1>9. ASSUME NEW r \in Request, Logout(r) PROVE Quiet
    <2>1. /\ \A s \in Sid : session'[s] \in {session[s], Null}
          /\ \A k \in IndexKey : userSessions'[k] \subseteq userSessions[k]
      BY <1>0, <1>9 DEF Logout, LogoutIndex, TypeOK
    <2> QED
      BY <1>9, <1>q, <2>1 DEF Logout, Quiet
  <1>10. ASSUME NEW r \in Request, StartRemoval(r) PROVE Quiet
    <2>1. CASE Finish(r)
      BY <1>10, <1>q, <2>1 DEF StartRemoval, Quiet
    <2>2. CASE ~Finish(r)
      <3>1. PICK ids : req' = [req EXCEPT ![r] =
                                 [req[r] EXCEPT !.pc = "remove", !.todo = ids]]
        BY <1>10, <2>2 DEF StartRemoval
      <3>2. [req[r] EXCEPT !.pc = "remove", !.todo = ids].pc = "remove"
        BY <1>0 DEF TypeOK, Locals
      <3>3. \A q \in InFlight' : q \in InFlight /\ req'[q] = req[q]
        BY <1>0, <3>1, <3>2, QuietReq
      <3> QED
        BY <1>10, <3>3 DEF StartRemoval, Quiet
    <2> QED
      BY <2>1, <2>2
  <1>11. ASSUME NEW r \in Request, RemoveOne(r) PROVE Quiet
    <2>1. /\ \A s \in Sid : session'[s] \in {session[s], Null}
          /\ \A k \in IndexKey : userSessions'[k] \subseteq userSessions[k]
      BY <1>0, <1>11 DEF RemoveOne, TypeOK
    <2>2. CASE Finish(r)
      BY <1>11, <1>q, <2>1, <2>2 DEF RemoveOne, Quiet
    <2>3. CASE ~Finish(r)
      <3>1. PICK s \in req[r].todo :
              req' = [req EXCEPT ![r] =
                        [req[r] EXCEPT !.pc = AfterRound(r, s),
                                       !.todo = req[r].todo \ {s}]]
        BY <1>11, <2>3 DEF RemoveOne
      <3>2. [req[r] EXCEPT !.pc = AfterRound(r, s),
                           !.todo = req[r].todo \ {s}].pc
              \notin {"store", "update"}
        BY <1>0 DEF TypeOK, Locals, AfterRound
      <3>3. \A q \in InFlight' : q \in InFlight /\ req'[q] = req[q]
        BY <1>0, <3>1, <3>2, QuietReq
      <3> QED
        BY <1>11, <2>1, <3>3 DEF RemoveOne, Quiet
    <2> QED
      BY <2>2, <2>3
  <1>12. ASSUME NEW r \in Request, Recheck(r) PROVE Quiet
    <2>1. CASE Finish(r)
      BY <1>12, <1>q, <2>1 DEF Recheck, Quiet
    <2>2. CASE Goto(r, "unlink")
      <3>1. \A q \in InFlight' : q \in InFlight /\ req'[q] = req[q]
        BY <1>0, <2>2 DEF Goto, InFlight, TypeOK, Locals
      <3> QED
        BY <1>12, <3>1 DEF Recheck, Quiet
    <2> QED
      BY <1>12, <2>1, <2>2 DEF Recheck
  <1>13. ASSUME NEW r \in Request, Unlink(r) PROVE Quiet
    BY <1>0, <1>13, <1>q DEF Unlink, Quiet, TypeOK
  <1>14. ASSUME NEW r \in Request, Fail(r) PROVE Quiet
    BY <1>14, <1>q DEF Fail, Quiet
  <1>15. ASSUME NEW s \in Sid, Expire(s) PROVE Quiet
    BY <1>0, <1>15 DEF Expire, Quiet, TypeOK, InFlight
  <1>16. ASSUME NEW u \in User, SoftDelete(u) \/ Restore(u) PROVE Quiet
    BY <1>16 DEF SoftDelete, Restore, Quiet, InFlight
  <1>17. CASE UNCHANGED vars
    BY <1>17 DEF vars, Quiet, InFlight
  <1> QED
    BY <1>1, <1>2, <1>3, <1>4, <1>5, <1>6, <1>7, <1>8, <1>9, <1>10, <1>11,
       <1>12, <1>13, <1>14, <1>15, <1>16, <1>17
    DEF Next, Arrive, Step, Environment, AllOps

\* What is in force, and what requests hold, stays whole.
LEMMA WholeStep ==
    ASSUME IInv, [Next]_vars
    PROVE  StoredWhole' /\ InFlightWhole'
  <1>0. /\ TypeOK /\ StoredWhole /\ InFlightWhole /\ Grows
    BY StepGrows DEF IInv
  <1>t. TypeOK'
    BY TypeStep
  <1>1. ASSUME NEW r \in Request, JustSigned(r)
        PROVE  StoredWhole' /\ InFlightWhole'
    <2>1. StoredWhole'
      BY <1>0, <1>1, WholeStable DEF JustSigned, StoredWhole
    <2>2. ASSUME NEW q \in InFlight' PROVE Whole(req[q].data)'
      <3>1. CASE q = r
        BY <1>1, <3>1 DEF JustSigned
      <3>2. CASE q # r
        <4>1. q \in InFlight /\ req'[q] = req[q]
          BY <1>1, <2>2, <3>2 DEF JustSigned, InFlight
        <4>2. Whole(req[q].data)
          BY <1>0, <4>1 DEF InFlightWhole
        <4> QED
          BY <1>0, <4>1, <4>2, WholeStable
      <3> QED
        BY <3>1, <3>2
    <2> QED
      BY <2>1, <2>2 DEF InFlightWhole
  <1>2. ASSUME NEW r \in Request, Writes(r)
        PROVE  StoredWhole' /\ InFlightWhole'
    <2>0. PICK d : d = req[r].data
      OBVIOUS
    <2>1. Whole(d) /\ d.sessionId \in Sid
      BY <1>0, <1>2, <2>0 DEF Writes, InFlightWhole, Whole, SessionData
    <2>2. ASSUME NEW s \in Sid, session'[s] # Null
          PROVE  Whole(session[s])' /\ session'[s].sessionId = s
      <3>1. CASE s = d.sessionId
        <4>1. session'[s] = d
          BY <1>0, <1>2, <2>0, <2>1, <3>1 DEF Writes, TypeOK
        <4>2. Whole(d)'
          BY <1>0, <2>1, WholeStable
        <4> QED
          BY <3>1, <4>1, <4>2 DEF Whole
      <3>2. CASE s # d.sessionId
        <4>1. session'[s] = session[s]
          BY <1>0, <1>2, <2>0, <2>1, <3>2 DEF Writes, TypeOK
        <4>2. Whole(session[s]) /\ session[s].sessionId = s
          BY <1>0, <2>2, <4>1 DEF StoredWhole
        <4> QED
          BY <1>0, <4>1, <4>2, WholeStable
      <3> QED
        BY <3>1, <3>2
    <2>3. ASSUME NEW q \in InFlight' PROVE Whole(req[q].data)'
      <3>1. q \in InFlight /\ req'[q] = req[q]
        BY <1>0, <1>2 DEF Writes, InFlight, Idle, TypeOK
      <3>2. Whole(req[q].data)
        BY <1>0, <3>1 DEF InFlightWhole
      <3> QED
        BY <1>0, <3>1, <3>2, WholeStable
    <2> QED
      BY <2>2, <2>3 DEF StoredWhole, InFlightWhole
  <1>3. ASSUME Quiet
        PROVE  StoredWhole' /\ InFlightWhole'
    <2>1. StoredWhole'
      BY <1>0, <1>3, WholeStable DEF Quiet, StoredWhole
    <2>2. ASSUME NEW q \in InFlight' PROVE Whole(req[q].data)'
      <3>1. q \in InFlight /\ req'[q] = req[q]
        BY <1>3 DEF Quiet
      <3>2. Whole(req[q].data)
        BY <1>0, <3>1 DEF InFlightWhole
      <3> QED
        BY <1>0, <3>1, <3>2, WholeStable
    <2> QED
      BY <2>1, <2>2 DEF InFlightWhole
  <1> QED
    BY <1>1, <1>2, <1>3, StepShape

\* No pair is signed twice, so what a request holds stays new until it writes.
LEMMA NewStep ==
    ASSUME IInv, [Next]_vars
    PROVE  InFlightNew'
  <1>0. TypeOK /\ StoredWhole /\ InFlightWhole /\ InFlightNew /\ Grows
    BY StepGrows DEF IInv
  <1>i. ASSUME NEW q \in InFlight
        PROVE  /\ req[q].data \in SessionData
               /\ req[q].data.sessionId \in Sid
               /\ req[q].data.jwtRefreshId \in Pair
               /\ claims[req[q].data.jwtRefreshId] # Null
               /\ claims[req[q].data.jwtRefreshId].sessionId
                     = req[q].data.sessionId
               /\ claims'[req[q].data.jwtRefreshId]
                     = claims[req[q].data.jwtRefreshId]
    BY <1>0, <1>i DEF InFlightWhole, Whole, SessionData, Grows
  <1>1. ASSUME NEW r \in Request, JustSigned(r) PROVE InFlightNew'
    <2>0. PICK p : p = req'[r].data.jwtRefreshId
      OBVIOUS
    <2>1. /\ claims[p] = Null
          /\ claims'[p].sessionId \in Sid
      BY <1>1, <2>0 DEF JustSigned, Whole, SessionData
    <2>2. ASSUME NEW q \in InFlight', q # r
          PROVE  q \in InFlight /\ req'[q] = req[q]
      BY <1>1, <2>2 DEF JustSigned, InFlight
    <2>3. ~InForce(p)'
      <3>0. PICK s : s = claims'[p].sessionId
        OBVIOUS
      <3>1. session'[s] = session[s] /\ s \in Sid
        BY <1>1, <2>1, <3>0 DEF JustSigned
      <3>2. session[s] # Null => claims[session[s].jwtRefreshId] # Null
        BY <1>0, <3>1 DEF StoredWhole, Whole
      <3> QED
        BY <2>1, <3>0, <3>1, <3>2 DEF InForce
    <2>4. ASSUME NEW q \in InFlight', q # r
          PROVE  ~InForce(req[q].data.jwtRefreshId)'
      <3>1. ~InForce(req[q].data.jwtRefreshId)
        BY <1>0, <2>2, <2>4 DEF InFlightNew
      <3> QED
        BY <1>1, <1>i, <2>2, <2>4, <3>1 DEF InForce, JustSigned
    <2>5. ASSUME NEW q \in InFlight', q # r
          PROVE  req'[q].data.jwtRefreshId # p
      BY <1>i, <2>1, <2>2, <2>5
    <2>6. ASSUME NEW q \in InFlight'
          PROVE  ~InForce(req[q].data.jwtRefreshId)'
      BY <2>0, <2>3, <2>4, <2>6
    <2>7. ASSUME NEW q \in InFlight', NEW x \in InFlight', q # r, x # r, q # x
          PROVE  req'[q].data.jwtRefreshId # req'[x].data.jwtRefreshId
      BY <1>0, <2>2, <2>7 DEF InFlightNew
    <2> QED
      BY <2>0, <2>5, <2>6, <2>7 DEF InFlightNew
  <1>2. ASSUME NEW r \in Request, Writes(r) PROVE InFlightNew'
    <2>1. ASSUME NEW q \in InFlight'
          PROVE  q \in InFlight /\ req'[q] = req[q] /\ q # r
      BY <1>0, <1>2 DEF Writes, InFlight, Idle, TypeOK
    <2>2. ASSUME NEW q \in InFlight'
          PROVE  ~InForce(req[q].data.jwtRefreshId)'
      <3> DEFINE p == req[q].data.jwtRefreshId
      <3>1. q \in InFlight /\ req'[q] = req[q] /\ q # r /\ r \in InFlight
        BY <1>2, <2>1 DEF Writes
      <3>2. ~InForce(p) /\ req[r].data.jwtRefreshId # p
        BY <1>0, <3>1 DEF InFlightNew
      <3>3. /\ claims'[p] = claims[p]
            /\ claims[p].sessionId \in Sid
            /\ req[r].data.sessionId \in Sid
        BY <1>i, <3>1
      <3>4. session'[claims[p].sessionId]
              \in {session[claims[p].sessionId], req[r].data}
        BY <1>0, <1>2, <3>3 DEF Writes, TypeOK
      <3> QED
        BY <3>1, <3>2, <3>3, <3>4 DEF InForce
    <2> QED
      BY <1>0, <2>1, <2>2 DEF InFlightNew
  <1>3. ASSUME Quiet PROVE InFlightNew'
    <2>1. ASSUME NEW q \in InFlight'
          PROVE  ~InForce(req[q].data.jwtRefreshId)'
      <3>1. q \in InFlight /\ req'[q] = req[q]
        BY <1>3 DEF Quiet
      <3>2. ~InForce(req[q].data.jwtRefreshId)
        BY <1>0, <3>1 DEF InFlightNew
      <3> QED
        BY <1>3, <1>i, <3>1, <3>2 DEF InForce, Quiet
    <2> QED
      BY <1>0, <1>3, <2>1 DEF InFlightNew, Quiet
  <1> QED
    BY <1>1, <1>2, <1>3, StepShape

\* Clients hold signed pairs only, for drawn session ids.
LEMMA MintedStep ==
    ASSUME IInv, [Next]_vars
    PROVE  Minted'
  <1>0. TypeOK /\ Minted /\ InFlightWhole /\ Grows
    BY StepGrows DEF IInv
  <1>s. ASSUME NEW p \in Pair, claims[p] # Null, claims'[p] = claims[p]
        PROVE  owner'[claims'[p].sessionId] # Null
    <2>1. owner[claims[p].sessionId] # Null
      BY <1>0, <1>s DEF Minted
    <2>2. claims[p].sessionId \in Sid
      BY <1>0, <1>s DEF TypeOK, Claims
    <2> QED
      BY <1>0, <1>s, <2>1, <2>2 DEF Grows
  <1>1. ASSUME NEW r \in Request, JustSigned(r) PROVE Minted'
    <2>0. PICK d : d = req'[r].data
      OBVIOUS
    <2>1. Whole(d)'
      BY <1>1, <2>0 DEF JustSigned, Whole
    <2>2. owner'[claims'[d.jwtRefreshId].sessionId] # Null
      BY <2>1, SessionsAssumption DEF Whole, SessionData
    <2>3. \A p \in Pair : claims'[p] # Null
                           => owner'[claims'[p].sessionId] # Null
      BY <1>1, <1>s, <2>0, <2>2 DEF JustSigned
    <2>4. \A p \in delivered' : claims'[p] # Null
      BY <1>0, <1>1 DEF JustSigned, Minted, TypeOK, Grows
    <2> QED
      BY <2>3, <2>4 DEF Minted
  <1>2. ASSUME NEW r \in Request, Writes(r) PROVE Minted'
    <2>1. claims[req[r].data.jwtRefreshId] # Null
      BY <1>0, <1>2 DEF Writes, InFlightWhole, Whole
    <2> QED
      BY <1>0, <1>2, <1>s, <2>1 DEF Writes, Minted
  <1>3. ASSUME Quiet PROVE Minted'
    BY <1>0, <1>3, <1>s DEF Quiet, Minted
  <1> QED
    BY <1>1, <1>2, <1>3, StepShape

\* The index of a user gains the sessions of that user, and no others.
LEMMA IndexStep ==
    ASSUME IInv, [Next]_vars
    PROVE  IndexSound'
  <1>0. TypeOK /\ InFlightWhole /\ IndexSound /\ Grows
    BY StepGrows DEF IInv
  <1> SUFFICES ASSUME NEW u \in User, NEW s \in userSessions'[u]
               PROVE  owner'[s] = u
    BY DEF IndexSound
  <1>u. u \in IndexKey /\ u # Null
    BY SessionsAssumption DEF IndexKey
  <1>1. CASE s \in userSessions[u]
    <2>1. owner[s] = u /\ s \in Sid
      BY <1>0, <1>1, <1>u DEF IndexSound, TypeOK
    <2> QED
      BY <1>0, <1>u, <2>1 DEF Grows
  <1>2. CASE s \notin userSessions[u]
    <2>1. PICK r \in InFlight : u = req[r].data.userId /\ s = req[r].data.sessionId
      BY <1>2, <1>u, StepShape DEF JustSigned, Writes, Quiet
    <2>2. owner[s] = u /\ s \in Sid
      BY <1>0, <2>1 DEF InFlightWhole, Whole, SessionData
    <2> QED
      BY <1>0, <1>u, <2>2 DEF Grows
  <1> QED
    BY <1>1, <1>2

LEMMA DeliveredGrows ==
    ASSUME IInv, [Next]_vars
    PROVE  delivered \subseteq delivered'
  BY StepShape DEF JustSigned, Writes, Quiet

\* What a request carries fits its next step, the guard's findings included.
LEMMA LocalsStep ==
    ASSUME IInv, [Next]_vars
    PROVE  LocalsFit'
  <1>0. TypeOK /\ Minted /\ LocalsFit /\ delivered \subseteq delivered'
    BY DeliveredGrows DEF IInv
  <1>f. ASSUME NEW r \in Request, NEW l, Fit(l)', req' = [req EXCEPT ![r] = l]
        PROVE  LocalsFit'
    BY <1>0, <1>f DEF LocalsFit, Fit, TypeOK
  <1>q. ASSUME NEW r \in Request, Finish(r) PROVE LocalsFit'
    BY <1>f, <1>q DEF Finish, Fit, Idle
  <1>n. ASSUME NEW l, l.pc \notin {"save", "lookup", "handle"} PROVE Fit(l)'
    BY <1>n DEF Fit
  <1>1. ASSUME NEW r \in Request, NEW u, NEW o, OpenSession(r, o, u)
        PROVE  LocalsFit'
    <2>1. PICK d : req' = [req EXCEPT ![r] =
                             [Idle EXCEPT !.pc = "store", !.op = o, !.data = d]]
      BY <1>1 DEF OpenSession
    <2> QED
      BY <1>f, <1>n, <2>1 DEF Idle
  <1>2. ASSUME NEW r \in Request, NEW o \in AllOps, NEW u \in User,
               ReadUser(r, o, u)
        PROVE  LocalsFit'
    <2>1. PICK b \in BOOLEAN : req' = [req EXCEPT ![r] =
             [Idle EXCEPT !.pc = "save", !.op = o, !.who = u, !.active = b]]
      BY <1>2 DEF ReadUser
    <2> QED
      BY <1>f, <2>1 DEF Idle, Fit
  <1>3. ASSUME NEW r \in Request, NEW o \in AllOps, NEW n \in Pair,
               Authenticate(r, o, n)
        PROVE  LocalsFit'
    <2>1. PICK ids \in Named(o) :
             req' = [req EXCEPT ![r] = [Idle EXCEPT !.pc = "lookup", !.op = o,
                                          !.token = n,
                                          !.sid = claims[n].sessionId,
                                          !.todo = ids]]
      BY <1>3 DEF Authenticate
    <2>2. n \in delivered' /\ claims[n].sessionId \in Sid
      BY <1>0, <1>3 DEF Authenticate, Minted, TypeOK, Claims
    <2> QED
      BY <1>f, <2>1, <2>2 DEF Idle, Fit
  <1>4. ASSUME NEW r \in Request, ResolveUser(r) PROVE LocalsFit'
    <2>1. PICK u : req' = [req EXCEPT ![r] =
                             [req[r] EXCEPT !.pc = "handle", !.who = u]]
      BY <1>4 DEF ResolveUser
    <2>2. req[r].sid \in Sid
      BY <1>0, <1>4 DEF ResolveUser, LocalsFit, Fit
    <2>3. /\ [req[r] EXCEPT !.pc = "handle", !.who = u].pc = "handle"
          /\ [req[r] EXCEPT !.pc = "handle", !.who = u].sid = req[r].sid
      BY <1>0 DEF TypeOK, Locals
    <2> QED
      BY <1>f, <2>1, <2>2, <2>3 DEF Fit
  <1>5. ASSUME NEW r \in Request, RefreshLoad(r) PROVE LocalsFit'
    <2>1. CASE Finish(r)
      BY <1>q, <2>1
    <2>2. CASE ~Finish(r)
      <3>1. PICK d : req' = [req EXCEPT ![r] =
                               [req[r] EXCEPT !.pc = "update", !.data = d]]
        BY <1>5, <2>2 DEF RefreshLoad
      <3>2. [req[r] EXCEPT !.pc = "update", !.data = d].pc = "update"
        BY <1>0 DEF TypeOK, Locals
      <3> QED
        BY <1>f, <1>n, <3>1, <3>2
    <2> QED
      BY <2>1, <2>2
  <1>6. ASSUME NEW r \in Request, StartRemoval(r) PROVE LocalsFit'
    <2>1. CASE Finish(r)
      BY <1>q, <2>1
    <2>2. CASE ~Finish(r)
      <3>1. PICK ids : req' = [req EXCEPT ![r] =
                                 [req[r] EXCEPT !.pc = "remove", !.todo = ids]]
        BY <1>6, <2>2 DEF StartRemoval
      <3>2. [req[r] EXCEPT !.pc = "remove", !.todo = ids].pc = "remove"
        BY <1>0 DEF TypeOK, Locals
      <3> QED
        BY <1>f, <1>n, <3>1, <3>2
    <2> QED
      BY <2>1, <2>2
  <1>7. ASSUME NEW r \in Request, RemoveOne(r) PROVE LocalsFit'
    <2>1. CASE Finish(r)
      BY <1>q, <2>1
    <2>2. CASE ~Finish(r)
      <3>1. PICK s \in req[r].todo :
              req' = [req EXCEPT ![r] =
                        [req[r] EXCEPT !.pc = AfterRound(r, s),
                                       !.todo = req[r].todo \ {s}]]
        BY <1>7, <2>2 DEF RemoveOne
      <3>2. [req[r] EXCEPT !.pc = AfterRound(r, s),
                           !.todo = req[r].todo \ {s}].pc
              \notin {"save", "lookup", "handle"}
        BY <1>0 DEF TypeOK, Locals, AfterRound
      <3> QED
        BY <1>f, <1>n, <3>1, <3>2
    <2> QED
      BY <2>1, <2>2
  <1>8. ASSUME NEW r \in Request, Recheck(r) PROVE LocalsFit'
    <2>1. CASE Finish(r)
      BY <1>q, <2>1
    <2>2. CASE Goto(r, "unlink")
      BY <1>0, <2>2 DEF Goto, LocalsFit, Fit, TypeOK, Locals
    <2> QED
      BY <1>8, <2>1, <2>2 DEF Recheck
  <1>9. CASE UNCHANGED req
    BY <1>0, <1>9 DEF LocalsFit, Fit
  <1> QED
    BY <1>1, <1>2, <1>3, <1>4, <1>5, <1>6, <1>7, <1>8, <1>9, <1>q
    DEF Next, vars, Arrive, Step, Environment, AllOps, Login, SaveUser,
        StoreSession, RefreshUpdate, Logout, Unlink, Fail, Expire, SoftDelete,
        Restore

LEMMA StepInv == IInv /\ [Next]_vars => IInv'
  BY TypeStep, MintedStep, LocalsStep, WholeStep, NewStep, IndexStep DEF IInv

\* The invariant holds in every reachable state.
THEOREM Invariance == Spec => []IInv
  BY InitInv, StepInv, PTL DEF Spec

\* Every variable keeps its type, for any number of requests, users, session
\* ids and pairs.
THEOREM TypeCorrect == Spec => []TypeOK
  <1>1. IInv => TypeOK
    BY DEF IInv
  <1> QED
    BY Invariance, <1>1, PTL

\* A stored session is what one signTokens call made, for that session and its
\* owner, however concurrent refreshes, logouts and failures interleave.
THEOREM SessionsWhole == Spec => []SlotIntegrity
  <1>1. IInv => SlotIntegrity
    BY DEF IInv, StoredWhole, Whole, SlotIntegrity
  <1> QED
    BY Invariance, <1>1, PTL

\* No user's index ever holds another user's session.
THEOREM IndexIsSound == Spec => []IndexSound
  <1>1. IInv => IndexSound
    BY DEF IInv
  <1> QED
    BY Invariance, <1>1, PTL
=============================================================================
