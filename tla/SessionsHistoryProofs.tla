------------------------ MODULE SessionsHistoryProofs ------------------------
(* Proofs about Sessions that need to know what was done before: whom the     *)
(* guards let in, what brings a logged-out session back, and which sessions   *)
(* an index lists, for every value of the constants.                          *)
EXTENDS SessionsProofs

-----------------------------------------------------------------------------
(* How a request moves *)

\* What a request holds from the guards on.
Guarded == {"lookup", "handle", "update", "remove", "recheck", "unlink"}
Removing == {"remove", "recheck", "unlink"}

\* A login, or a save, has drawn a session id and signed a pair for it.
Opened(r) ==
    /\ r \notin InFlight
    /\ req'[r].pc = "store" /\ req'[r].todo = {}
    /\ req'[r].data.sessionId \in Sid
    /\ owner[req'[r].data.sessionId] = Null

\* A handler has read the user it is to save.
HasRead(r) == req'[r].pc = "save" /\ req'[r].todo = {}

\* The first await of a guard: the token's session is in force.
Entered(r) ==
    /\ req'[r].pc = "lookup" /\ req'[r].op \in Ops
    /\ req'[r].token \in delivered
    /\ req'[r].sid = claims[req'[r].token].sessionId
    /\ \A s \in req'[r].todo : s \in Known

\* The second: the token's user was looked up.
Resolved(r) ==
    /\ req[r].pc = "lookup"
    /\ req'[r].pc = "handle" /\ req'[r].who \in Found(claims[req[r].token].sub)
    /\ req'[r].op = req[r].op /\ req'[r].sid = req[r].sid
    /\ req'[r].todo = req[r].todo

\* A refresh has loaded its session and signed a pair for it.
Loaded(r) ==
    /\ req[r].pc = "handle"
    /\ req'[r].pc = "update" /\ req'[r].data.sessionId = req[r].sid
    /\ req'[r].op = req[r].op /\ req'[r].sid = req[r].sid
    /\ req'[r].who = req[r].who /\ req'[r].todo = req[r].todo

\* removeAllSessions goes on.
Removes(r) ==
    /\ req[r].pc \in {"handle", "remove", "recheck"}
    /\ req'[r].pc \in Removing
    /\ req[r].pc = "handle" => req[r].op \in {"logoutAll", "logoutSessions"}
    /\ req'[r].op = req[r].op /\ req'[r].sid = req[r].sid
    /\ req'[r].who = req[r].who
    /\ req'[r].todo \subseteq req[r].todo \cup userSessions[req[r].who]

Moved(r) == \/ req'[r] \in {req[r], Idle}
            \/ Opened(r) \/ HasRead(r) \/ Entered(r)
            \/ Resolved(r) \/ Loaded(r) \/ Removes(r)

-----------------------------------------------------------------------------
(* The inductive invariant *)

\* A client was given a token of session s.
Announced(s) == \E p \in delivered : claims[p].sessionId = s

\* Nothing has happened to session s, and no client knows of it.
Untouched(s) ==
    /\ session[s] = Null
    /\ s \notin loggedOut
    /\ \A k \in IndexKey : s \notin userSessions[k]
    /\ \A r \in Request : s \notin req[r].todo
    /\ ~Announced(s)

\* A guarded request works on a session its client has a token of; it got past
\* the guards with an operation of this instance.
Presented ==
    \A r \in Request :
        /\ req[r].pc \in Guarded => Announced(req[r].sid) /\ req[r].op \in Ops
        /\ req[r].pc = "lookup" => claims[req[r].token].sessionId = req[r].sid
        /\ req[r].pc = "update" => req[r].data.sessionId = req[r].sid
        /\ req[r].pc \in Removing => req[r].op \in {"logoutAll", "logoutSessions"}

\* Session ids that were not drawn, or are about to be stored for the first
\* time, are untouched, and no two requests draw the same.
NewUntouched ==
    /\ \A s \in Sid : owner[s] = Null => Untouched(s)
    /\ \A r \in Request : req[r].pc = "store" => Untouched(req[r].data.sessionId)
    /\ \A r, q \in Request :
         req[r].pc = "store" /\ req[q].pc = "store" /\ r # q
           => req[r].data.sessionId # req[q].data.sessionId

\* A pair without a subject was signed for session s.
Orphaned(s) == \E p \in Pair : /\ claims[p] # Null
                               /\ claims[p].sessionId = s
                               /\ claims[p].sub = Null

\* Tokens name the owner of their session, and guards let nobody else through,
\* unless a pair without a subject was signed for that session.
SubjectsOwn ==
    /\ \A p \in Pair : claims[p] # Null =>
          \/ claims[p].sub = owner[claims[p].sessionId]
          \/ Orphaned(claims[p].sessionId)
    /\ \A r \in Request : req[r].pc = "handle" =>
          \/ req[r].who \in {owner[req[r].sid], Null}
          \/ Orphaned(req[r].sid)

History == IInv /\ Presented /\ NewUntouched /\ SubjectsOwn

\* The user is active, from its first session on.
InStanding(u) == (\E s \in Sid : owner[s] = u) => u \in verified \ deleted

\* Requests in the user's sessions act for the user.
ActsAs(u) ==
    \A r \in Request :
        req[r].pc \in Guarded \ {"lookup"} /\ owner[req[r].sid] = u => req[r].who = u

\* So do the tokens of these sessions.
NamedBy(u) ==
    \A p \in Pair : claims[p] # Null /\ owner[claims[p].sessionId] = u
                       => claims[p].sub = u

-----------------------------------------------------------------------------
(* What a step does *)

LEMMA StepMoves ==
    ASSUME IInv, [Next]_vars, NEW q \in Request
    PROVE  Moved(q)
  <1>0. TypeOK /\ Minted /\ LocalsFit
    BY DEF IInv
  <1>f. ASSUME NEW r \in Request, Finish(r) PROVE Moved(q)
    BY <1>0, <1>f DEF Finish, Moved, TypeOK
  <1>o. ASSUME NEW r \in Request, NEW u, NEW o, OpenSession(r, o, u), r \notin InFlight
        PROVE  Moved(q)
    <2>1. PICK s \in FreshSids, p \in Fresh :
            req' = [req EXCEPT ![r] =
                      [Idle EXCEPT !.pc = "store", !.op = o,
                        !.data = [userId |-> u, sessionId |-> s,
                                  jwtAccessId |-> p, jwtRefreshId |-> p]]]
      BY <1>o DEF OpenSession
    <2>2. r = q => Opened(q)
      BY <1>0, <1>o, <2>1 DEF Opened, Idle, FreshSids, TypeOK
    <2> QED
      BY <1>0, <2>1, <2>2 DEF Moved, TypeOK
  <1>1. ASSUME NEW r \in Request, NEW u \in User, Login(r, u) PROVE Moved(q)
    BY <1>1, <1>o DEF Login, InFlight, Idle
  <1>2. ASSUME NEW r \in Request, NEW o \in AllOps, NEW u \in User,
               ReadUser(r, o, u)
        PROVE  Moved(q)
    <2>1. r = q => HasRead(q)
      BY <1>0, <1>2 DEF ReadUser, HasRead, Idle, TypeOK
    <2> QED
      BY <1>0, <1>2, <2>1 DEF ReadUser, Moved, TypeOK
  <1>3. ASSUME NEW r \in Request, SaveUser(r) PROVE Moved(q)
    BY <1>3, <1>o DEF SaveUser, InFlight
  <1>4. ASSUME NEW r \in Request, NEW o \in AllOps, NEW n \in Pair,
               Authenticate(r, o, n)
        PROVE  Moved(q)
    <2>1. PICK ids \in Named(o) :
             req' = [req EXCEPT ![r] = [Idle EXCEPT !.pc = "lookup", !.op = o,
                                          !.token = n,
                                          !.sid = claims[n].sessionId,
                                          !.todo = ids]]
      BY <1>4 DEF Authenticate
    <2>2. \A p \in delivered : claims[p].sessionId \in Sid
      BY <1>0 DEF Minted, TypeOK, Claims
    <2>3. ids \subseteq Known
      BY <2>1, <2>2 DEF Named, Known
    <2>4. o \in Ops /\ n \in delivered
      BY <1>4 DEF Authenticate
    <2>5. r = q => Entered(q)
      BY <1>0, <2>1, <2>3, <2>4 DEF Entered, Idle, TypeOK
    <2> QED
      BY <1>0, <2>1, <2>5 DEF Moved, TypeOK
  <1>5. ASSUME NEW r \in Request, ResolveUser(r) PROVE Moved(q)
    <2>1. PICK u \in Found(claims[req[r].token].sub) :
             req' = [req EXCEPT ![r] = [req[r] EXCEPT !.pc = "handle", !.who = u]]
      BY <1>5 DEF ResolveUser
    <2>2. r = q => Resolved(q)
      BY <1>0, <1>5, <2>1 DEF ResolveUser, Resolved, TypeOK, Locals
    <2> QED
      BY <1>0, <2>1, <2>2 DEF Moved, TypeOK
  <1>6. ASSUME NEW r \in Request, RefreshLoad(r) PROVE Moved(q)
    <2>1. CASE Finish(r)
      BY <1>f, <2>1
    <2>2. CASE ~Finish(r)
      <3>1. PICK p \in Pair :
              /\ session[req[r].sid] # Null
              /\ req' = [req EXCEPT ![r] = [req[r] EXCEPT !.pc = "update",
                                                     !.data = Refreshed(r, p)]]
        BY <1>6, <2>2 DEF RefreshLoad, Fresh
      <3>2. req[r].sid \in Sid
        BY <1>0, <1>6 DEF RefreshLoad, LocalsFit, Fit
      <3>3. Refreshed(r, p).sessionId = req[r].sid
        BY <3>1, <3>2 DEF IInv, StoredWhole, Whole, SessionData, Refreshed
      <3>4. r = q => Loaded(q)
        BY <1>0, <1>6, <3>1, <3>3 DEF RefreshLoad, Loaded, TypeOK, Locals
      <3> QED
        BY <1>0, <3>1, <3>4 DEF Moved, TypeOK
    <2> QED
      BY <2>1, <2>2
  <1>7. ASSUME NEW r \in Request, StartRemoval(r) PROVE Moved(q)
    <2>1. CASE Finish(r)
      BY <1>f, <2>1
    <2>2. CASE ~Finish(r)
      <3>1. PICK ids :
              /\ ids \subseteq req[r].todo \cup userSessions[req[r].who]
              /\ req' = [req EXCEPT ![r] = [req[r] EXCEPT !.pc = "remove",
                                                     !.todo = ids]]
        BY <1>7, <2>2 DEF StartRemoval
      <3>2. r = q => Removes(q)
        BY <1>0, <1>7, <3>1 DEF StartRemoval, Removes, Removing, TypeOK, Locals
      <3> QED
        BY <1>0, <3>1, <3>2 DEF Moved, TypeOK
    <2> QED
      BY <2>1, <2>2
  <1>8. ASSUME NEW r \in Request, RemoveOne(r) PROVE Moved(q)
    <2>1. CASE Finish(r)
      BY <1>f, <2>1
    <2>2. CASE ~Finish(r)
      <3>1. PICK s \in req[r].todo :
              req' = [req EXCEPT ![r] =
                        [req[r] EXCEPT !.pc = AfterRound(r, s),
                                       !.todo = req[r].todo \ {s}]]
        BY <1>8, <2>2 DEF RemoveOne
      <3>2. AfterRound(r, s) \in Removing
        BY DEF AfterRound, Removing
      <3>3. r = q => Removes(q)
        BY <1>0, <1>8, <3>1, <3>2 DEF RemoveOne, Removes, TypeOK, Locals
      <3> QED
        BY <1>0, <3>1, <3>3 DEF Moved, TypeOK
    <2> QED
      BY <2>1, <2>2
  <1>9. ASSUME NEW r \in Request, Recheck(r) PROVE Moved(q)
    <2>1. CASE Finish(r)
      BY <1>f, <2>1
    <2>2. CASE Goto(r, "unlink")
      <3>1. r = q => Removes(q)
        BY <1>0, <1>9, <2>2 DEF Recheck, Goto, Removes, Removing, TypeOK, Locals
      <3> QED
        BY <1>0, <2>2, <3>1 DEF Goto, Moved, TypeOK
    <2> QED
      BY <1>9, <2>1, <2>2 DEF Recheck
  <1>10. CASE UNCHANGED req
    BY <1>10 DEF Moved
  <1> QED
    BY <1>f, <1>1, <1>2, <1>3, <1>4, <1>5, <1>6, <1>7, <1>8, <1>9, <1>10
    DEF Next, vars, Arrive, Step, Environment, AllOps, StoreSession,
        RefreshUpdate, Logout, Unlink, Fail, Expire, SoftDelete, Restore

\* A logout removes, or says it removed, what its request names.
LEMMA LogoutsNamed ==
    ASSUME [Next]_vars, NEW s \in loggedOut' \ loggedOut
    PROVE  \E r \in Request : s \in req[r].todo
  BY DEF Next, vars, Arrive, Step, Environment, Login, ReadUser, SaveUser,
         StoreSession, Authenticate, ResolveUser, RefreshLoad, RefreshUpdate,
         Logout, StartRemoval, RemoveOne, Recheck, Unlink, Fail, Expire,
         SoftDelete, Restore

\* A pair that is signed names the owner of the session it opens, or the user
\* the guard found for the session it refreshes.
SignedBy(p) ==
    \/ claims'[p].sub = owner'[claims'[p].sessionId]
    \/ \E r \in Request : /\ req[r].pc = "handle"
                          /\ claims'[p] = NewClaims(req[r].sid, req[r].who)

LEMMA StepSigns ==
    ASSUME IInv, [Next]_vars, NEW p \in Pair
    PROVE  claims'[p] = claims[p] \/ SignedBy(p)
  <1>0. TypeOK
    BY DEF IInv
  <1>1. ASSUME NEW r, NEW u, NEW o, OpenSession(r, o, u)
        PROVE  claims'[p] = claims[p] \/ SignedBy(p)
    <2>1. PICK s \in FreshSids, n \in Fresh :
            /\ claims' = [claims EXCEPT ![n] = NewClaims(s, u)]
            /\ owner' = [owner EXCEPT ![s] = u]
      BY <1>1 DEF OpenSession
    <2> QED
      BY <1>0, <2>1 DEF SignedBy, NewClaims, TypeOK, FreshSids
  <1>2. ASSUME NEW r \in Request, RefreshLoad(r)
        PROVE  claims'[p] = claims[p] \/ SignedBy(p)
    BY <1>0, <1>2 DEF RefreshLoad, SignedBy, TypeOK
  <1>3. CASE UNCHANGED claims
    BY <1>3
  <1> QED
    BY <1>1, <1>2, <1>3
    DEF Next, vars, Arrive, Step, Environment, Login, ReadUser, SaveUser,
        StoreSession, Authenticate, ResolveUser, RefreshUpdate, Logout,
        StartRemoval, RemoveOne, Recheck, Unlink, Fail, Expire, SoftDelete,
        Restore, minted

\* A session leaves its user's index when it is removed, or with the index.
LEMMA IndexShrinks ==
    ASSUME IInv, [Next]_vars, NEW u \in User, NEW s \in userSessions[u],
           s \notin userSessions'[u]
    PROVE  \/ session'[s] = Null /\ \E r \in Request : req[r].pc = "remove"
           \/ \E r \in Request : req[r].pc = "unlink" /\ req[r].who = u
  <1>0. TypeOK /\ InFlightWhole /\ u \in IndexKey
    BY DEF IInv, IndexKey
  <1>1. ASSUME NEW r \in Request, StoreSession(r) PROVE FALSE
    <2>1. req[r].data.userId \in IndexKey
      BY <1>0, <1>1 DEF StoreSession, InFlight, InFlightWhole, Whole, SessionData, IndexKey
    <2> QED
      BY <1>0, <1>1, <2>1 DEF StoreSession, TypeOK
  <1>2. ASSUME NEW r \in Request, Logout(r) PROVE FALSE
    <2>1. \A t \in req[r].todo : t \in Sid /\ t # u
      BY <1>0, SessionsAssumption DEF TypeOK, Locals
    <2> QED
      BY <1>0, <1>2, <2>1 DEF Logout, LogoutIndex, store, TypeOK
  <1>3. ASSUME NEW r \in Request, RemoveOne(r)
        PROVE  session'[s] = Null /\ req[r].pc = "remove"
    <2>1. s \in Sid
      BY <1>0 DEF TypeOK
    <2> QED
      BY <1>0, <1>3, <2>1 DEF RemoveOne, TypeOK
  <1>4. ASSUME NEW r \in Request, Unlink(r)
        PROVE  req[r].pc = "unlink" /\ req[r].who = u
    BY <1>0, <1>4 DEF Unlink, TypeOK
  <1> QED
    BY <1>1, <1>2, <1>3, <1>4
    DEF Next, vars, Arrive, Step, Environment, Login, ReadUser, SaveUser,
        Authenticate, ResolveUser, RefreshLoad, RefreshUpdate, StartRemoval,
        Recheck, Fail, Expire, SoftDelete, Restore, store

\* Clients forget no token, and what a signed pair says does not change.
LEMMA AnnouncedStays ==
    ASSUME IInv, [Next]_vars, NEW s, Announced(s)
    PROVE  Announced(s)'
  <1>1. Minted /\ delivered \subseteq Pair
    BY DEF IInv, TypeOK
  <1> QED
    BY <1>1, StepGrows, DeliveredGrows DEF Announced, Minted, Grows

\* A client hears of a session from a request that writes it.
LEMMA AnnouncedBy ==
    ASSUME IInv, [Next]_vars, NEW s, ~Announced(s), Announced(s)'
    PROVE  \E r \in Request : Writes(r) /\ req[r].data.sessionId = s
  <1>0. TypeOK /\ Minted /\ InFlightWhole /\ Grows
    BY StepGrows DEF IInv
  <1>1. PICK p \in delivered' : claims'[p].sessionId = s
    BY DEF Announced
  <1>2. p \notin delivered
    BY <1>0, <1>1 DEF Announced, Minted, Grows, TypeOK
  <1>3. PICK r \in Request : Writes(r) /\ p = req[r].data.jwtRefreshId
    BY <1>1, <1>2, StepShape DEF JustSigned, Writes, Quiet
  <1>4. Whole(req[r].data) /\ claims'[p] = claims[p]
    BY <1>0, <1>3 DEF Writes, InFlightWhole
  <1> QED
    BY <1>1, <1>3, <1>4 DEF Whole

\* storeSession tells the client of a session only once SADD has entered it.
LEMMA StoreLists ==
    ASSUME IInv, [Next]_vars, NEW r \in Request, req[r].pc = "store",
           req'[r] = Idle, NEW s, s = req[r].data.sessionId,
           ~Announced(s), Announced(s)'
    PROVE  s \in userSessions'[req[r].data.userId]
  <1>0. TypeOK /\ InFlightWhole
    BY DEF IInv
  <1>1. req[r].data.userId \in IndexKey
    BY <1>0 DEF InFlight, InFlightWhole, Whole, SessionData, IndexKey
  <1>2. \E q \in Request : Writes(q) /\ req[q].data.sessionId = s
    BY AnnouncedBy
  <1>3. delivered' # delivered \/ claims' # claims
    BY DEF Announced
  <1>4. claims' = claims
    BY <1>2 DEF Writes
  <1>5. ASSUME NEW q \in Request, StoreSession(q)
        PROVE  q = r
    BY <1>0, <1>5 DEF StoreSession, Finish, Idle, TypeOK
  <1>6. ASSUME NEW q \in Request, RefreshUpdate(q)
        PROVE  FALSE
    BY <1>0, <1>6 DEF RefreshUpdate, Finish, Idle, TypeOK
  <1>7. StoreSession(r)
    BY <1>3, <1>4, <1>5, <1>6
    DEF Next, vars, Arrive, Step, Environment, Login, ReadUser, SaveUser,
        Authenticate, ResolveUser, RefreshLoad, Logout, StartRemoval,
        RemoveOne, Recheck, Unlink, Fail, Expire, SoftDelete, Restore
  <1> QED
    BY <1>0, <1>1, <1>3, <1>4, <1>7 DEF StoreSession, TypeOK

-----------------------------------------------------------------------------
(* The inductive steps *)

LEMMA InitHistory == Init => History
  <1> SUFFICES ASSUME Init PROVE History
    OBVIOUS
  <1>1. /\ \A r \in Request : req[r] = Idle
        /\ \A p \in Pair : claims[p] = Null
        /\ delivered = {} /\ loggedOut = {}
        /\ \A s \in Sid : session[s] = Null
        /\ \A k \in IndexKey : userSessions[k] = {}
    BY DEF Init
  <1>2. Presented
    BY <1>1 DEF Presented, Idle, Guarded, Removing
  <1>3. NewUntouched
    BY <1>1 DEF NewUntouched, Untouched, Announced, Idle
  <1>4. SubjectsOwn
    BY <1>1 DEF SubjectsOwn, Idle
  <1> QED
    BY <1>2, <1>3, <1>4, InitInv DEF History

LEMMA PresentedStep ==
    ASSUME History, [Next]_vars
    PROVE  Presented'
  <1>0. IInv /\ TypeOK /\ Minted /\ LocalsFit /\ Presented /\ Grows
    BY StepGrows DEF History, IInv
  <1> SUFFICES ASSUME NEW r \in Request
               PROVE  /\ req'[r].pc \in Guarded =>
                            Announced(req[r].sid)' /\ req'[r].op \in Ops
                      /\ req'[r].pc = "lookup" =>
                            claims'[req'[r].token].sessionId = req'[r].sid
                      /\ req'[r].pc = "update" =>
                            req'[r].data.sessionId = req'[r].sid
                      /\ req'[r].pc \in Removing =>
                            req'[r].op \in {"logoutAll", "logoutSessions"}
    BY DEF Presented
  <1> USE DEF Guarded, Removing
  <1>s. ASSUME req[r].pc \in Guarded, req'[r].sid = req[r].sid, req'[r].op = req[r].op
        PROVE  Announced(req[r].sid)' /\ req'[r].op \in Ops
    <2>1. Announced(req[r].sid) /\ req[r].op \in Ops
      BY <1>0, <1>s DEF Presented
    <2> DEFINE s == req[r].sid
    <2>2. Announced(s)
      BY <2>1
    <2> HIDE DEF s
    <2>3. \E p \in delivered' : claims'[p].sessionId = s
      BY <1>0, <2>2, AnnouncedStays DEF Announced
    <2> QED
      BY <1>s, <2>1, <2>3 DEF s, Announced
  <1>1. CASE req'[r] = Idle
    BY <1>1 DEF Idle
  <1>2. CASE req'[r] = req[r]
    <2>1. req[r].pc = "lookup" => claims'[req[r].token] = claims[req[r].token]
      BY <1>0 DEF LocalsFit, Fit, Minted, Grows, TypeOK
    <2> QED
      BY <1>0, <1>2, <1>s, <2>1 DEF Presented
  <1>3. CASE Opened(r) \/ HasRead(r)
    BY <1>3 DEF Opened, HasRead
  <1>4. CASE Entered(r)
    <2>1. /\ req'[r].token \in delivered' /\ req'[r].token \in Pair
          /\ claims'[req'[r].token] = claims[req'[r].token]
      BY <1>0, <1>4, DeliveredGrows DEF Entered, Minted, Grows, TypeOK
    <2> QED
      BY <1>4, <2>1 DEF Entered, Announced
  <1>5. CASE Resolved(r)
    BY <1>5, <1>s DEF Resolved
  <1>6. CASE Loaded(r)
    BY <1>6, <1>s DEF Loaded
  <1>7. CASE Removes(r)
    <2>1. req[r].op \in {"logoutAll", "logoutSessions"}
      BY <1>0, <1>7 DEF Removes, Presented
    <2> QED
      BY <1>7, <1>s, <2>1 DEF Removes
  <1> QED
    BY <1>0, <1>1, <1>2, <1>3, <1>4, <1>5, <1>6, <1>7, StepMoves DEF Moved

\* Only the request that drew its id does anything to an untouched session.
LEMMA UntouchedStep ==
    ASSUME History, [Next]_vars, NEW s \in Sid, Untouched(s)
    PROVE  \/ Untouched(s)'
           \/ \E r \in Request : /\ req[r].pc = "store"
                                 /\ req[r].data.sessionId = s
                                 /\ req'[r] = Idle
  <1>0. IInv /\ TypeOK /\ LocalsFit /\ Presented
    BY DEF History, IInv
  <1>1. ASSUME NEW r \in Request, Writes(r), req[r].data.sessionId = s
        PROVE  req[r].pc = "store" /\ req'[r] = Idle
    <2>1. req[r].pc # "update"
      BY <1>0, <1>1 DEF Presented, Guarded, Untouched
    <2> QED
      BY <1>0, <1>1, <2>1 DEF Writes, InFlight, TypeOK
  <1> SUFFICES ASSUME \A r \in Request : ~(Writes(r) /\ req[r].data.sessionId = s)
               PROVE  Untouched(s)'
    BY <1>1
  <1>2. session'[s] = Null
    BY <1>0, StepShape DEF Untouched, JustSigned, Writes, Quiet, TypeOK
  <1>3. s \notin loggedOut'
    BY LogoutsNamed DEF Untouched
  <1>4. \A k \in IndexKey : s \notin userSessions'[k]
    BY <1>0, StepShape DEF Untouched, JustSigned, Writes, Quiet
  <1>5. ~Announced(s)'
    BY <1>0, AnnouncedBy DEF Untouched
  <1>6. ASSUME NEW r \in Request PROVE s \notin req'[r].todo
    <2>1. s \notin Known
      BY DEF Untouched, Known, Announced
    <2>2. req[r].who \in IndexKey
      BY <1>0 DEF TypeOK, Locals, IndexKey
    <2> QED
      BY <1>0, <2>1, <2>2, StepMoves
      DEF Moved, Untouched, Opened, HasRead, Entered, Resolved, Loaded, Removes, Idle
  <1> QED
    BY <1>2, <1>3, <1>4, <1>5, <1>6 DEF Untouched

LEMMA NewUntouchedStep ==
    ASSUME History, [Next]_vars
    PROVE  NewUntouched'
  <1>0. IInv /\ TypeOK /\ InFlightWhole /\ NewUntouched /\ Grows
    BY StepGrows DEF History, IInv
  <1>o. ASSUME NEW r \in Request, req[r].pc = "store"
        PROVE  req[r].data.sessionId \in Sid /\ owner[req[r].data.sessionId] # Null
    BY <1>0, <1>o, SessionsAssumption DEF InFlight, InFlightWhole, Whole, SessionData
  <1>n. ASSUME NEW s \in Sid, owner[s] = Null PROVE Untouched(s)'
    BY <1>0, <1>n, <1>o, UntouchedStep DEF NewUntouched
  <1>m. ASSUME NEW r \in Request, req'[r].pc = "store"
        PROVE  \/ req'[r] = req[r]
               \/ Opened(r)
    BY <1>0, <1>m, StepMoves
    DEF Moved, HasRead, Entered, Resolved, Loaded, Removes, Removing, Idle
  <1>1. ASSUME NEW s \in Sid, owner'[s] = Null PROVE Untouched(s)'
    BY <1>0, <1>1, <1>n DEF Grows
  <1>2. ASSUME NEW r \in Request, req'[r].pc = "store"
        PROVE  Untouched(req[r].data.sessionId)'
    <2>0. PICK s : s = req'[r].data.sessionId
      OBVIOUS
    <2>1. CASE Opened(r)
      <3>1. s \in Sid /\ owner[s] = Null
        BY <2>0, <2>1 DEF Opened
      <3>2. Untouched(s)'
        BY <3>1, <1>n
      <3> QED
        BY <2>0, <3>2 DEF Untouched, Announced
    <2>2. CASE req'[r] = req[r]
      <3>1. s = req[r].data.sessionId /\ s \in Sid /\ req[r].pc = "store"
        BY <1>2, <1>o, <2>0, <2>2
      <3>2. ASSUME NEW q \in Request, req[q].pc = "store", req[q].data.sessionId = s
            PROVE  q = r
        BY <1>0, <3>1, <3>2 DEF NewUntouched
      <3>3. req'[r] # Idle
        BY <1>2 DEF Idle
      <3>4. Untouched(s)
        BY <1>0, <3>1 DEF NewUntouched
      <3>5. Untouched(s)'
        BY <3>1, <3>2, <3>3, <3>4, UntouchedStep
      <3> QED
        BY <2>0, <3>5 DEF Untouched, Announced
    <2> QED
      BY <1>2, <1>m, <2>1, <2>2
  <1>3. ASSUME NEW r \in Request, NEW q \in Request, r # q,
               req'[r].pc = "store", req'[q].pc = "store"
        PROVE  req'[r].data.sessionId # req'[q].data.sessionId
    <2>1. CASE req'[r] = req[r] /\ req'[q] = req[q]
      BY <1>0, <1>3, <2>1 DEF NewUntouched
    <2>2. CASE Opened(r) /\ Opened(q)
      <3>1. r \in InFlight' /\ q \in InFlight' /\ r \notin InFlight /\ q \notin InFlight
        BY <2>2 DEF Opened, InFlight
      <3> QED
        BY <1>0, <1>3, <3>1, StepShape DEF JustSigned, Writes, Quiet, InFlight, TypeOK
    <2>3. ASSUME NEW x \in Request, NEW y \in Request, Opened(x), req'[y] = req[y],
                 req'[y].pc = "store"
          PROVE  req'[x].data.sessionId # req'[y].data.sessionId
      BY <1>o, <2>3 DEF Opened
    <2> QED
      BY <1>3, <1>m, <2>1, <2>2, <2>3
  <1> QED
    BY <1>1, <1>2, <1>3 DEF NewUntouched

LEMMA OrphanStays ==
    ASSUME Grows, NEW s, Orphaned(s)
    PROVE  Orphaned(s)'
  BY DEF Orphaned, Grows

LEMMA SubjectsStep ==
    ASSUME History, [Next]_vars
    PROVE  SubjectsOwn'
  <1>0. IInv /\ TypeOK /\ Minted /\ LocalsFit /\ Presented /\ SubjectsOwn /\ Grows
    BY StepGrows DEF History, IInv
  <1>a. ASSUME NEW s, Announced(s)
        PROVE  s \in Sid /\ owner[s] # Null /\ owner'[s] = owner[s]
    BY <1>0, <1>a DEF Announced, Minted, Grows, TypeOK, Claims
  <1>h. ASSUME NEW r \in Request, req[r].pc = "handle"
        PROVE  /\ Announced(req[r].sid)
               /\ \/ req[r].who \in {owner'[req[r].sid], Null}
                  \/ Orphaned(req[r].sid)
    BY <1>0, <1>a, <1>h DEF Presented, SubjectsOwn, Guarded
  <1>p. ASSUME NEW p \in Pair, claims'[p] # Null
        PROVE  \/ claims'[p].sub = owner'[claims'[p].sessionId]
               \/ Orphaned(claims[p].sessionId)'
    <2>0. PICK s : s = claims'[p].sessionId
      OBVIOUS
    <2>1. CASE claims'[p] = claims[p]
      <3>1. owner'[s] = owner[s]
        BY <1>0, <1>p, <2>0, <2>1 DEF Minted, Grows, TypeOK, Claims
      <3>2. claims[p].sub = owner[s] \/ Orphaned(s)
        BY <1>0, <1>p, <2>0, <2>1 DEF SubjectsOwn
      <3>3. Orphaned(s) => Orphaned(s)'
        BY <1>0, OrphanStays
      <3> QED
        BY <2>0, <2>1, <3>1, <3>2, <3>3 DEF Orphaned
    <2>2. ASSUME NEW r \in Request, req[r].pc = "handle",
                 claims'[p] = NewClaims(req[r].sid, req[r].who)
          PROVE  claims'[p].sub = owner'[s] \/ Orphaned(s)'
      <3>1. s = req[r].sid /\ claims'[p].sub = req[r].who
        BY <2>0, <2>2 DEF NewClaims
      <3>2. req[r].who \in {owner'[s], Null} \/ Orphaned(s)
        BY <1>h, <2>2, <3>1
      <3>3. claims'[p].sub = Null => Orphaned(s)'
        BY <1>p, <2>0 DEF Orphaned
      <3> QED
        BY <1>0, <3>1, <3>2, <3>3, OrphanStays
    <2> QED
      BY <1>0, <2>0, <2>1, <2>2, StepSigns DEF SignedBy, Orphaned
  <1>r. ASSUME NEW r \in Request, req'[r].pc = "handle"
        PROVE  \/ req'[r].who \in {owner'[req'[r].sid], Null}
               \/ Orphaned(req[r].sid)'
    <2>0. PICK s : s = req'[r].sid
      OBVIOUS
    <2>1. CASE req'[r] = req[r]
      <3>1. s = req[r].sid /\ req[r].pc = "handle"
        BY <1>r, <2>0, <2>1
      <3>2. req[r].who \in {owner'[s], Null} \/ Orphaned(s)
        BY <1>h, <3>1
      <3>3. Orphaned(s) => Orphaned(s)'
        BY <1>0, OrphanStays
      <3> QED
        BY <2>0, <2>1, <3>2, <3>3 DEF Orphaned
    <2>2. CASE Resolved(r)
      <3> DEFINE n == req[r].token
      <3>1. s = req[r].sid /\ n \in Pair /\ claims[n] # Null /\ claims[n].sessionId = s
        BY <1>0, <2>0, <2>2
        DEF Resolved, LocalsFit, Fit, Minted, Presented, TypeOK
      <3>2. Announced(s)
        BY <1>0, <2>2, <3>1 DEF Resolved, Presented, Guarded
      <3>3. claims[n].sub = owner'[s] \/ Orphaned(s)
        BY <1>0, <1>a, <3>1, <3>2 DEF SubjectsOwn
      <3>4. claims[n].sub = Null => Orphaned(s)
        BY <3>1 DEF Orphaned
      <3>5. claims[n].sub # Null => req'[r].who \in {claims[n].sub, Null}
        BY <2>2 DEF Resolved, Found
      <3>6. Orphaned(s) => Orphaned(s)'
        BY <1>0, OrphanStays
      <3> QED
        BY <2>0, <3>3, <3>4, <3>5, <3>6 DEF Orphaned
    <2> QED
      BY <1>0, <1>r, <2>1, <2>2, StepMoves
      DEF Moved, Opened, HasRead, Entered, Loaded, Removes, Removing, Idle
  <1> QED
    BY <1>p, <1>r DEF SubjectsOwn

LEMMA HistoryStep == History /\ [Next]_vars => History'
  BY StepInv, PresentedStep, NewUntouchedStep, SubjectsStep DEF History

\* What requests have done before fits what they hold, in every reachable state.
THEOREM HistoryHolds == Spec => []History
  BY InitHistory, HistoryStep, PTL DEF Spec

-----------------------------------------------------------------------------
(* What can happen to a session *)

\* A session that was logged out comes back only by the SET of a refresh that
\* had loaded it (RefreshUpdate): no login is given its id, however many
\* requests are under way and whatever fails.
THEOREM ReturnsByRefresh == Spec => ReturnsOnlyByRefresh
  <1>1. ASSUME History, [Next]_vars, NEW s \in loggedOut,
               session[s] = Null, session'[s] # Null
        PROVE  \E r \in Request : req[r].pc = "update" /\ req[r].sid = s
    <2>0. TypeOK /\ IInv /\ NewUntouched /\ Presented /\ s \in Sid
      BY <1>1 DEF History, IInv, TypeOK
    <2>1. PICK r \in Request : Writes(r) /\ req[r].data.sessionId = s
      BY <1>1, <2>0, StepShape DEF JustSigned, Writes, Quiet, TypeOK
    <2>2. req[r].pc # "store"
      BY <1>1, <2>0, <2>1 DEF NewUntouched, Untouched
    <2>3. req[r].pc = "update"
      BY <2>1, <2>2 DEF Writes, InFlight
    <2> QED
      BY <2>0, <2>1, <2>3 DEF Presented
  <1>2. History /\ [Next]_vars =>
           [\A s \in loggedOut : session[s] = Null /\ session'[s] # Null =>
               \E r \in Request : req[r].pc = "update" /\ req[r].sid = s]_vars
    BY <1>1
  <1> QED
    BY HistoryHolds, <1>2, PTL DEF Spec, ReturnsOnlyByRefresh

\* A session drops out of sight of its user (getAllSessions) only when Unlink
\* deletes an index that was entered since, or a refresh writes a removed session
\* back: no lost SADD, no logout and no single removal does it.
THEOREM UnlistedByRaces == Spec => UnlistedOnlyByRaces
  <1>1. ASSUME History, [Next]_vars, NEW s \in Sid, ~Unlisted(s), Unlisted(s)'
        PROVE  \E r \in Request :
                  \/ /\ req[r].pc = "unlink" /\ session[s] # Null
                     /\ req[r].who = session[s].userId
                  \/ req[r].pc = "update" /\ req[r].sid = s /\ session[s] = Null
    <2>0. /\ IInv /\ TypeOK /\ StoredWhole /\ InFlightWhole
          /\ NewUntouched /\ Presented /\ Grows
      BY <1>1, StepGrows DEF History, IInv
    <2>1. /\ session'[s] # Null
          /\ s \notin userSessions'[session'[s].userId]
          /\ Announced(s)'
      BY <1>1 DEF Unlisted, Announced
    <2>2. CASE session[s] = Null
      <3>1. PICK r \in Request : Writes(r) /\ req[r].data.sessionId = s
        BY <1>1, <2>0, <2>1, <2>2, StepShape DEF JustSigned, Writes, Quiet, TypeOK
      <3>2. CASE req[r].pc = "store"
        <4>1. ~Announced(s)
          BY <2>0, <3>1, <3>2 DEF NewUntouched, Untouched
        <4>2. session'[s] = req[r].data /\ req'[r] = Idle
          BY <2>0, <3>1 DEF Writes, TypeOK
        <4>3. s \in userSessions'[req[r].data.userId]
          BY <1>1, <2>0, <2>1, <3>1, <3>2, <4>1, <4>2, StoreLists
        <4> QED
          BY <2>1, <4>2, <4>3
      <3>3. CASE req[r].pc = "update"
        BY <2>0, <2>2, <3>1, <3>3 DEF Presented
      <3> QED
        BY <3>1, <3>2, <3>3 DEF Writes, InFlight
    <2>3. CASE session[s] # Null
      <3>1. session[s].userId = owner[s] /\ owner[s] # Null /\ owner[s] \in User
        BY <2>0, <2>3, SessionsAssumption DEF StoredWhole, Whole, SessionData
      <3>2. session'[s].userId = owner[s]
        <4>1. StoredWhole'
          BY <1>1, HistoryStep DEF History, IInv
        <4> QED
          BY <2>0, <2>1, <3>1, <4>1 DEF StoredWhole, Whole, Grows
      <3>3. Announced(s)
        <4>1. SUFFICES ASSUME ~Announced(s) PROVE FALSE
          OBVIOUS
        <4>2. PICK r \in Request : Writes(r) /\ req[r].data.sessionId = s
          BY <2>0, <2>1, <4>1, <1>1, AnnouncedBy
        <4>3. req[r].pc # "store"
          BY <2>0, <2>3, <4>2 DEF NewUntouched, Untouched
        <4>4. req[r].pc = "update"
          BY <4>2, <4>3 DEF Writes, InFlight
        <4> QED
          BY <2>0, <4>1, <4>2, <4>4 DEF Presented, Guarded
      <3>4. s \in userSessions[owner[s]]
        BY <1>1, <2>3, <3>1, <3>3 DEF Unlisted, Announced
      <3>5. PICK r \in Request : req[r].pc = "unlink" /\ req[r].who = owner[s]
        BY <1>1, <2>0, <2>1, <3>1, <3>2, <3>4, IndexShrinks
      <3> QED
        BY <2>3, <3>1, <3>5
    <2> QED
      BY <2>2, <2>3
  <1>2. History /\ [Next]_vars =>
           [\A s \in Sid : ~Unlisted(s) /\ Unlisted(s)' =>
               \E r \in Request :
                  \/ /\ req[r].pc = "unlink" /\ session[s] # Null
                     /\ req[r].who = session[s].userId
                  \/ req[r].pc = "update" /\ req[r].sid = s /\ session[s] = Null]_vars
    BY <1>1
  <1> QED
    BY HistoryHolds, <1>2, PTL DEF Spec, UnlistedOnlyByRaces

\* A guard takes a request for another user's only in a session that a pair
\* without a subject was signed for: for any number of users, whoever is deleted,
\* restored, verified or reset meanwhile.
THEOREM StrangersNeedOrphans == Spec => []StrangerOnlyWithoutSubject
  <1>1. History => StrangerOnlyWithoutSubject
    BY DEF History, SubjectsOwn, Orphaned, StrangerOnlyWithoutSubject
  <1> QED
    BY HistoryHolds, <1>1, PTL

-----------------------------------------------------------------------------
(* The sessions of a user who stays active *)

LEMMA ActsStep ==
    ASSUME NEW u \in User, History, InStanding(u), NamedBy(u), ActsAs(u), [Next]_vars
    PROVE  NamedBy(u)' /\ ActsAs(u)'
  <1>0. /\ IInv /\ TypeOK /\ Minted /\ LocalsFit /\ Presented /\ Grows
    BY StepGrows DEF History, IInv
  <1>a. ASSUME NEW r \in Request, req[r].pc \in Guarded
        PROVE  /\ req[r].sid \in Sid
               /\ owner'[req[r].sid] = owner[req[r].sid]
    BY <1>0, <1>a DEF Presented, Announced, Minted, Grows, TypeOK, Claims
  <1>1. ASSUME NEW p \in Pair, claims'[p] # Null, owner'[claims'[p].sessionId] = u
        PROVE  claims'[p].sub = u
    <2>1. CASE claims'[p] = claims[p]
      BY <1>0, <1>1, <2>1 DEF NamedBy, Minted, Grows, TypeOK, Claims
    <2>2. ASSUME NEW r \in Request, req[r].pc = "handle",
                 claims'[p] = NewClaims(req[r].sid, req[r].who)
          PROVE  claims'[p].sub = u
      BY <1>1, <1>a, <2>2 DEF NewClaims, ActsAs, Guarded
    <2> QED
      BY <1>0, <1>1, <2>1, <2>2, StepSigns DEF SignedBy
  <1>2. ASSUME NEW r \in Request, req'[r].pc \in Guarded \ {"lookup"},
               owner'[req'[r].sid] = u
        PROVE  req'[r].who = u
    <2>1. CASE req'[r] = req[r]
      BY <1>2, <1>a, <2>1 DEF ActsAs
    <2>2. CASE Resolved(r)
      <3> DEFINE n == req[r].token
      <3>1. n \in Pair /\ claims[n] # Null /\ claims[n].sessionId = req[r].sid
        BY <1>0, <2>2 DEF Resolved, LocalsFit, Fit, Minted, Presented, TypeOK
      <3>2. req[r].sid \in Sid /\ owner[req[r].sid] = u
        BY <1>2, <1>a, <2>2 DEF Resolved, Guarded
      <3>3. claims[n].sub = u
        BY <3>1, <3>2 DEF NamedBy
      <3>4. Found(claims[n].sub) = {u}
        BY <3>2, <3>3, SessionsAssumption DEF Found, InStanding
      <3> QED
        BY <2>2, <3>4 DEF Resolved
    <2>3. CASE Loaded(r) \/ Removes(r)
      <3>1. req[r].pc \in {"handle", "remove", "recheck"}
        BY <2>3 DEF Loaded, Removes
      <3>2. req'[r].who = req[r].who /\ req'[r].sid = req[r].sid
        BY <2>3 DEF Loaded, Removes
      <3> QED
        BY <1>2, <1>a, <3>1, <3>2 DEF ActsAs, Guarded
    <2> QED
      BY <1>0, <1>2, <2>1, <2>2, <2>3, StepMoves
      DEF Moved, Opened, HasRead, Entered, Idle, Guarded
  <1> QED
    BY <1>1, <1>2 DEF NamedBy, ActsAs

\* A user who is active from the first session on is the one for whom every
\* request in these sessions acts, through every await of its handler.  Nobody
\* else need be active: others who are deleted, restored, verified late or
\* resolved to the wrong user do not disturb this user's sessions.
THEOREM ActsForOwner ==
    ASSUME NEW u \in User
    PROVE  Spec /\ []InStanding(u) => []ActsAs(u)
  <1>1. Init => NamedBy(u) /\ ActsAs(u)
    BY DEF Init, Idle, NamedBy, ActsAs, Guarded
  <1>2. History /\ InStanding(u) /\ NamedBy(u) /\ ActsAs(u) /\ [Next]_vars
           => NamedBy(u)' /\ ActsAs(u)'
    BY ActsStep
  <1> QED
    BY HistoryHolds, <1>1, <1>2, PTL DEF Spec
=============================================================================
