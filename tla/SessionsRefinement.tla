-------------------------- MODULE SessionsRefinement --------------------------
(* The session store implements the token ledger: what a stolen or stale copy *)
(* of a token can still be used for is decided by TokenLedger alone.          *)
EXTENDS SessionsProofs

\* A step that writes no session takes at most one pair away: from a session
\* that is removed or expires, or from a request that fails.
OneLess ==
    \/ UNCHANGED session /\ InFlight \subseteq InFlight'
    \/ UNCHANGED session /\ \E r \in Request : InFlight \ {r} \subseteq InFlight'
    \/ /\ \E s \in Sid : session' = [session EXCEPT ![s] = Null]
       /\ InFlight \subseteq InFlight'

LEMMA OneLessStep ==
    ASSUME IInv, [Next]_vars
    PROVE  OneLess \/ \E r \in Request : Writes(r)
  <1>0. TypeOK
    BY DEF IInv
  <1>r. ASSUME NEW r \in Request, NEW l, req' = [req EXCEPT ![r] = l]
        PROVE  InFlight \ {r} \subseteq InFlight'
    BY <1>0, <1>r DEF InFlight, TypeOK
  <1>1. ASSUME NEW r \in Request, UNCHANGED session,
               \E l : req' = [req EXCEPT ![r] = l]
        PROVE  OneLess
    BY <1>1, <1>r DEF OneLess
  <1>2. ASSUME NEW r \in Request, r \notin InFlight, NEW s \in Sid,
               session' = [session EXCEPT ![s] = Null],
               \E l : req' = [req EXCEPT ![r] = l]
        PROVE  OneLess
    BY <1>2, <1>r DEF OneLess
  <1>3. ASSUME NEW r \in Request, Finish(r)
        PROVE  \E l : req' = [req EXCEPT ![r] = l]
    BY <1>3 DEF Finish
  <1>4. ASSUME NEW r \in Request, NEW o, NEW u, OpenSession(r, o, u),
               UNCHANGED session
        PROVE  OneLess
    BY <1>1, <1>4 DEF OpenSession
  <1>5. ASSUME NEW r \in Request, NEW o, NEW u, ReadUser(r, o, u) PROVE OneLess
    BY <1>1, <1>5 DEF ReadUser, store
  <1>6. ASSUME NEW r \in Request, NEW o, NEW n, Authenticate(r, o, n)
        PROVE  OneLess
    BY <1>1, <1>6 DEF Authenticate, store
  <1>7. ASSUME NEW r \in Request, ResolveUser(r) PROVE OneLess
    BY <1>1, <1>7 DEF ResolveUser, store
  <1>8. ASSUME NEW r \in Request, RefreshLoad(r) PROVE OneLess
    BY <1>1, <1>3, <1>8 DEF RefreshLoad, store
  <1>9. ASSUME NEW r \in Request, Logout(r) PROVE OneLess
    <2>1. r \notin InFlight /\ req[r].todo \subseteq Sid
      BY <1>0, <1>9 DEF Logout, InFlight, TypeOK, Locals
    <2>2. PICK s \in req[r].todo : \/ session' = [session EXCEPT ![s] = Null]
                                   \/ UNCHANGED session
      BY <1>9 DEF Logout, store
    <2>3. Finish(r)
      BY <1>9 DEF Logout
    <2> QED
      BY <1>1, <1>2, <1>3, <2>1, <2>2, <2>3
  <1>10. ASSUME NEW r \in Request, StartRemoval(r) PROVE OneLess
    BY <1>1, <1>3, <1>10 DEF StartRemoval, store
  <1>11. ASSUME NEW r \in Request, RemoveOne(r) PROVE OneLess
    <2>1. r \notin InFlight /\ req[r].todo \subseteq Sid
      BY <1>0, <1>11 DEF RemoveOne, InFlight, TypeOK, Locals
    <2>2. PICK s \in req[r].todo : session' = [session EXCEPT ![s] = Null]
      BY <1>11 DEF RemoveOne
    <2>3. \E l : req' = [req EXCEPT ![r] = l]
      BY <1>11, <1>3 DEF RemoveOne
    <2> QED
      BY <1>2, <2>1, <2>2, <2>3
  <1>12. ASSUME NEW r \in Request, Recheck(r) PROVE OneLess
    <2>1. InFlight \ {r} \subseteq InFlight'
      BY <1>0, <1>12 DEF Recheck, Goto, Finish, InFlight, TypeOK
    <2> QED
      BY <1>12, <2>1 DEF Recheck, OneLess, store
  <1>13. ASSUME NEW r \in Request, Unlink(r) PROVE OneLess
    BY <1>1, <1>3, <1>13 DEF Unlink
  <1>14. ASSUME NEW r \in Request, Fail(r) PROVE OneLess
    BY <1>1, <1>3, <1>14 DEF Fail, store
  <1>15. ASSUME NEW s \in Sid, Expire(s) PROVE OneLess
    BY <1>15 DEF Expire, OneLess, InFlight
  <1>16. CASE UNCHANGED <<session, req>>
    BY <1>16 DEF OneLess, InFlight
  <1>17. ASSUME NEW r \in Request, StoreSession(r) \/ RefreshUpdate(r)
         PROVE  \E q \in Request : Writes(q)
    <2>1. r \in InFlight
      BY <1>17 DEF StoreSession, RefreshUpdate, InFlight
    <2>2. req[r].data.userId \in IndexKey
      BY <2>1 DEF IInv, InFlightWhole, Whole, SessionData, IndexKey
    <2> QED
      BY <1>0, <1>17, <2>1, <2>2
      DEF StoreSession, RefreshUpdate, Finish, Writes, TypeOK, minted
  <1> QED
    BY <1>4, <1>5, <1>6, <1>7, <1>8, <1>9, <1>10, <1>11, <1>12, <1>13, <1>14,
       <1>15, <1>16, <1>17
    DEF Next, vars, Arrive, Step, Environment, Login, SaveUser, SoftDelete,
        Restore, store

-----------------------------------------------------------------------------
(* The refinement, one lemma for each kind of step *)

LEMMA InitRefines == Init => Ledger!Init
  BY DEF Init, Ledger!Init, pairState, pairSession

\* What the invariant says of a pair that a session or a request holds.
LEMMA PairFacts ==
    ASSUME IInv
    PROVE  /\ \A r \in InFlight : LET p == req[r].data.jwtRefreshId
              IN  /\ p \in Pair /\ claims[p] # Null /\ ~InForce(p)
                  /\ claims[p].sessionId = req[r].data.sessionId
                  /\ req[r].data.sessionId \in Sid
           /\ \A p \in Pair : claims[p] # Null => claims[p].sessionId \in Sid
           /\ \A s \in Sid : session[s] # Null =>
                 /\ session[s].jwtRefreshId \in Pair
                 /\ claims[session[s].jwtRefreshId] # Null
                 /\ claims[session[s].jwtRefreshId].sessionId = s
  <1>1. TypeOK /\ StoredWhole /\ InFlightWhole /\ InFlightNew
    BY DEF IInv
  <1>2. ASSUME NEW r \in InFlight
        PROVE  LET p == req[r].data.jwtRefreshId
               IN  /\ p \in Pair /\ claims[p] # Null /\ ~InForce(p)
                   /\ claims[p].sessionId = req[r].data.sessionId
                   /\ req[r].data.sessionId \in Sid
    BY <1>1 DEF InFlightWhole, InFlightNew, Whole, SessionData
  <1>3. ASSUME NEW p \in Pair, claims[p] # Null PROVE claims[p].sessionId \in Sid
    BY <1>1, <1>3 DEF TypeOK, Claims
  <1>4. ASSUME NEW s \in Sid, session[s] # Null
        PROVE  /\ session[s].jwtRefreshId \in Pair
               /\ claims[session[s].jwtRefreshId] # Null
               /\ claims[session[s].jwtRefreshId].sessionId = s
    BY <1>1, <1>4 DEF StoredWhole, Whole, SessionData
  <1> QED
    BY <1>2, <1>3, <1>4

\* Signing a pair issues it.
LEMMA SignRefines ==
    ASSUME IInv, NEW r \in Request, JustSigned(r)
    PROVE  \E p \in Pair, s \in Sid : Ledger!Issue(p, s)
  <1>0. PICK p, s : p = req'[r].data.jwtRefreshId /\ s = req'[r].data.sessionId
    OBVIOUS
  <1>1. /\ p \in Pair /\ s \in Sid
        /\ claims[p] = Null /\ claims'[p] # Null /\ claims'[p].sessionId = s
        /\ \A q \in Pair : q # p => claims'[q] = claims[q]
    BY <1>0 DEF JustSigned, Whole, SessionData
  <1>2. ~InForce(p)'
    <2>1. session'[s] = session[s]
      BY DEF JustSigned
    <2> QED
      BY <1>1, <2>1, PairFacts DEF InForce
  <1>3. \A q \in Pair : q # p => InForce(q)' = InForce(q)
    BY <1>1 DEF InForce, JustSigned
  <1>4. PendingPairs' = PendingPairs \cup {p}
    <2>1. InFlight' = InFlight \cup {r}
      BY DEF JustSigned, InFlight
    <2>2. \A q \in InFlight : req'[q] = req[q]
      BY DEF JustSigned, InFlight
    <2> QED
      BY <1>0, <2>1, <2>2 DEF PendingPairs
  <1>5. pairState' = [pairState EXCEPT ![p] = "pending"]
    BY <1>1, <1>2, <1>3, <1>4 DEF pairState
  <1>6. pairSession' = [pairSession EXCEPT ![p] = s]
    BY <1>1 DEF pairSession
  <1>7. pairState[p] = "unissued"
    BY <1>1 DEF pairState
  <1> QED
    BY <1>1, <1>5, <1>6, <1>7 DEF Ledger!Issue

\* Writing the session installs the pair, over whatever was in force.
LEMMA WriteRefines ==
    ASSUME IInv, NEW r \in Request, Writes(r)
    PROVE  \E p \in Pair : Ledger!Install(p)
  <1>0. PICK d, p : d = req[r].data /\ p = d.jwtRefreshId
    OBVIOUS
  <1>i. TypeOK /\ InFlightNew
    BY DEF IInv
  <1>1. /\ r \in InFlight /\ p \in Pair /\ claims[p] # Null /\ ~InForce(p)
        /\ claims[p].sessionId = d.sessionId /\ d.sessionId \in Sid
        /\ d # Null
    BY <1>0, PairFacts, SessionsAssumption
    DEF Writes, IInv, InFlightWhole, Whole, SessionData
  <1>2. p \in PendingPairs
    BY <1>0, <1>1 DEF PendingPairs
  <1>3. PendingPairs' = PendingPairs \ {p}
    <2>1. InFlight' = InFlight \ {r}
      BY <1>i DEF Writes, InFlight, Idle, TypeOK
    <2>2. \A q \in InFlight \ {r} : req'[q] = req[q]
                                   /\ req[q].data.jwtRefreshId # p
      BY <1>0, <1>1, <1>i DEF Writes, InFlight, InFlightNew, TypeOK
    <2> QED
      BY <1>0, <2>1, <2>2 DEF PendingPairs
  <1>4. session'[d.sessionId] = d
    BY <1>0, <1>1, <1>i DEF Writes, TypeOK
  <1>5. \A s \in Sid : s # d.sessionId => session'[s] = session[s]
    BY <1>0, <1>1, <1>i DEF Writes, TypeOK
  <1>6. claims' = claims
    BY DEF Writes
  <1>7. InForce(p)'
    BY <1>0, <1>1, <1>4, <1>6 DEF InForce
  <1>8. ASSUME NEW q \in Pair, q # p, claims[q] # Null
        PROVE  InForce(q)' = (InForce(q) /\ claims[q].sessionId # d.sessionId)
    <2>1. claims[q].sessionId \in Sid
      BY <1>8, PairFacts
    <2>2. CASE claims[q].sessionId = d.sessionId
      BY <1>0, <1>4, <1>6, <1>8, <2>2 DEF InForce
    <2>3. CASE claims[q].sessionId # d.sessionId
      BY <1>5, <1>6, <2>1, <2>3 DEF InForce
    <2> QED
      BY <2>2, <2>3
  <1>9. \A q \in Pair : q \in PendingPairs => ~InForce(q)
    BY PairFacts DEF PendingPairs
  <1>10. pairState' = [q \in Pair |->
                         IF q = p THEN "current"
                         ELSE IF pairState[q] = "current"
                                 /\ pairSession[q] = pairSession[p]
                              THEN "retired"
                              ELSE pairState[q]]
    BY <1>1, <1>3, <1>6, <1>7, <1>8, <1>9 DEF pairState, pairSession
  <1>11. pairState[p] = "pending" /\ pairSession' = pairSession
    BY <1>1, <1>2, <1>6 DEF pairState, pairSession
  <1> QED
    BY <1>1, <1>10, <1>11 DEF Ledger!Install

\* A quiet step that takes one pair away retires it; any other is a stutter.
LEMMA QuietRefines ==
    ASSUME IInv, Quiet, OneLess
    PROVE  (\E p \in Pair : Ledger!Retire(p)) \/ UNCHANGED Ledger!vars
  <1>0. TypeOK /\ InFlightNew /\ claims' = claims /\ pairSession' = pairSession
    BY DEF IInv, Quiet, pairSession
  <1>1. \A q \in InFlight' : q \in InFlight /\ req'[q] = req[q]
    BY DEF Quiet
  <1>2. \A q \in PendingPairs : q \in Pair /\ ~InForce(q) /\ claims[q] # Null
    BY PairFacts DEF PendingPairs
  <1>3. ASSUME InFlight \subseteq InFlight' PROVE PendingPairs' = PendingPairs
    BY <1>1, <1>3 DEF PendingPairs
  <1>4. ASSUME UNCHANGED session, InFlight \subseteq InFlight'
        PROVE  UNCHANGED Ledger!vars
    <2>1. \A q \in Pair : InForce(q)' = InForce(q)
      BY <1>0, <1>4 DEF InForce
    <2> QED
      BY <1>0, <1>3, <1>4, <2>1 DEF pairState, Ledger!vars
  <1>5. ASSUME UNCHANGED session,
               NEW r \in Request, InFlight \ {r} \subseteq InFlight',
               ~ (InFlight \subseteq InFlight')
        PROVE  \E p \in Pair : Ledger!Retire(p)
    <2>0. PICK p : p = req[r].data.jwtRefreshId
      OBVIOUS
    <2>1. r \in InFlight /\ InFlight' = InFlight \ {r}
      BY <1>1, <1>5
    <2>2. p \in PendingPairs /\ p \in Pair /\ ~InForce(p) /\ claims[p] # Null
      BY <1>2, <2>0, <2>1 DEF PendingPairs
    <2>3. \A q \in InFlight \ {r} : req[q].data.jwtRefreshId # p
      BY <1>0, <2>0, <2>1 DEF InFlightNew
    <2>4. PendingPairs' = PendingPairs \ {p}
      BY <1>1, <2>0, <2>1, <2>3 DEF PendingPairs
    <2>5. \A q \in Pair : InForce(q)' = InForce(q)
      BY <1>0, <1>5 DEF InForce
    <2>6. pairState' = [pairState EXCEPT ![p] = "retired"]
      BY <1>0, <2>2, <2>4, <2>5 DEF pairState
    <2>7. pairState[p] = "pending"
      BY <2>2 DEF pairState
    <2> QED
      BY <1>0, <2>2, <2>6, <2>7 DEF Ledger!Retire
  <1>6. ASSUME NEW s \in Sid, session' = [session EXCEPT ![s] = Null],
               InFlight \subseteq InFlight'
        PROVE  (\E p \in Pair : Ledger!Retire(p)) \/ UNCHANGED Ledger!vars
    <2>1. CASE session[s] = Null
      <3>1. session' = session
        BY <1>0, <1>6, <2>1 DEF TypeOK
      <3> QED
        BY <1>4, <1>6, <3>1
    <2>2. CASE session[s] # Null
      <3>0. PICK p : p = session[s].jwtRefreshId
        OBVIOUS
      <3>1. p \in Pair /\ claims[p] # Null /\ claims[p].sessionId = s
        BY <2>2, <3>0, PairFacts
      <3>2. InForce(p) /\ ~InForce(p)'
        BY <1>0, <1>6, <2>2, <3>0, <3>1 DEF InForce, TypeOK
      <3>3. ASSUME NEW q \in Pair, q # p, claims[q] # Null
            PROVE  InForce(q)' = InForce(q)
        <4>1. claims[q].sessionId \in Sid
          BY <3>3, PairFacts
        <4>2. CASE claims[q].sessionId = s
          BY <1>0, <1>6, <3>0, <3>3, <4>2 DEF InForce, TypeOK
        <4>3. CASE claims[q].sessionId # s
          BY <1>0, <1>6, <4>1, <4>3 DEF InForce, TypeOK
        <4> QED
          BY <4>2, <4>3
      <3>4. PendingPairs' = PendingPairs /\ p \notin PendingPairs
        BY <1>2, <1>3, <1>6, <3>2
      <3>5. pairState' = [pairState EXCEPT ![p] = "retired"]
        BY <1>0, <3>1, <3>2, <3>3, <3>4 DEF pairState
      <3>6. pairState[p] = "current"
        BY <3>1, <3>2 DEF pairState
      <3> QED
        BY <1>0, <3>1, <3>5, <3>6 DEF Ledger!Retire
    <2> QED
      BY <2>1, <2>2
  <1> QED
    BY <1>4, <1>5, <1>6 DEF OneLess

\* Every behaviour of the session store is one of the ledger: at most one pair
\* of a session is in force, and a pair that was replaced, revoked, expired or
\* lost is never in force again.
THEOREM ImplementsLedger == Spec => LedgerSpec
  <1>1. IInv /\ [Next]_vars => [Ledger!Next]_(Ledger!vars)
    <2> SUFFICES ASSUME IInv, [Next]_vars
                 PROVE  [Ledger!Next]_(Ledger!vars)
      OBVIOUS
    <2>1. ASSUME NEW r \in Request, JustSigned(r) PROVE Ledger!Next
      BY <2>1, SignRefines DEF Ledger!Next
    <2>2. ASSUME NEW r \in Request, Writes(r) PROVE Ledger!Next
      BY <2>2, WriteRefines DEF Ledger!Next
    <2>3. CASE Quiet /\ OneLess
      BY <2>3, QuietRefines DEF Ledger!Next
    <2> QED
      BY <2>1, <2>2, <2>3, StepShape, OneLessStep
  <1> QED
    BY InitRefines, Invariance, <1>1, PTL DEF Spec, LedgerSpec, Ledger!Spec
=============================================================================
