------------------------------- MODULE Sessions -------------------------------
(* The session store of the auth module and the request handlers that work   *)
(* on it (src/modules/auth: auth.service, session.service, jwt.service and   *)
(* the two passport strategies).                                             *)
(*                                                                           *)
(* Sessions live in Redis: session:<sid> holds a SessionData, and            *)
(* userSessions:<user id> a set of session ids.  A handler is an async       *)
(* function; between two awaits that touch Redis or the users table another  *)
(* handler may run, so each action here is the code between two such awaits, *)
(* and req[r] holds the locals a handler carries across them.                *)
EXTENDS Naturals, FiniteSets

CONSTANTS Request,      \* concurrent HTTP requests
          User,         \* rows of the users table
          Sid,          \* session ids uuidv4() may draw (bound)
          Pair,         \* token pairs signTokens() may sign (bound)
          Null,         \* undefined / a missing Redis key
          Ops,          \* the operations this instance exercises
          InitVerified, \* the users that are ACTIVE at the start
          Faults        \* may Redis, PostgreSQL, the keys or the process fail?

AllOps == {"login", "verifyEmail", "resetPassword", "refresh", "logout",
           "logoutAll", "logoutSessions", "softDelete", "restore", "expire"}

ASSUME SessionsAssumption ==
    /\ User \cap Sid = {}
    /\ Null \notin User \cup Sid \cup Pair
    /\ Null \notin [userId : User, sessionId : Sid, jwtAccessId : Pair,
                    jwtRefreshId : Pair]
    /\ Null \notin [sessionId : Sid, sub : User \cup {Null}]
    /\ Ops \subseteq AllOps
    /\ InitVerified \subseteq User
    /\ Faults \in BOOLEAN

VARIABLES session,      \* session:<sid>, Null when the key does not exist
          userSessions, \* userSessions:<key>, {} when the key does not exist
          claims,       \* what each signed pair says: sessionId and sub
          owner,        \* the user a session id was drawn for (history)
          delivered,    \* pairs that reached a client
          verified,     \* users whose status is ACTIVE
          deleted,      \* soft-deleted users
          loggedOut,    \* sessions a logout has removed (history)
          req           \* the locals of each request

vars == <<session, userSessions, claims, owner, delivered, verified, deleted,
          loggedOut, req>>

store == <<session, userSessions>>
users == <<verified, deleted>>
minted == <<claims, owner>>

SessionData == [userId : User, sessionId : Sid, jwtAccessId : Pair,
                jwtRefreshId : Pair]
Claims == [sessionId : Sid, sub : User \cup {Null}]

\* getUserSessionsKey is called with user ids, with undefined, and (by
\* removeSession) with session ids.
IndexKey == User \cup Sid \cup {Null}

Locals == [pc : {"idle", "save", "store", "lookup", "handle", "update",
                 "remove", "recheck", "unlink"},
           op : AllOps \cup {"none"},
           token : Pair \cup {Null},       \* the pair the request presented
           who : User \cup {Null},         \* currentUser.id, or payload.sub
           active : BOOLEAN,               \* is the status to be saved ACTIVE?
           sid : Sid \cup {Null},          \* currentUser.sessionId
           data : SessionData \cup {Null}, \* the SessionData it holds
           todo : SUBSET Sid]              \* session ids still to remove

Idle == [pc |-> "idle", op |-> "none", token |-> Null, who |-> Null,
         active |-> FALSE, sid |-> Null, data |-> Null, todo |-> {}]

Init ==
    /\ session = [s \in Sid |-> Null]
    /\ userSessions = [k \in IndexKey |-> {}]
    /\ claims = [p \in Pair |-> Null]
    /\ owner = [s \in Sid |-> Null]
    /\ delivered = {}
    /\ verified = InitVerified
    /\ deleted = {}
    /\ loggedOut = {}
    /\ req = [r \in Request |-> Idle]

-----------------------------------------------------------------------------
(* Helpers *)

Goto(r, pc) == req' = [req EXCEPT ![r].pc = pc]
Finish(r) == req' = [req EXCEPT ![r] = Idle]

Fresh == {p \in Pair : claims[p] = Null}

\* uuidv4() draws a session id nobody has drawn before.
IdleSids == {s \in Sid : session[s] = Null}                             \* mutant
FreshSids == {s \in Sid : owner[s] = Null}

\* The bounds on Pair and Sid stop new requests and never one in flight: a
\* fresh pair is kept for each that has not signed its own yet, and a fresh
\* session id for each that has not drawn its own yet.
Saving == {r \in Request : req[r].pc = "save"}
Refreshing == {r \in Request : /\ req[r].op = "refresh"
                               /\ req[r].pc \in {"lookup", "handle"}}
PairsLeft == Cardinality(Saving \cup Refreshing) < Cardinality(Fresh)
SidsLeft == Cardinality(Saving) < Cardinality(FreshSids)

\* Session ids a client can name: those in its tokens and those GET /sessions
\* returned.
Known == {s \in Sid : \/ session[s] # Null
                      \/ \E p \in delivered : claims[p].sessionId = s}

\* What jwt.service puts in both tokens of a pair.
ClaimsWithoutSub(s, u) == [sessionId |-> s, sub |-> Null]                \* mutant
NewClaims(s, u) == [sessionId |-> s, sub |-> u]

\* refresh assigns the ids of the new pair to the SessionData it has loaded.
RefreshedAccess(r, p) == [session[req[r].sid] EXCEPT !.jwtAccessId = p]  \* mutant
RefreshedPartly(r, p) == [session[req[r].sid] EXCEPT !.jwtAccessId = p,
                                                    !.jwtRefreshId = Null] \* mutant
RefreshedNot(r, p) == session[req[r].sid]                                \* mutant
Refreshed(r, p) == [session[req[r].sid] EXCEPT !.jwtAccessId = p,
                                              !.jwtRefreshId = p]

\* The index that removeSession takes session s out of:
\* getUserSessionsKey(sessionId), which is no user's index.
LogoutIndex(s) == s

\* The loop of removeAllSessions goes on until every id has had its round.
OneRound(r, s) == "recheck"                                              \* mutant
AfterRound(r, s) == IF req[r].todo = {s} THEN "recheck" ELSE "remove"

\* getAllSessions: the ids of the index whose session key still exists.
Listed(u) == {s \in userSessions[u] : session[s] # Null}

\* validateSession: an access token is compared with jwtAccessId, a refresh
\* token with jwtRefreshId.
ValidSession(n, kind) ==
    LET data == session[claims[n].sessionId]
    IN  /\ data # Null
        /\ (IF kind = "access" THEN data.jwtAccessId ELSE data.jwtRefreshId) = n

FoundByStatus(sub) ==                                                    \* mutant
    LET active == verified \ deleted
    IN  IF active = {} THEN {Null} ELSE active

\* findByEmailAndId: an ACTIVE row that is not soft-deleted.  A claim that is
\* undefined leaves no condition in the query, which then returns any such row.
Found(sub) ==
    LET active == verified \ deleted
    IN  IF sub # Null THEN (IF sub \in active THEN {sub} ELSE {Null})
        ELSE IF active = {} THEN {Null} ELSE active

-----------------------------------------------------------------------------
(* Requests that open a session *)

\* signTokens draws a session id and signs a pair; createUserData builds the
\* record that StoreSession writes.
OpenSession(r, o, u) ==
    \E s \in FreshSids, p \in Fresh :
       /\ claims' = [claims EXCEPT ![p] = NewClaims(s, u)]
       /\ owner' = [owner EXCEPT ![s] = u]
       /\ req' = [req EXCEPT ![r] =
                    [Idle EXCEPT !.pc = "store", !.op = o,
                        !.data = [userId |-> u, sessionId |-> s,
                                  jwtAccessId |-> p, jwtRefreshId |-> p]]]

\* POST /auth/login.  The status of the user is not looked at.
Login(r, u) ==
    /\ req[r] = Idle
    /\ "login" \in Ops
    /\ u \notin deleted
    /\ PairsLeft /\ SidsLeft
    /\ OpenSession(r, "login", u)
    /\ UNCHANGED <<store, delivered, users, loggedOut>>

\* GET /auth/verify-email and GET /auth/reset-password: the user is read, to
\* be saved with the status ACTIVE or with the status it has now.
ReadUser(r, o, u) ==
    /\ req[r] = Idle
    /\ o \in Ops
    /\ u \notin deleted
    /\ o = "verifyEmail" => u \notin verified
    /\ PairsLeft /\ SidsLeft
    /\ req' = [req EXCEPT ![r] =
                 [Idle EXCEPT !.pc = "save", !.op = o, !.who = u,
                              !.active = o = "verifyEmail" \/ u \in verified]]
    /\ UNCHANGED <<store, minted, delivered, users, loggedOut>>

\* save() writes the whole row as it was read, status and deletedAt included;
\* then the user is logged in.
SaveUser(r) ==
    LET u == req[r].who
    IN  /\ req[r].pc = "save"
        /\ verified' = IF req[r].active THEN verified \cup {u} ELSE verified \ {u}
        /\ deleted' = deleted \ {u}
        /\ OpenSession(r, req[r].op, u)
        /\ UNCHANGED <<store, delivered, loggedOut>>

\* Mutant: the client has its tokens before SADD is known to have worked.
StoreDelivers(r) ==
    LET d == req[r].data
        s == d.sessionId
    IN  /\ req[r].pc = "store"
        /\ session' = [session EXCEPT ![s] = d]
        /\ \/ userSessions' = [userSessions EXCEPT ![d.userId] = @ \cup {s}]
           \/ Faults /\ UNCHANGED userSessions
        /\ delivered' = delivered \cup {d.jwtRefreshId}
        /\ Finish(r)
        /\ UNCHANGED <<minted, users, loggedOut>>

\* storeSession: SET and SADD leave together on one connection.  When that
\* connection breaks, SADD may be lost and the request fails; a client may
\* also never see the reply.
StoreSession(r) ==
    LET d == req[r].data
        s == d.sessionId
    IN  /\ req[r].pc = "store"
        /\ session' = [session EXCEPT ![s] = d]
        /\ \/ /\ userSessions' = [userSessions EXCEPT ![d.userId] = @ \cup {s}]
              /\ \/ delivered' = delivered \cup {d.jwtRefreshId}
                 \/ Faults /\ UNCHANGED delivered
           \/ Faults /\ UNCHANGED <<userSessions, delivered>>
        /\ Finish(r)
        /\ UNCHANGED <<minted, users, loggedOut>>

-----------------------------------------------------------------------------
(* The guards: JwtStrategy.validate and RefreshStrategy.validate *)

\* The session ids an operation is given: logout takes one from the cookie,
\* which is decoded and not verified; logoutSessions takes a list.  A logout
\* without a cookie throws on the null that decode() gives: see Fail.
Named(o) == CASE o = "logout" -> {{claims[q].sessionId} : q \in delivered}
              [] o = "logoutSessions" -> SUBSET Known
              [] OTHER -> {{}}

\* validatePayload, first await: the session the token names is in force.
\* A request that fails here changes nothing.
Authenticate(r, o, n) ==
    /\ req[r] = Idle
    /\ o \in Ops
    /\ n \in delivered
    /\ ValidSession(n, IF o = "refresh" THEN "refresh" ELSE "access")
    /\ o = "refresh" => PairsLeft
    /\ \E ids \in Named(o) :
         req' = [req EXCEPT ![r] = [Idle EXCEPT !.pc = "lookup", !.op = o,
                                      !.token = n,
                                      !.sid = claims[n].sessionId,
                                      !.todo = ids]]
    /\ UNCHANGED <<store, minted, delivered, users, loggedOut>>

\* validatePayload, second await.  The spread of a user that was not found is
\* an object without id, and the strategies accept it.
ResolveUser(r) ==
    /\ req[r].pc = "lookup"
    /\ \E u \in Found(claims[req[r].token].sub) :
         req' = [req EXCEPT ![r] = [req[r] EXCEPT !.pc = "handle", !.who = u]]
    /\ UNCHANGED <<store, minted, delivered, users, loggedOut>>

-----------------------------------------------------------------------------
(* POST /auth/refresh *)

\* getSessionById, then signTokens with the claims of the guard's user.
RefreshLoad(r) ==
    LET s == req[r].sid
    IN  /\ req[r].pc = "handle"
        /\ req[r].op = "refresh"
        /\ \/ /\ session[s] = Null
              /\ Finish(r)
              /\ UNCHANGED claims
           \/ /\ session[s] # Null
              /\ \E p \in Fresh :
                   /\ claims' = [claims EXCEPT ![p] = NewClaims(s, req[r].who)]
                   /\ req' = [req EXCEPT ![r] =
                                [req[r] EXCEPT !.pc = "update",
                                               !.data = Refreshed(r, p)]]
        /\ UNCHANGED <<store, owner, delivered, users, loggedOut>>

\* updateSession: SET, whatever the key holds by now; then the reply.
RefreshUpdate(r) ==
    LET d == req[r].data
    IN  /\ req[r].pc = "update"
        /\ session' = [session EXCEPT ![d.sessionId] = d]
        /\ \/ delivered' = delivered \cup {d.jwtRefreshId}
           \/ Faults /\ UNCHANGED delivered
        /\ Finish(r)
        /\ UNCHANGED <<userSessions, minted, users, loggedOut>>

-----------------------------------------------------------------------------
(* The logouts *)

\* removeSession of the session the cookie names.  An error of either command
\* is logged, and the client is told that it is logged out.
Logout(r) ==
    /\ req[r].pc = "handle"
    /\ req[r].op = "logout"
    /\ \E s \in req[r].todo :
         /\ \/ /\ session' = [session EXCEPT ![s] = Null]
               /\ userSessions' = [userSessions EXCEPT ![LogoutIndex(s)] = @ \ {s}]
            \/ Faults /\ UNCHANGED store
         /\ loggedOut' = loggedOut \cup {s}
    /\ Finish(r)
    /\ UNCHANGED <<minted, delivered, users>>

\* removeAllSessions: logoutAll takes the ids of the user's index, and
\* logoutSessions those of the request; with none there is nothing to do.
StartRemoval(r) ==
    /\ req[r].pc = "handle"
    /\ req[r].op \in {"logoutAll", "logoutSessions"}
    /\ LET ids == IF req[r].op = "logoutAll" THEN userSessions[req[r].who]
                  ELSE req[r].todo
       IN  IF ids = {} THEN Finish(r)
           ELSE req' = [req EXCEPT ![r] = [req[r] EXCEPT !.pc = "remove",
                                                         !.todo = ids]]
    /\ UNCHANGED <<store, minted, delivered, users, loggedOut>>

\* Mutant: SREM is sent before DEL.
RemoveIndexFirst(r) ==
    /\ req[r].pc = "remove"
    /\ \E s \in req[r].todo :
         /\ userSessions' = [userSessions EXCEPT ![req[r].who] = @ \ {s}]
         /\ \/ /\ session' = [session EXCEPT ![s] = Null]
               /\ loggedOut' = loggedOut \cup {s}
               /\ req' = [req EXCEPT ![r] =
                            [req[r] EXCEPT !.pc = AfterRound(r, s),
                                           !.todo = req[r].todo \ {s}]]
            \/ Faults /\ Finish(r) /\ UNCHANGED <<session, loggedOut>>
    /\ UNCHANGED <<minted, delivered, users>>

\* One round of the loop: DEL and SREM leave together.  When the connection
\* breaks between them the request fails.
RemoveOne(r) ==
    /\ req[r].pc = "remove"
    /\ \E s \in req[r].todo :
         /\ session' = [session EXCEPT ![s] = Null]
         /\ loggedOut' = loggedOut \cup {s}
         /\ \/ /\ userSessions' = [userSessions EXCEPT ![req[r].who] = @ \ {s}]
               /\ req' = [req EXCEPT ![r] =
                            [req[r] EXCEPT !.pc = AfterRound(r, s),
                                           !.todo = req[r].todo \ {s}]]
            \/ Faults /\ Finish(r) /\ UNCHANGED userSessions
    /\ UNCHANGED <<minted, delivered, users>>

\* Mutant: wait for an empty index.
RecheckWaits(r) ==
    /\ req[r].pc = "recheck"
    /\ Goto(r, IF userSessions[req[r].who] = {} THEN "unlink" ELSE "recheck")
    /\ UNCHANGED <<store, minted, delivered, users, loggedOut>>

\* The second SMEMBERS.
Recheck(r) ==
    /\ req[r].pc = "recheck"
    /\ IF userSessions[req[r].who] = {} THEN Goto(r, "unlink") ELSE Finish(r)
    /\ UNCHANGED <<store, minted, delivered, users, loggedOut>>

\* DEL of the index, whatever it holds by now.
Unlink(r) ==
    /\ req[r].pc = "unlink"
    /\ userSessions' = [userSessions EXCEPT ![req[r].who] = {}]
    /\ Finish(r)
    /\ UNCHANGED <<session, minted, delivered, users, loggedOut>>

-----------------------------------------------------------------------------
(* The environment *)

\* A rejected await, or a crash of the process, ends a request between two of
\* its steps; what it holds in memory is gone.
Fail(r) ==
    /\ Faults
    /\ req[r].pc # "idle"
    /\ Finish(r)
    /\ UNCHANGED <<store, minted, delivered, users, loggedOut>>

\* The TTL of session:<sid> runs out.
Expire(s) ==
    /\ "expire" \in Ops
    /\ session[s] # Null
    /\ session' = [session EXCEPT ![s] = Null]
    /\ UNCHANGED <<userSessions, minted, delivered, users, loggedOut, req>>

\* DELETE /user/:id and PATCH /user/restore/:id leave the sessions alone.  So does
\* a POST /user that gives a user another status or e-mail (see Users): to the
\* guards the user is gone, or back.
SoftDelete(u) ==
    /\ "softDelete" \in Ops
    /\ u \notin deleted
    /\ deleted' = deleted \cup {u}
    /\ UNCHANGED <<store, minted, delivered, verified, loggedOut, req>>

Restore(u) ==
    /\ "restore" \in Ops
    /\ u \in deleted
    /\ deleted' = deleted \ {u}
    /\ UNCHANGED <<store, minted, delivered, verified, loggedOut, req>>

\* What a request in flight does next.
Step(r) == \/ SaveUser(r)
           \/ StoreSession(r)
           \/ ResolveUser(r)
           \/ RefreshLoad(r)
           \/ RefreshUpdate(r)
           \/ Logout(r)
           \/ StartRemoval(r)
           \/ RemoveOne(r)
           \/ Recheck(r)
           \/ Unlink(r)

Arrive(r) ==
    \/ \E u \in User : \/ Login(r, u)
                       \/ ReadUser(r, "verifyEmail", u)
                       \/ ReadUser(r, "resetPassword", u)
    \/ \E o \in {"refresh", "logout", "logoutAll", "logoutSessions"},
          n \in Pair : Authenticate(r, o, n)

Environment == \/ \E r \in Request : Fail(r)
               \/ \E s \in Sid : Expire(s)
               \/ \E u \in User : SoftDelete(u) \/ Restore(u)

Next == (\E r \in Request : Arrive(r) \/ Step(r)) \/ Environment

Spec == Init /\ [][Next]_vars

\* Every await settles: a request in flight goes on.
FairSpec == Spec /\ \A r \in Request : WF_vars(Step(r))

-----------------------------------------------------------------------------
(* Safety *)

\* Every variable keeps its type, in particular what a handler carries across
\* an await is a whole SessionData or nothing.
TypeOK ==
    /\ session \in [Sid -> SessionData \cup {Null}]
    /\ userSessions \in [IndexKey -> SUBSET Sid]
    /\ claims \in [Pair -> Claims \cup {Null}]
    /\ owner \in [Sid -> User \cup {Null}]
    /\ delivered \subseteq Pair
    /\ verified \subseteq User
    /\ deleted \subseteq User
    /\ loggedOut \subseteq Sid
    /\ req \in [Request -> Locals]

\* A stored session is never a mixture of two refreshes or of two sessions:
\* both its token ids come from one signTokens call, made for that session,
\* and it still belongs to the user it was opened for, however the two steps
\* of concurrent refreshes (auth.service refresh) interleave.
SlotIntegrity ==
    \A s \in Sid : session[s] # Null =>
        /\ session[s].sessionId = s
        /\ session[s].userId = owner[s]
        /\ session[s].jwtAccessId = session[s].jwtRefreshId
        /\ claims[session[s].jwtAccessId] # Null
        /\ claims[session[s].jwtAccessId].sessionId = s

\* A user's index (what GET /auth/sessions lists and logoutAll removes) never
\* holds a session of another user.
IndexSound ==
    \A u \in User : \A s \in userSessions[u] : owner[s] = u

\* A session a client holds a token in force for is in its user's index: the
\* user can see it (getAllSessions) and logoutAll reaches it.  UnlistedOnlyByRaces
\* says how far this is so.
IndexComplete ==
    \A p \in delivered :
        LET data == session[claims[p].sessionId]
        IN  data # Null /\ data.jwtRefreshId = p
              => data.sessionId \in Listed(data.userId)

\* A session that a logout removed, or said it removed, is gone for good.
LoggedOutStaysOut == \A s \in loggedOut : session[s] = Null

\* Only one thing brings such a session back: the SET of a refresh that had
\* loaded it before.  No login ever draws its id, and no other handler stores it.
ReturnsOnlyByRefresh ==
    [][\A s \in loggedOut : session[s] = Null /\ session'[s] # Null =>
          \E r \in Request : req[r].pc = "update" /\ req[r].sid = s]_vars

\* A session a client has had tokens for, which is not in its user's index.
Unlisted(s) ==
    /\ session[s] # Null
    /\ s \notin userSessions[session[s].userId]
    /\ \E p \in delivered : claims[p].sessionId = s

\* A session drops out of its user's index in two ways only: removeAllSessions
\* deletes an index that has been entered since it was read, or a refresh writes
\* a session back that was removed.  No fault and no other interleaving of
\* logins, removals and refreshes hides a session from its user.
UnlistedOnlyByRaces ==
    [][\A s \in Sid : ~Unlisted(s) /\ Unlisted(s)' =>
          \E r \in Request :
              \/ /\ req[r].pc = "unlink" /\ session[s] # Null
                 /\ req[r].who = session[s].userId
              \/ req[r].pc = "update" /\ req[r].sid = s /\ session[s] = Null]_vars

\* After the guards, currentUser is the user the session was opened for.
AuthenticatedAsOwner ==
    \A r \in Request : req[r].pc \in {"handle", "update", "remove", "recheck",
                                      "unlink"}
                          => req[r].who = owner[req[r].sid]

\* The assertion of both strategies: a guard lets a request through with a
\* user ("if (!user) throw new UnauthorizedException").
GuardYieldsUser == \A r \in Request : req[r].pc = "handle" => req[r].who # Null

\* "The current authenticated user" of a handler is the session's user, or
\* nobody; never another user.
NeverAnotherUser ==
    \A r \in Request : req[r].pc = "handle"
                          => req[r].who \in {owner[req[r].sid], Null}

\* When a guard does let a request through as another user, a pair without a
\* subject was signed for that session before, by the refresh of an owner who
\* was not active: nothing else separates a session from its owner.
StrangerOnlyWithoutSubject ==
    \A r \in Request :
        req[r].pc = "handle" /\ req[r].who \notin {owner[req[r].sid], Null} =>
            \E p \in Pair : /\ claims[p] # Null
                            /\ claims[p].sessionId = req[r].sid
                            /\ claims[p].sub = Null

\* removeSession takes the session out of its user's index: a session a single
\* logout removed, with no fault and nobody else at work, is not indexed.
LogoutUnindexes ==
    \A s \in loggedOut : \A u \in User : s \notin userSessions[u]

-----------------------------------------------------------------------------
(* Refinement: the token ledger *)

InFlight == {r \in Request : req[r].pc \in {"store", "update"}}
PendingPairs == {req[r].data.jwtRefreshId : r \in InFlight}

InForce(p) == LET data == session[claims[p].sessionId]
              IN  data # Null /\ data.jwtRefreshId = p

pairState == [p \in Pair |-> IF claims[p] = Null THEN "unissued"
                             ELSE IF InForce(p) THEN "current"
                             ELSE IF p \in PendingPairs THEN "pending"
                             ELSE "retired"]
pairSession == [p \in Pair |-> IF claims[p] = Null THEN Null
                               ELSE claims[p].sessionId]

Ledger == INSTANCE TokenLedger WITH state <- pairState, bound <- pairSession

\* The session store keeps the promise of the token ledger: one pair in force
\* per session, and a pair that was replaced, revoked, expired or lost is
\* never in force again (refresh, logout, removeAllSessions, TTL).
LedgerSpec == Ledger!Spec

-----------------------------------------------------------------------------
(* Liveness, under FairSpec and without faults *)

\* Every session a logoutAll or logoutSessions has taken on is removed
\* (removeAllSessions reaches the end of its loop).
RemovalCompletes ==
    \A s \in Sid : (\E r \in Request : req[r].pc = "remove" /\ s \in req[r].todo)
                     ~> session[s] = Null

\* Every request that was let in is answered.
RequestsAnswered == \A r \in Request : req[r].pc # "idle" ~> req[r].pc = "idle"
=============================================================================
