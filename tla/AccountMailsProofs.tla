-------------------------- MODULE AccountMailsProofs --------------------------
(* That handlers and mails at work together are handlers as Users has them    *)
(* and mails as MailQueue has them, that no accepted mail is lost, that no    *)
(* confirmation is sent with a dead link and that none but a confirmation     *)
(* verifies a user, for any number of requests, users and mails and any times *)
(* to live.                                                                   *)
EXTENDS AccountMails, TLAPS

-----------------------------------------------------------------------------
(* The mail queue *)

QueueInv == TypeOK /\ NothingLost

LEMMA QueueInit == Init => QueueInv
  <1> SUFFICES ASSUME Init PROVE QueueInv
    OBVIOUS
  <1>1. mail \in [Mail -> Place]
    BY MailAssumption DEF Init, Place, State
  <1> QED
    BY <1>1, MailAssumption DEF Init, QueueInv, TypeOK, NothingLost

\* Where the steps of a message leave it.
LEMMA PlacesTyped ==
    ASSUME TypeOK, NEW m \in Mail
    PROVE  /\ Published(m) \in Place /\ Requeued(m) \in Place
           /\ Published(m).state = "queued" /\ Requeued(m).state = "queued"
           /\ Published(m).kind = mail[m].kind /\ Requeued(m).kind = mail[m].kind
           /\ Published(m).at = now /\ Requeued(m).at = mail[m].at
  <1>1. mail[m] \in Place /\ now \in 0..MaxTime
    BY DEF TypeOK
  <1>2. Published(m) \in Place /\ Requeued(m) \in Place
    BY <1>1 DEF Published, Requeued, Place, State
  <1> QED
    BY <1>1, <1>2 DEF Published, Requeued, Place

\* One message moves at a time, except at a restart, and none changes its kind
\* or its place with the other's.
LEMMA QueueStep == QueueInv /\ [Next]_vars => QueueInv'
  <1> SUFFICES ASSUME QueueInv, [Next]_vars
               PROVE  QueueInv'
    OBVIOUS
  <1> USE MailAssumption
  <1>0. /\ TypeOK /\ NothingLost /\ now \in 0..MaxTime
        /\ \A m \in Mail : mail[m] \in Place
    BY DEF QueueInv, TypeOK
  <1>1. ASSUME NEW m \in Mail, Publish(m) PROVE QueueInv'
    <2>1. TypeOK'
      BY <1>0, <1>1, PlacesTyped DEF Publish, Move, TypeOK, Place, State
    <2>2. NothingLost'
      BY <1>0, <1>1, PlacesTyped DEF Publish, Move, TypeOK, NothingLost, Place
    <2> QED
      BY <2>1, <2>2 DEF QueueInv
  <1>2. ASSUME NEW m \in Mail, Deliver(m) \/ SendSucceeds(m) \/ Acknowledge(m) \/ Expire(m)
        PROVE  QueueInv'
    <2>1. TypeOK'
      BY <1>0, <1>2 DEF Deliver, SendSucceeds, Acknowledge, Expire, Move, TypeOK,
         Place, State
    <2>2. NothingLost'
      BY <1>0, <1>2 DEF Deliver, SendSucceeds, Acknowledge, Expire, Move, TypeOK,
         Overdue, NothingLost, Place
    <2> QED
      BY <2>1, <2>2 DEF QueueInv
  <1>3. ASSUME NEW m \in Mail, SendFails(m) PROVE QueueInv'
    <2>1. TypeOK'
      BY <1>0, <1>3, PlacesTyped DEF SendFails, TypeOK
    <2>2. NothingLost'
      BY <1>0, <1>3, PlacesTyped DEF SendFails, TypeOK, NothingLost, Place
    <2> QED
      BY <2>1, <2>2 DEF QueueInv
  <1>4. ASSUME Restart PROVE QueueInv'
    <2>1. TypeOK'
      BY <1>0, <1>4, PlacesTyped DEF Restart, TypeOK
    <2>2. NothingLost'
      BY <1>0, <1>4, PlacesTyped DEF Restart, TypeOK, NothingLost, Place
    <2> QED
      BY <2>1, <2>2 DEF QueueInv
  <1>5. CASE Tick
    BY <1>0, <1>5 DEF Tick, QueueInv, TypeOK, NothingLost, Place
  <1>6. CASE UNCHANGED vars
    BY <1>0, <1>6 DEF vars, QueueInv, TypeOK, NothingLost
  <1> QED
    BY <1>1, <1>2, <1>3, <1>4, <1>5, <1>6 DEF Next, Consume

\* Neither a rejecting consumer nor a restart loses a mail whose handler saw the
\* publish succeed, whatever the time to live of the confirmation queue is.
THEOREM NoMailLost == Spec => []NothingLost
  <1>1. QueueInv => NothingLost
    BY DEF QueueInv
  <1> QED
    BY QueueInit, QueueStep, <1>1, PTL DEF Spec

-----------------------------------------------------------------------------
(* The links *)

\* A mail has a link once its publish was not refused; the link counts from
\* when the mail did; and a request about to hand over a mail has a user, one
\* about to insert a row at most an id.
LinksHeld ==
    /\ link \in [Mail -> Link \cup {Null}]
    /\ \A m \in Mail :
          /\ link[m] # Null <=> mail[m].state \notin {"none", "refused"}
          /\ link[m] # Null => link[m].until = mail[m].at + Life
          /\ m \in arrived => link[m] # Null

Addressed ==
    /\ req = [r \in Request |-> req[r]]
    /\ \A r \in Request :
          /\ req[r].pc = "publish" => req[r].id \in UserId
          /\ req[r].pc = "insert" => req[r].id \in UserId \cup {Null}

AccountInv == QueueInv /\ LinksHeld /\ Addressed

LEMMA AccountStart == AccountInit => AccountInv
  <1> SUFFICES ASSUME AccountInit PROVE AccountInv
    OBVIOUS
  <1>1. QueueInv
    BY QueueInit DEF AccountInit
  <1>2. LinksHeld
    BY DEF AccountInit, Init, LinksHeld
  <1>3. Addressed
    BY DEF AccountInit, U!Idle, Addressed
  <1> QED
    BY <1>1, <1>2, <1>3 DEF AccountInv

\* Every step is one of the mail queue, or leaves it alone.
LEMMA QueueSteps == [AccountNext]_accountVars => [Next]_vars
  BY DEF AccountNext, accountVars, Arrive, Handle, HandOver, Work, FollowConfirmation,
     FollowReset, Transport, Next

\* Broker and consumers leave alone what mails are about and when they were
\* published, and touch only those that were.
LEMMA TransportKeeps ==
    ASSUME TypeOK, Transport
    PROVE  /\ \A m \in Mail :
                 /\ mail'[m].kind = mail[m].kind /\ mail'[m].at = mail[m].at
                 /\ mail'[m].state \in {"none", "refused"}
                       <=> mail[m].state \in {"none", "refused"}
                 /\ m \in arrived' => m \in arrived \/ mail[m].state = "sending"
           /\ UNCHANGED <<link, row, drawn, overwritten, req>>
  <1>0. UNCHANGED <<link, row, drawn, overwritten, req>>
    BY DEF Transport, accounts
  <1>1. CASE \E m \in Mail : Consume(m) \/ Expire(m)
    BY <1>0, <1>1, PlacesTyped DEF Consume, Deliver, SendSucceeds, SendFails,
       Acknowledge, Expire, Move, TypeOK, Place
  <1>2. CASE Restart
    BY <1>0, <1>2, PlacesTyped DEF Restart, TypeOK
  <1>3. CASE Tick
    BY <1>0, <1>3 DEF Tick
  <1> QED
    BY <1>1, <1>2, <1>3 DEF Transport

\* Publishing gives one mail its place in a queue, or has it refused.
LEMMA PublishMoves ==
    ASSUME TypeOK, NEW m \in Mail, Publish(m)
    PROVE  /\ mail[m].state = "none" /\ mail'[m].kind = mail[m].kind
           /\ \/ mail'[m].state = "queued" /\ mail'[m].at = now
              \/ mail'[m].state = "refused"
           /\ \A n \in Mail \ {m} : mail'[n] = mail[n]
           /\ UNCHANGED arrived
  BY PlacesTyped DEF Publish, Move, TypeOK, Place

\* The other handlers touch no mail, and a request they bring to the point of
\* handing over a mail has a user.
LEMMA HandlersKeep ==
    ASSUME Addressed, NEW r \in Request,
           \/ Arrive(r) \/ Work(r)
           \/ \E m \in Mail : FollowConfirmation(r, m)
           \/ \E m \in Mail, p \in Password : FollowReset(r, m, p)
    PROVE  Addressed' /\ UNCHANGED <<vars, link>>
  <1>1. UNCHANGED <<vars, link>>
    BY DEF Arrive, Work, FollowConfirmation, FollowReset
  <1>2. ASSUME NEW pc, NEW o, NEW u, NEW e, U!Begin(r, pc, o, u, e),
               pc = "publish" => u \in UserId,
               pc = "insert" => u \in UserId \cup {Null}
        PROVE  Addressed'
    <2>1. req' = [req EXCEPT ![r] = [pc |-> pc, op |-> o, id |-> u, entity |-> e]]
      BY <1>2 DEF U!Begin
    <2> QED
      BY <1>2, <2>1 DEF Addressed
  <1>3. ASSUME U!Finish(r) PROVE Addressed'
    BY <1>3 DEF U!Finish, U!Idle, Addressed
  <1>4. CASE Arrive(r)
    <2>1. CASE \E n \in U!ToCreate \cup U!ToRegister : U!CheckEmail(r, n.op, n.id, n.entity)
      BY <1>1, <1>2, <2>1 DEF U!CheckEmail, U!ToCreate, U!ToRegister
    <2>2. CASE \E u \in UserId : U!Resend(r, u) \/ U!SendReset(r, u)
      BY <1>1, <1>2, <2>2 DEF U!Resend, U!SendReset
    <2>3. CASE \E u \in UserId, o \in Ops : U!ReadToMark(r, o, u)
      BY <1>1, <1>2, <2>3 DEF U!ReadToMark
    <2> QED
      BY <1>4, <2>1, <2>2, <2>3 DEF Arrive
  <1>5. CASE Work(r)
    <2>1. CASE U!InsertUser(r)
      <3>1. ASSUME NEW u \in IF req[r].id = Null THEN UserId \ drawn ELSE {req[r].id}
            PROVE  u \in UserId
        BY <2>1 DEF U!InsertUser, Addressed
      <3>2. U!Finish(r) \/ \E u \in UserId : U!Begin(r, "publish", "register", u, Null)
        BY <2>1, <3>1 DEF U!InsertUser
      <3>3. ASSUME NEW u \in UserId, U!Begin(r, "publish", "register", u, Null)
            PROVE  Addressed'
        BY <1>2, <3>3
      <3> QED
        BY <1>1, <1>3, <3>2, <3>3
    <2>2. CASE U!Save(r) \/ U!Mark(r) \/ U!Fail(r)
      BY <1>1, <1>3, <2>2 DEF U!Save, U!Mark, U!Fail
    <2> QED
      BY <1>5, <2>1, <2>2 DEF Work
  <1>6. CASE \E m \in Mail : FollowConfirmation(r, m)
    BY <1>1, <1>2, <1>6 DEF FollowConfirmation, U!VerifyUser
  <1>7. CASE \E m \in Mail, p \in Password : FollowReset(r, m, p)
    BY <1>1, <1>2, <1>7 DEF FollowReset, U!ResetUser
  <1> QED
    BY <1>4, <1>5, <1>6, <1>7

LEMMA AccountStep == AccountInv /\ [AccountNext]_accountVars => AccountInv'
  <1> SUFFICES ASSUME AccountInv, [AccountNext]_accountVars
               PROVE  AccountInv'
    OBVIOUS
  <1> USE AccountAssumption, MailAssumption
  <1>0. /\ QueueInv /\ TypeOK /\ LinksHeld /\ Addressed
        /\ now \in Nat
    BY DEF AccountInv, QueueInv, TypeOK
  <1>1. QueueInv'
    BY <1>0, QueueSteps, QueueStep
  <1>2. ASSUME NEW r \in Request, HandOver(r)
        PROVE  LinksHeld' /\ Addressed'
    <2>1. PICK m \in Mail : /\ Publish(m)
                            /\ link' = [link EXCEPT ![m] =
                                  IF mail'[m].state = "refused" THEN Null
                                  ELSE [user |-> req[r].id, until |-> now + Life]]
      BY <1>2 DEF HandOver
    <2>0. req[r].pc = "publish"
      BY <1>2 DEF HandOver
    <2>2. req[r].id \in UserId
      BY <1>0, <2>0 DEF Addressed
    <2>3. [user |-> req[r].id, until |-> now + Life] \in Link
      BY <1>0, <2>2 DEF Link
    <2>4. LinksHeld'
      BY <1>0, <2>1, <2>3, PublishMoves DEF LinksHeld, Link
    <2>5. Addressed'
      BY <1>0, <1>2 DEF HandOver, U!Finish, U!Idle, Addressed
    <2> QED
      BY <2>4, <2>5
  <1>3. ASSUME NEW r \in Request,
               \/ Arrive(r) \/ Work(r)
               \/ \E m \in Mail : FollowConfirmation(r, m)
               \/ \E m \in Mail, p \in Password : FollowReset(r, m, p)
        PROVE  LinksHeld' /\ Addressed'
    <2>1. Addressed' /\ UNCHANGED <<vars, link>>
      BY <1>0, <1>3, HandlersKeep
    <2> QED
      BY <1>0, <2>1 DEF LinksHeld, vars
  <1>4. ASSUME Transport PROVE LinksHeld' /\ Addressed'
    <2>0. UNCHANGED <<link, req>>
      BY <1>0, <1>4, TransportKeeps
    <2>1. Addressed'
      BY <1>0, <2>0 DEF Addressed
    <2>2. ASSUME NEW m \in Mail
          PROVE  /\ link'[m] # Null <=> mail'[m].state \notin {"none", "refused"}
                 /\ link'[m] # Null => link'[m].until = mail'[m].at + Life
                 /\ m \in arrived' => link'[m] # Null
      <3>1. /\ mail'[m].at = mail[m].at
            /\ mail'[m].state \in {"none", "refused"} <=> mail[m].state \in {"none", "refused"}
            /\ m \in arrived' => m \in arrived \/ mail[m].state = "sending"
        BY <1>0, <1>4, TransportKeeps
      <3> QED
        BY <1>0, <2>0, <3>1 DEF LinksHeld
    <2> QED
      BY <1>0, <2>0, <2>1, <2>2 DEF LinksHeld
  <1>5. ASSUME UNCHANGED accountVars PROVE LinksHeld' /\ Addressed'
    BY <1>0, <1>5 DEF accountVars, accounts, vars, LinksHeld, Addressed
  <1> QED
    BY <1>1, <1>2, <1>3, <1>4, <1>5 DEF AccountNext, Handle, AccountInv

LEMMA AccountInvariance == AccountSpec => []AccountInv
  <1> QED
    BY AccountStart, AccountStep, PTL DEF AccountSpec

-----------------------------------------------------------------------------
(* Results about handlers and mails together *)

\* The mails of the handlers are mails of the queue, so what holds of the queue
\* holds here.
THEOREM MailsAreQueued == AccountSpec => Spec
  <1>1. AccountInit => Init
    BY DEF AccountInit
  <1> QED
    BY <1>1, QueueSteps, PTL DEF AccountSpec, Spec

\* However often consumers reject and the process restarts, a confirmation is
\* never sent with a link that jwt.service would no longer verify, for any time
\* to live of the queue that is below the life of a link.
THEOREM NoDeadLink == AccountSpec => NoDeadConfirmation
  <1>1. ASSUME AccountInv, [Next]_vars, NEW m \in Mail,
               mail[m].kind = "confirm", mail[m].state = "queued",
               mail'[m].state = "sending"
        PROVE  now < link[m].until
    <2>0. TypeOK /\ mail[m] \in Place /\ now \in 0..MaxTime
      BY <1>1 DEF AccountInv, QueueInv, TypeOK
    <2>1. ~Overdue(m)
      <3>1. CASE UNCHANGED vars
        BY <1>1, <3>1 DEF vars
      <3>2. ASSUME NEW n \in Mail, Publish(n) PROVE FALSE
        BY <1>1, <2>0, <3>2, PublishMoves
      <3>3. ASSUME NEW n \in Mail, SendSucceeds(n) \/ SendFails(n) \/ Acknowledge(n)
                                  \/ Expire(n)
            PROVE  FALSE
        BY <1>1, <2>0, <3>3, PlacesTyped DEF SendSucceeds, SendFails, Acknowledge, Expire,
           Move, TypeOK, Place
      <3>4. ASSUME NEW n \in Mail, Deliver(n) PROVE ~Overdue(m)
        BY <1>1, <2>0, <3>4 DEF Deliver, Move, TypeOK, Place
      <3>5. ~Restart /\ ~Tick
        BY <1>1, <2>0, PlacesTyped DEF Restart, Tick
      <3> QED
        BY <1>1, <3>1, <3>2, <3>3, <3>4, <3>5 DEF Next, Consume
    <2>2. now - mail[m].at < Ttl
      BY <1>1, <2>0, <2>1, MailAssumption DEF Overdue, Place
    <2>3. link[m].until = mail[m].at + Life
      BY <1>1 DEF AccountInv, LinksHeld
    <2> QED
      BY <2>0, <2>2, <2>3, MailAssumption, AccountAssumption DEF Place
  <1>2. AccountInv /\ [AccountNext]_accountVars
            => [\A m \in Mail :
                  mail[m].kind = "confirm" /\ mail[m].state = "queued"
                  /\ mail'[m].state = "sending" => now < link[m].until]_accountVars
    BY <1>1, QueueSteps
  <1> QED
    BY <1>2, AccountInvariance, PTL DEF AccountSpec, NoDeadConfirmation

-----------------------------------------------------------------------------
(* The refinement *)

LEMMA NobodyMailed == AccountInit => U!Init
  BY DEF AccountInit, U!Init, Mailed

\* Only a handing-over changes who was mailed.
LEMMA MailedKept ==
    ASSUME UNCHANGED link, \A m \in Mail : mail'[m].kind = mail[m].kind
    PROVE  /\ Mailed("confirm")' = Mailed("confirm")
           /\ Mailed("reset")' = Mailed("reset")
  BY DEF Mailed

LEMMA HandOverRefines ==
    ASSUME Faults, AccountInv, NEW r \in Request, HandOver(r)
    PROVE  U!Publish(r)
  <1>0. TypeOK /\ LinksHeld /\ Addressed /\ now \in Nat
    BY DEF AccountInv, QueueInv, TypeOK
  <1>1. PICK m \in Mail :
           /\ mail[m].kind = KindOf(req[r].op)
           /\ Publish(m)
           /\ link' = [link EXCEPT ![m] =
                         IF mail'[m].state = "refused" THEN Null
                         ELSE [user |-> req[r].id, until |-> now + Life]]
    BY DEF HandOver
  <1>2. /\ mail[m].state = "none" /\ link[m] = Null
        /\ \A n \in Mail : mail'[n].kind = mail[n].kind
        /\ mail'[m].state \in {"queued", "refused"}
    BY <1>0, <1>1, PublishMoves DEF LinksHeld
  <1>3. CASE mail'[m].state = "refused"
    <2>1. link' = link
      BY <1>0, <1>1, <1>2, <1>3 DEF LinksHeld
    <2> QED
      BY <1>2, <2>1, MailedKept DEF HandOver, U!Publish, U!table
  <1>4. CASE mail'[m].state = "queued"
    <2> DEFINE l == [user |-> req[r].id, until |-> now + Life]
    <2>1. l # Null /\ l.user = req[r].id
      <3>0. req[r].pc = "publish"
        BY DEF HandOver
      <3>1. req[r].id \in UserId
        BY <1>0, <3>0 DEF Addressed
      <3> QED
        BY <1>0, <3>1, AccountAssumption
    <2>2. /\ link'[m] = l
          /\ \A n \in Mail \ {m} : link'[n] = link[n]
      BY <1>0, <1>1, <1>4 DEF LinksHeld
    <2>3. \A n \in Mail : link'[n] # Null <=> link[n] # Null \/ n = m
      BY <1>2, <2>1, <2>2
    <2> HIDE DEF l
    <2>4. ASSUME NEW k \in Kind
          PROVE  Mailed(k)' = IF mail[m].kind = k THEN Mailed(k) \cup {req[r].id}
                              ELSE Mailed(k)
      BY <1>2, <2>1, <2>2, <2>3 DEF Mailed
    <2>5. /\ Mailed("confirm")' = IF req[r].op = "sendReset" THEN Mailed("confirm")
                                  ELSE Mailed("confirm") \cup {req[r].id}
          /\ Mailed("reset")' = IF req[r].op = "sendReset"
                                THEN Mailed("reset") \cup {req[r].id} ELSE Mailed("reset")
      BY <1>1, <2>4 DEF Kind, KindOf
    <2> QED
      BY <2>5 DEF HandOver, U!Publish, U!table
  <1> QED
    BY <1>2, <1>3, <1>4

LEMMA HandlersRefine ==
    ASSUME Faults, AccountInv, [AccountNext]_accountVars
    PROVE  [U!Next]_(U!vars)
  <1>0. TypeOK /\ LinksHeld
    BY DEF AccountInv, QueueInv
  <1>1. ASSUME NEW r \in Request, HandOver(r) PROVE U!Next
    <2>1. U!Publish(r)
      BY <1>1, HandOverRefines
    <2> QED
      BY <2>1 DEF U!Next, U!Step
  <1>2. ASSUME NEW r \in Request, Arrive(r) PROVE U!Next
    <2>1. ASSUME NEW o \in Ops, NEW u \in UserId, U!ReadToMark(r, o, u) PROVE o \in U!AllOps
      BY <2>1 DEF U!ReadToMark, U!AllOps
    <2>2. U!Arrive(r)
      BY <1>2, <2>1 DEF Arrive, U!Arrive
    <2> QED
      BY <2>2 DEF U!Next
  <1>3. ASSUME NEW r \in Request, Work(r) PROVE U!Next
    BY <1>3 DEF Work, U!Next, U!Step
  <1>4. ASSUME NEW r \in Request, NEW m \in Mail, FollowConfirmation(r, m) PROVE U!Next
    <2>1. link[m].user \in UserId /\ link[m].user \in Mailed("confirm")
      BY <1>0, <1>4 DEF FollowConfirmation, Verifies, LinksHeld, Link, Mailed
    <2> QED
      BY <1>4, <2>1 DEF FollowConfirmation, U!Next, U!Arrive, U!ReadToVerify
  <1>5. ASSUME NEW r \in Request, NEW m \in Mail, NEW p \in Password, FollowReset(r, m, p)
        PROVE  U!Next
    <2>1. link[m].user \in UserId /\ link[m].user \in Mailed("reset")
      BY <1>0, <1>5 DEF FollowReset, Verifies, LinksHeld, Link, Mailed
    <2> QED
      BY <1>5, <2>1 DEF FollowReset, U!Next, U!Arrive, U!ReadToReset
  <1>6. ASSUME Transport \/ UNCHANGED accountVars PROVE UNCHANGED U!vars
    BY <1>0, <1>6, TransportKeeps, MailedKept DEF U!vars, U!table, accountVars, accounts,
       vars
  <1> QED
    BY <1>1, <1>2, <1>3, <1>4, <1>5, <1>6 DEF AccountNext, Handle

\* Users supposes that a token can be used from its mail's publishing on.  The
\* handlers, with links that arrive later, expire and may never come, do nothing
\* that Users does not allow, as long as it allows failures.
THEOREM HandlersAsInUsers == ASSUME Faults PROVE AccountSpec => UsersSpec
  <1> QED
    BY NobodyMailed, HandlersRefine, AccountInvariance, PTL
       DEF AccountSpec, UsersSpec, U!Spec

-----------------------------------------------------------------------------
(* The requests *)

\* As in UsersProofs, for the handlers with mails in place of known tokens: a
\* row's id was drawn for it, handlers that read a row hold ids that were drawn,
\* and what they insert or save is an entity.
RequestsTyped ==
    /\ row \in [UserId -> U!Row \cup {Null}]
    /\ drawn \subseteq UserId
    /\ overwritten \subseteq UserId
    /\ req \in [Request -> U!Locals]

Held ==
    /\ \A u \in UserId : row[u] # Null => u \in drawn
    /\ \A r \in Request :
          /\ req[r].pc \in {"publish", "save", "mark"} => req[r].id \in drawn
          /\ req[r].pc = "insert" => /\ req[r].entity \in U!Entity
                                    /\ req[r].entity.password # Null
          /\ req[r].pc = "save" => req[r].entity \in U!Entity

\* A confirmation mailed to the user has arrived.
Confirmed(u) == \E m \in arrived : mail[m].kind = "confirm" /\ link[m].user = u

\* No longer bound to the status the row was created with.
Free(u) == Confirmed(u) \/ u \in overwritten

\* Everything known of any other user has the same status: the row and the
\* entities about to be saved.  Without it a password reset under way could
\* bring back a status its user never had a link for.
OneStatus ==
    \A u \in UserId : ~Free(u) =>
       \A r \in Request : req[r].pc = "save" /\ req[r].id = u =>
          /\ row[u] # Null => row[u].status = req[r].entity.status
          /\ \A q \in Request : req[q].pc = "save" /\ req[q].id = u
                                   => req[q].entity.status = req[r].entity.status

RequestInv == RequestsTyped /\ Held /\ OneStatus

LEMMA RequestStart == AccountInit => RequestInv
  BY DEF AccountInit, U!Idle, U!Locals, RequestInv, RequestsTyped, Held, OneStatus

\* What has arrived is not taken back.
LEMMA StaysConfirmed ==
    ASSUME AccountInv, [AccountNext]_accountVars, NEW u, Confirmed(u)
    PROVE  Confirmed(u)'
  <1>0. TypeOK /\ LinksHeld
    BY DEF AccountInv, QueueInv
  <1>1. PICK m \in arrived : mail[m].kind = "confirm" /\ link[m].user = u
    BY DEF Confirmed
  <1>2. m \in Mail /\ link[m] # Null /\ mail[m].state # "none"
    BY <1>0, <1>1 DEF TypeOK, LinksHeld
  <1>3. m \in arrived' /\ mail'[m].kind = "confirm" /\ link'[m] = link[m]
    <2>1. ASSUME NEW r \in Request, HandOver(r)
          PROVE  m \in arrived' /\ mail'[m].kind = "confirm" /\ link'[m] = link[m]
      <3>1. PICK n \in Mail :
               /\ Publish(n)
               /\ link' = [link EXCEPT ![n] =
                             IF mail'[n].state = "refused" THEN Null
                             ELSE [user |-> req[r].id, until |-> now + Life]]
        BY <2>1 DEF HandOver
      <3>2. n # m /\ arrived' = arrived /\ mail'[m] = mail[m]
        BY <1>0, <1>2, <3>1, PublishMoves
      <3> QED
        BY <1>0, <1>1, <1>2, <3>1, <3>2 DEF LinksHeld
    <2>2. CASE UNCHANGED <<vars, link>>
      BY <1>1, <2>2 DEF vars
    <2>3. CASE Transport
      <3>1. arrived \subseteq arrived'
        BY <2>3 DEF Transport, Consume, Deliver, SendSucceeds, SendFails, Acknowledge,
           Expire, Restart, Tick
      <3> QED
        BY <1>0, <1>1, <1>2, <2>3, <3>1, TransportKeeps
    <2> QED
      BY <2>1, <2>2, <2>3 DEF AccountNext, accountVars, Arrive, Handle, Work,
         FollowConfirmation, FollowReset
  <1> QED
    BY <1>1, <1>3 DEF Confirmed

LEMMA StaysFree ==
    ASSUME AccountInv, [AccountNext]_accountVars, NEW u, Free(u)
    PROVE  Free(u)'
  <1>1. overwritten \subseteq overwritten'
    BY DEF AccountNext, accountVars, accounts, Arrive, Handle, HandOver, Work, Transport,
       FollowConfirmation, FollowReset, U!table, U!CheckEmail, U!InsertUser, U!Resend,
       U!SendReset, U!VerifyUser, U!ResetUser, U!Save, U!ReadToMark, U!Mark, U!Fail
  <1> QED
    BY <1>1, StaysConfirmed DEF Free

\* What save() leaves is a row with the entity's status.
LEMMA SavedTyped ==
    ASSUME RequestsTyped, NEW u \in UserId, NEW e \in U!Entity, U!Store(u, e)
    PROVE  /\ row' \in [UserId -> U!Row \cup {Null}]
           /\ row'[u].status = e.status
           /\ \A v \in UserId \ {u} : row'[v] = row[v]
  <1>1. row[u] # Null => row[u] \in U!Row
    BY DEF RequestsTyped
  <1>2. e.password # Null \/ row[u] # Null
    BY DEF U!Store, U!Storable
  <1>3. /\ (IF e.password = Null THEN row[u].password ELSE e.password) \in Password
        /\ (IF e.deleted # Null THEN e.deleted ELSE row[u] # Null /\ row[u].deleted)
              \in BOOLEAN
    BY <1>1, <1>2 DEF U!Row, U!Entity
  <1>4. U!Saved(u, e) \in U!Row /\ U!Saved(u, e).status = e.status
    BY <1>3 DEF U!Saved, U!Row, U!Entity
  <1> QED
    BY <1>4 DEF U!Store, RequestsTyped

\* A request begins a second step.
LEMMA BeginKeeps ==
    ASSUME RequestInv, \A u : Free(u) => Free(u)',
           NEW r \in Request,
           NEW pc \in {"insert", "publish", "save", "mark"}, NEW o \in U!AllOps,
           NEW u \in UserId \cup {Null}, NEW e \in U!Entity \cup {Null},
           U!Begin(r, pc, o, u, e),
           UNCHANGED <<row, drawn, overwritten>>,
           pc # "insert" => u \in drawn,
           pc = "insert" => e \in U!Entity /\ e.password # Null,
           pc = "save" => /\ row[u] # Null
                          /\ e \in U!Entity
                          /\ Free(u) \/ e.status = row[u].status
    PROVE  RequestInv'
  <1>1. [pc |-> pc, op |-> o, id |-> u, entity |-> e] \in U!Locals
    BY DEF U!Locals
  <1>2. /\ req' \in [Request -> U!Locals]
        /\ req'[r] = [pc |-> pc, op |-> o, id |-> u, entity |-> e]
        /\ \A q \in Request \ {r} : req'[q] = req[q]
    BY <1>1 DEF U!Begin, RequestInv, RequestsTyped
  <1>3. RequestsTyped' /\ Held'
    BY <1>2 DEF RequestInv, RequestsTyped, Held
  <1>4. OneStatus'
    <2> SUFFICES ASSUME NEW v \in UserId, ~Free(v)',
                        NEW s \in Request, req'[s].pc = "save", req'[s].id = v
                 PROVE  /\ row[v] # Null => row[v].status = req'[s].entity.status
                        /\ \A q \in Request :
                              req'[q].pc = "save" /\ req'[q].id = v
                                 => req'[q].entity.status = req'[s].entity.status
      BY DEF OneStatus
    <2>1. \A q \in Request : req'[q].pc = "save" /\ req'[q].id = v =>
             /\ row[v] # Null => row[v].status = req'[q].entity.status
             /\ q = r => row[v] # Null
      BY <1>2 DEF RequestInv, OneStatus
    <2>2. \A q \in Request \ {r} :
             req[q].pc = "save" /\ s # r /\ req[q].id = v
                => req[q].entity.status = req[s].entity.status
      BY <1>2 DEF RequestInv, OneStatus
    <2> QED
      BY <1>2, <2>1, <2>2
  <1> QED
    BY <1>3, <1>4 DEF RequestInv

\* A request ends, or is left a mail to hand over, and may have written rows.
LEMMA WriteKeeps ==
    ASSUME RequestInv, \A u : Free(u) => Free(u)',
           NEW r \in Request,
           req' \in [Request -> U!Locals],
           \A q \in Request \ {r} : req'[q] = req[q],
           req'[r].pc \in {"idle", "publish"},
           req'[r].pc = "publish" => req'[r].id \in drawn',
           row' \in [UserId -> U!Row \cup {Null}],
           drawn \subseteq drawn', drawn' \subseteq UserId,
           overwritten' \subseteq UserId,
           \A v \in UserId : row'[v] # Null => v \in drawn',
           \A v \in UserId : row[v] # Null /\ row'[v] # Null /\ ~Free(v)'
                                => row'[v].status = row[v].status,
           \A v \in UserId : row[v] = Null /\ row'[v] # Null /\ ~Free(v)' =>
              \A q \in Request : req[q].pc = "save" /\ req[q].id = v
                                    => req[q].entity.status = row'[v].status
    PROVE  RequestInv'
  <1>1. RequestsTyped' /\ Held'
    BY DEF RequestInv, RequestsTyped, Held
  <1>2. OneStatus'
    <2> SUFFICES ASSUME NEW v \in UserId, ~Free(v)',
                        NEW s \in Request, req'[s].pc = "save", req'[s].id = v
                 PROVE  /\ row'[v] # Null => row'[v].status = req'[s].entity.status
                        /\ \A q \in Request :
                              req'[q].pc = "save" /\ req'[q].id = v
                                 => req'[q].entity.status = req'[s].entity.status
      BY DEF OneStatus
    <2>1. s # r /\ req'[s] = req[s] /\ ~Free(v)
      OBVIOUS
    <2>2. row'[v] # Null => row'[v].status = req[s].entity.status
      BY <2>1 DEF RequestInv, OneStatus
    <2>3. \A q \in Request : req'[q].pc = "save" => q # r /\ req'[q] = req[q]
      OBVIOUS
    <2> QED
      BY <2>1, <2>2, <2>3 DEF RequestInv, OneStatus
  <1> QED
    BY <1>1, <1>2 DEF RequestInv

\* Which requests go on to a second step.
LEMMA ArriveKeeps ==
    ASSUME RequestInv, \A u : Free(u) => Free(u)', NEW r \in Request, Arrive(r)
    PROVE  RequestInv'
  <1>1. ASSUME NEW n \in U!ToCreate \cup U!ToRegister, U!CheckEmail(r, n.op, n.id, n.entity)
        PROVE  RequestInv'
    <2> DEFINE o == n.op
               u == n.id
               e == n.entity
    <2>1. /\ o \in U!AllOps /\ u \in UserId \cup {Null}
          /\ e \in U!Entity /\ e.password # Null
      BY AccountAssumption DEF U!ToCreate, U!ToRegister, U!AllOps, U!Entity, U!Status
    <2>2. U!Begin(r, "insert", o, u, e) /\ UNCHANGED <<row, drawn, overwritten>>
      BY <1>1 DEF U!CheckEmail, U!table
    <2> HIDE DEF o, u, e
    <2> QED
      BY <2>1, <2>2, BeginKeeps
  <1>2. ASSUME NEW u \in UserId, U!Resend(r, u) \/ U!SendReset(r, u) PROVE RequestInv'
    <2>1. PICK o \in {"resend", "sendReset"} : U!Begin(r, "publish", o, u, Null)
      BY <1>2 DEF U!Resend, U!SendReset
    <2>2. row[u] # Null /\ UNCHANGED <<row, drawn, overwritten>>
      BY <1>2 DEF U!Resend, U!SendReset, U!Visible, U!table
    <2>3. u \in drawn /\ o \in U!AllOps
      BY <2>2 DEF RequestInv, Held, U!AllOps
    <2> QED
      BY <2>1, <2>2, <2>3, BeginKeeps
  <1>3. ASSUME NEW u \in UserId, NEW o \in Ops, U!ReadToMark(r, o, u) PROVE RequestInv'
    <2>1. /\ U!Begin(r, "mark", o, u, Null) /\ UNCHANGED <<row, drawn, overwritten>>
          /\ row[u] # Null /\ o \in U!AllOps
      BY <1>3 DEF U!ReadToMark, U!Visible, U!AllOps, U!table
    <2>2. u \in drawn
      BY <2>1 DEF RequestInv, Held
    <2> QED
      BY <2>1, <2>2, BeginKeeps
  <1> QED
    BY <1>1, <1>2, <1>3 DEF Arrive

\* Who follows a confirmation has one that arrived; a reset reads the status.
LEMMA FollowKeeps ==
    ASSUME RequestInv, \A u : Free(u) => Free(u)', LinksHeld,
           NEW r \in Request, NEW m \in Mail,
           \/ FollowConfirmation(r, m)
           \/ \E p \in Password : FollowReset(r, m, p)
    PROVE  RequestInv'
  <1> DEFINE u == link[m].user
  <1>1. u \in UserId
    BY DEF FollowConfirmation, FollowReset, Verifies, LinksHeld, Link
  <1>2. row[u] # Null
    BY DEF FollowConfirmation, FollowReset, U!VerifyUser, U!ResetUser, U!Visible
  <1>3. /\ U!Read(u) \in U!Entity /\ U!Read(u).status = row[u].status
        /\ u \in drawn
    BY <1>1, <1>2 DEF RequestInv, RequestsTyped, Held, U!Read, U!Row, U!Entity
  <1>4. CASE FollowConfirmation(r, m)
    <2> DEFINE x == [U!Read(u) EXCEPT !.status = "active"]
    <2>1. /\ U!Begin(r, "save", "verifyEmail", u, x)
          /\ UNCHANGED <<row, drawn, overwritten>>
      BY <1>4 DEF FollowConfirmation, U!VerifyUser, U!table
    <2>2. x \in U!Entity /\ "verifyEmail" \in U!AllOps
      BY <1>3 DEF U!Entity, U!Status, U!AllOps
    <2>3. Free(u)
      BY <1>4 DEF FollowConfirmation, Verifies, Confirmed, Free
    <2> HIDE DEF x, u
    <2> QED
      BY <1>1, <1>2, <1>3, <2>1, <2>2, <2>3, BeginKeeps
  <1>5. ASSUME NEW p \in Password, FollowReset(r, m, p) PROVE RequestInv'
    <2> DEFINE x == [U!Read(u) EXCEPT !.password = p]
    <2>1. /\ U!Begin(r, "save", "resetPassword", u, x)
          /\ UNCHANGED <<row, drawn, overwritten>>
      BY <1>5 DEF FollowReset, U!ResetUser, U!table
    <2>2. x \in U!Entity /\ x.status = row[u].status /\ "resetPassword" \in U!AllOps
      BY <1>3 DEF U!Entity, U!AllOps
    <2> HIDE DEF x, u
    <2> QED
      BY <1>1, <1>2, <1>3, <2>1, <2>2, BeginKeeps
  <1> QED
    BY <1>4, <1>5

LEMMA Finished ==
    ASSUME RequestInv, NEW r \in Request, U!Finish(r)
    PROVE  /\ req' \in [Request -> U!Locals]
           /\ req'[r].pc = "idle"
           /\ \A q \in Request \ {r} : req'[q] = req[q]
  <1>1. U!Idle \in U!Locals /\ U!Idle.pc = "idle"
    BY DEF U!Idle, U!Locals
  <1> QED
    BY <1>1 DEF U!Finish, RequestInv, RequestsTyped

\* A request that ends without writing a row.
LEMMA FinishKeeps ==
    ASSUME RequestInv, \A u : Free(u) => Free(u)', NEW r \in Request,
           U!Finish(r), UNCHANGED <<row, drawn, overwritten>>
    PROVE  RequestInv'
  <1>1. /\ row' \in [UserId -> U!Row \cup {Null}]
        /\ drawn' \subseteq UserId /\ overwritten' \subseteq UserId
    BY DEF RequestInv, RequestsTyped
  <1>2. \A v \in UserId : row'[v] # Null => v \in drawn'
    BY DEF RequestInv, Held
  <1> QED
    BY <1>1, <1>2, Finished, WriteKeeps

\* A row is stored under an id nobody holds, or it is overwritten.
LEMMA InsertKeeps ==
    ASSUME RequestInv, \A u : Free(u) => Free(u)', NEW r \in Request,
           U!InsertUser(r)
    PROVE  /\ RequestInv'
           /\ \A v \in UserId : row[v] # Null /\ ~Free(v)' => row'[v] = row[v]
  <1> DEFINE e == req[r].entity
  <1>0. req[r].pc = "insert" /\ e \in U!Entity /\ req[r].id \in UserId \cup {Null}
    BY DEF U!InsertUser, RequestInv, RequestsTyped, Held, U!Locals
  <1>1. CASE U!Finish(r) /\ UNCHANGED <<row, drawn, overwritten>>
    BY <1>1, FinishKeeps
  <1>2. ASSUME NEW u \in IF req[r].id = Null THEN UserId \ drawn ELSE {req[r].id},
               U!Store(u, e),
               drawn' = drawn \cup {u},
               overwritten' = overwritten \cup ({u} \cap drawn),
               U!Begin(r, "publish", "register", u, Null) \/ U!Finish(r)
        PROVE  /\ RequestInv'
               /\ \A v \in UserId : row[v] # Null /\ ~Free(v)' => row'[v] = row[v]
    <2>0. u \in UserId
      BY <1>0
    <2>1. /\ row' \in [UserId -> U!Row \cup {Null}]
          /\ \A v \in UserId \ {u} : row'[v] = row[v]
      BY <1>0, <1>2, <2>0, SavedTyped DEF RequestInv
    <2>2. u \notin drawn =>
             row[u] = Null /\ \A q \in Request : req[q].pc = "save" => req[q].id # u
      BY <2>0 DEF RequestInv, Held
    <2>3. u \in drawn => Free(u)'
      BY <1>2 DEF Free
    <2>4. /\ req' \in [Request -> U!Locals]
          /\ \A q \in Request \ {r} : req'[q] = req[q]
          /\ req'[r].pc \in {"idle", "publish"}
          /\ req'[r].pc = "publish" => req'[r].id = u
      <3>1. CASE U!Finish(r)
        BY <3>1, Finished
      <3>2. CASE U!Begin(r, "publish", "register", u, Null)
        <4>1. [pc |-> "publish", op |-> "register", id |-> u, entity |-> Null] \in U!Locals
          BY <2>0 DEF U!Locals, U!AllOps
        <4> QED
          BY <3>2, <4>1 DEF U!Begin, RequestInv, RequestsTyped
      <3> QED
        BY <1>2, <3>1, <3>2
    <2>5. /\ \A v \in UserId : row'[v] # Null => v \in drawn'
          /\ drawn \subseteq drawn' /\ drawn' \subseteq UserId
          /\ overwritten' \subseteq UserId
      BY <1>2, <2>0, <2>1 DEF RequestInv, RequestsTyped, Held
    <2>6. /\ \A v \in UserId : row[v] # Null /\ ~Free(v)' => row'[v] = row[v]
          /\ \A v \in UserId : row[v] = Null /\ row'[v] # Null /\ ~Free(v)' =>
                \A q \in Request : req[q].pc = "save" => req[q].id # v
      BY <2>1, <2>2, <2>3
    <2> QED
      BY <1>2, <2>1, <2>4, <2>5, <2>6, WriteKeeps
  <1>3. \/ U!Finish(r) /\ UNCHANGED <<row, drawn, overwritten>>
        \/ \E u \in IF req[r].id = Null THEN UserId \ drawn ELSE {req[r].id} :
              /\ U!Store(u, e)
              /\ drawn' = drawn \cup {u}
              /\ overwritten' = overwritten \cup ({u} \cap drawn)
              /\ U!Begin(r, "publish", "register", u, Null) \/ U!Finish(r)
    BY DEF U!InsertUser, U!table
  <1> QED
    BY <1>1, <1>2, <1>3

\* A save, and a deletion or a restore, leave the status of a user who is bound
\* to it alone; a row that is inserted again has the entities' one.
LEMMA SaveKeeps ==
    ASSUME RequestInv, \A u : Free(u) => Free(u)', NEW r \in Request,
           U!Save(r) \/ U!Mark(r)
    PROVE  /\ RequestInv'
           /\ \A v \in UserId : row[v] # Null /\ row'[v] # Null /\ ~Free(v)'
                                   => row'[v].status = row[v].status
  <1> DEFINE u == req[r].id
             e == req[r].entity
  <1>0. /\ U!Finish(r) /\ UNCHANGED <<drawn, overwritten>>
        /\ u \in drawn /\ u \in UserId
        /\ row \in [UserId -> U!Row \cup {Null}]
        /\ drawn \subseteq UserId /\ overwritten \subseteq UserId
    BY DEF U!Save, U!Mark, RequestInv, RequestsTyped, Held
  <1>1. ASSUME row' \in [UserId -> U!Row \cup {Null}],
               \A v \in UserId \ {u} : row'[v] = row[v],
               row[u] # Null /\ row'[u] # Null /\ ~Free(u)
                  => row'[u].status = row[u].status,
               row[u] = Null /\ row'[u] # Null
                  => req[r].pc = "save" /\ row'[u].status = e.status
        PROVE  /\ RequestInv'
               /\ \A v \in UserId : row[v] # Null /\ row'[v] # Null /\ ~Free(v)'
                                       => row'[v].status = row[v].status
    <2>1. \A v \in UserId : row'[v] # Null => v \in drawn'
      BY <1>0, <1>1 DEF RequestInv, Held
    <2>2. \A v \in UserId : row[v] # Null /\ row'[v] # Null /\ ~Free(v)'
                               => row'[v].status = row[v].status
      BY <1>1
    <2>3. \A v \in UserId : row[v] = Null /\ row'[v] # Null /\ ~Free(v)' =>
             \A q \in Request : req[q].pc = "save" /\ req[q].id = v
                                   => req[q].entity.status = row'[v].status
      BY <1>0, <1>1 DEF RequestInv, OneStatus
    <2> QED
      BY <1>0, <1>1, <2>1, <2>2, <2>3, Finished, WriteKeeps
  <1>2. CASE UNCHANGED row
    BY <1>0, <1>2, FinishKeeps
  <1>3. CASE U!Save(r) /\ row' # row
    <2>1. req[r].pc = "save" /\ e \in U!Entity /\ U!Store(u, e)
      BY <1>3 DEF U!Save, RequestInv, Held
    <2>2. /\ row' \in [UserId -> U!Row \cup {Null}]
          /\ row'[u].status = e.status
          /\ \A v \in UserId \ {u} : row'[v] = row[v]
      BY <1>0, <2>1, SavedTyped DEF RequestInv
    <2>3. row[u] # Null /\ ~Free(u) => e.status = row[u].status
      BY <1>0, <2>1 DEF RequestInv, OneStatus
    <2> QED
      BY <1>1, <2>1, <2>2, <2>3
  <1>4. CASE U!Mark(r) /\ row' # row
    <2> DEFINE b == req[r].op = "softDelete"
               x == IF req[r].op = "delete" THEN Null ELSE [row[u] EXCEPT !.deleted = b]
    <2>1. row[u] # Null /\ row' = [row EXCEPT ![u] = x]
      BY <1>4 DEF U!Mark
    <2>2. b \in BOOLEAN /\ row[u] \in U!Row
      BY <1>0, <2>1
    <2> HIDE DEF b
    <2>3. /\ [row[u] EXCEPT !.deleted = b] \in U!Row
          /\ [row[u] EXCEPT !.deleted = b].status = row[u].status
      BY <2>2 DEF U!Row
    <2>4. x \in U!Row \cup {Null} /\ (x # Null => x.status = row[u].status)
      BY <2>3
    <2> HIDE DEF x
    <2>5. /\ row' \in [UserId -> U!Row \cup {Null}]
          /\ row'[u] = x
          /\ \A v \in UserId \ {u} : row'[v] = row[v]
      BY <1>0, <2>1, <2>4
    <2> QED
      BY <1>1, <2>1, <2>4, <2>5
  <1> QED
    BY <1>2, <1>3, <1>4

\* The steps that change a row are those of an insert, a save and a mark.
LEMMA RequestStep ==
    ASSUME AccountInv, RequestInv, [AccountNext]_accountVars
    PROVE  /\ RequestInv'
           /\ \A v \in UserId : row[v] # Null /\ row'[v] # Null /\ ~Free(v)'
                                   => row'[v].status = row[v].status
  <1>0. (\A u : Free(u) => Free(u)') /\ LinksHeld
    BY StaysFree DEF AccountInv
  <1>1. ASSUME NEW r \in Request, Arrive(r)
        PROVE  RequestInv' /\ UNCHANGED row
    <2>1. UNCHANGED row
      BY <1>1 DEF Arrive, U!CheckEmail, U!Resend, U!SendReset, U!ReadToMark, U!table
    <2> QED
      BY <1>0, <1>1, <2>1, ArriveKeeps
  <1>2. ASSUME NEW r \in Request, NEW m \in Mail,
               FollowConfirmation(r, m) \/ \E p \in Password : FollowReset(r, m, p)
        PROVE  RequestInv' /\ UNCHANGED row
    <2>1. UNCHANGED row
      BY <1>2 DEF FollowConfirmation, FollowReset, U!VerifyUser, U!ResetUser, U!table
    <2> QED
      BY <1>0, <1>2, <2>1, FollowKeeps
  <1>3. ASSUME NEW r \in Request, HandOver(r) \/ U!Fail(r)
        PROVE  RequestInv' /\ UNCHANGED row
    <2>1. U!Finish(r) /\ UNCHANGED <<row, drawn, overwritten>>
      BY <1>3 DEF HandOver, U!Fail, U!table
    <2> QED
      BY <1>0, <2>1, FinishKeeps
  <1>4. ASSUME NEW r \in Request, U!InsertUser(r)
        PROVE  /\ RequestInv'
               /\ \A v \in UserId : row[v] # Null /\ ~Free(v)' => row'[v] = row[v]
    BY <1>0, <1>4, InsertKeeps
  <1>5. ASSUME NEW r \in Request, U!Save(r) \/ U!Mark(r)
        PROVE  /\ RequestInv'
               /\ \A v \in UserId : row[v] # Null /\ row'[v] # Null /\ ~Free(v)'
                                       => row'[v].status = row[v].status
    BY <1>0, <1>5, SaveKeeps
  <1>6. CASE Transport \/ UNCHANGED accountVars
    <2>1. UNCHANGED <<row, drawn, overwritten, req>>
      BY <1>6 DEF Transport, accountVars, accounts
    <2>2. RequestsTyped' /\ Held'
      BY <2>1 DEF RequestInv, RequestsTyped, Held
    <2>3. OneStatus'
      BY <1>0, <2>1 DEF RequestInv, OneStatus
    <2> QED
      BY <2>1, <2>2, <2>3 DEF RequestInv
  <1> QED
    BY <1>1, <1>2, <1>3, <1>4, <1>5, <1>6 DEF AccountNext, Handle, Work

LEMMA RequestInvariance == AccountSpec => [](AccountInv /\ RequestInv)
  <1>1. AccountInv /\ RequestInv /\ [AccountNext]_accountVars => RequestInv'
    BY RequestStep
  <1> QED
    BY <1>1, AccountInvariance, RequestStart, PTL DEF AccountSpec

\* Rows, requests, mails and links keep their types, and a mail on its way has
\* a link to carry, for any number of requests and mails.
THEOREM AccountTypeCorrect == AccountSpec => []AccountTypeOK
  <1>1. AccountInv /\ RequestInv => AccountTypeOK
    <2> SUFFICES ASSUME AccountInv, RequestInv PROVE AccountTypeOK
      OBVIOUS
    <2>1. \A k \in Kind : Mailed(k) \subseteq UserId
      BY DEF AccountInv, LinksHeld, Link, Mailed
    <2>2. U!TypeOK
      BY <2>1 DEF RequestInv, RequestsTyped, Kind, U!TypeOK
    <2> QED
      BY <2>2 DEF AccountTypeOK, AccountInv, QueueInv, LinksHeld
  <1> QED
    BY <1>1, RequestInvariance, PTL

\* However requests, mails and restarts interleave, a user becomes active only
\* once a confirmation mailed to that user has arrived, or a POST /user with the
\* user's id has replaced the row: a reset link verifies no address, and no save
\* of a reset or of a verification under way brings a status to a user it was
\* not read from.
THEOREM ActiveByMail == AccountSpec => VerifiedByMail
  <1>1. ASSUME AccountInv, RequestInv, [AccountNext]_accountVars, NEW u \in UserId,
               row[u] # Null, row[u].status # "active",
               row'[u] # Null, row'[u].status = "active", u \notin overwritten'
        PROVE  \E m \in arrived : mail[m].kind = "confirm" /\ link[m].user = u
    <2>1. Free(u)'
      BY <1>1, RequestStep
    <2>2. Confirmed(u)'
      BY <1>1, <2>1 DEF Free
    <2>3. row' # row => UNCHANGED <<vars, link>>
      BY <1>1 DEF AccountNext, accountVars, accounts, Arrive, Handle, HandOver, Work,
         Transport, FollowConfirmation, FollowReset, U!VerifyUser, U!ResetUser, U!table
    <2>4. Confirmed(u)
      BY <1>1, <2>2, <2>3 DEF Confirmed, vars
    <2> QED
      BY <2>4 DEF Confirmed
  <1>2. AccountInv /\ RequestInv /\ [AccountNext]_accountVars =>
           [\A u \in UserId :
               row[u] # Null /\ row[u].status # "active" =>
                  \/ row'[u] = Null \/ row'[u].status # "active"
                  \/ u \in overwritten'
                  \/ \E m \in arrived :
                        mail[m].kind = "confirm" /\ link[m].user = u]_accountVars
    BY <1>1
  <1> QED
    BY <1>2, RequestInvariance, PTL DEF AccountSpec, VerifiedByMail
=============================================================================
