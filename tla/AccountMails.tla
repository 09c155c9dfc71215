----------------------------- MODULE AccountMails -----------------------------
(* The handlers of Users and the mails of MailQueue at work together: a link  *)
(* comes into being when a handler signs a token, travels in a mail, works    *)
(* for a while once the mail has arrived, and names the user it was made for. *)
(* Users supposes that whoever was mailed a token can use it at any time;     *)
(* here the token is known when its mail is, and jwt.service verifies it.     *)
EXTENDS MailQueue

CONSTANTS Request, UserId, Email, Password, Null, Bodies, Ops, Faults,  \* as in Users
          Life                                           \* minutes a link works

VARIABLES row, drawn, overwritten, req,  \* as in Users
          link                           \* what the link in each mail says

accounts == <<row, drawn, overwritten, req>>
accountVars == <<vars, accounts, link>>

Link == [user : UserId, until : Nat]

\* The users the broker has a mail of a kind for.
Mailed(k) == {link[m].user : m \in {n \in Mail : link[n] # Null /\ mail[n].kind = k}}

U == INSTANCE Users WITH confirm <- Mailed("confirm"), reset <- Mailed("reset")

ASSUME AccountAssumption ==
    /\ Ttl < Life /\ Life \in Nat
    /\ Null \notin [user : UserId, until : Nat]
    /\ Bodies \subseteq {e \in U!Entity : e.password # Null}
    /\ Null \notin Password

AccountInit ==
    /\ Init
    /\ row = [u \in UserId |-> Null]
    /\ drawn = {}
    /\ overwritten = {}
    /\ req = [r \in Request |-> U!Idle]
    /\ link = [m \in Mail |-> Null]

-----------------------------------------------------------------------------
(* From the handler to the link *)

\* The type sendEmail is called with.
AlwaysConfirm(o) == "confirm"                                            \* mutant
KindOf(o) == IF o = "sendReset" THEN "reset" ELSE "confirm"

\* The token is signed and its mail handed over, within a minute.  When the
\* mails of the instance are used up a request can only fail (bound).
HandOver(r) ==
    /\ req[r].pc = "publish"
    /\ \E m \in Mail :
         /\ mail[m].kind = KindOf(req[r].op)
         /\ Publish(m)
         /\ link' = [link EXCEPT ![m] =
                       IF mail'[m].state = "refused" THEN Null
                       ELSE [user |-> req[r].id, until |-> now + Life]]
    /\ U!Finish(r)
    /\ UNCHANGED <<row, drawn, overwritten>>

\* Mutant: the type of the key is not looked at.
VerifiesAnyKey(m, k) == m \in arrived /\ now < link[m].until
\* jwt.service verify: the token was signed with a key of the type asked for,
\* and has not expired.  Who follows it has got the mail.
Verifies(m, k) ==
    /\ m \in arrived
    /\ mail[m].kind = k
    /\ now < link[m].until

FollowConfirmation(r, m) ==
    /\ Verifies(m, "confirm")
    /\ UNCHANGED <<vars, link>>
    /\ U!VerifyUser(r, link[m].user)

FollowReset(r, m, p) ==
    /\ Verifies(m, "reset")
    /\ UNCHANGED <<vars, link>>
    /\ U!ResetUser(r, link[m].user, p)

-----------------------------------------------------------------------------
(* The handlers of Users, and the queue *)

\* A request that needs no token arrives.
Arrive(r) ==
    /\ UNCHANGED <<vars, link>>
    /\ \/ \E new \in U!ToCreate \cup U!ToRegister :
             U!CheckEmail(r, new.op, new.id, new.entity)
       \/ \E u \in UserId : \/ U!Resend(r, u)
                            \/ U!SendReset(r, u)
                            \/ \E o \in Ops : U!ReadToMark(r, o, u)

\* A request in flight works on the users table, or fails.
Work(r) ==
    /\ UNCHANGED <<vars, link>>
    /\ U!InsertUser(r) \/ U!Save(r) \/ U!Mark(r) \/ U!Fail(r)

Handle(r) == HandOver(r) \/ Work(r)

\* The broker, the consumers and the clock go on.
Transport ==
    /\ \/ \E m \in Mail : Consume(m) \/ Expire(m)
       \/ Restart
       \/ Tick
    /\ UNCHANGED <<accounts, link>>

AccountNext ==
    \/ \E r \in Request :
          \/ Arrive(r)
          \/ Handle(r)
          \/ \E m \in Mail : \/ FollowConfirmation(r, m)
                             \/ \E p \in Password : FollowReset(r, m, p)
    \/ Transport

AccountSpec == AccountInit /\ [][AccountNext]_accountVars

\* The fairness of MailQueue, and every await of a handler settles.
FairAccountSpec ==
    /\ AccountSpec
    /\ \A m \in Mail : WF_vars(Consume(m)) /\ WF_vars(Expire(m))
    /\ WF_vars(Tick)
    /\ \A r \in Request : WF_accountVars(Handle(r))

-----------------------------------------------------------------------------
(* Properties *)

\* Every variable keeps its type; a mail on its way has a link.
AccountTypeOK ==
    /\ TypeOK
    /\ U!TypeOK
    /\ link \in [Mail -> Link \cup {Null}]
    /\ \A m \in Mail : mail[m].state \notin {"none", "refused"} => link[m] # Null

\* The handlers work as Users says they do, with the tokens of that module
\* being those in mails the broker has taken: no verification or reset happens
\* that Users does not allow, and no mail goes to anyone Users would not mail.
UsersSpec == U!Spec

\* A user becomes active only while a confirmation that was mailed to that very
\* user has arrived: no reset link and nobody else's link verifies an address.
\* Only a POST /user with the user's id, now or before, can have made the user
\* active otherwise.
VerifiedByMail ==
    [][\A u \in UserId :
          row[u] # Null /\ row[u].status # "active" =>
             \/ row'[u] = Null \/ row'[u].status # "active"
             \/ u \in overwritten'
             \/ \E m \in arrived : mail[m].kind = "confirm" /\ link[m].user = u]_accountVars

\* The five minutes of the confirmation queue keep the consumer from sending a
\* link that is dead already, however often a mail is put back: the time to
\* live goes on counting from the publishing.
NoDeadConfirmation ==
    [][\A m \in Mail :
          mail[m].kind = "confirm" /\ mail[m].state = "queued" /\ mail'[m].state = "sending"
             => now < link[m].until]_accountVars
=============================================================================
