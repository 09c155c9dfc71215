-------------------------------- MODULE Users --------------------------------
(* The users table and the handlers that write it (src/modules/user, and the  *)
(* registration, e-mail verification and password reset of auth.service).     *)
(*                                                                            *)
(* A handler reads a row, lets go of it while other handlers run, and writes  *)
(* what it decided then.  As in Sessions, an action is the code between two   *)
(* awaits.  PATCH /user/:id is left out: no guard sets request.user on that   *)
(* controller, so userService.update throws before it writes.  POST /user     *)
(* does change rows: no pipe strips its body, and save() of an entity with    *)
(* the id of a row is an UPDATE.  Names and roles are left out.               *)
CONSTANTS Request,   \* concurrent HTTP requests
          UserId,    \* ids new rows may draw (bound)
          Email, Password,
          Null,
          Bodies,    \* what POST /user may be sent (bound)
          Ops,       \* the operations this instance exercises
          Faults     \* may a query, a publish or the process fail?

AllOps == {"create", "register", "resend", "sendReset", "verifyEmail",
           "resetPassword", "softDelete", "restore", "delete"}
Status == {"active", "inactive", "blocked"}

ASSUME UsersAssumption ==
    /\ Null \notin UserId \cup Email \cup Password
    /\ Null \notin [email : Email, password : Password \cup {Null}, status : Status,
                    deleted : BOOLEAN \cup {Null}]
    /\ Null \notin BOOLEAN
    /\ Bodies \subseteq [email : Email, password : Password, status : Status,
                         deleted : BOOLEAN \cup {Null}]
    /\ Ops \subseteq AllOps
    /\ Faults \in BOOLEAN

VARIABLES row,        \* the table: [UserId -> Row \cup {Null}]
          drawn,      \* ids that were drawn
          confirm,    \* users somebody has a confirmation token for
          reset,      \* users somebody has a reset token for
          overwritten, \* users whose row a POST /user replaced (history)
          req         \* the locals of each request

table == <<row, drawn, overwritten>>
vars == <<table, confirm, reset, req>>

Row == [email : Email, password : Password, status : Status, deleted : BOOLEAN]

\* An entity in memory; Null is what it has no value for.  The password column
\* has select: false, so an entity that was read has no password until the
\* handler sets one.  A body need not say whether the user is deleted.
Entity == [email : Email, password : Password \cup {Null}, status : Status,
           deleted : BOOLEAN \cup {Null}]

Locals == [pc : {"idle", "insert", "publish", "save", "mark"},
           op : AllOps \cup {"none"},
           id : UserId \cup {Null},
           entity : Entity \cup {Null}]
Idle == [pc |-> "idle", op |-> "none", id |-> Null, entity |-> Null]

Init ==
    /\ row = [u \in UserId |-> Null]
    /\ drawn = {}
    /\ confirm = {}
    /\ reset = {}
    /\ overwritten = {}
    /\ req = [r \in Request |-> Idle]

-----------------------------------------------------------------------------
(* Helpers *)

Finish(r) == req' = [req EXCEPT ![r] = Idle]
Begin(r, pc, o, u, e) ==
    req' = [req EXCEPT ![r] = [pc |-> pc, op |-> o, id |-> u, entity |-> e]]

\* findOneOrThrow without withDeleted, and findByEmail, see these rows.
Visible(u) == row[u] # Null /\ ~row[u].deleted

\* isExistByEmail, and what the unique constraint on the email looks at.
Taken(e) == \E u \in UserId : row[u] # Null /\ row[u].email = e

\* The entity findOneOrThrow returns.
ReadWhole(u) == row[u]                                                   \* mutant
Read(u) == [row[u] EXCEPT !.password = Null]

\* The row save() leaves: every column the entity has a value for is written,
\* as it was read or as the handler or the body set it.  A new row is not
\* deleted unless the entity says so.
AsInMemory(u, e) == e                                                    \* mutant
Saved(u, e) ==
    [e EXCEPT !.password = IF e.password = Null THEN row[u].password ELSE e.password,
              !.deleted = IF e.deleted # Null THEN e.deleted
                          ELSE row[u] # Null /\ row[u].deleted]

\* Constraints of the table: e-mails are unique, and a row has a password.
HasPassword(u, e) == e.password # Null \/ row[u] # Null                  \* mutant
Storable(u, e) ==
    /\ \A v \in UserId \ {u} : row[v] # Null => row[v].email # e.email
    /\ e.password # Null \/ row[u] # Null

\* save() of an entity with id u: an UPDATE of the row there is by now, or an
\* INSERT.  Its SELECT and its write are one step.
Store(u, e) == /\ Storable(u, e)
               /\ row' = [row EXCEPT ![u] = Saved(u, e)]

-----------------------------------------------------------------------------
(* New users *)

\* The whole body of POST /user becomes the entity: it may have the id of a user,
\* and say whether the user is deleted.  Of POST /auth/register, e-mail, name and
\* password do.
ToCreate == [op : {"create"}, id : UserId \cup {Null}, entity : Bodies]
ToRegister == [op : {"register"}, id : {Null},
               entity : [email : Email, password : Password,
                         status : {"inactive"}, deleted : {Null}]]

\* POST /user and POST /auth/register: isExistByEmail.
CheckEmail(r, o, u, e) ==
    /\ req[r] = Idle
    /\ o \in Ops
    /\ ~Taken(e.email)
    /\ Begin(r, "insert", o, u, e)
    /\ UNCHANGED <<table, confirm, reset>>

\* save() of createHandler: under an id the database draws, or under that of the
\* body.  register then signs a confirmation token and publishes it.
InsertUser(r) ==
    LET e == req[r].entity
    IN  /\ req[r].pc = "insert"
        /\ \/ \E u \in IF req[r].id = Null THEN UserId \ drawn ELSE {req[r].id} :
                /\ Store(u, e)
                /\ drawn' = drawn \cup {u}
                /\ overwritten' = overwritten \cup ({u} \cap drawn)
                /\ IF req[r].op = "register"
                   THEN Begin(r, "publish", "register", u, Null)
                   ELSE Finish(r)
           \/ /\ Faults \/ ~Storable(req[r].id, e)
              /\ Finish(r)
              /\ UNCHANGED table
        /\ UNCHANGED <<confirm, reset>>

-----------------------------------------------------------------------------
(* Mails with tokens *)

\* POST /auth/resend-verification-email
ResendToAll(r, u) ==                                                     \* mutant
    /\ req[r] = Idle
    /\ "resend" \in Ops
    /\ Visible(u)
    /\ row[u].status # "active"
    /\ Begin(r, "publish", "resend", u, Null)
    /\ UNCHANGED <<table, confirm, reset>>
Resend(r, u) ==
    /\ req[r] = Idle
    /\ "resend" \in Ops
    /\ Visible(u)
    /\ row[u].status \notin {"active", "blocked"}
    /\ Begin(r, "publish", "resend", u, Null)
    /\ UNCHANGED <<table, confirm, reset>>

\* POST /auth/send-reset-password
SendReset(r, u) ==
    /\ req[r] = Idle
    /\ "sendReset" \in Ops
    /\ Visible(u)
    /\ Begin(r, "publish", "sendReset", u, Null)
    /\ UNCHANGED <<table, confirm, reset>>

\* The mail is handed to the broker, or that fails and with it the request.
Publish(r) ==
    /\ req[r].pc = "publish"
    /\ \/ /\ confirm' = IF req[r].op = "sendReset" THEN confirm
                        ELSE confirm \cup {req[r].id}
          /\ reset' = IF req[r].op = "sendReset" THEN reset \cup {req[r].id}
                      ELSE reset
       \/ Faults /\ UNCHANGED <<confirm, reset>>
    /\ Finish(r)
    /\ UNCHANGED table

-----------------------------------------------------------------------------
(* Handlers that read a row and save it *)

\* verifyEmail and resetPassword of the user service, up to the save.
VerifyUser(r, u) ==
    /\ req[r] = Idle
    /\ "verifyEmail" \in Ops
    /\ Visible(u)
    /\ row[u].status # "active"
    /\ Begin(r, "save", "verifyEmail", u, [Read(u) EXCEPT !.status = "active"])
    /\ UNCHANGED <<table, confirm, reset>>

ResetUser(r, u, p) ==
    /\ req[r] = Idle
    /\ "resetPassword" \in Ops
    /\ Visible(u)
    /\ Begin(r, "save", "resetPassword", u, [Read(u) EXCEPT !.password = p])
    /\ UNCHANGED <<table, confirm, reset>>

\* GET /auth/verify-email with a confirmation token, GET /auth/reset-password
\* with a reset token.
ReadToVerify(r, u) == u \in confirm /\ VerifyUser(r, u)
ReadToReset(r, u, p) == u \in reset /\ ResetUser(r, u, p)

\* save(), which the constraints of the table may refuse.
Save(r) ==
    LET u == req[r].id
        e == req[r].entity
    IN  /\ req[r].pc = "save"
        /\ \/ Store(u, e)
           \/ (Faults \/ ~Storable(u, e)) /\ UNCHANGED row
        /\ Finish(r)
        /\ UNCHANGED <<drawn, overwritten, confirm, reset>>

-----------------------------------------------------------------------------
(* Handlers that read a row and update or delete it by its id *)

\* DELETE /user/:id, PATCH /user/restore/:id and DELETE /user/hard/:id
ReadToMark(r, o, u) ==
    /\ req[r] = Idle
    /\ o \in Ops \cap {"softDelete", "restore", "delete"}
    /\ IF o = "restore" THEN row[u] # Null /\ row[u].deleted ELSE Visible(u)
    /\ Begin(r, "mark", o, u, Null)
    /\ UNCHANGED <<table, confirm, reset>>

\* The query by id; it finds no row when the row is gone by now.
Mark(r) ==
    LET u == req[r].id
    IN  /\ req[r].pc = "mark"
        /\ \/ /\ row[u] # Null
              /\ row' = [row EXCEPT ![u] =
                           IF req[r].op = "delete" THEN Null
                           ELSE [row[u] EXCEPT !.deleted = req[r].op = "softDelete"]]
           \/ /\ row[u] = Null \/ Faults
              /\ UNCHANGED row
        /\ Finish(r)
        /\ UNCHANGED <<drawn, overwritten, confirm, reset>>

\* A rejected await, or a crash, ends a request between two of its steps.
Fail(r) ==
    /\ Faults
    /\ req[r].pc # "idle"
    /\ Finish(r)
    /\ UNCHANGED <<table, confirm, reset>>

-----------------------------------------------------------------------------

Arrive(r) ==
    \/ \E new \in ToCreate \cup ToRegister : CheckEmail(r, new.op, new.id, new.entity)
    \/ \E u \in UserId : \/ Resend(r, u)
                         \/ SendReset(r, u)
                         \/ ReadToVerify(r, u)
                         \/ \E p \in Password : ReadToReset(r, u, p)
                         \/ \E o \in AllOps : ReadToMark(r, o, u)

Step(r) == InsertUser(r) \/ Publish(r) \/ Save(r) \/ Mark(r)

Next == \E r \in Request : Arrive(r) \/ Step(r) \/ Fail(r)

Spec == Init /\ [][Next]_vars

-----------------------------------------------------------------------------
(* Properties *)

TypeOK ==
    /\ row \in [UserId -> Row \cup {Null}]
    /\ drawn \subseteq UserId
    /\ overwritten \subseteq UserId
    /\ confirm \subseteq UserId
    /\ reset \subseteq UserId
    /\ req \in [Request -> Locals]

\* No two users have the same e-mail, soft-deleted ones included, although
\* isExistByEmail and the save are two steps, and saves write back an e-mail
\* that was read before somebody changed it.
UniqueEmail ==
    \A u, v \in UserId : row[u] # Null /\ row[v] # Null /\ row[u].email = row[v].email
                            => u = v

\* The password of a user changes only to one that was sent for this user: by a
\* resetPassword that saves, or in a POST /user with the user's id.  No handler
\* writes back an old password.
PasswordAsSent ==
    [][\A u \in UserId :
          row[u] # Null /\ row'[u] # Null /\ row'[u].password # row[u].password
             => \E r \in Request : /\ req[r].pc \in {"insert", "save"}
                                   /\ req[r].op \in {"create", "resetPassword"}
                                   /\ req[r].id = u
                                   /\ req[r].entity.password = row'[u].password]_vars

\* Confirmation mails are for users who have something to confirm, so a user
\* blocked from the start stays blocked, whatever mails are asked for and links
\* followed: resendVerificationEmail refuses them ("userBlocked"), and
\* verifyEmail, which does not look, never meets one.  Only a POST /user with the
\* user's id, now or before, can have unblocked them.
BlockedStaysBlocked ==
    [][\A u \in UserId :
          row[u] # Null /\ row[u].status = "blocked" /\ row'[u] # Null
             => row'[u].status = "blocked" \/ u \in overwritten']_vars

\* A user whose e-mail was verified, or who was created active, stays active:
\* no handler takes that back but one that was sent another status.
VerifiedStaysVerified ==
    [][\A u \in UserId :
          row[u] # Null /\ row[u].status = "active" /\ row'[u] # Null
             => row'[u].status = "active" \/ u \in overwritten']_vars

\* A deleted user comes back by a restore, or by a POST /user with its id, and
\* by nothing else.
DeletedStaysDeleted ==
    [][\A u \in drawn :
          ~Visible(u) /\ Visible(u)'
             => \/ u \in overwritten'
                \/ \E r \in Request : req[r].pc = "mark" /\ req[r].op = "restore"
                                                         /\ req[r].id = u]_vars

\* POST /user "creates a new user": a row changes only by the handlers that
\* find a user first.
CreateOnlyAdds ==
    [][\A u \in UserId : row[u] # Null /\ row'[u] # row[u] =>
          \E r \in Request : req[r].pc \in {"save", "mark"} /\ req[r].id = u]_vars

\* register "registers a new user and sends confirmation email": a user who is
\* inactive, with no registration under way, was sent one.
RegisteredIsMailed ==
    \A u \in UserId : row[u] # Null /\ row[u].status = "inactive" =>
        \/ u \in confirm
        \/ \E r \in Request : req[r].id = u /\ req[r].op = "register"
=============================================================================
