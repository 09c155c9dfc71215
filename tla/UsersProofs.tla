----------------------------- MODULE UsersProofs -----------------------------
(* That e-mails stay unique, that a password changes only to one that was     *)
(* sent for its user, and that nothing but POST /user unblocks anybody, for   *)
(* any number of requests, users, e-mails and passwords, and any Bodies.      *)
EXTENDS Users, TLAPS

\* A row's id was drawn for it, and handlers that have read or saved a row hold
\* an id that was drawn: a new row's id is one that none of them holds.
IdsDrawn ==
    /\ \A u \in UserId : row[u] # Null => u \in drawn
    /\ \A r \in Request : req[r].pc \in {"publish", "save", "mark"}
                             => req[r].id \in drawn
    /\ confirm \subseteq drawn /\ reset \subseteq drawn

\* What handlers carry to their second step: an entity that was sent, which has
\* the id of a user only in POST /user, or one that was read, which has a
\* password only in resetPassword.
Carried ==
    \A r \in Request :
        /\ req[r].pc = "insert" =>
              /\ req[r].entity \in Entity
              /\ req[r].entity.password # Null
              /\ \/ req[r].op = "create"
                 \/ /\ req[r].op = "register"
                    /\ req[r].id = Null
                    /\ req[r].entity.status = "inactive"
        /\ req[r].pc = "save" =>
              /\ req[r].entity \in Entity
              /\ req[r].entity.password # Null => req[r].op = "resetPassword"

IInv == TypeOK /\ IdsDrawn /\ Carried /\ UniqueEmail

LEMMA IdleTyped == Idle \in Locals
  BY DEF Idle, Locals

LEMMA InitInv == Init => IInv
  <1> SUFFICES ASSUME Init
               PROVE  IInv
    OBVIOUS
  <1>1. TypeOK
    BY IdleTyped DEF Init, TypeOK
  <1>2. IdsDrawn /\ Carried /\ UniqueEmail
    BY DEF Init, Idle, IdsDrawn, Carried, UniqueEmail
  <1> QED
    BY <1>1, <1>2 DEF IInv

\* An entity that was read is one, and has no password.
LEMMA ReadTyped ==
    ASSUME TypeOK, NEW u \in UserId, row[u] # Null
    PROVE  /\ row[u] \in Row
           /\ Read(u) \in Entity
           /\ Read(u).password = Null
           /\ Read(u).status = row[u].status
  BY UsersAssumption DEF TypeOK, Read, Row, Entity

\* Bodies and registrations are entities with a password.
LEMMA NewTyped ==
    ASSUME NEW n \in ToCreate \cup ToRegister
    PROVE  /\ n.op \in AllOps /\ n.id \in UserId \cup {Null}
           /\ n.entity \in Entity /\ n.entity.password # Null
           /\ \/ n.op = "create"
              \/ n.op = "register" /\ n.id = Null /\ n.entity.status = "inactive"
  <1>1. CASE n \in ToCreate
    BY <1>1, UsersAssumption DEF ToCreate, AllOps, Entity
  <1>2. CASE n \in ToRegister
    BY <1>2, UsersAssumption DEF ToRegister, AllOps, Entity, Status
  <1> QED
    BY <1>1, <1>2

\* What save() leaves is a row: the entity's e-mail and status, and a password of
\* the entity or else of the row.
LEMMA SavedTyped ==
    ASSUME TypeOK, NEW u \in UserId, NEW e \in Entity,
           e.password # Null \/ row[u] # Null
    PROVE  /\ Saved(u, e) \in Row
           /\ Saved(u, e).email = e.email
           /\ Saved(u, e).status = e.status
           /\ Saved(u, e).password =
                 IF e.password = Null THEN row[u].password ELSE e.password
  <1>1. row[u] # Null => row[u] \in Row
    BY DEF TypeOK
  <1>2. (IF e.password = Null THEN row[u].password ELSE e.password) \in Password
    BY <1>1 DEF Row, Entity
  <1>3. (IF e.deleted # Null THEN e.deleted ELSE row[u] # Null /\ row[u].deleted)
           \in BOOLEAN
    BY <1>1 DEF Row, Entity
  <1> QED
    BY <1>2, <1>3 DEF Saved, Row, Entity

\* A save writes one row, which keeps e-mails unique: the constraint looks at
\* the e-mail it brings in.
LEMMA StoreKeeps ==
    ASSUME TypeOK, UniqueEmail, NEW u \in UserId, NEW e \in Entity, Store(u, e)
    PROVE  /\ row' \in [UserId -> Row \cup {Null}]
           /\ row'[u] = Saved(u, e)
           /\ \A v \in UserId \ {u} : row'[v] = row[v]
           /\ UniqueEmail'
  <1>1. Saved(u, e) \in Row /\ Saved(u, e).email = e.email
    BY SavedTyped DEF Store, Storable
  <1>2. /\ row' \in [UserId -> Row \cup {Null}]
        /\ row'[u] = Saved(u, e)
        /\ \A v \in UserId \ {u} : row'[v] = row[v]
    BY <1>1 DEF Store, TypeOK
  <1>3. \A v \in UserId \ {u} : row[v] # Null => row[v].email # e.email
    BY DEF Store, Storable
  <1> QED
    BY <1>1, <1>2, <1>3 DEF UniqueEmail

\* A request begins a second step with typed locals, and the others keep theirs.
LEMMA BeginTyped ==
    ASSUME TypeOK, NEW r \in Request,
           NEW pc \in {"insert", "publish", "save", "mark"}, NEW o \in AllOps,
           NEW u \in UserId \cup {Null}, NEW e \in Entity \cup {Null},
           Begin(r, pc, o, u, e)
    PROVE  /\ req' \in [Request -> Locals]
           /\ req'[r] = [pc |-> pc, op |-> o, id |-> u, entity |-> e]
           /\ \A q \in Request \ {r} : req'[q] = req[q]
  <1>1. [pc |-> pc, op |-> o, id |-> u, entity |-> e] \in Locals
    BY DEF Locals
  <1> QED
    BY <1>1 DEF Begin, TypeOK

LEMMA FinishTyped ==
    ASSUME TypeOK, NEW r \in Request, Finish(r)
    PROVE  /\ req' \in [Request -> Locals]
           /\ req'[r] = Idle
           /\ \A q \in Request \ {r} : req'[q] = req[q]
  BY IdleTyped DEF Finish, TypeOK

-----------------------------------------------------------------------------
(* The two shapes of a step *)

\* A step that begins a request and writes nothing.
LEMMA BeginKeeps ==
    ASSUME IInv, NEW r \in Request,
           NEW pc \in {"insert", "publish", "save", "mark"}, NEW o \in AllOps,
           NEW u \in UserId \cup {Null}, NEW e \in Entity \cup {Null},
           Begin(r, pc, o, u, e),
           UNCHANGED <<table, confirm, reset>>,
           pc # "insert" => u \in drawn,
           pc = "insert" =>
              /\ e \in Entity /\ e.password # Null
              /\ o = "create" \/ (o = "register" /\ u = Null /\ e.status = "inactive"),
           pc = "save" => /\ e \in Entity
                          /\ e.password # Null => o = "resetPassword"
    PROVE  IInv'
  <1>1. /\ req' \in [Request -> Locals]
        /\ req'[r] = [pc |-> pc, op |-> o, id |-> u, entity |-> e]
        /\ \A q \in Request \ {r} : req'[q] = req[q]
    BY BeginTyped DEF IInv
  <1>2. UNCHANGED <<row, drawn, overwritten, confirm, reset>>
    BY DEF table
  <1>3. TypeOK'
    BY <1>1, <1>2 DEF IInv, TypeOK
  <1>4. IdsDrawn'
    BY <1>1, <1>2 DEF IInv, IdsDrawn
  <1>5. Carried'
    BY <1>1 DEF IInv, Carried
  <1>6. UniqueEmail'
    BY <1>2 DEF IInv, UniqueEmail
  <1> QED
    BY <1>3, <1>4, <1>5, <1>6 DEF IInv

\* A step that ends a request, or leaves it a mail to publish, and may write a
\* row: what it leaves to show is what it does to the table.
LEMMA WriteKeeps ==
    ASSUME IInv, NEW r \in Request,
           req' \in [Request -> Locals],
           \A q \in Request \ {r} : req'[q] = req[q],
           req'[r].pc \in {"idle", "publish"},
           req'[r].pc = "publish" => req'[r].id \in drawn',
           row' \in [UserId -> Row \cup {Null}],
           drawn \subseteq drawn', drawn' \subseteq UserId,
           overwritten' \subseteq UserId,
           confirm' \subseteq drawn', reset' \subseteq drawn',
           \A v \in UserId : row'[v] # Null => v \in drawn',
           UniqueEmail'
    PROVE  IInv'
  <1>1. TypeOK'
    BY DEF IInv, TypeOK
  <1>2. IdsDrawn'
    BY DEF IInv, IdsDrawn
  <1>3. Carried'
    BY DEF IInv, Carried
  <1> QED
    BY <1>1, <1>2, <1>3 DEF IInv

\* A request ends, and the ids stay: the row of one of them may have been
\* written, or mails published.
LEMMA FinishKeeps ==
    ASSUME IInv, NEW r \in Request, Finish(r), UNCHANGED <<drawn, overwritten>>,
           row' \in [UserId -> Row \cup {Null}],
           \A v \in UserId \ drawn : row'[v] = row[v],
           UniqueEmail',
           confirm' \subseteq drawn, reset' \subseteq drawn
    PROVE  IInv'
  <1>1. /\ req' \in [Request -> Locals]
        /\ req'[r].pc = "idle"
        /\ \A q \in Request \ {r} : req'[q] = req[q]
    BY FinishTyped DEF IInv, Idle
  <1>2. drawn' \subseteq UserId /\ overwritten' \subseteq UserId
    BY DEF IInv, TypeOK
  <1>3. \A v \in UserId : row'[v] # Null => v \in drawn'
    BY DEF IInv, IdsDrawn
  <1> QED
    BY <1>1, <1>2, <1>3, WriteKeeps

\* A request that ends without writing a row.
LEMMA EndKeeps ==
    ASSUME IInv, NEW r \in Request, Finish(r), UNCHANGED table,
           confirm' \subseteq drawn, reset' \subseteq drawn
    PROVE  IInv'
  <1>1. UNCHANGED <<row, drawn, overwritten>>
    BY DEF table
  <1>2. row' \in [UserId -> Row \cup {Null}] /\ UniqueEmail'
    BY <1>1 DEF IInv, TypeOK, UniqueEmail
  <1> QED
    BY <1>1, <1>2, FinishKeeps

\* A request that has read holds an id that was drawn.
LEMMA HeldId ==
    ASSUME IInv, NEW r \in Request, req[r].pc \in {"publish", "save", "mark"}
    PROVE  req[r].id \in drawn /\ req[r].id \in UserId
  BY DEF IInv, IdsDrawn, TypeOK

-----------------------------------------------------------------------------
(* The steps that only read *)

LEMMA CheckEmailStep ==
    ASSUME IInv, NEW r \in Request, NEW n \in ToCreate \cup ToRegister,
           CheckEmail(r, n.op, n.id, n.entity)
    PROVE  IInv'
  <1> DEFINE o == n.op
             u == n.id
             e == n.entity
  <1>1. /\ o \in AllOps /\ u \in UserId \cup {Null}
        /\ e \in Entity /\ e.password # Null
        /\ o = "create" \/ (o = "register" /\ u = Null /\ e.status = "inactive")
    BY NewTyped
  <1>2. Begin(r, "insert", o, u, e) /\ UNCHANGED <<table, confirm, reset>>
    BY DEF CheckEmail
  <1> HIDE DEF o, u, e
  <1> QED
    BY <1>1, <1>2, BeginKeeps

LEMMA ResendStep ==
    ASSUME IInv, NEW r \in Request, NEW u \in UserId,
           Resend(r, u) \/ SendReset(r, u)
    PROVE  IInv'
  <1>1. PICK o \in {"resend", "sendReset"} : Begin(r, "publish", o, u, Null)
    BY DEF Resend, SendReset
  <1>2. row[u] # Null /\ UNCHANGED <<table, confirm, reset>>
    BY DEF Resend, SendReset, Visible
  <1>3. u \in drawn
    BY <1>2 DEF IInv, IdsDrawn
  <1>4. o \in AllOps
    BY DEF AllOps
  <1> QED
    BY <1>1, <1>2, <1>3, <1>4, BeginKeeps

LEMMA ReadToMarkStep ==
    ASSUME IInv, NEW r \in Request, NEW o \in AllOps, NEW u \in UserId,
           ReadToMark(r, o, u)
    PROVE  IInv'
  <1>1. /\ Begin(r, "mark", o, u, Null)
        /\ row[u] # Null
        /\ UNCHANGED <<table, confirm, reset>>
    BY DEF ReadToMark, Visible
  <1>2. u \in drawn
    BY <1>1 DEF IInv, IdsDrawn
  <1> QED
    BY <1>1, <1>2, BeginKeeps

LEMMA ReadToVerifyStep ==
    ASSUME IInv, NEW r \in Request, NEW u \in UserId, ReadToVerify(r, u)
    PROVE  IInv'
  <1> DEFINE x == [Read(u) EXCEPT !.status = "active"]
  <1>1. row[u] # Null
    BY DEF ReadToVerify, VerifyUser, Visible
  <1>2. Read(u) \in Entity /\ Read(u).password = Null
    BY <1>1, ReadTyped DEF IInv
  <1>3. x \in Entity /\ x.password = Null
    BY <1>2 DEF Entity, Status
  <1>4. Begin(r, "save", "verifyEmail", u, x) /\ UNCHANGED <<table, confirm, reset>>
    BY DEF ReadToVerify, VerifyUser
  <1>5. u \in drawn /\ "verifyEmail" \in AllOps
    BY <1>1 DEF IInv, IdsDrawn, AllOps
  <1> HIDE DEF x
  <1> QED
    BY <1>3, <1>4, <1>5, BeginKeeps

LEMMA ReadToResetStep ==
    ASSUME IInv, NEW r \in Request, NEW u \in UserId, NEW p \in Password,
           ReadToReset(r, u, p)
    PROVE  IInv'
  <1> DEFINE x == [Read(u) EXCEPT !.password = p]
  <1>1. row[u] # Null
    BY DEF ReadToReset, ResetUser, Visible
  <1>2. Read(u) \in Entity
    BY <1>1, ReadTyped DEF IInv
  <1>3. x \in Entity
    BY <1>2 DEF Entity
  <1>4. Begin(r, "save", "resetPassword", u, x) /\ UNCHANGED <<table, confirm, reset>>
    BY DEF ReadToReset, ResetUser
  <1>5. u \in drawn /\ "resetPassword" \in AllOps
    BY <1>1 DEF IInv, IdsDrawn, AllOps
  <1> HIDE DEF x
  <1> QED
    BY <1>3, <1>4, <1>5, BeginKeeps

-----------------------------------------------------------------------------
(* The steps that write *)

\* The cases of InsertUser: the row is stored under an id, or the save fails.
LEMMA InsertCases ==
    ASSUME NEW r \in Request, InsertUser(r)
    PROVE  /\ req[r].pc = "insert" /\ UNCHANGED <<confirm, reset>>
           /\ \/ Finish(r) /\ UNCHANGED table
              \/ \E u \in IF req[r].id = Null THEN UserId \ drawn ELSE {req[r].id} :
                    /\ Store(u, req[r].entity)
                    /\ drawn' = drawn \cup {u}
                    /\ overwritten' = overwritten \cup ({u} \cap drawn)
                    /\ IF req[r].op = "register"
                       THEN Begin(r, "publish", "register", u, Null)
                       ELSE Finish(r)
  BY DEF InsertUser

LEMMA InsertUserStep ==
    ASSUME IInv, NEW r \in Request, InsertUser(r)
    PROVE  IInv'
  <1>1. req[r].pc = "insert" /\ confirm' = confirm /\ reset' = reset
    BY DEF InsertUser
  <1>2. confirm \subseteq drawn /\ reset \subseteq drawn
    BY DEF IInv, IdsDrawn
  <1>3. CASE Finish(r) /\ UNCHANGED table
    BY <1>1, <1>2, <1>3, EndKeeps
  <1>4. ASSUME NEW u \in IF req[r].id = Null THEN UserId \ drawn ELSE {req[r].id},
               Store(u, req[r].entity),
               drawn' = drawn \cup {u},
               overwritten' = overwritten \cup ({u} \cap drawn),
               Begin(r, "publish", "register", u, Null) \/ Finish(r)
        PROVE  IInv'
    <2>1. u \in UserId /\ req[r].entity \in Entity
      BY <1>1 DEF IInv, Carried, TypeOK, Locals
    <2>2. /\ row' \in [UserId -> Row \cup {Null}]
          /\ \A v \in UserId \ {u} : row'[v] = row[v]
          /\ UniqueEmail'
      BY <1>4, <2>1, StoreKeeps DEF IInv
    <2>3. /\ req' \in [Request -> Locals]
          /\ \A q \in Request \ {r} : req'[q] = req[q]
          /\ req'[r].pc \in {"idle", "publish"}
          /\ req'[r].pc = "publish" => req'[r].id = u
      <3>1. CASE Finish(r)
        BY <3>1, FinishTyped DEF IInv, Idle
      <3>2. CASE Begin(r, "publish", "register", u, Null)
        <4>1. "register" \in AllOps /\ Null \in Entity \cup {Null}
          BY DEF AllOps
        <4>2. /\ req' \in [Request -> Locals]
              /\ req'[r] = [pc |-> "publish", op |-> "register", id |-> u,
                           entity |-> Null]
              /\ \A q \in Request \ {r} : req'[q] = req[q]
          BY <2>1, <3>2, <4>1, BeginTyped DEF IInv
        <4> QED
          BY <4>2
      <3> QED
        BY <1>4, <3>1, <3>2
    <2>4. \A v \in UserId : row'[v] # Null => v \in drawn'
      BY <1>4, <2>2 DEF IInv, IdsDrawn
    <2>5. /\ drawn \subseteq drawn' /\ drawn' \subseteq UserId
          /\ overwritten' \subseteq UserId
      BY <1>4, <2>1 DEF IInv, TypeOK
    <2> QED
      BY <1>1, <1>2, <1>4, <2>2, <2>3, <2>4, <2>5, WriteKeeps
  <1> QED
    BY <1>3, <1>4, InsertCases

LEMMA SaveStep ==
    ASSUME IInv, NEW r \in Request, Save(r)
    PROVE  IInv'
  <1> DEFINE u == req[r].id
             e == req[r].entity
  <1>1. /\ req[r].pc = "save" /\ Finish(r)
        /\ UNCHANGED <<drawn, overwritten, confirm, reset>>
        /\ Store(u, e) \/ UNCHANGED row
    BY DEF Save
  <1>2. u \in drawn /\ u \in UserId /\ e \in Entity
    BY <1>1, HeldId DEF IInv, Carried
  <1>3. confirm' \subseteq drawn /\ reset' \subseteq drawn
    BY <1>1 DEF IInv, IdsDrawn
  <1>4. CASE UNCHANGED row
    BY <1>1, <1>3, <1>4, EndKeeps DEF table
  <1>5. CASE Store(u, e)
    <2>1. /\ row' \in [UserId -> Row \cup {Null}]
          /\ \A v \in UserId \ {u} : row'[v] = row[v]
          /\ UniqueEmail'
      BY <1>2, <1>5, StoreKeeps DEF IInv
    <2> QED
      BY <1>1, <1>2, <1>3, <2>1, FinishKeeps
  <1> QED
    BY <1>1, <1>4, <1>5

LEMMA MarkStep ==
    ASSUME IInv, NEW r \in Request, Mark(r)
    PROVE  IInv'
  <1> DEFINE u == req[r].id
             x == IF req[r].op = "delete" THEN Null
                  ELSE [row[u] EXCEPT !.deleted = req[r].op = "softDelete"]
  <1>1. /\ req[r].pc = "mark" /\ Finish(r)
        /\ UNCHANGED <<drawn, overwritten, confirm, reset>>
    BY DEF Mark
  <1>2. u \in drawn /\ u \in UserId
    BY <1>1, HeldId
  <1>3. confirm' \subseteq drawn /\ reset' \subseteq drawn
    BY <1>1 DEF IInv, IdsDrawn
  <1>4. CASE UNCHANGED row
    BY <1>1, <1>3, <1>4, EndKeeps DEF table
  <1>5. CASE row[u] # Null /\ row' = [row EXCEPT ![u] = x]
    <2>1. row[u] \in Row
      BY <1>2, <1>5 DEF IInv, TypeOK
    <2>2. ASSUME NEW b \in BOOLEAN
          PROVE  /\ [row[u] EXCEPT !.deleted = b] \in Row
                 /\ [row[u] EXCEPT !.deleted = b].email = row[u].email
      BY <2>1 DEF Row
    <2>3. (req[r].op = "softDelete") \in BOOLEAN
      OBVIOUS
    <2>4. x \in Row \cup {Null} /\ (x # Null => x.email = row[u].email)
      BY <2>2, <2>3
    <2> HIDE DEF x
    <2>5. /\ row' \in [UserId -> Row \cup {Null}]
          /\ row'[u] = x
          /\ \A v \in UserId \ {u} : row'[v] = row[v]
      BY <1>2, <1>5, <2>4 DEF IInv, TypeOK
    <2>6. UniqueEmail'
      BY <1>2, <1>5, <2>4, <2>5 DEF IInv, UniqueEmail
    <2> QED
      BY <1>1, <1>2, <1>3, <2>5, <2>6, FinishKeeps
  <1> QED
    BY <1>4, <1>5 DEF Mark

-----------------------------------------------------------------------------
(* The invariant *)

LEMMA NextStep == IInv /\ [Next]_vars => IInv'
  <1> SUFFICES ASSUME IInv, [Next]_vars
               PROVE  IInv'
    OBVIOUS
  <1>1. CASE UNCHANGED vars
    BY <1>1 DEF vars, table, IInv, TypeOK, IdsDrawn, Carried, UniqueEmail
  <1>2. ASSUME NEW r \in Request, Arrive(r)
        PROVE  IInv'
    BY <1>2, CheckEmailStep, ResendStep, ReadToVerifyStep, ReadToResetStep,
       ReadToMarkStep DEF Arrive
  <1>3. ASSUME NEW r \in Request, Publish(r)
        PROVE  IInv'
    <2>1. Finish(r) /\ UNCHANGED table
      BY <1>3 DEF Publish
    <2>2. req[r].id \in drawn
      BY <1>3, HeldId DEF Publish
    <2>3. confirm' \subseteq drawn /\ reset' \subseteq drawn
      BY <1>3, <2>2 DEF Publish, IInv, IdsDrawn
    <2> QED
      BY <2>1, <2>3, EndKeeps
  <1>4. ASSUME NEW r \in Request, Fail(r)
        PROVE  IInv'
    <2>1. Finish(r) /\ UNCHANGED <<table, confirm, reset>>
      BY <1>4 DEF Fail
    <2>2. confirm' \subseteq drawn /\ reset' \subseteq drawn
      BY <2>1 DEF IInv, IdsDrawn
    <2> QED
      BY <2>1, <2>2, EndKeeps
  <1> QED
    BY <1>1, <1>2, <1>3, <1>4, InsertUserStep, SaveStep, MarkStep DEF Next, Step

\* What every reachable state of the table and of the handlers satisfies.
THEOREM Invariance == Spec => []IInv
  BY InitInv, NextStep, PTL DEF Spec

\* Every column, id and local of a handler keeps its type.
THEOREM TypeCorrect == Spec => []TypeOK
  <1>1. IInv => TypeOK
    BY DEF IInv
  <1> QED
    BY <1>1, Invariance, PTL

\* No two users ever have the same e-mail, whatever handlers race: the check and
\* the save of POST /user and /auth/register, and saves of entities with an
\* e-mail that was read before.
THEOREM EmailsUnique == Spec => []UniqueEmail
  <1>1. IInv => UniqueEmail
    BY DEF IInv
  <1> QED
    BY <1>1, Invariance, PTL

-----------------------------------------------------------------------------
(* Passwords *)

\* The steps that write the table.
LEMMA Writers ==
    ASSUME [Next]_vars, row' # row
    PROVE  \E r \in Request : InsertUser(r) \/ Save(r) \/ Mark(r)
  BY DEF Next, vars, table, Arrive, Step, CheckEmail, Resend, SendReset, Publish,
         ReadToVerify, VerifyUser, ReadToReset, ResetUser, ReadToMark, Fail

\* A deletion or a restore leaves the other columns.
LEMMA MarkLeaves ==
    ASSUME IInv, NEW r \in Request, Mark(r), NEW v \in UserId, row'[v] # Null
    PROVE  row[v] # Null /\ row'[v].password = row[v].password
                         /\ row'[v].status = row[v].status
  <1> DEFINE u == req[r].id
             b == req[r].op = "softDelete"
  <1>1. \/ row' = row
        \/ /\ row[u] # Null
           /\ row' = [row EXCEPT ![u] = IF req[r].op = "delete" THEN Null
                                        ELSE [row[u] EXCEPT !.deleted = b]]
    BY DEF Mark
  <1> HIDE DEF b
  <1>2. row \in [UserId -> Row \cup {Null}]
    BY DEF IInv, TypeOK
  <1>3. row'[v] = row[v] \/ (row[v] # Null /\ row'[v] = [row[v] EXCEPT !.deleted = b])
    BY <1>1, <1>2
  <1>4. row[v] \in Row => /\ [row[v] EXCEPT !.deleted = b].password = row[v].password
                          /\ [row[v] EXCEPT !.deleted = b].status = row[v].status
    BY DEF Row
  <1> QED
    BY <1>2, <1>3, <1>4

LEMMA PasswordStep ==
    ASSUME IInv, [Next]_vars, NEW v \in UserId,
           row[v] # Null, row'[v] # Null, row'[v].password # row[v].password
    PROVE  \E r \in Request : /\ req[r].pc \in {"insert", "save"}
                              /\ req[r].op \in {"create", "resetPassword"}
                              /\ req[r].id = v
                              /\ req[r].entity.password = row'[v].password
  <1>1. PICK r \in Request : InsertUser(r) \/ Save(r)
    BY Writers, MarkLeaves
  <1> DEFINE e == req[r].entity
  <1>2. e \in Entity /\ v \in drawn
    BY <1>1 DEF InsertUser, Save, IInv, Carried, IdsDrawn
  <1>3. ASSUME NEW u \in UserId, Store(u, e)
        PROVE  u = v /\ e.password # Null /\ row'[v].password = e.password
    <2>1. row'[u] = Saved(u, e) /\ \A w \in UserId \ {u} : row'[w] = row[w]
      BY <1>2, <1>3, StoreKeeps DEF IInv
    <2>2. u = v
      BY <2>1
    <2>3. row'[v].password = IF e.password = Null THEN row[v].password ELSE e.password
      BY <1>2, <2>1, <2>2, SavedTyped DEF IInv
    <2> QED
      BY <2>2, <2>3
  <1>4. CASE InsertUser(r)
    <2>1. req[r].pc = "insert" /\ row' # row
      BY <1>4 DEF InsertUser
    <2>2. PICK u \in IF req[r].id = Null THEN UserId \ drawn ELSE {req[r].id} :
             Store(u, e)
      BY <1>4, <2>1, InsertCases DEF table
    <2>3. u \in UserId
      BY DEF IInv, TypeOK, Locals
    <2>4. u = v /\ row'[v].password = e.password
      BY <1>3, <2>2, <2>3
    <2>5. req[r].id = v
      BY <1>2, <2>2, <2>4
    <2>6. req[r].op = "create"
      BY <2>1, <2>5, UsersAssumption DEF IInv, Carried
    <2> QED
      BY <2>1, <2>4, <2>5, <2>6
  <1>5. CASE Save(r)
    <2>1. req[r].pc = "save" /\ Store(req[r].id, e)
      BY <1>5 DEF Save
    <2>2. req[r].id = v /\ e.password # Null /\ row'[v].password = e.password
      BY <1>3, <2>1, HeldId
    <2> QED
      BY <2>1, <2>2 DEF IInv, Carried
  <1> QED
    BY <1>1, <1>4, <1>5

\* A stored password changes only to one that was sent for this user: saved by
\* resetPassword, or in a POST /user that had the user's id.
THEOREM PasswordsAsSent == Spec => PasswordAsSent
  <1>1. IInv /\ [Next]_vars =>
          [\A u \in UserId :
              row[u] # Null /\ row'[u] # Null /\ row'[u].password # row[u].password
                 => \E r \in Request : /\ req[r].pc \in {"insert", "save"}
                                       /\ req[r].op \in {"create", "resetPassword"}
                                       /\ req[r].id = u
                                       /\ req[r].entity.password = row'[u].password]_vars
    BY PasswordStep
  <1> QED
    BY <1>1, Invariance, PTL DEF Spec, PasswordAsSent

-----------------------------------------------------------------------------
(* Blocked users *)

\* The table, or an entity about to be saved, has the user as blocked.
Blocked(u) ==
    \/ row[u] # Null /\ row[u].status = "blocked"
    \/ \E r \in Request : /\ req[r].pc = "save" /\ req[r].id = u
                          /\ req[r].entity.status = "blocked"

\* What is known of a blocked user is that, unless a POST /user replaced the row:
\* no entity says otherwise, nobody has a confirmation for the user, and none is
\* on its way.
BlockedApart ==
    \A u \in UserId \ overwritten : Blocked(u) =>
       /\ row[u] # Null => row[u].status = "blocked"
       /\ u \notin confirm
       /\ \A r \in Request : req[r].id = u =>
             /\ req[r].pc = "save" => req[r].entity.status = "blocked"
             /\ req[r].pc = "publish" => req[r].op = "sendReset"

LEMMA InitApart == Init => BlockedApart
  BY DEF Init, Idle, Blocked, BlockedApart

\* What a request that began, or ended, holds.
LEMMA BeginHolds ==
    ASSUME TypeOK, NEW r \in Request, NEW pc, NEW o, NEW u, NEW e, Begin(r, pc, o, u, e)
    PROVE  /\ req'[r].pc = pc /\ req'[r].op = o /\ req'[r].id = u /\ req'[r].entity = e
           /\ \A q \in Request \ {r} : req'[q] = req[q]
  <1>1. req' = [req EXCEPT ![r] = [pc |-> pc, op |-> o, id |-> u, entity |-> e]]
    BY DEF Begin
  <1> QED
    BY <1>1 DEF TypeOK

\* A step that only reads, of a request that goes on with a status that fits.
LEMMA BeginApart ==
    ASSUME IInv, BlockedApart, NEW r \in Request, NEW pc, NEW o, NEW u, NEW e,
           Begin(r, pc, o, u, e), UNCHANGED <<table, confirm>>,
           u \in UserId \ overwritten =>
              /\ pc = "save" => row[u] # Null /\ (Blocked(u) <=> e.status = "blocked")
              /\ pc = "publish" => o = "sendReset" \/ ~Blocked(u)
    PROVE  BlockedApart'
  <1>1. /\ req'[r].pc = pc /\ req'[r].op = o /\ req'[r].id = u /\ req'[r].entity = e
        /\ \A q \in Request \ {r} : req'[q] = req[q]
    BY BeginHolds DEF IInv
  <1>2. UNCHANGED <<row, overwritten>>
    BY DEF table
  <1>3. \A v \in UserId \ overwritten : Blocked(v)' => Blocked(v)
    BY <1>1, <1>2 DEF Blocked
  <1> QED
    BY <1>1, <1>2, <1>3 DEF BlockedApart

\* A step that ends a request, or has it publish a mail for a user who is not
\* blocked, and leaves rows whose status was known.
LEMMA WriteApart ==
    ASSUME IInv, BlockedApart, NEW r \in Request,
           \A q \in Request \ {r} : req'[q] = req[q],
           overwritten \subseteq overwritten',
           \/ req'[r].pc = "idle"
           \/ req'[r].pc = "publish" /\ ~Blocked(req[r].id)',
           \A v \in UserId \ overwritten' : row'[v] # Null =>
              \/ row'[v] = row[v]
              \/ v \notin drawn
              \/ row'[v].status = "blocked" <=> Blocked(v),
           \A v \in UserId \ overwritten' : v \in confirm' => v \in confirm \/ ~Blocked(v),
           confirm' \subseteq drawn
    PROVE  BlockedApart'
  <1>1. \A q \in Request : req'[q].pc = "save" => req'[q] = req[q]
    OBVIOUS
  <1>2. ASSUME NEW v \in UserId \ overwritten', Blocked(v)', v \in drawn
        PROVE  Blocked(v)
    BY <1>1, <1>2 DEF Blocked
  <1>3. ASSUME NEW v \in UserId \ overwritten', Blocked(v)', v \notin drawn
        PROVE  /\ row'[v] # Null /\ row'[v].status = "blocked"
               /\ \A q \in Request : req'[q].id = v => req'[q].pc # "save"
               /\ \A q \in Request : req'[q].id = v => req'[q].pc # "publish"
    <2>1. \A q \in Request : req'[q].id = v => req'[q].pc \notin {"save", "publish"}
      <3>1. \A q \in Request \ {r} : req[q].id = v => req[q].pc \notin {"save", "publish"}
        BY <1>3 DEF IInv, IdsDrawn
      <3>2. req'[r].id = v => req'[r].pc \notin {"save", "publish"}
        BY <1>3
      <3> QED
        BY <3>1, <3>2
    <2>2. row'[v] # Null /\ row'[v].status = "blocked"
      BY <1>3, <2>1 DEF Blocked
    <2> QED
      BY <2>1, <2>2
  <1>4. ASSUME NEW v \in UserId \ overwritten', Blocked(v)'
        PROVE  /\ row'[v] # Null => row'[v].status = "blocked"
               /\ v \notin confirm'
               /\ \A q \in Request : req'[q].id = v =>
                     /\ req'[q].pc = "save" => req'[q].entity.status = "blocked"
                     /\ req'[q].pc = "publish" => req'[q].op = "sendReset"
    <2>1. CASE v \in drawn
      <3>1. Blocked(v) /\ v \notin overwritten
        BY <1>2, <1>4, <2>1
      <3>2. row'[v] # Null => row'[v].status = "blocked"
        BY <2>1, <3>1 DEF BlockedApart
      <3>3. v \notin confirm'
        BY <3>1 DEF BlockedApart
      <3>4. ASSUME NEW q \in Request, req'[q].id = v
            PROVE  /\ req'[q].pc = "save" => req'[q].entity.status = "blocked"
                   /\ req'[q].pc = "publish" => req'[q].op = "sendReset"
        <4>1. CASE q = r
          BY <1>4, <3>4, <4>1
        <4>2. CASE q # r
          BY <3>1, <3>4, <4>2 DEF BlockedApart
        <4> QED
          BY <4>1, <4>2
      <3> QED
        BY <3>2, <3>3, <3>4
    <2>2. CASE v \notin drawn
      BY <1>3, <1>4, <2>2
    <2> QED
      BY <2>1, <2>2
  <1> QED
    BY <1>4 DEF BlockedApart

\* A request that ends without writing a row.
LEMMA FinishApart ==
    ASSUME IInv, BlockedApart, NEW r \in Request, Finish(r), UNCHANGED table,
           \A v \in UserId \ overwritten : v \in confirm' => v \in confirm \/ ~Blocked(v),
           confirm' \subseteq drawn
    PROVE  BlockedApart'
  <1>1. req'[r].pc = "idle" /\ \A q \in Request \ {r} : req'[q] = req[q]
    BY FinishTyped DEF IInv, Idle
  <1>2. UNCHANGED <<row, overwritten>>
    BY DEF table
  <1> QED
    BY <1>1, <1>2, WriteApart

\* The save of POST /user and of register gives a new row the entity's status,
\* or leaves the id among the overwritten ones.
LEMMA InsertApart ==
    ASSUME IInv, BlockedApart, NEW r \in Request, InsertUser(r)
    PROVE  BlockedApart'
  <1> DEFINE e == req[r].entity
  <1>1. req[r].pc = "insert" /\ confirm' = confirm /\ confirm \subseteq drawn
    BY DEF InsertUser, IInv, IdsDrawn
  <1>2. CASE Finish(r) /\ UNCHANGED table
    BY <1>1, <1>2, FinishApart
  <1>3. ASSUME NEW u \in IF req[r].id = Null THEN UserId \ drawn ELSE {req[r].id},
               Store(u, e), overwritten' = overwritten \cup ({u} \cap drawn),
               IF req[r].op = "register" THEN Begin(r, "publish", "register", u, Null)
               ELSE Finish(r)
        PROVE  BlockedApart'
    <2>1. u \in UserId /\ e \in Entity /\ e.password # Null
      BY <1>1 DEF IInv, Carried, TypeOK, Locals
    <2>2. /\ row'[u] = Saved(u, e) /\ Saved(u, e).status = e.status
          /\ \A v \in UserId \ {u} : row'[v] = row[v]
      BY <1>3, <2>1, StoreKeeps, SavedTyped DEF IInv
    <2>3. /\ overwritten \subseteq overwritten'
          /\ \A v \in UserId \ overwritten' : row'[v] = row[v] \/ v \notin drawn
      BY <1>3, <2>2
    <2>4. CASE req[r].op = "register"
      <3>1. /\ req'[r].pc = "publish" /\ req'[r].id = u
            /\ \A q \in Request \ {r} : req'[q] = req[q]
        BY <1>3, <2>4, BeginHolds DEF IInv
      <3>2. req[r].id = Null /\ e.status = "inactive"
        BY <1>1, <2>4 DEF IInv, Carried
      <3>3. u \notin drawn
        BY <1>3, <3>2
      <3>4. \A q \in Request : req'[q].pc = "save" => req'[q].id # u
        BY <3>1, <3>3 DEF IInv, IdsDrawn
      <3>5. ~Blocked(u)'
        BY <2>2, <3>2, <3>4 DEF Blocked
      <3>6. ~Blocked(req[r].id)'
        BY <3>1, <3>5 DEF Blocked
      <3> QED
        BY <1>1, <2>3, <3>1, <3>6, WriteApart
    <2>5. CASE req[r].op # "register"
      <3>1. req'[r].pc = "idle" /\ \A q \in Request \ {r} : req'[q] = req[q]
        BY <1>3, <2>5, FinishTyped DEF IInv, Idle
      <3> QED
        BY <1>1, <2>3, <3>1, WriteApart
    <2> QED
      BY <2>4, <2>5
  <1> QED
    BY <1>2, <1>3, InsertCases

\* A row is written with the status of its user: the entity that is saved has
\* it, and a deletion or a restore leaves it.
LEMMA WrittenStatus ==
    ASSUME IInv, BlockedApart, NEW r \in Request, Save(r) \/ Mark(r),
           NEW v \in UserId \ overwritten, row'[v] # Null
    PROVE  row'[v] = row[v] \/ (row'[v].status = "blocked" <=> Blocked(v))
  <1> DEFINE u == req[r].id
             e == req[r].entity
  <1>1. u \in UserId /\ row \in [UserId -> Row \cup {Null}]
    BY HeldId DEF Save, Mark, IInv, TypeOK
  <1>2. CASE Save(r)
    <2>1. req[r].pc = "save" /\ e \in Entity /\ (row' = row \/ Store(u, e))
      BY <1>2 DEF Save, IInv, Carried
    <2>2. CASE Store(u, e) /\ u = v
      <3>1. row'[v].status = e.status
        BY <1>1, <2>1, <2>2, StoreKeeps, SavedTyped DEF IInv, Store, Storable
      <3>2. Blocked(u) <=> e.status = "blocked"
        BY <1>1, <2>1, <2>2 DEF Blocked, BlockedApart
      <3> QED
        BY <2>2, <3>1, <3>2
    <2>3. CASE Store(u, e) /\ u # v
      BY <1>1, <2>1, <2>3, StoreKeeps DEF IInv
    <2> QED
      BY <2>1, <2>2, <2>3
  <1>3. CASE Mark(r)
    <2>1. row[v] # Null /\ row'[v].status = row[v].status
      BY <1>3, MarkLeaves
    <2>2. row[v].status = "blocked" <=> Blocked(v)
      BY <2>1 DEF Blocked, BlockedApart
    <2> QED
      BY <2>1, <2>2
  <1> QED
    BY <1>2, <1>3

\* The requests that arrive look at the row's status, or leave it as it is.
LEMMA ArriveApart ==
    ASSUME IInv, BlockedApart, NEW r \in Request, Arrive(r)
    PROVE  BlockedApart'
  <1>1. ASSUME NEW u \in UserId \ overwritten, row[u] # Null
        PROVE  Blocked(u) <=> row[u].status = "blocked"
    BY <1>1 DEF Blocked, BlockedApart
  <1>2. ASSUME NEW n \in ToCreate \cup ToRegister, CheckEmail(r, n.op, n.id, n.entity)
        PROVE  BlockedApart'
    <2>1. Begin(r, "insert", n.op, n.id, n.entity) /\ UNCHANGED <<table, confirm>>
      BY <1>2 DEF CheckEmail
    <2> QED
      BY <2>1, BeginApart
  <1>3. ASSUME NEW u \in UserId, Resend(r, u)
        PROVE  BlockedApart'
    <2>1. /\ Begin(r, "publish", "resend", u, Null) /\ UNCHANGED <<table, confirm>>
          /\ row[u] # Null /\ row[u].status # "blocked"
      BY <1>3 DEF Resend, Visible
    <2> QED
      BY <1>1, <2>1, BeginApart
  <1>4. ASSUME NEW u \in UserId, SendReset(r, u)
        PROVE  BlockedApart'
    <2>1. Begin(r, "publish", "sendReset", u, Null) /\ UNCHANGED <<table, confirm>>
      BY <1>4 DEF SendReset
    <2> QED
      BY <2>1, BeginApart
  <1>5. ASSUME NEW u \in UserId, ReadToVerify(r, u)
        PROVE  BlockedApart'
    <2> DEFINE x == [Read(u) EXCEPT !.status = "active"]
    <2>1. /\ Begin(r, "save", "verifyEmail", u, x) /\ UNCHANGED <<table, confirm>>
          /\ row[u] # Null /\ u \in confirm
      BY <1>5 DEF ReadToVerify, VerifyUser, Visible
    <2>2. x.status = "active"
      BY <2>1, ReadTyped DEF IInv, Entity
    <2>3. u \in UserId \ overwritten => ~Blocked(u)
      BY <2>1 DEF BlockedApart
    <2> HIDE DEF x
    <2> QED
      BY <2>1, <2>2, <2>3, BeginApart
  <1>6. ASSUME NEW u \in UserId, NEW p \in Password, ReadToReset(r, u, p)
        PROVE  BlockedApart'
    <2> DEFINE x == [Read(u) EXCEPT !.password = p]
    <2>1. /\ Begin(r, "save", "resetPassword", u, x) /\ UNCHANGED <<table, confirm>>
          /\ row[u] # Null
      BY <1>6 DEF ReadToReset, ResetUser, Visible
    <2>2. x.status = row[u].status
      BY <2>1 DEF IInv, TypeOK, Read, Row
    <2> HIDE DEF x
    <2> QED
      BY <1>1, <2>1, <2>2, BeginApart
  <1>7. ASSUME NEW o \in AllOps, NEW u \in UserId, ReadToMark(r, o, u)
        PROVE  BlockedApart'
    <2>1. Begin(r, "mark", o, u, Null) /\ UNCHANGED <<table, confirm>>
      BY <1>7 DEF ReadToMark
    <2> QED
      BY <2>1, BeginApart
  <1> QED
    BY <1>2, <1>3, <1>4, <1>5, <1>6, <1>7 DEF Arrive

LEMMA NextApart == IInv /\ BlockedApart /\ [Next]_vars => BlockedApart'
  <1> SUFFICES ASSUME IInv, BlockedApart, [Next]_vars
               PROVE  BlockedApart'
    OBVIOUS
  <1>0. confirm \subseteq drawn
    BY DEF IInv, IdsDrawn
  <1>1. CASE UNCHANGED vars
    BY <1>1 DEF vars, table, BlockedApart, Blocked
  <1>2. ASSUME NEW r \in Request, Publish(r)
        PROVE  BlockedApart'
    <2>1. /\ req[r].pc = "publish" /\ Finish(r) /\ UNCHANGED table
          /\ confirm' \in {confirm, confirm \cup {req[r].id}}
          /\ req[r].op = "sendReset" => confirm' = confirm
      BY <1>2 DEF Publish
    <2>2. req[r].id \in drawn /\ req[r].id \in UserId
      BY <2>1, HeldId
    <2>3. req[r].op # "sendReset" /\ req[r].id \notin overwritten => ~Blocked(req[r].id)
      BY <2>1, <2>2 DEF BlockedApart
    <2> QED
      BY <1>0, <2>1, <2>2, <2>3, FinishApart
  <1>3. ASSUME NEW r \in Request, Save(r) \/ Mark(r)
        PROVE  BlockedApart'
    <2>1. Finish(r) /\ UNCHANGED <<overwritten, confirm>>
      BY <1>3 DEF Save, Mark
    <2>2. req'[r].pc = "idle" /\ \A q \in Request \ {r} : req'[q] = req[q]
      BY <2>1, FinishTyped DEF IInv, Idle
    <2> QED
      BY <1>0, <1>3, <2>1, <2>2, WrittenStatus, WriteApart
  <1>4. ASSUME NEW r \in Request, Fail(r)
        PROVE  BlockedApart'
    BY <1>0, <1>4, FinishApart DEF Fail
  <1> QED
    BY <1>1, <1>2, <1>3, <1>4, InsertApart, ArriveApart DEF Next, Step

\* The status of a row changes only with what is known of its user, or by a
\* POST /user that replaces the row.
LEMMA StillBlocked ==
    ASSUME IInv, BlockedApart, [Next]_vars, NEW v \in UserId,
           row[v] # Null, row[v].status = "blocked", row'[v] # Null
    PROVE  row'[v].status = "blocked" \/ v \in overwritten'
  <1>1. CASE row' = row
    BY <1>1
  <1>2. ASSUME NEW r \in Request, InsertUser(r), row' # row
        PROVE  row'[v].status = "blocked" \/ v \in overwritten'
    <2>1. PICK u \in IF req[r].id = Null THEN UserId \ drawn ELSE {req[r].id} :
             Store(u, req[r].entity) /\ overwritten' = overwritten \cup ({u} \cap drawn)
      BY <1>2, InsertCases DEF table
    <2>2. v \in drawn /\ row \in [UserId -> Row \cup {Null}]
      BY DEF IInv, IdsDrawn, TypeOK
    <2>3. u # v => row'[v] = row[v]
      BY <2>1, <2>2 DEF Store
    <2> QED
      BY <2>1, <2>2, <2>3
  <1>3. ASSUME NEW r \in Request, Save(r) \/ Mark(r), v \notin overwritten
        PROVE  row'[v].status = "blocked"
    BY <1>3, WrittenStatus DEF Blocked
  <1>4. ASSUME NEW r \in Request, Save(r) \/ Mark(r)
        PROVE  overwritten' = overwritten
    BY <1>4 DEF Save, Mark
  <1> QED
    BY <1>1, <1>2, <1>3, <1>4, Writers

\* Whatever verifications, resets, resends, deletions and restores race, none
\* unblocks a user who was created blocked: only a POST /user with the user's id,
\* which replaces the row, may have done so.
THEOREM BlockedForGood == Spec => BlockedStaysBlocked
  <1>1. IInv /\ BlockedApart /\ [Next]_vars =>
          [\A u \in UserId : row[u] # Null /\ row[u].status = "blocked" /\ row'[u] # Null
                               => row'[u].status = "blocked" \/ u \in overwritten']_vars
    BY StillBlocked
  <1> QED
    BY <1>1, InitApart, NextApart, Invariance, PTL DEF Spec, BlockedStaysBlocked
=============================================================================
