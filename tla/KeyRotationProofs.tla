-------------------------- MODULE KeyRotationProofs --------------------------
(* That the creation flag of the key service tells the truth, for any number  *)
(* of calls, keys and types; that the job takes no refresh key away while a   *)
(* token it signed is valid, as long as a newer key follows within a month;   *)
(* and that it leaves the newest one until two months have brought no other.  *)
(* All on every calendar, whatever saves fail, jobs are missed and calls are  *)
(* on their way.                                                              *)
EXTENDS KeyRotation, SequenceTheorems, TLAPS

\* A creation is always one of a key type: the job has a type left to work on,
\* and a call that looks for a key was asked for one.
IInv ==
    /\ TypeOK
    /\ cron.pc # "idle" => cron.left # <<>>
    /\ \A c \in Caller : local[c].pc \in {"asked", "saving"}
                           => local[c].type \in KeyType
    /\ FlagMeansCreating

\* The types handleCron rotates are types, and there is one at least.
LEMMA RotationTypes == Rotation \in Seq(KeyType) /\ Rotation # <<>>
  BY KeyAssumption DEF KeyType

\* Every instant is a time.
LEMMA InstantsAreTimes ==
    ASSUME TypeOK
    PROVE  Instants \subseteq Nat
  <1>1. calendar \subseteq Nat /\ Offsets \subseteq Int
    BY KeyAssumption DEF TypeOK
  <1>2. \A d \in calendar : d * Day \in Int
    BY <1>1 DEF Day, Minute
  <1>3. Midnights \subseteq Int
    BY <1>2 DEF Midnights
  <1> QED
    BY <1>1, <1>3 DEF Instants

\* What is left of a list of types after its head.
LEMMA TypesLeft ==
    ASSUME NEW left \in Seq(KeyType), left # <<>>
    PROVE  /\ Head(left) \in KeyType
           /\ Tail(left) \in Seq(KeyType)
           /\ Len(left) # 1 => Tail(left) # <<>>
  <1>1. /\ Head(left) \in KeyType
        /\ Tail(left) \in Seq(KeyType)
        /\ Len(Tail(left)) = Len(left) - 1
    BY HeadTailProperties
  <1>2. Tail(left) = <<>> => Len(Tail(left)) = 0
    BY EmptySeq
  <1> QED
    BY <1>1, <1>2, LenProperties

LEMMA InitInv == Init => IInv
  <1> SUFFICES ASSUME Init
               PROVE  IInv
    OBVIOUS
  <1>1. TypeOK
    <2>1. Idle \in Locals
      BY DEF Idle, Locals
    <2>2. CronIdle \in Job
      BY DEF CronIdle, Job
    <2>3. born \in [KeyId -> Row \cup {Null}] /\ lastUse \in [KeyId -> Nat]
      BY DEF Init
    <2>4. local \in [Caller -> Locals] /\ cron \in Job
      BY <2>1, <2>2 DEF Init
    <2>5. stored \subseteq KeyId /\ isKeyBeingCreated \in BOOLEAN
      BY DEF Init
    <2>6. cronAt \in Int /\ now \in Nat /\ calendar \in Calendars
      BY DEF Init
    <2> QED
      BY <2>3, <2>4, <2>5, <2>6 DEF TypeOK
  <1>2. Creating = {}
    BY DEF Init, Creating, Idle, CronIdle
  <1> QED
    BY <1>1, <1>2 DEF Init, IInv, FlagMeansCreating, CronIdle, Idle

\* A saved key is a row, and its id is one of the ids.
LEMMA InsertTyped ==
    ASSUME TypeOK, NEW t \in KeyType, Insert(t)
    PROVE  /\ NewId \in KeyId
           /\ born' \in [KeyId -> Row \cup {Null}]
           /\ stored' \subseteq KeyId
  <1>1. NewId \in KeyId
    BY DEF Insert, IdsLeft, NewId
  <1>2. [type |-> t, createdAt |-> now] \in Row
    BY DEF TypeOK, Row
  <1> QED
    BY <1>1, <1>2 DEF Insert, TypeOK

\* After a type the job has types left, unless it is done.
LEMMA AfterAddTyped ==
    ASSUME TypeOK, cron.left # <<>>
    PROVE  /\ AfterAdd \in Job
           /\ AfterAdd.pc \in {"add", "remove"}
           /\ AfterAdd.left # <<>>
  <1>1. cron.left \in Seq(KeyType)
    BY DEF TypeOK, Job
  <1>2. CASE Len(cron.left) = 1
    BY <1>2, RotationTypes DEF AfterAdd, Job
  <1>3. CASE Len(cron.left) # 1
    <2>1. Tail(cron.left) \in Seq(KeyType) /\ Tail(cron.left) # <<>>
      BY <1>1, <1>3, TypesLeft
    <2>2. AfterAdd = [pc |-> "add", left |-> Tail(cron.left)]
      BY <1>3 DEF AfterAdd
    <2> QED
      BY <2>1, <2>2 DEF Job
  <1> QED
    BY <1>2, <1>3

-----------------------------------------------------------------------------
(* Every step keeps IInv *)

LEMMA TypeStep == IInv /\ [Next]_vars => TypeOK'
  <1> SUFFICES ASSUME IInv, [Next]_vars
               PROVE  TypeOK'
    OBVIOUS
  <1> USE DEF IInv
  <1>1. ASSUME NEW c \in Caller, NEW t \in KeyType, Ask(c, t)
        PROVE  TypeOK'
    <2>1. PICK k \in Newest(t) :
            local' = [local EXCEPT ![c] = [pc |-> "asked", type |-> t,
                                           key |-> k, at |-> now]]
      BY <1>1 DEF Ask
    <2>2. k \in KeyId \cup {Null}
      BY <2>1 DEF Newest, TypeOK
    <2>3. [pc |-> "asked", type |-> t, key |-> k, at |-> now] \in Locals
      BY <2>2 DEF TypeOK, Locals
    <2> QED
      BY <1>1, <2>1, <2>3 DEF Ask, TypeOK
  <1>2. ASSUME NEW c \in Caller, Sign(c)
        PROVE  TypeOK'
    <2>1. local[c].key \in KeyId
      BY <1>2 DEF Sign, TypeOK, Locals
    <2> QED
      BY <1>2, <2>1 DEF Sign, TypeOK, Locals, Idle
  <1>3. ASSUME NEW c \in Caller, Create(c)
        PROVE  TypeOK'
    <2>1. local' \in [Caller -> Locals]
      <3>1. \A pc \in {"threw", "saving"} : [local[c] EXCEPT !.pc = pc] \in Locals
        BY DEF TypeOK, Locals
      <3> QED
        BY <1>3, <3>1 DEF Create, TypeOK
    <2>2. isKeyBeingCreated' \in BOOLEAN
      BY <1>3, Zenon DEF Create, TypeOK
    <2> QED
      BY <1>3, <2>1, <2>2 DEF Create, TypeOK
  <1>4. ASSUME NEW c \in Caller, SaveSucceeds(c) \/ SaveFails(c)
        PROVE  TypeOK'
    <2>0. isKeyBeingCreated' \in BOOLEAN
      BY <1>4, Zenon DEF SaveSucceeds, SaveFails, FlagCleared
    <2>1. CASE Insert(local[c].type) /\ lastUse' = [lastUse EXCEPT ![NewId] = now]
                 /\ local' = [local EXCEPT ![c] = Idle]
      <3>1. local[c].type \in KeyType
        BY <1>4 DEF SaveSucceeds, SaveFails
      <3>2. NewId \in KeyId /\ born' \in [KeyId -> Row \cup {Null}]
              /\ stored' \subseteq KeyId
        BY <2>1, <3>1, InsertTyped
      <3>3. lastUse' \in [KeyId -> Nat]
        BY <2>1, <3>2 DEF TypeOK
      <3>4. local' \in [Caller -> Locals]
        BY <2>1 DEF TypeOK, Locals, Idle
      <3> QED
        BY <1>4, <2>0, <3>2, <3>3, <3>4 DEF SaveSucceeds, SaveFails, TypeOK
    <2>2. CASE local' = [local EXCEPT ![c].pc = "threw"]
                 /\ UNCHANGED <<born, stored, lastUse>>
      BY <1>4, <2>0, <2>2 DEF SaveSucceeds, SaveFails, TypeOK, Locals
    <2> QED
      BY <1>4, <2>1, <2>2 DEF SaveSucceeds, SaveFails
  <1>5. ASSUME CronStart
        PROVE  TypeOK'
    <2>1. [pc |-> "add", left |-> Rotation] \in Job
      BY RotationTypes DEF Job
    <2> QED
      BY <1>5, <2>1 DEF CronStart, TypeOK
  <1>6. ASSUME CronAdd
        PROVE  TypeOK'
    <2>0. cron.pc # "idle"
      BY <1>6 DEF CronAdd
    <2>1. cron' \in Job
      BY <1>6, <2>0, AfterAddTyped DEF CronAdd, TypeOK, Job
    <2>2. isKeyBeingCreated' \in BOOLEAN
      BY <1>6, Zenon DEF CronAdd, TypeOK
    <2> QED
      BY <1>6, <2>1, <2>2 DEF CronAdd, TypeOK
  <1>7. ASSUME CronSaved
        PROVE  TypeOK'
    <2>0. cron.pc # "idle"
      BY <1>7 DEF CronSaved
    <2>1. cron' \in Job
      BY <1>7, <2>0, AfterAddTyped DEF CronSaved
    <2>2. isKeyBeingCreated' \in BOOLEAN
      BY <1>7, Zenon DEF CronSaved, FlagCleared
    <2>3. Head(cron.left) \in KeyType
      BY <2>0, TypesLeft DEF TypeOK, Job
    <2>4. born' \in [KeyId -> Row \cup {Null}] /\ stored' \subseteq KeyId
      BY <1>7, <2>3, InsertTyped DEF CronSaved, TypeOK
    <2> QED
      BY <1>7, <2>1, <2>2, <2>4 DEF CronSaved, TypeOK
  <1>8. ASSUME CronRemove
        PROVE  TypeOK'
    <2>1. cron' \in Job
      <3>1. cron.left \in Seq(KeyType) /\ cron.left # <<>>
        BY <1>8 DEF CronRemove, TypeOK, Job
      <3>2. Tail(cron.left) \in Seq(KeyType)
        BY <3>1, TypesLeft
      <3>3. [cron EXCEPT !.left = Tail(cron.left)] \in Job
        BY <3>2 DEF TypeOK, Job
      <3>4. CronIdle \in Job
        BY DEF Job, CronIdle
      <3> QED
        BY <1>8, <3>3, <3>4 DEF CronRemove
    <2> QED
      BY <1>8, <2>1 DEF CronRemove, TypeOK
  <1>9. ASSUME Tick
        PROVE  TypeOK'
    BY <1>9, InstantsAreTimes DEF Tick, TypeOK
  <1>10. ASSUME Crash
         PROVE  TypeOK'
    <2>1. Idle \in Locals /\ CronIdle \in Job
      BY DEF Idle, Locals, CronIdle, Job
    <2>2. cronAt' \in Int
      <3>1. cronAt' = cronAt \/ cronAt' = now
        BY <1>10, Zenon DEF Crash
      <3> QED
        BY <3>1 DEF TypeOK
    <2>3. local' \in [Caller -> Locals] /\ isKeyBeingCreated' \in BOOLEAN
      BY <1>10, <2>1 DEF Crash
    <2>4. UNCHANGED <<born, stored, now, calendar, lastUse>> /\ cron' \in Job
      BY <1>10, <2>1 DEF Crash
    <2> QED
      BY <2>2, <2>3, <2>4 DEF TypeOK
  <1>11. ASSUME UNCHANGED vars
         PROVE  TypeOK'
    BY <1>11 DEF vars, TypeOK, Instants
  <1> QED
    BY <1>1, <1>2, <1>3, <1>4, <1>5, <1>6, <1>7, <1>8, <1>9, <1>10, <1>11
       DEF Next, Step, CronStep

\* The job has a type left after every step that leaves it at work.
LEMMA LeftStep ==
    IInv /\ [Next]_vars => (cron.pc # "idle" => cron.left # <<>>)'
  <1> SUFFICES ASSUME IInv, [Next]_vars
               PROVE  cron'.pc # "idle" => cron'.left # <<>>
    OBVIOUS
  <1> USE DEF IInv
  <1>1. CASE UNCHANGED cron
    BY <1>1
  <1>2. CASE CronStart
    BY <1>2, RotationTypes DEF CronStart
  <1>3. CASE CronAdd
    BY <1>3, AfterAddTyped DEF CronAdd, TypeOK, Job
  <1>4. CASE CronSaved
    BY <1>4, AfterAddTyped DEF CronSaved
  <1>5. CASE CronRemove
    <2>1. cron.left \in Seq(KeyType) /\ cron.left # <<>>
      BY <1>5 DEF CronRemove, TypeOK, Job
    <2>2. Len(cron.left) # 1 => Tail(cron.left) # <<>>
      BY <2>1, TypesLeft
    <2> QED
      BY <1>5, <2>2 DEF CronRemove, CronIdle, TypeOK, Job
  <1>6. CASE Crash
    BY <1>6 DEF Crash, CronIdle
  <1> QED
    BY <1>1, <1>2, <1>3, <1>4, <1>5, <1>6
       DEF Next, Step, CronStep, Ask, Sign, Create, SaveSucceeds, SaveFails, Tick, vars

\* A call that saves a key was asked for one of a key type.
LEMMA AskedStep ==
    IInv /\ [Next]_vars
        => (\A c \in Caller : local[c].pc \in {"asked", "saving"}
                              => local[c].type \in KeyType)'
  <1> SUFFICES ASSUME IInv, [Next]_vars, NEW c \in Caller,
                      local'[c].pc \in {"asked", "saving"}
               PROVE  local'[c].type \in KeyType
    OBVIOUS
  <1> USE DEF IInv
  <1>1. CASE UNCHANGED local
    BY <1>1
  <1>2. ASSUME NEW d \in Caller, NEW t \in KeyType, Ask(d, t)
        PROVE  local'[c].type \in KeyType
    BY <1>2 DEF Ask, TypeOK
  <1>3. ASSUME NEW d \in Caller, Step(d)
        PROVE  local'[c].type \in KeyType
    <2>1. CASE Sign(d)
      BY <1>3, <2>1 DEF Sign, TypeOK, Idle
    <2>2. CASE Create(d)
      BY <1>3, <2>2 DEF Create, TypeOK, Locals
    <2>3. CASE SaveSucceeds(d) \/ SaveFails(d)
      <3>1. \/ local' = [local EXCEPT ![d] = Idle]
            \/ local' = [local EXCEPT ![d].pc = "threw"]
        BY <2>3, Zenon DEF SaveSucceeds, SaveFails
      <3>2. d # c
        BY <3>1 DEF TypeOK, Locals, Idle
      <3>3. local'[c] = local[c]
        BY <3>1, <3>2 DEF TypeOK
      <3> QED
        BY <3>3
    <2> QED
      BY <1>3, <2>1, <2>2, <2>3 DEF Step
  <1>4. CASE Crash
    BY <1>4 DEF Crash, Idle
  <1> QED
    BY <1>1, <1>2, <1>3, <1>4
       DEF Next, CronStep, CronStart, CronAdd, CronSaved, CronRemove, Tick, vars

-----------------------------------------------------------------------------
(* The flag *)

\* FlagMeansCreating, said of calls and the job apart: while the flag is down
\* nobody creates a key, and while it is up exactly one does.
LEMMA FlagParts ==
    ASSUME IInv
    PROVE  /\ ~isKeyBeingCreated => /\ \A c \in Caller : local[c].pc # "saving"
                                    /\ cron.pc # "saving"
           /\ \A c \in Caller : local[c].pc = "saving" =>
                /\ cron.pc # "saving"
                /\ \A d \in Caller : local[d].pc = "saving" => d = c
  BY KeyAssumption DEF IInv, FlagMeansCreating, Creating

LEMMA FlagStep == IInv /\ [Next]_vars => FlagMeansCreating'
  <1> SUFFICES ASSUME IInv, [Next]_vars
               PROVE  FlagMeansCreating'
    OBVIOUS
  <1> USE DEF IInv
  <1>1. ASSUME UNCHANGED isKeyBeingCreated, Creating' = Creating
        PROVE  FlagMeansCreating'
    BY <1>1 DEF FlagMeansCreating
  <1>2. ASSUME isKeyBeingCreated', NEW x, Creating' = {x}
        PROVE  FlagMeansCreating'
    BY <1>2 DEF FlagMeansCreating
  <1>3. ASSUME ~isKeyBeingCreated', Creating' = {}
        PROVE  FlagMeansCreating'
    BY <1>3 DEF FlagMeansCreating
  <1>4. ASSUME NEW c \in Caller, NEW t \in KeyType, Ask(c, t)
        PROVE  FlagMeansCreating'
    <2>1. local[c].pc # "saving" /\ local'[c].pc # "saving"
      BY <1>4 DEF Ask, TypeOK
    <2>2. \A d \in Caller \ {c} : local'[d] = local[d]
      BY <1>4 DEF Ask, TypeOK
    <2>3. Creating' = Creating
      BY <1>4, <2>1, <2>2 DEF Ask, Creating
    <2> QED
      BY <1>1, <1>4, <2>3 DEF Ask
  <1>5. ASSUME NEW c \in Caller, Sign(c)
        PROVE  FlagMeansCreating'
    <2>1. local[c].pc # "saving" /\ local'[c].pc # "saving"
      BY <1>5 DEF Sign, Idle, TypeOK
    <2>2. \A d \in Caller \ {c} : local'[d] = local[d]
      BY <1>5 DEF Sign, TypeOK
    <2>3. Creating' = Creating
      BY <1>5, <2>1, <2>2 DEF Sign, Creating
    <2> QED
      BY <1>1, <1>5, <2>3 DEF Sign
  <1>6. ASSUME NEW c \in Caller, Create(c)
        PROVE  FlagMeansCreating'
    <2>0. \A d \in Caller \ {c} : local'[d] = local[d]
      BY <1>6 DEF Create, TypeOK
    <2>1. CASE isKeyBeingCreated
      <3>1. local[c].pc # "saving" /\ local'[c].pc # "saving"
        BY <1>6, <2>1 DEF Create, TypeOK, Locals
      <3>2. Creating' = Creating
        BY <1>6, <2>0, <3>1 DEF Create, Creating
      <3> QED
        BY <1>1, <1>6, <2>1, <3>2 DEF Create
    <2>2. CASE ~isKeyBeingCreated
      <3>1. local'[c].pc = "saving"
        BY <1>6, <2>2 DEF Create, TypeOK, Locals
      <3>2. Creating' = {c}
        BY <1>6, <2>0, <2>2, <3>1, FlagParts DEF Create, Creating
      <3> QED
        BY <1>2, <1>6, <2>2, <3>2 DEF Create
    <2> QED
      BY <2>1, <2>2
  <1>7. ASSUME NEW c \in Caller, SaveSucceeds(c) \/ SaveFails(c)
        PROVE  FlagMeansCreating'
    <2>0. \/ local' = [local EXCEPT ![c] = Idle]
          \/ local' = [local EXCEPT ![c].pc = "threw"]
      BY <1>7, Zenon DEF SaveSucceeds, SaveFails
    <2>1. local[c].pc = "saving" /\ local'[c].pc # "saving"
      <3>1. local[c].pc = "saving"
        BY <1>7, Zenon DEF SaveSucceeds, SaveFails
      <3> QED
        BY <2>0, <3>1 DEF Idle, TypeOK, Locals
    <2>2. \A d \in Caller \ {c} : local'[d] = local[d]
      BY <2>0 DEF TypeOK
    <2>3. Creating' = {}
      BY <1>7, <2>1, <2>2, FlagParts DEF SaveSucceeds, SaveFails, Creating
    <2> QED
      BY <1>3, <1>7, <2>3 DEF SaveSucceeds, SaveFails, FlagCleared
  <1>8. ASSUME CronAdd
        PROVE  FlagMeansCreating'
    <2>1. CASE isKeyBeingCreated
      <3>1. cron.pc # "saving" /\ cron'.pc # "saving"
        BY <1>8, <2>1, AfterAddTyped DEF CronAdd
      <3>2. Creating' = Creating
        BY <1>8, <3>1 DEF CronAdd, Creating
      <3> QED
        BY <1>1, <1>8, <2>1, <3>2 DEF CronAdd
    <2>2. CASE ~isKeyBeingCreated
      <3>1. cron'.pc = "saving"
        BY <1>8, <2>2 DEF CronAdd, TypeOK, Job
      <3>2. Creating' = {"cron"}
        BY <1>8, <2>2, <3>1, FlagParts DEF CronAdd, Creating
      <3> QED
        BY <1>2, <1>8, <2>2, <3>2 DEF CronAdd
    <2> QED
      BY <2>1, <2>2
  <1>9. ASSUME CronSaved
        PROVE  FlagMeansCreating'
    <2>1. cron.pc = "saving" /\ cron'.pc # "saving"
      BY <1>9, AfterAddTyped DEF CronSaved
    <2>2. Creating' = {}
      BY <1>9, <2>1, FlagParts DEF CronSaved, Creating
    <2> QED
      BY <1>3, <1>9, <2>2 DEF CronSaved, FlagCleared
  <1>10. ASSUME CronStart \/ CronRemove
         PROVE  FlagMeansCreating'
    <2>1. cron.pc # "saving" /\ cron'.pc # "saving"
      BY <1>10 DEF CronStart, CronRemove, CronIdle, TypeOK, Job
    <2>2. Creating' = Creating
      BY <1>10, <2>1 DEF CronStart, CronRemove, Creating
    <2> QED
      BY <1>1, <1>10, <2>2 DEF CronStart, CronRemove
  <1>11. ASSUME Crash
         PROVE  FlagMeansCreating'
    <2>1. Creating' = {}
      BY <1>11 DEF Crash, Creating, Idle, CronIdle
    <2> QED
      BY <1>3, <1>11, <2>1 DEF Crash
  <1>12. ASSUME Tick \/ UNCHANGED vars
         PROVE  FlagMeansCreating'
    BY <1>1, <1>12 DEF Tick, vars, Creating
  <1> QED
    BY <1>4, <1>5, <1>6, <1>7, <1>8, <1>9, <1>10, <1>11, <1>12
       DEF Next, Step, CronStep

-----------------------------------------------------------------------------
(* The invariant *)

\* What every reachable state satisfies.
THEOREM Invariance == Spec => []IInv
  <1>1. IInv /\ [Next]_vars => IInv'
    BY TypeStep, LeftStep, AskedStep, FlagStep DEF IInv
  <1> QED
    BY InitInv, <1>1, PTL DEF Spec

\* Every variable keeps its type, the locals of every call and of the job included.
THEOREM TypeCorrect == Spec => []TypeOK
  <1>1. IInv => TypeOK
    BY DEF IInv
  <1> QED
    BY Invariance, <1>1, PTL

\* The flag of addKeyPair is up exactly while one creation is under way,
\* whatever the calls, the job, failing saves and restarts do.
THEOREM FlagIsTruthful == Spec => []FlagMeansCreating
  <1>1. IInv => FlagMeansCreating
    BY DEF IInv
  <1> QED
    BY Invariance, <1>1, PTL

-----------------------------------------------------------------------------
(* The retention of keys *)

\* Key j of the type of key k was saved after it.
Later(j, k) ==
    /\ born[j] # Null /\ born[k] # Null
    /\ born[j].type = born[k].type
    /\ born[j].createdAt > born[k].createdAt

\* A key that is gone was kept for its retention, and no older key of its type
\* is left.
Removals ==
    /\ \A k \in stored : born[k] # Null
    /\ \A k \in KeyId : born[k] # Null =>
          /\ born[k].createdAt <= now
          /\ k \notin stored => born[k].createdAt + Retention[born[k].type] * Day < now
    /\ \A j, k \in KeyId : Later(j, k) /\ k \in stored => j \in stored

\* A call that was given a key asked for it before any newer key was saved, a
\* second ago at most.
Asking ==
    \A c \in Caller : local[c].pc = "asked" /\ local[c].key # Null =>
        /\ born[local[c].key] # Null
        /\ local[c].at <= now /\ now <= local[c].at + 1
        /\ \A j \in KeyId : Later(j, local[c].key) => local[c].at <= born[j].createdAt

\* So a key signs for a second at most once a newer one is there.
LastUses ==
    \A k \in KeyId :
        /\ lastUse[k] <= now
        /\ \A j \in KeyId : Later(j, k) => lastUse[k] <= born[j].createdAt + 1

Retained == Removals /\ Asking /\ LastUses

LEMMA InitRetained == Init => Retained
  BY DEF Init, Idle, Retained, Removals, Asking, LastUses, Later

\* The times that are compared are integers.
LEMMA TimesTyped ==
    ASSUME TypeOK
    PROVE  /\ now \in Nat
           /\ \A k \in KeyId : /\ lastUse[k] \in Nat
                               /\ born[k] # Null => /\ born[k].createdAt \in Nat
                                                    /\ born[k].type \in KeyType
           /\ \A c \in Caller : local[c].at \in Nat /\ local[c].key \in KeyId \cup {Null}
  BY DEF TypeOK, Row, Locals

LEMMA RetentionTyped ==
    ASSUME NEW t \in KeyType
    PROVE  Retention[t] * Day \in Nat
  BY DEF Retention, Day, Minute

-----------------------------------------------------------------------------
(* Every step keeps it *)

\* A step that leaves the keys and their uses alone, and gives no call a key.
LEMMA QuietKeeps ==
    ASSUME Retained, UNCHANGED <<born, stored, now, lastUse>>,
           \A c \in Caller : local'[c].pc = "asked" => local'[c] = local[c]
    PROVE  Retained'
  <1>1. Removals'
    BY DEF Retained, Removals, Later
  <1>2. LastUses'
    BY DEF Retained, LastUses, Later
  <1>3. Asking'
    BY DEF Retained, Asking, Later
  <1> QED
    BY <1>1, <1>2, <1>3 DEF Retained

\* The newest key has no newer one, not even among those that are gone.
LEMMA AskKeeps ==
    ASSUME TypeOK, Retained, NEW c \in Caller, NEW t \in KeyType, Ask(c, t)
    PROVE  Retained'
  <1>1. PICK k \in Newest(t) :
          local' = [local EXCEPT ![c] = [pc |-> "asked", type |-> t, key |-> k,
                                         at |-> now]]
    BY DEF Ask
  <1>2. UNCHANGED <<born, stored, now, lastUse>>
    BY DEF Ask
  <1>3. ASSUME k # Null
        PROVE  k \in KeyId /\ born[k] # Null /\ \A j \in KeyId : ~Later(j, k)
    <2>1. /\ k \in stored /\ born[k].type = t
          /\ \A j \in stored : born[j].type = t => born[j].createdAt <= born[k].createdAt
      BY <1>1, <1>3 DEF Newest
    <2>2. k \in KeyId /\ born[k] # Null
      BY <2>1 DEF TypeOK, Retained, Removals
    <2>3. ASSUME NEW j \in KeyId, Later(j, k)
          PROVE  FALSE
      <3>1. j \in stored
        BY <2>1, <2>2, <2>3 DEF Retained, Removals
      <3> QED
        BY <2>1, <2>2, <2>3, <3>1, TimesTyped DEF Later
    <2> QED
      BY <2>2, <2>3
  <1>4. /\ local'[c].key = k /\ local'[c].at = now
        /\ \A d \in Caller \ {c} : local'[d] = local[d]
    BY <1>1 DEF TypeOK
  <1>5. Removals' /\ LastUses'
    BY <1>2 DEF Retained, Removals, LastUses, Later
  <1>6. Asking'
    BY <1>2, <1>3, <1>4, TimesTyped DEF Retained, Asking, Later
  <1> QED
    BY <1>5, <1>6 DEF Retained

LEMMA SignKeeps ==
    ASSUME TypeOK, Retained, NEW c \in Caller, Sign(c)
    PROVE  Retained'
  <1> DEFINE k == local[c].key
  <1>1. /\ k \in KeyId /\ born[k] # Null
        /\ \A j \in KeyId : Later(j, k) => now <= born[j].createdAt + 1
    BY TimesTyped DEF Sign, Retained, Asking, Later
  <1>2. /\ lastUse'[k] = now
        /\ \A j \in KeyId \ {k} : lastUse'[j] = lastUse[j]
        /\ UNCHANGED <<born, stored, now>>
    BY <1>1 DEF Sign, TypeOK
  <1>3. \A d \in Caller : local'[d].pc = "asked" => local'[d] = local[d]
    BY DEF Sign, TypeOK, Idle
  <1>4. Removals'
    BY <1>2 DEF Retained, Removals, Later
  <1>5. Asking'
    BY <1>2, <1>3 DEF Retained, Asking, Later
  <1>6. LastUses'
    BY <1>1, <1>2, TimesTyped DEF Retained, LastUses, Later
  <1> QED
    BY <1>4, <1>5, <1>6 DEF Retained

\* A new key is the newest of its type, and nobody has asked for it.
LEMMA InsertKeeps ==
    ASSUME TypeOK, Retained, NEW t \in KeyType, Insert(t), UNCHANGED now,
           \A k \in KeyId \ {NewId} : lastUse'[k] = lastUse[k],
           lastUse'[NewId] \in {now, lastUse[NewId]},
           \A c \in Caller : local'[c].pc = "asked" => local'[c] = local[c]
    PROVE  Retained'
  <1> DEFINE n == NewId
  <1>1. n \in KeyId /\ born[n] = Null
    BY DEF Insert, IdsLeft, NewId
  <1> HIDE DEF n
  <1>2. /\ born'[n] = [type |-> t, createdAt |-> now]
        /\ \A k \in KeyId \ {n} : born'[k] = born[k]
        /\ stored' = stored \cup {n}
    BY <1>1 DEF Insert, TypeOK, n
  <1>3. born'[n] # Null /\ born'[n].type = t /\ born'[n].createdAt = now
    BY <1>2, KeyAssumption, TimesTyped
  <1>4. n \notin stored
    BY <1>1 DEF Retained, Removals
  <1>5. \A j, k \in KeyId : Later(j, k)' =>
           /\ k # n /\ born[k] # Null
           /\ j # n => Later(j, k)
    BY <1>2, <1>3, TimesTyped DEF Later, Retained, Removals
  <1>6. Removals'
    <2>1. \A k \in stored' : born'[k] # Null
      BY <1>2, <1>3 DEF Retained, Removals, TypeOK
    <2>2. \A k \in KeyId : born'[k] # Null =>
             /\ born'[k].createdAt <= now
             /\ k \notin stored' =>
                   born'[k].createdAt + Retention[born'[k].type] * Day < now
      BY <1>2, <1>3, TimesTyped DEF Retained, Removals
    <2>3. \A j, k \in KeyId : Later(j, k)' /\ k \in stored' => j \in stored'
      BY <1>2, <1>5 DEF Retained, Removals
    <2> QED
      BY <2>1, <2>2, <2>3 DEF Removals
  <1>7. Asking'
    <2> SUFFICES ASSUME NEW c \in Caller, local'[c].pc = "asked", local'[c].key # Null
                 PROVE  /\ born'[local[c].key] # Null
                        /\ local[c].at <= now /\ now <= local[c].at + 1
                        /\ \A j \in KeyId : Later(j, local[c].key)' => local[c].at <= born'[j].createdAt
      BY DEF Asking, Later
    <2>1. /\ local'[c] = local[c] /\ local[c].key \in KeyId
          /\ born[local[c].key] # Null
          /\ local[c].at <= now /\ now <= local[c].at + 1
          /\ \A j \in KeyId : Later(j, local[c].key) => local[c].at <= born[j].createdAt
      BY TimesTyped DEF Retained, Asking
    <2>2. local[c].key # n
      BY <1>1, <2>1
    <2> QED
      BY <1>2, <1>3, <1>5, <2>1, <2>2
  <1>8. LastUses'
    <2> SUFFICES ASSUME NEW k \in KeyId
                 PROVE  /\ lastUse'[k] <= now
                        /\ \A j \in KeyId : Later(j, k)' => lastUse'[k] <= born'[j].createdAt + 1
      BY DEF LastUses
    <2>1. lastUse[k] \in Nat /\ now \in Nat /\ lastUse[k] <= now
      BY TimesTyped DEF Retained, LastUses
    <2>2. lastUse'[k] <= now
      BY <2>1 DEF n
    <2>3. ASSUME NEW j \in KeyId, Later(j, k)'
          PROVE  lastUse'[k] <= born'[j].createdAt + 1
      <3>1. k # n /\ lastUse'[k] = lastUse[k]
        BY <1>5, <2>3 DEF n
      <3>2. CASE j = n
        BY <1>3, <2>1, <3>1, <3>2
      <3>3. CASE j # n
        BY <1>2, <1>5, <2>3, <3>1, <3>3 DEF Retained, LastUses
      <3> QED
        BY <3>2, <3>3
    <2> QED
      BY <2>2, <2>3
  <1> QED
    BY <1>6, <1>7, <1>8 DEF Retained

\* Time passes: no call is left waiting for more than a second.
LEMMA TickKeeps ==
    ASSUME TypeOK, Retained, Tick
    PROVE  Retained'
  <1>1. /\ now' \in Nat /\ now' > now
        /\ \A c \in Caller : local[c].pc = "asked" => now' <= local[c].at + 1
    BY InstantsAreTimes DEF Tick
  <1>2. UNCHANGED <<born, stored, local, lastUse>>
    BY DEF Tick
  <1>3. Removals'
    <2>1. \A k \in KeyId : born[k] # Null => Retention[born[k].type] * Day \in Nat
      BY RetentionTyped, TimesTyped
    <2> QED
      BY <1>1, <1>2, <2>1, TimesTyped DEF Retained, Removals, Later
  <1>4. Asking'
    BY <1>1, <1>2, TimesTyped DEF Retained, Asking, Later
  <1>5. LastUses'
    BY <1>1, <1>2, TimesTyped DEF Retained, LastUses, Later
  <1> QED
    BY <1>3, <1>4, <1>5 DEF Retained

\* The job removes every key of a type that is old enough.
LEMMA RemoveKeeps ==
    ASSUME IInv, Retained, CronRemove
    PROVE  Retained'
  <1> DEFINE t == Head(cron.left)
  <1>0. TypeOK /\ t \in KeyType
    <2>1. TypeOK /\ cron.left \in Seq(KeyType) /\ cron.left # <<>>
      BY DEF IInv, CronRemove, TypeOK, Job
    <2> QED
      BY <2>1, TypesLeft
  <1> DEFINE keep == Retention[t] * Day
  <1>1. /\ stored' = stored \ OldKeys(t)
        /\ UNCHANGED <<born, local, now, lastUse>>
    BY DEF CronRemove
  <1> HIDE DEF t
  <1>2. keep \in Nat
    BY <1>0, RetentionTyped
  <1>3. \A k \in KeyId : k \in OldKeys(t) <=>
           k \in stored /\ born[k].type = t /\ born[k].createdAt < now - keep
    BY DEF OldKeys
  <1> HIDE DEF keep
  <1>4. Removals'
    <2>1. \A k \in KeyId : born[k] # Null /\ k \notin stored' =>
             born[k].createdAt + Retention[born[k].type] * Day < now
      <3> SUFFICES ASSUME NEW k \in KeyId, born[k] # Null, k \in OldKeys(t)
                   PROVE  born[k].createdAt + Retention[born[k].type] * Day < now
        BY <1>1 DEF Retained, Removals
      <3>1. born[k].type = t /\ born[k].createdAt < now - keep
        BY <1>3
      <3>2. born[k].createdAt + keep < now
        BY <1>0, <1>2, <3>1, TimesTyped
      <3> QED
        BY <3>1, <3>2 DEF keep
    <2>2. \A j, k \in KeyId : Later(j, k) /\ k \in stored' => j \in stored'
      BY <1>0, <1>1, <1>2, <1>3, TimesTyped DEF Retained, Removals, Later
    <2> QED
      BY <1>1, <2>1, <2>2 DEF Retained, Removals, Later
  <1>5. Asking' /\ LastUses'
    BY <1>1 DEF Retained, Asking, LastUses, Later
  <1> QED
    BY <1>4, <1>5 DEF Retained

LEMMA NextRetained == IInv /\ Retained /\ [Next]_vars => Retained'
  <1> SUFFICES ASSUME IInv, Retained, [Next]_vars
               PROVE  Retained'
    OBVIOUS
  <1>0. TypeOK
    BY DEF IInv
  <1>1. ASSUME NEW c \in Caller, Create(c)
        PROVE  Retained'
    <2>1. \A d \in Caller : local'[d].pc = "asked" => local'[d] = local[d]
      BY <1>0, <1>1 DEF Create, TypeOK, Locals
    <2> QED
      BY <1>1, <2>1, QuietKeeps DEF Create
  <1>2. ASSUME NEW c \in Caller, SaveSucceeds(c)
        PROVE  Retained'
    <2>1. local[c].type \in KeyType /\ Insert(local[c].type) /\ UNCHANGED now
      BY <1>2 DEF SaveSucceeds, IInv
    <2>2. \A d \in Caller : local'[d].pc = "asked" => local'[d] = local[d]
      BY <1>0, <1>2 DEF SaveSucceeds, TypeOK, Idle
    <2>3. /\ \A k \in KeyId \ {NewId} : lastUse'[k] = lastUse[k]
          /\ lastUse'[NewId] = now
      BY <1>0, <1>2, <2>1, InsertTyped DEF SaveSucceeds, TypeOK
    <2> QED
      BY <1>0, <2>1, <2>2, <2>3, InsertKeeps
  <1>3. ASSUME NEW c \in Caller, SaveFails(c)
        PROVE  Retained'
    <2>1. \A d \in Caller : local'[d].pc = "asked" => local'[d] = local[d]
      BY <1>0, <1>3 DEF SaveFails, TypeOK, Locals
    <2> QED
      BY <1>3, <2>1, QuietKeeps DEF SaveFails
  <1>4. CASE CronStart \/ CronAdd
    BY <1>4, QuietKeeps DEF CronStart, CronAdd
  <1>5. CASE CronSaved
    <2>1. CASE UNCHANGED <<born, stored>>
      BY <1>5, <2>1, QuietKeeps DEF CronSaved
    <2>2. CASE Insert(Head(cron.left))
      <3>1. cron.left \in Seq(KeyType) /\ cron.left # <<>>
        BY <1>5 DEF CronSaved, IInv, TypeOK, Job
      <3>2. Head(cron.left) \in KeyType
        BY <3>1, TypesLeft
      <3> QED
        BY <1>0, <1>5, <2>2, <3>2, InsertKeeps DEF CronSaved
    <2> QED
      BY <1>5, <2>1, <2>2, Zenon DEF CronSaved
  <1>6. CASE Crash
    <2>1. \A d \in Caller : local'[d].pc # "asked"
      BY <1>6 DEF Crash, Idle
    <2>2. UNCHANGED <<born, stored, now, lastUse>>
      BY <1>6 DEF Crash
    <2> QED
      BY <2>1, <2>2, QuietKeeps
  <1>7. CASE UNCHANGED vars
    BY <1>7, QuietKeeps DEF vars
  <1> QED
    BY <1>0, <1>1, <1>2, <1>3, <1>4, <1>5, <1>6, <1>7,
       AskKeeps, SignKeeps, TickKeeps, RemoveKeeps DEF Next, Step, CronStep

LEMMA RetainedAlways == Spec => []Retained
  BY InitRetained, NextRetained, Invariance, PTL DEF Spec

-----------------------------------------------------------------------------
(* Results *)

\* 61 days are a month of 31 and the 30 days a refresh token lives, and the
\* second a call may hold on to a key is the one in which nothing is removed.
LEMMA RefreshKeyOutlives ==
    ASSUME TypeOK, Retained, NEW k \in KeyId, born[k] # Null,
           born[k].type = "refresh_key", k \notin stored, Succeeded(k)
    PROVE  now >= lastUse[k] + Life[born[k].type]
  <1>1. PICK j \in KeyId : Later(j, k) /\ born[j].createdAt <= born[k].createdAt + 31 * Day
    BY DEF Succeeded, Later
  <1>2. /\ now \in Nat /\ lastUse[k] \in Nat
        /\ born[j].createdAt \in Nat /\ born[k].createdAt \in Nat
    BY <1>1, TimesTyped DEF Later
  <1>3. lastUse[k] <= born[j].createdAt + 1
    BY <1>1 DEF Retained, LastUses
  <1>4. "refresh_key" \in KeyType
    BY TimesTyped
  <1>5. Retention["refresh_key"] = 61 /\ Life["refresh_key"] = 30 * Day
    BY <1>4 DEF Retention, Life
  <1>6. born[k].createdAt + 61 * Day < now
    BY <1>5 DEF Retained, Removals
  <1> QED
    BY <1>1, <1>2, <1>3, <1>5, <1>6 DEF Day, Minute

\* No refresh token is cut off from a key that was followed by another within a
\* month: whatever types the instance rotates besides, whatever saves of other
\* keys fail and whatever later jobs are missed.  A key whose own successor did
\* not come in time is outside of the statement.
THEOREM RefreshKeysOutliveTokens == Spec => []RefreshKeysOutlive
  <1>1. IInv /\ Retained => RefreshKeysOutlive
    BY RefreshKeyOutlives DEF IInv, RefreshKeysOutlive, OutliveTokens
  <1> QED
    BY <1>1, Invariance, RetainedAlways, PTL

-----------------------------------------------------------------------------
(* The newest key *)

\* The job runs on the first of a month, and until the second after at most.
OnTheFirst == cron.pc # "idle" => cronAt \in Midnights /\ now \in {cronAt, cronAt + 1}

LEMMA FirstStep ==
    ASSUME TypeOK, OnTheFirst, [Next]_vars
    PROVE  OnTheFirst'
  <1>0. now \in Nat /\ cronAt \in Int
    BY DEF TypeOK
  <1>1. CASE CronStart
    BY <1>0, <1>1 DEF CronStart, Due, OnTheFirst, Midnights
  <1>2. CASE CronStep
    BY <1>0, <1>2 DEF CronStep, CronAdd, CronSaved, CronRemove, OnTheFirst, Midnights
  <1>3. CASE Tick
    <2>1. PICK t \in Instants : /\ t > now /\ now' = t
                                /\ cron.pc = "remove" => t <= cronAt + 1
      BY <1>3 DEF Tick
    <2>2. t \in Nat
      BY <2>1, InstantsAreTimes
    <2>3. UNCHANGED <<cron, cronAt, calendar>>
      BY <1>3 DEF Tick
    <2>4. cron.pc = "idle" \/ (cron.pc = "remove" /\ now = cronAt)
      BY <1>3 DEF Tick
    <2>5. CASE cron.pc = "idle"
      BY <2>3, <2>5 DEF OnTheFirst
    <2>6. CASE cron.pc = "remove"
      <3>1. now = cronAt
        BY <2>4, <2>6
      <3>2. t = cronAt + 1
        BY <1>0, <2>1, <2>2, <2>6, <3>1
      <3> QED
        BY <2>1, <2>3, <2>6, <3>2 DEF OnTheFirst, Midnights
    <2> QED
      BY <2>4, <2>5, <2>6
  <1>4. CASE Crash
    BY <1>4 DEF Crash, CronIdle, OnTheFirst
  <1>5. CASE UNCHANGED <<cron, cronAt, now, calendar>>
    BY <1>5 DEF OnTheFirst, Midnights
  <1> QED
    BY <1>1, <1>2, <1>3, <1>4, <1>5
    DEF Next, Step, Ask, Sign, Create, SaveSucceeds, SaveFails, vars

\* Only the removals take keys out of the table, by age.
LEMMA OnlyRemovals ==
    ASSUME [Next]_vars, NEW k \in stored, k \notin stored'
    PROVE  /\ cron.pc # "idle" /\ now > cronAt
           /\ born[k].createdAt < now - Retention[born[k].type] * Day
  <1>1. CronRemove
    BY DEF Next, Step, CronStep, Ask, Sign, Create, SaveSucceeds, SaveFails,
           CronStart, CronAdd, CronSaved, Tick, Crash, Insert, vars
  <1> QED
    BY <1>1 DEF CronRemove, OldKeys

\* A refresh key the job removes has seen two firsts of a month.
LEMMA TwoFirsts ==
    ASSUME TypeOK, OnTheFirst, [Next]_vars, NEW k \in stored, k \notin stored',
           born[k] # Null, born[k].type = "refresh_key"
    PROVE  \E m, n \in Midnights : born[k].createdAt < m /\ m < n /\ n <= now
  <1>1. /\ now \in Nat /\ cronAt \in Int /\ calendar \in Calendars
        /\ born[k].createdAt \in Nat /\ "refresh_key" \in KeyType
    BY TimesTyped DEF TypeOK
  <1>2. born[k].createdAt < now - 61 * Day
    BY <1>1, OnlyRemovals DEF Retention
  <1>3. cronAt \in Midnights /\ now = cronAt + 1
    BY <1>1, OnlyRemovals DEF OnTheFirst
  <1>4. PICK d \in calendar : cronAt = d * Day
    BY <1>3 DEF Midnights
  <1>5. calendar \subseteq Nat
    BY <1>1, KeyAssumption
  <1>6. d > 31
    BY <1>1, <1>2, <1>3, <1>4, <1>5 DEF Day, Minute
  <1>7. PICK e \in calendar : e < d /\ d <= e + 31
    BY <1>1, <1>6, CalendarAssumption
  <1>8. born[k].createdAt < e * Day /\ e * Day < d * Day /\ d * Day <= now
    BY <1>1, <1>2, <1>3, <1>4, <1>5, <1>7 DEF Day, Minute
  <1>9. e * Day \in Midnights /\ d * Day \in Midnights
    BY <1>5 DEF Midnights
  <1> QED
    BY <1>8, <1>9

\* A step that leaves none of the newest keys of a type has removed each.
LEMMA NewestGone ==
    ASSUME Removals, NEW t, NEW k \in Newest(t), k # Null, Newest(t) \cap stored' = {}
    PROVE  k \in stored /\ k \notin stored' /\ born[k] # Null /\ born[k].type = t
  BY DEF Newest, Removals

\* The job takes the newest refresh key away only when two months in a row have
\* brought no other: a single failing save, held flag or restart at the wrong
\* moment never leaves the signers of refresh tokens without a key.
THEOREM RefreshKeyKept ==
    Spec => [][\A k \in Newest("refresh_key") :
                  k # Null /\ Newest("refresh_key") \cap stored' = {} =>
                     \E m, n \in Midnights :
                        born[k].createdAt < m /\ m < n /\ n <= now]_vars
  <1>1. Init => OnTheFirst
    BY DEF Init, CronIdle, OnTheFirst
  <1>2. IInv /\ OnTheFirst /\ [Next]_vars => OnTheFirst'
    BY FirstStep DEF IInv
  <1>3. IInv /\ Retained /\ OnTheFirst /\ [Next]_vars =>
           [\A k \in Newest("refresh_key") :
               k # Null /\ Newest("refresh_key") \cap stored' = {} =>
                  \E m, n \in Midnights : born[k].createdAt < m /\ m < n /\ n <= now]_vars
    BY NewestGone, TwoFirsts DEF IInv, Retained
  <1> QED
    BY Invariance, RetainedAlways, <1>1, <1>2, <1>3, PTL DEF Spec

\* The same of every type, in an instance that rotates refresh keys only.  An
\* access key is removed 31 days after it was saved, so that one failing save
\* after a month of 31 days takes the last one away.
THEOREM NewestKept ==
    ASSUME KeyType = {"refresh_key"}
    PROVE  Spec => CurrentKeyKept
  <1>1. Init => OnTheFirst
    BY DEF Init, CronIdle, OnTheFirst
  <1>2. IInv /\ OnTheFirst /\ [Next]_vars => OnTheFirst'
    BY FirstStep DEF IInv
  <1>3. IInv /\ Retained /\ OnTheFirst /\ [Next]_vars =>
           [\A t \in KeyType : \A k \in Newest(t) :
               k # Null /\ Newest(t) \cap stored' = {} =>
                  \E m, n \in Midnights : born[k].createdAt < m /\ m < n /\ n <= now]_vars
    BY NewestGone, TwoFirsts DEF IInv, Retained
  <1> QED
    BY Invariance, RetainedAlways, <1>1, <1>2, <1>3, PTL DEF Spec, CurrentKeyKept
=============================================================================
