----------------------------- MODULE KeyRotation -----------------------------
(* The signing keys (src/modules/key): getCurrentKey as the token signers     *)
(* call it, addKeyPair with its process-wide flag, and the monthly job that   *)
(* adds a key of every type and removes the old ones.                         *)
(*                                                                            *)
(* Time is in seconds and moves from one instant of interest to the next.  A  *)
(* step is the code between two awaits, as in Sessions.                       *)
EXTENDS Integers, Sequences

CONSTANTS Caller,     \* concurrent calls of signAccessToken and its siblings
          KeyId,      \* ids rows of the keys table may draw (bound)
          Rotation,   \* the key types of this instance, as handleCron orders them
          Calendars,  \* each a set of days, counted from day 0, that are the
                      \* first of a month
          Offsets,    \* instants looked at, in seconds from a midnight
          Null,
          Faults      \* may saving a key fail, or the process crash?

AllTypes == {"access_key", "refresh_key", "confirmation_user_key",
             "reset_password_key"}
KeyType == {Rotation[i] : i \in DOMAIN Rotation}

ASSUME KeyAssumption ==
    /\ Rotation \in Seq(AllTypes) /\ Rotation # <<>>
    /\ \A days \in Calendars : days \subseteq Nat
    /\ Offsets \subseteq Int
    /\ "cron" \notin Caller
    /\ Null \notin KeyId \cup AllTypes
    /\ Null \notin [type : KeyType, createdAt : Nat]
    /\ Faults \in BOOLEAN

\* Months have 31 days at most.
ASSUME CalendarAssumption ==
    \A days \in Calendars : \A d \in days :
        d > 31 => \E e \in days : e < d /\ d <= e + 31

Minute == 60
Day == 24 * 60 * Minute

\* How long a token signed with a key of each type is valid.
Life == [t \in KeyType |-> IF t = "refresh_key" THEN 30 * Day ELSE 15 * Minute]

\* The retention handleCron gives removeOldKeys, in days.
ShortRetention == [t \in KeyType |-> 31]                                \* mutant
Retention == [t \in KeyType |-> IF t = "refresh_key" THEN 61 ELSE 31]

VARIABLES born,      \* [KeyId -> row \cup {Null}], every key ever saved
          stored,    \* the keys that are in the table
          isKeyBeingCreated,
          local,     \* the locals of each call of getCurrentKey
          cron,      \* where handleCron is, and the types it has left
          cronAt,    \* when handleCron last started, or was due while the process was down
          now,
          calendar,  \* the calendar this behaviour runs on
          lastUse    \* [KeyId -> time], when a key last signed (history)

vars == <<born, stored, isKeyBeingCreated, local, cron, cronAt, now, calendar,
          lastUse>>

Row == [type : KeyType, createdAt : Nat]
Locals == [pc : {"idle", "asked", "saving", "threw"},
           type : KeyType \cup {Null},
           key : KeyId \cup {Null},
           at : Nat]
Idle == [pc |-> "idle", type |-> Null, key |-> Null, at |-> 0]

Job == [pc : {"idle", "add", "saving", "remove"}, left : Seq(KeyType)]
CronIdle == [pc |-> "idle", left |-> <<>>]

Init ==
    /\ born = [k \in KeyId |-> Null]
    /\ stored = {}
    /\ isKeyBeingCreated = FALSE
    /\ local = [c \in Caller |-> Idle]
    /\ cron = CronIdle
    /\ cronAt = -1
    /\ now = 0
    /\ calendar \in Calendars
    /\ lastUse = [k \in KeyId |-> 0]

-----------------------------------------------------------------------------
(* Helpers *)

Midnights == {d * Day : d \in calendar}
Instants == {t \in {m + o : m \in Midnights, o \in Offsets} : t >= 0}

\* The query of getCurrentKey: the newest key of the type.
Newest(t) ==
    LET rows == {k \in stored : born[k].type = t}
    IN  IF rows = {} THEN {Null}
        ELSE {k \in rows : \A j \in rows : born[j].createdAt <= born[k].createdAt}

\* keyRepository.save(key): the database draws the id and sets createdAt.
NewId == CHOOSE k \in KeyId : born[k] = Null
IdsLeft == \E k \in KeyId : born[k] = Null
Untyped(t) ==                                                            \* mutant
    /\ IdsLeft
    /\ born' = [born EXCEPT ![NewId] = [type |-> Null, createdAt |-> now]]
    /\ stored' = stored \cup {NewId}
Insert(t) ==
    /\ IdsLeft
    /\ born' = [born EXCEPT ![NewId] = [type |-> t, createdAt |-> now]]
    /\ stored' = stored \cup {NewId}

\* What removeOldKeys deletes.
AllKeys(t) == {k \in stored : born[k].type = t}                          \* mutant
OldKeys(t) ==
    {k \in stored : /\ born[k].type = t
                    /\ born[k].createdAt < now - Retention[t] * Day}

-----------------------------------------------------------------------------
(* getCurrentKey, called to sign a token *)

\* The SELECT runs.
Ask(c, t) ==
    /\ local[c].pc \in {"idle", "threw"}
    /\ \E k \in Newest(t) :
         local' = [local EXCEPT ![c] = [pc |-> "asked", type |-> t, key |-> k,
                                        at |-> now]]
    /\ UNCHANGED <<born, stored, isKeyBeingCreated, cron, cronAt, now, calendar,
                   lastUse>>

\* Its result is there: a key signs the token at once.
Sign(c) ==
    /\ local[c].pc = "asked"
    /\ local[c].key # Null
    /\ lastUse' = [lastUse EXCEPT ![local[c].key] = now]
    /\ local' = [local EXCEPT ![c] = Idle]
    /\ UNCHANGED <<born, stored, isKeyBeingCreated, cron, cronAt, now, calendar>>

\* Without a key, addKeyPair is called.  While any key of any type is being
\* created it returns undefined, and getCurrentKey throws.
Create(c) ==
    /\ local[c].pc = "asked"
    /\ local[c].key = Null
    /\ IF isKeyBeingCreated
       THEN /\ local' = [local EXCEPT ![c].pc = "threw"]
            /\ UNCHANGED isKeyBeingCreated
       ELSE /\ local' = [local EXCEPT ![c].pc = "saving"]
            /\ isKeyBeingCreated' = TRUE
    /\ UNCHANGED <<born, stored, cron, cronAt, now, calendar, lastUse>>

\* Mutant: the flag is cleared in the try block, and not when save() fails.
FlagLeaks(failed) == isKeyBeingCreated' = failed
\* The finally block.
FlagCleared(failed) == isKeyBeingCreated' = FALSE

\* The save is done, and the new key signs.
SaveSucceeds(c) ==
    /\ local[c].pc = "saving"
    /\ Insert(local[c].type)
    /\ lastUse' = [lastUse EXCEPT ![NewId] = now]
    /\ local' = [local EXCEPT ![c] = Idle]
    /\ FlagCleared(FALSE)
    /\ UNCHANGED <<cron, cronAt, now, calendar>>

\* It fails.  addKeyPair swallows the error and returns undefined.
SaveFails(c) ==
    /\ Faults
    /\ local[c].pc = "saving"
    /\ local' = [local EXCEPT ![c].pc = "threw"]
    /\ FlagCleared(TRUE)
    /\ UNCHANGED <<born, stored, lastUse, cron, cronAt, now, calendar>>

-----------------------------------------------------------------------------
(* handleCron *)

Due == now \in Midnights /\ cronAt # now

CronStart ==
    /\ cron.pc = "idle"
    /\ Due
    /\ cron' = [pc |-> "add", left |-> Rotation]
    /\ cronAt' = now
    /\ UNCHANGED <<born, stored, isKeyBeingCreated, local, now, calendar, lastUse>>

\* The next type, or on to the removals.
AfterAdd == IF Len(cron.left) = 1 THEN [pc |-> "remove", left |-> Rotation]
            ELSE [pc |-> "add", left |-> Tail(cron.left)]

\* addKeyPair.  When the flag is set the type keeps its old key.
CronAdd ==
    /\ cron.pc = "add"
    /\ IF isKeyBeingCreated
       THEN /\ cron' = AfterAdd
            /\ UNCHANGED isKeyBeingCreated
       ELSE /\ cron' = [cron EXCEPT !.pc = "saving"]
            /\ isKeyBeingCreated' = TRUE
    /\ UNCHANGED <<born, stored, local, cronAt, now, calendar, lastUse>>

CronSaved ==
    /\ cron.pc = "saving"
    /\ \/ /\ Insert(Head(cron.left))
          /\ FlagCleared(FALSE)
       \/ Faults /\ UNCHANGED <<born, stored>> /\ FlagCleared(TRUE)
    /\ cron' = AfterAdd
    /\ UNCHANGED <<local, cronAt, now, calendar, lastUse>>

\* removeOldKeys, in the second after the job has started.
CronRemove ==
    /\ cron.pc = "remove"
    /\ now > cronAt
    /\ stored' = stored \ OldKeys(Head(cron.left))
    /\ cron' = IF Len(cron.left) = 1 THEN CronIdle
               ELSE [cron EXCEPT !.left = Tail(cron.left)]
    /\ UNCHANGED <<born, isKeyBeingCreated, local, cronAt, now, calendar, lastUse>>

-----------------------------------------------------------------------------
(* The environment *)

\* Time goes on to the next instant.  The job starts on time, adds its keys
\* within that second and removes old ones in the next; a call of getCurrentKey
\* takes a second at most.
Tick ==
    /\ ~Due
    /\ \/ cron.pc = "idle"
       \/ cron.pc = "remove" /\ now = cronAt
    /\ \E t \in Instants :
         /\ t > now
         /\ \A i \in Instants : i > now => t <= i
         /\ \A c \in Caller : local[c].pc \in {"asked", "saving"}
                                 => t <= local[c].at + 1
         /\ cron.pc = "remove" => t <= cronAt + 1
         /\ now' = t
    /\ UNCHANGED <<born, stored, isKeyBeingCreated, local, cron, cronAt,
                   calendar, lastUse>>

\* The process dies and is started again ("restart: always").  A job whose
\* time passes meanwhile is not made up for.
Crash ==
    /\ Faults
    /\ isKeyBeingCreated' = FALSE
    /\ local' = [c \in Caller |-> Idle]
    /\ cron' = CronIdle
    /\ \/ UNCHANGED cronAt
       \/ Due /\ cronAt' = now
    /\ UNCHANGED <<born, stored, now, calendar, lastUse>>

Step(c) == Sign(c) \/ Create(c) \/ SaveSucceeds(c) \/ SaveFails(c)
CronStep == CronAdd \/ CronSaved \/ CronRemove

Next == \/ \E c \in Caller : (\E t \in KeyType : Ask(c, t)) \/ Step(c)
        \/ CronStart \/ CronStep
        \/ Tick \/ Crash

Spec == Init /\ [][Next]_vars

\* Every await of a call and of the job settles.
FairSpec == /\ Spec
            /\ \A c \in Caller : WF_vars(Step(c))
            /\ WF_vars(CronStep)

-----------------------------------------------------------------------------
(* Properties *)

TypeOK ==
    /\ born \in [KeyId -> Row \cup {Null}]
    /\ stored \subseteq KeyId
    /\ isKeyBeingCreated \in BOOLEAN
    /\ local \in [Caller -> Locals]
    /\ cron \in Job
    /\ cronAt \in Int
    /\ now \in Nat
    /\ calendar \in Calendars
    /\ lastUse \in [KeyId -> Nat]

\* Who is between setting the flag and the finally block.
Creating == {c \in Caller : local[c].pc = "saving"}
              \cup (IF cron.pc = "saving" THEN {"cron"} ELSE {})

\* The flag says exactly whether a creation is under way, and at most one is:
\* calls and the job never create keys at the same time, and no failure or
\* restart leaves the flag set, which would end all creation of keys.
FlagMeansCreating ==
    /\ isKeyBeingCreated <=> Creating # {}
    /\ \A x, y \in Creating : x = y

\* Another key of the type was saved within a month of key k.
Succeeded(k) ==
    \E j \in KeyId : /\ born[j] # Null
                     /\ born[j].type = born[k].type
                     /\ born[j].createdAt > born[k].createdAt
                     /\ born[j].createdAt <= born[k].createdAt + 31 * Day

\* A key of type t that was followed by another within a month is removed only
\* when the last token it signed has expired, so no valid token loses the key
\* that verifies it.  Of a key whose next job failed or was missed it says
\* nothing: that key signs on, and the removals go by its age.
OutliveTokens(t) ==
    \A k \in KeyId :
        born[k] # Null /\ born[k].type = t /\ k \notin stored /\ Succeeded(k)
            => now >= lastUse[k] + Life[t]

\* The job removes "old keys" of every type in this sense.
KeysOutliveTokens == \A t \in KeyType : OutliveTokens(t)

\* The 61 days of removeOldKeys keep a refresh key in the table for the tokens
\* it signed, provided the next key came within a month.
RefreshKeysOutlive == OutliveTokens("refresh_key")

\* The removals take the newest key of a type away only when two jobs in a row
\* have added none: one failed or missed job never stops the signing.  It holds
\* of refresh keys; an access key is removed 31 days after it was saved, so one
\* save that fails after a month of 31 days takes the last one away.
CurrentKeyKept ==
    [][\A t \in KeyType : \A k \in Newest(t) :
          k # Null /\ Newest(t) \cap stored' = {} =>
             \E m, n \in Midnights : born[k].createdAt < m /\ m < n /\ n <= now]_vars

\* getCurrentKey returns "the current key": it throws for no caller unless
\* saving a key failed.
CurrentKeyReturned == \A c \in Caller : local[c].pc # "threw"

\* The job "rotates the keys every month": when it gets to the removals, it
\* has made a key of every type.
RotatesEveryType ==
    cron.pc = "remove" => \A t \in KeyType :
        \E k \in KeyId : born[k] = [type |-> t, createdAt |-> cronAt]

\* A call that failed is made again, and a save that is tried again and again
\* succeeds at last.
Persists(c) == /\ WF_vars(\E t \in KeyType : Ask(c, t))
               /\ SF_vars(SaveSucceeds(c))

\* A call that threw because another type's creation held the flag, or because
\* its save failed, gets its key when it is made again: the calls and the job
\* cannot keep the flag from each other for ever.
KeyObtained ==
    (\A c \in Caller : Persists(c)) =>
        \A c \in Caller : local[c].pc = "threw" ~> local[c].pc = "idle"

\* The flag is always given back, whether the save succeeds, fails or never
\* returns because the process dies (the finally block of addKeyPair).
FlagGivenBack == isKeyBeingCreated ~> ~isKeyBeingCreated
=============================================================================
