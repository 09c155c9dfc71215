# nestjs-advanced: specifications, model checking and proofs

This directory specifies the part of nestjs-advanced that keeps state: sessions
and their tokens, the users table, the signing keys, the list of users, the mail
queue, and how long a session lives. The modules are written from the TypeScript
sources, TLC checks them on small instances, and TLAPS proves the most important
results for every value of the constants. Line numbers are those of
`src/src/modules/...` unless a path says otherwise. `PROJECT.json` maps every
definition to its lines, lists the runs, the hazards and the theorems.

An action of a module is the code of one handler **between two awaits** that
reach Redis, PostgreSQL or RabbitMQ: Node runs that code without interruption,
and anything else may run at the await. What a handler carries across an await
is a record of locals (`req[r]`, `local[c]`), so every stale read is visible.
Definitions marked `\* mutant` are faulty variants of the definition they stand
above. They are used by no specification; `PROJECT.json` names, for each checked
property, one under which TLC finds the property violated.

## 1. Inventory

| Component | State | Operations | Talks to | Hard part | Correct when |
|---|---|---|---|---|---|
| Session store (`auth/session.service.ts`, `cache/cache.service.ts`) | Redis keys `session:<sid>` (a `SessionData`) and sets `userSessions:<uid>` | store, update, get, list, remove one, remove all, validate; TTL | Redis | two keys are changed by several commands; every step may meet another handler's | a stored session is whole and its user's; the index names exactly the user's sessions; what is removed stays removed |
| Auth handlers (`auth/auth.service.ts`, `auth.controller.ts`) | locals of requests | login, register, refresh, logout, logoutAll, logoutSessions, verifyEmail, resetPassword, resend, send reset | sessions, users, keys, mail queue | load-then-SET of refresh against logout; failures half way | one pair of tokens in force per session; a handler runs as the session's owner |
| Guards and claims (`auth/strategies`, `jwt.service.ts`) | the claims of signed tokens | validate of both strategies, sign, verify | session store, users, keys | the user changes between sign and use | the guard lets through only the session's owner |
| Users (`user/user.service.ts`, `user.controller.ts`) | the `users` table | create (which replaces a user when the body has an id), register, verify, reset, soft delete, restore, delete | PostgreSQL | read, await, save of the whole entity | unique e-mail; a handler changes only its own columns |
| User listing (`findAllHandler`, `findCursorHandler`) | a client's cursor or page | next page | users table | the table changes between pages; order and boundaries | everybody who stays is given once; the walk ends |
| Signing keys (`key/key.service.ts`, `key-rotation.service.ts`) | the `keys` table, the process-wide flag `isKeyBeingCreated`, the clock | getCurrentKey, addKeyPair, removeOldKeys, monthly job | PostgreSQL, scheduler | calls and job create keys at once; ages against a calendar | the flag tells the truth; no key goes while a token needs it |
| Mail queue (`sendEmail`, producer, consumer, `mail/email.service.ts`) | two RabbitMQ queues | publish, deliver, requeue, acknowledge, expire | RabbitMQ, SMTP | lost confirmations of publishes, redelivery, 5 minutes to live | no accepted mail is lost |
| Session lifetime (`session.service.ts` 162-180, `cache.service.ts` 26-38, `helpers/date.ts`, cookies of `auth.controller.ts`) | the TTL of `session:<sid>`, the cookie's expiry, `exp` of the refresh token | sign, compute TTL, SET, set cookie, logout | Redis, browser | three expiries are set at three moments, with rounding | no key is permanent; a valid cookie finds its session |
| Token cache (`auth/token-cache.service.ts`) | Redis | none is called | | | not modelled: dead code |
| Decorators, configuration, i18n, logging, Swagger, throttler | none of their own | | | | not modelled: stateless, or a library's |

How they interact: a guarded request passes a strategy, which reads the session
store (one await) and the users table (another); the handler then works on the
session store or the users table, signs tokens with the current key of their
type, and may publish a mail. Registration, verification and reset join users,
keys, mails and sessions: verifying and resetting save the user first and then
open a session.

## 2. Modules

| Module | What it is |
|---|---|
| `TokenLedger` | abstract: what the auth module promises about token pairs |
| `Sessions` | session store, auth handlers, guards (the core); `INSTANCE TokenLedger` |
| `MCSessions` | its instances for TLC |
| `SessionsProofs` | inductive invariant, type correctness, integrity, index |
| `SessionsRefinement` | proof that `Sessions` implements `TokenLedger` |
| `SessionsHistoryProofs` | proofs of what can bring a session back, what can hide it, and whom a request acts for |
| `KeyRotation`, `MCKeyRotation`, `KeyRotationProofs` | keys, flag and monthly job on a calendar |
| `Users`, `MCUsers`, `UsersProofs` | the users table, its handlers and the mails that carry tokens |
| `UserListing`, `MCUserListing`, `UserListingProofs` | a client that walks the list |
| `MailQueue` | mails between handler and mail server |
| `AccountMails`, `MCAccountMails`, `AccountMailsProofs` | `Users` and `MailQueue` composed: links that travel in mails and expire; implements both |
| `SessionTtl`, `SessionTtlProofs` | the expiries of one session against one clock |

### Sessions

`session` and `userSessions` are the Redis keys; `claims` says what each signed
pair contains, `owner` and `loggedOut` are history, `delivered` the pairs a
client holds. `req[r]` walks through `pc`:

- login, verifyEmail, resetPassword: (`ReadUser`, `SaveUser`,) `Login`, then
  `StoreSession`, which is SET and SADD of `storeSession` (162-174) in that
  order: a fault may fall between them. `createUserData` and `signTokens` are in
  the step that opens the session, with no state of their own.
- every guarded route: `Authenticate` (the strategy up to the session's GET,
  247-252), `ResolveUser` (`findByEmailAndId`, 254-256). A user that is not found
  becomes an object without id, as the spread in the code makes it; a token
  without `sub` resolves to *some* active user, since the `undefined` conditions
  drop out of the query.
- refresh: `RefreshLoad` (210-227: GET, check, signing, the assignments) and
  `RefreshUpdate` (SET).
- logout: `Logout`, whose errors are caught and swallowed (229-242). It names
  the cookie's session, and takes it out of the index `LogoutIndex` says, which
  is nobody's.
- logoutAll, logoutSessions: `StartRemoval`, `RemoveOne` per id, `Recheck`,
  `Unlink`.
- environment: `Expire` (TTL, at any time), `SoftDelete`, `Restore`, `Fail` (a
  rejected await or the end of the process).

Abstracted: signatures and token expiry (any pair that was ever delivered may be
presented, which allows more than the code does); the ids given to
logoutSessions are ids a client can know; the order of ids in a removal; IP and
user agent; a logout without a cookie (`decode` of nothing throws: it is a
failing request). Session ids and pairs are drawn without collision. Redis losing data
is not modelled. Deleting a user for good is, for sessions, a soft delete that
is never restored; a POST /user that gives a user another status or e-mail is a
`SoftDelete` or a `Restore`, since the guards look for an active row with the
token's id and e-mail.

### KeyRotation

Time jumps between instants of interest (midnights of a calendar, plus offsets
in seconds). A call of `getCurrentKey` is `Ask` (the query, 166-169), `Create`
(the test and setting of the flag), `SaveSucceeds` or `SaveFails` (save, and the
`finally`), and `Sign`.
The job is `CronStart`, `CronAdd`, `CronSaved` for each type in order, then
`CronRemove`. `Crash` restarts the process and with it clears the flag; at a
midnight of the job it also makes the job miss its turn, since nothing makes up
for it. What removal by age promises then depends on the job having added a key.
`OutliveTokens(t)` therefore speaks of keys that another of their type followed
within a month (`Succeeded`), `KeysOutliveTokens` for every type and
`RefreshKeysOutlive` for refresh keys. A key whose next job failed or was missed
signs on and goes by its age all the same, so tokens of its last weeks may lose it;
of such a key only `CurrentKeyKept` says something.
Assumed: `isActive` is always true (nothing clears it), queries settle within a
second (`Tick` moves the clock no further while a call is at work, nor while the job
has its removals to do), clocks agree and run in UTC. `CalendarAssumption` says that
months have at most 31 days.

### Users

`row` is the table, with soft-deleted rows. A create is `CheckEmail` and
`InsertUser`; verify and reset are `ReadToVerify` or `ReadToReset` and `Save`; the
handlers that work by id are `ReadToMark` and `Mark`.

The `ValidationPipe` of `main.ts` (46-50) strips nothing, and `createHandler` makes
its entity of the whole body (105) and calls `save()`, which updates the row that has
the entity's id. So `ToCreate` draws bodies with and without an id, of a user or of
nobody, and with or without `deletedAt`; `InsertUser` inserts or updates; and
`overwritten` remembers whose row such a body has replaced. `register` builds its body
itself (529-537) and can only insert. What holds of a user whatever mails, links and
races there are therefore holds until a POST /user names that user, and the
properties say so: `PasswordAsSent` counts such a body among the senders of a
password, `BlockedStaysBlocked`, `VerifiedStaysVerified` and `VerifiedByMail` let go of
users in `overwritten`. `UniqueEmail` needs no such exception, since the database
checks updates too. That POST /user changes users at all is
`UsersOverwrite` among the further configurations.

`Saved` is what TypeORM's `save()` leaves: it writes every column the entity has,
`deletedAt` included, keeps the password when the entity has none (`select: false`),
and inserts the row again when it is gone; `Storable` are the constraints of the table.
The SELECT and UPDATE that `save()` makes are one step. `Publish` hands a mail
over, after which somebody may use its token; how it travels is `MailQueue`.
Names and roles, which no modelled handler looks at, are left out.
`PATCH /user/:id` is not modelled: the guard of `UserController` is commented out
(line 18), `request.user` is undefined, and `update` (430) throws on `userAuth.role`
before it writes.

### UserListing

One client asks for page after page with the same query. The query's kind is the
endpoint. `SelectedByCursor` keeps the missing parentheses of line 274.
`take(0)` sets no LIMIT, so limit 0 (allowed by the cursor DTO) returns
everything, and with no user to list reads the id of no row (`failed`). Two
queries make a numbered page, `ReadByPage` and `CountAll`. `Orders` leaves the
order of equal sort keys open, anew for each query. `orderBy` of the cursor DTO
is accepted by the code and never read. `withDeleted` has no caller. What a query
sorts and searches by is assumed not to change during a walk; a POST /user with a
user's id could change everything but the id, which is what the run orders by. Limits
are natural numbers, although the DTO lets fractions through. Users come and go during both kinds of walk; during a walk
by numbers at most `Moves` do, and `came` and `left` count them, because pages by
number shift with every one (`NoRepeat`, `Complete`).

### MailQueue

`Publish` has three outcomes: taken and confirmed, taken but the confirmation is
lost (the request fails, the mail travels), not taken. A consumer that rejects
has its message put back (the library's default). A message's time to live counts
from publishing and is looked at while it waits. Restarts of the broker are not
modelled.

### AccountMails

`Users` lets a token be used from the moment its mail is published. Here the two
modules run together: `HandOver` signs the token and publishes the mail
(`register`, `resendVerificationEmail`, `sendResetPassword`), `Transport` is the
broker, the consumers and the clock, and `FollowConfirmation` and `FollowReset`
are the two routes that take a token: they ask that the mail has arrived, that the
key of the token has the right type and that the token has not expired
(`Verifies`, jwt.service 193-224). The variables `confirm` and `reset` of `Users`
are substituted by the users the broker has a mail for, and `UsersSpec` says that
the composition implements `Users`. A link's life starts when its mail is handed
over: that signing and publishing fall in one tick of five minutes is an assumption. A
client library that buffers a publish while the broker is away can stretch it, and
`NoDeadConfirmation` does not cover that. Links of a user replaced by a POST /user stay
good, since a token carries the id (`sub`).

### SessionTtl

One session and one browser. `Sign` fixes `exp` (whole seconds), `ComputeTtl`
rounds the seconds left toward zero (`convertTimeStampToSeconds`), `Set` is
`RedisService.set` (a TTL of zero is falsy and makes a key without expiry, a
negative one sends nothing), `Answer` sets the cookie to expire with the token, and
the clock may move between any two. A cookie that has expired is dropped by the
browser. Time is a second and a fraction, which is what the rounding is about.
Node, Redis and the browser share the clock. `Delay` bounds the time from signing
to the end of a request; nothing in the code does, so it is the assumption of this
module, and `SessionTtlStall` shows what happens without it. Users, indexes and
access tokens are those of `Sessions`.

## 3. Runs

All passing runs finish within about two minutes. Symmetry is used where the members of a
set are interchangeable and no liveness is checked.

| Run | Question | Answer |
|---|---|---|
| `SessionsSafety` | two requests interleave all session operations, with faults: are sessions whole (`SlotIntegrity`), indexes sound (`IndexSound`), handlers the owner's (`AuthenticatedAsOwner`), is the ledger kept (`LedgerSpec`), what can bring a logged-out session back (`ReturnsOnlyByRefresh`), and what can hide a session from its index (`UnlistedOnlyByRaces`)? | all hold; only a refresh can; only a removal of the whole index that a login overtakes, or a write-back |
| `SessionsIndex` | with users who change, sessions opened by verification and reset, logoutAll and faults: can anything but the two races hide a session from its user (`UnlistedOnlyByRaces`)? And does a guard let a request through as another user only after tokens without a subject were signed for the session (`StrangerOnlyWithoutSubject`)? | no; yes |
| `SessionsLiveness` | do removals complete and requests get answers (`RemovalCompletes`, `RequestsAnswered`)? | yes, without faults |
| `SessionsRefreshRace` | does a logged-out session stay out (`LoggedOutStaysOut`)? | **no**: a refresh that loaded it before the logout writes it back (229) |
| `SessionTtl` | with two overlapping requests of a browser, lost answers and logouts: is a session ever permanent, does its key outlive its token (`EndsWithToken`), is a cookie held in vain (`CookieBacked`)? | no, no and no, up to a second and the time a request takes |
| `KeyCreation` | is the creation flag up exactly during one creation, and always given back (`FlagMeansCreating`, `FlagGivenBack`), with failing saves and restarts? Does a caller that keeps asking get a key (`KeyObtained`)? | yes; yes, unless saving fails for ever |
| `KeyRefreshRotation` | on every calendar, with failing saves, restarts and missed jobs: does a refresh key that another followed within a month outlive its tokens (`RefreshKeysOutlive`), and does the newest key stay until two firsts of a month have passed without a new one (`CurrentKeyKept`)? | yes |
| `KeyAccessRotation` | do access keys outlive their tokens (`KeysOutliveTokens`), without any fault? | **no**: after a month of 31 days the job removes the key that signed until midnight |
| `UsersTable` | with two requests, two users, faults and every handler: are e-mails unique (`UniqueEmail`), does a password change only to one that was sent for its user (`PasswordAsSent`), and does a blocked user stay blocked unless a POST /user has the user's id (`BlockedStaysBlocked`)? | yes |
| `UsersVerifyLost` | does a verified user stay verified (`VerifiedStaysVerified`)? | **no**: a reset that read the row before writes the old status back |
| `Listing` | does a walk give everybody who stays (`Complete`), nobody twice (`NoRepeat`), and end (`WalkEnds`)? | yes by cursor, without a search, over a changing table; by page number and id, up to one missed for each that leaves and one repeated for each that comes |
| `MailDelivery` | the handlers with their mails, while POST /user may replace the user: is any accepted mail lost (`NothingLost`), do confirmations leave the queue (`ConfirmationSettles`), do resets arrive (`ResetArrives`), is a confirmation sent with a dead link (`NoDeadConfirmation`), is an address verified only by a confirmation mailed to it, or by such a POST (`VerifiedByMail`), is `Users` implemented (`UsersSpec`)? | nothing lost but confirmations past their five minutes; yes; yes unless refused for ever; never; yes; yes |

Further configurations, for disagreements and limits met on the way. Each can be
run by hand with `tlc -config X.cfg M` and ends in a violation:

| Configuration (module) | Property | What the trace shows |
|---|---|---|
| `SessionsLogoutFault` (`MCSessions`) | `LoggedOutStaysOut` | DEL fails, the error is swallowed, the client is told it is out |
| `SessionsUnlinkRace` (`MCSessions`) | `IndexComplete` | a login between the second SMEMBERS and the DEL of logoutAll is in no index |
| `SessionsLogoutIndex` (`MCSessions`) | `LogoutUnindexes` | SREM of a single logout names a key of its own (231) and the id stays indexed |
| `SessionsGuardUser` (`MCSessions`) | `GuardYieldsUser` | the strategies' check for a missing user can never fire |
| `SessionsOtherUser` (`MCSessions`) | `NeverAnotherUser` | a refresh by a user that is not active signs tokens without `sub`, which later resolve to somebody else (user.service 514) |
| `SessionTtlStall` (`SessionTtl`) | `EndsWithToken` | a request that takes as long as its token lives computes a TTL of zero, and the session never ends |
| `KeyCurrent` (`MCKeyRotation`) | `CurrentKeyReturned` | two first signers of different types: one gets `undefined` and throws |
| `KeySkipped` (`MCKeyRotation`) | `RotatesEveryType` | the job finds the flag held and skips a type for a month |
| `UsersOverwrite` (`MCUsers`) | `CreateOnlyAdds` | POST /user with the id of a user in its body replaces that user (user.service 108), although it "creates a new user" (76) |
| `UsersUndelete` (`MCUsers`) | `DeletedStaysDeleted` | a reset in flight brings a deleted user back, even one deleted for good |
| `UsersUnmailed` (`MCUsers`) | `RegisteredIsMailed` | the user is saved, publishing fails, the address is taken |
| `ListingSearch` (`MCUserListing`) | `NoRepeat` | with a search, e-mail matches come again on every page |
| `ListingTies` (`MCUserListing`) | `Complete` | ordered by a column with equal values, users are missed |
| `MailExpired` (`MailQueue`) | `ConfirmationArrives` | a confirmation waits five minutes and is dropped |

### Bounds

- Sessions: two requests, since every race found or excluded is between two
  steps of one request and one step of another; two users and two session ids, so
  that "another user's" exists; three pairs, so that one session can be refreshed
  twice or two sessions once. `PairsLeft` and `SidsLeft` keep the bounds from
  stopping a request in flight. The proofs remove these bounds for the properties
  they cover.
- Keys: two callers and the job; five or six key ids, enough for the initial key
  of each type and one per midnight; when ids run out only a failing save is
  left. `ThreeMonths` lists every sequence of lengths three months in a row can have,
  leap years included: retention is two months, so the fourth midnight adds nothing;
  `Offsets` looks one second before, at and after each midnight.
- Users: two requests, two ids, e-mails and passwords. `SomeBodies` leaves out the bodies
  of POST /user that make a user inactive or deleted, which `register` and the soft
  deletion do as well; the proofs cover every body.
- Listing: four ids and page sizes 0 to 3, so pages are full, partly full,
  exactly full at the end, and empty; three arrivals or departures during a
  numbered walk.
- Mails: two mails, so that a confirmation and a reset, or two of a kind, are on
  their way at once; one request and one user, since two requests on one user are in
  `UsersTable` and more of either puts the liveness properties out of reach. There
  are two e-mails, so that POST /user can replace the user (its e-mail must be free), and
  `OneBody` has one of them. A tick is five minutes: a confirmation waits one, a link
  works two (it is 15 minutes in `.env.example`; two is the least that exceeds the queue's), and a mail is
  published only when time outlasts it, so that expiry does happen. Two ticks pass
  (`MaxTime`): a mail of the first one sees the end of its queue's time and of its link.
- Session lifetime: tokens of four seconds, requests of one, half seconds, three
  tokens, ten seconds: a whole token life passes after the last refresh. The proof
  covers every such choice with two seconds between request and token.

Deadlock is not checked: the bounds let every instance stop, when session ids,
keys, time or pages run out. That the programs themselves do not get stuck is
what the liveness properties say.

### Fairness

- `Sessions!FairSpec`, `KeyRotation!FairSpec`: weak fairness of each request's
  next step, that is, every await settles. Arrivals, faults and expiry get none.
  `KeyObtained` states its premises: the caller asks again (`Persists`), and its
  saves do not fail for ever.
- `UserListing!LiveSpec`: the client goes on asking.
- `MailQueue!FairSpec`: the broker delivers and drops, handlers settle, time
  passes. `ResetArrives` states its own premise, that a mail which is tried again
  and again is taken at last (`Served`).
- `AccountMails!FairAccountSpec`: that of `MailQueue`, and every await of a handler
  settles.

## 4. Proofs

Checked by TLAPS, for all sets of requests, callers, users, ids, keys, mails and
passwords, and every calendar:

| Theorem | Says | Argument |
|---|---|---|
| `SessionsProofs!TypeCorrect` | `[]TypeOK` | part of the inductive invariant |
| `SessionsProofs!SessionsWhole` | `[]SlotIntegrity` | see below |
| `SessionsProofs!IndexIsSound` | `[]IndexSound` | an index is only entered by `StoreSession`, with the record's user |
| `SessionsRefinement!ImplementsLedger` | `Spec => LedgerSpec` | each step issues, installs or retires at most one pair, or stutters |
| `SessionsHistoryProofs!ReturnsByRefresh` | `ReturnsOnlyByRefresh` | see below |
| `SessionsHistoryProofs!UnlistedByRaces` | `UnlistedOnlyByRaces` | see below |
| `SessionsHistoryProofs!StrangersNeedOrphans` | `[]StrangerOnlyWithoutSubject` | the claims of every pair name the owner, or a pair without a subject exists |
| `SessionsHistoryProofs!ActsForOwner` | for every user, `[]InStanding(u) => []ActsAs(u)` | no refresh in this user's sessions finds nobody, so their tokens keep their subject, and the subject finds the user |
| `SessionTtlProofs!TypeCorrect` | `[]TypeOK` | a negative TTL is never sent; `Prompt` is not needed |
| `SessionTtlProofs!EndsWithItsToken` | `[]EndsWithToken`, given `Prompt` | see below |
| `SessionTtlProofs!CookieIsBacked` | `[]CookieBacked`, given `Prompt` | see below |
| `KeyRotationProofs!TypeCorrect` | `[]TypeOK` | part of the inductive invariant |
| `KeyRotationProofs!FlagIsTruthful` | `[]FlagMeansCreating` | the flag is tested and set in one step; the proof adds where the job's queue of types is |
| `KeyRotationProofs!RefreshKeysOutliveTokens` | `[]RefreshKeysOutlive`, with any types rotated | see below |
| `KeyRotationProofs!RefreshKeyKept` | the newest refresh key goes only after two firsts of a month without a new one | see below |
| `KeyRotationProofs!NewestKept` | `CurrentKeyKept`, with refresh keys only | the same of every type |
| `UsersProofs!TypeCorrect` | `[]TypeOK` | part of the inductive invariant |
| `UsersProofs!EmailsUnique` | `[]UniqueEmail` | every write is checked against the other rows |
| `UsersProofs!PasswordsAsSent` | `PasswordAsSent` | an entity that was read has no password, and one without a password never overwrites one |
| `UsersProofs!BlockedForGood` | `BlockedStaysBlocked` | see below |
| `UserListingProofs!TypeCorrect` | `[]TypeOK` | a page holds users of the table, so the cursor is one of them |
| `UserListingProofs!CursorWalks` | nobody twice and nobody missed, for cursors without a search | see below |
| `UserListingProofs!FewRepeated` | `[]NoRepeat`, given `Orderly` | see below |
| `UserListingProofs!FewMissed` | `[]Complete`, given `Orderly` | see below |
| `AccountMailsProofs!NoMailLost` | `[]NothingLost` | a mail leaves the broker only by being sent, or by expiring |
| `AccountMailsProofs!MailsAreQueued` | `AccountSpec => Spec` | every handler's step is one of the queue's, or leaves it alone |
| `AccountMailsProofs!AccountTypeCorrect` | `[]AccountTypeOK` | a new row's id is held by nobody; part of the inductive invariant |
| `AccountMailsProofs!NoDeadLink` | `NoDeadConfirmation` | see below |
| `AccountMailsProofs!ActiveByMail` | `VerifiedByMail` | see below |
| `AccountMailsProofs!HandlersAsInUsers` | `AccountSpec => UsersSpec`, given `Faults` | see below |

*Sessions.* `SlotIntegrity` is not inductive: a SET writes what a request loaded
earlier. `IInv` therefore says of the records **in flight** what `SlotIntegrity`
says of the stored ones (`InFlightWhole`), and that the pair of a record in
flight is in force nowhere and held by no other request (`InFlightNew`). The
latter is what makes `Install` of the ledger the right image of a SET: the pair
was pending, and no other current pair of the session survives. `Minted` and
`LocalsFit` tie tokens and locals to signed claims.

*Sessions, before and after.* Three more invariants say what the past of a session
has to do with the handlers at work (`History`). `NewUntouched`: the id of a session
that a login is about to store is in no index, no token, no locals of a removal, and
was never logged out; so a SET that brings a session back is a refresh's, and an SADD
that is still to come is that of a session nobody has seen. `Presented`: a guarded
request works on a session its client holds a token of. `SubjectsOwn`: the claims of
a pair name the owner of their session, unless some pair of that session was signed
without a subject. `AuthenticatedAsOwner` is true of `SessionsSafety` because all its
users are active and is only model-checked; with a user who is not, a refresh signs a
token without a subject and it fails (`SessionsOtherUser`). `ActsForOwner` says what is
left for one user among others: as long as this user is active whenever a session of
theirs exists (`InStanding`), the claims of all pairs of these sessions name the user
(`NamedBy`), so every lookup finds nobody else and the next refresh names the user
again, whatever the others' sessions have come to. `StrangersNeedOrphans` needs no
hypothesis at all.

*Session lifetime.* Nothing in the code bounds the time between signing a token
and the SET, so `Prompt` (`Delay + 2 <= Life`: a request ends two seconds before
the token it signed) is an assumption of `EndsWithItsToken` and
`CookieIsBacked`; without it they fail, as `SessionTtlStall` shows. Under it no TTL is zero or negative, and the invariant
relates the key's end, the record's token and the cookie: however requests
overlap, each is at most a request apart from the next.

*Keys.* The job removes by age, so what it leaves of a type is downward closed in
age (`Removals`: what is gone is older than its retention, and nothing older is
left). A call may sign with a key it read before a newer one was saved, but for a
second at most (`Asking`, `LastUses`). A refresh token of 30 days signed by a key
whose successor came within 31 days therefore ends before the key's 61 days do.
For access keys the same sum is short of a day, which is the run
`KeyAccessRotation`. That no missed month takes the newest key away is counted on the
calendar: the job removes on the first of a month (`OnTheFirst`), a refresh key it
removes was saved more than 61 days before, and with months of 31 days at most another
first lies between (`TwoFirsts`); had a key been saved there, this one would not be the
newest. An access key goes after 31 days, so a single failed save may do it.

*Users.* `UniqueEmail` is inductive with `TypeOK` since every write goes through
`Storable`. `Carried` says what the entities in flight are: one that was sent has a
password, and the id of a user only in POST /user; one that was read has a password only
in `resetPassword`. `IdsDrawn` says that rows, and requests past the insert, have an id
that was drawn. `BlockedStaysBlocked` needs to know that
nothing can write another status: `BlockedApart` says of a user no POST /user has
replaced that wherever the user is blocked, in the table or in an entity in flight,
everything known of this user says blocked, and that no confirmation for them exists or
is on its way. For a user in `overwritten` none of this is so: an entity read before the
POST puts the old status back after it.

*Listing.* A cursor page is the first users after the cursor, in an order that is
total since ids are unique. So `CursorInv` says that what the client has lies up to
the cursor, and that whoever stayed was given or lies past it; a full page moves the
cursor to its last, and a page that is not full is the rest of the table. The
assumption, no search, is needed: `SelectedByCursor` lets a search escape the cursor
(`ListingSearch`). A page by number is the rows whose position in the table lies in an
interval, and ordered by id the position of a user is one more than the number of
users before it (`PositionIsRank`). An arrival moves a rank up by one or not at all, a
departure down, and no two users have the same rank; so across the border between the
pages given and those to come one user at most moves per arrival or departure.
`NumberInv` counts them: `Again` are the users who were given and lie ahead, `Missed`
those who stayed, were not given and lie behind. `Orderly` names both kinds of walk.
It asks for the order of ids, since with equal sort keys two queries may order the
same rows differently (`ListingTies`).

*Handlers and mails.* `LinksHeld` says that a mail the broker took carries a link
whose life began when the mail's did, so `Ttl < Life` gives `NoDeadLink`;
`Addressed` that a request about to hand over a mail has a user. A save writes the
status it read, so `ActiveByMail` needs that what was read is still true: as long as no confirmation
for a user has arrived and no POST /user has replaced the user (`Free` is the opposite),
the row and all entities in flight for that user have one status (`OneStatus`), and a
row's id is one that was drawn, so that no entity waits for a user to come (`Held`). For the refinement the
users the broker has a mail for stand for `confirm` and `reset` of `Users`. A link
that is refused is a request of `Users` that never comes, and a publish whose
confirmation is lost is a fault, whence the assumption `Faults`.

The other assumptions are those of the modules' ASSUMEs: `Null` is none of the
values it is compared with, user ids are no session ids, bounds are natural
numbers, a link outlives its queue. Where a record's component is a record,
the modules nest the EXCEPTs, which is the form the provers follow.

Every safety and action property of a passing run except `AuthenticatedAsOwner` is stated
by one of these theorems, under hypotheses that the run's instance satisfies. Only
model-checked besides it is liveness, which is beyond the prover: `RemovalCompletes`, `RequestsAnswered`, `FlagGivenBack`,
`KeyObtained`, `ConfirmationSettles`, `ResetArrives`, `WalkEnds`. `KeysOutliveTokens` and
`CurrentKeyKept` are false of access keys and of the two types that share their
retention and life.

## 5. Not modelled

- Cryptography: RSA, AES, hashing, signatures. A pair or link is a model value, and
  a token is accepted when what signed it says so.
- Key lookup by id when a token is verified (`key.service.ts` 58-97): it reads only.
  What it needs, that the key is still there, is `KeysOutliveTokens`.
- The validation of request bodies, except where a boundary changes what a handler
  does (page sizes, cursors).
- `TokenCacheService`, and the list, hash and scan operations of `RedisService`:
  nothing calls them.
- `PATCH /user/:id`: it throws on every call (see Users).
- Restarts of Redis and of the broker that lose data: the code has no handling of
  either, and the outcome is a deployment's.
- More than one user and one request in `MailDelivery`, which liveness puts out of
  TLC's reach; the safety theorems of `AccountMails` hold for any number.
- The throttler, decorators, configuration, i18n, logging, Swagger: stateless, or a
  library's.

## 6. Plan

Done: `TokenLedger`, `Sessions` with proofs, refinement and the proofs about
sessions that return, vanish or change hands; `SessionTtl` with proofs; `KeyRotation`
with failing saves, missed jobs and restarts, the proofs of the flag, of the retention
of refresh keys and of the newest key; `Users` and `UserListing` with proofs for both
kinds of walk; `MailQueue`, composed with `Users` in `AccountMails`, with the proof that
the composition implements both, and that only a mailed confirmation verifies.

Left, the most important first:

1. Key lookup by id as an action of `KeyRotation`, with the outcome of a lookup that
   races the monthly removal.
2. `UniqueEmail`, `PasswordAsSent` and `BlockedStaysBlocked` for `AccountMails`.
   They follow from `HandlersAsInUsers` and the theorems of `UsersProofs`, but the
   prover does not take a theorem through an `INSTANCE` with substitutions, so the step
   lemmas have to be stated for the composition.
3. An abstract list specification (a walk gives a superset of those who stay and a
   subset of those who were ever there), implemented by `UserListing`.
