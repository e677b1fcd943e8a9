# TLA+ models of nest-prisma-template

The repository is a NestJS service template: password and two-factor
authentication over PostgreSQL (Prisma) and Redis, with mail and SMS queues,
an HTTP cache, pagination and device tokens around it. This directory models
every part of it that carries logic of its own, checks the models with TLC on
small instances and proves what matters most about them with TLAPS.

All source paths below are relative to the repository.

## 1. The system

Every handler of `auth.controller.ts` is an `async` function that makes a
sequence of storage calls: Prisma statements on PostgreSQL, `get`/`set`/`del`
on Redis through `AuthCacheService`, jobs added to BullMQ. Between two calls
any other request may run, in the same process or in another instance. There
are no locks, and two explicit transactions only (`register.service.ts`,
`replaceBackupCodes`). A call may throw, and the process may die, between any
two of them; nothing is rolled back or retried then. Redis keys expire.

That is what makes the code hard to test, and it is the shape of every module
of the authentication core: **one action per storage call, requests as slots
that advance one call at a time, an `Abort` action that drops a request
between two calls**. The infrastructure modules have the same grain: one
action between two awaits.

| component | state | operations | how it interacts | model |
| --- | --- | --- | --- | --- |
| Refresh-token sessions (`token.service.ts`, `session.repository.ts`) | table `sessions`, Redis mirrors `session:{hash}` | issue, rotate, revoke, revokeAllForUser | called by login, register, 2FA, password change and reset | `Sessions` |
| Login, password change and reset (`login`, `password-change`, `password-reset` services) | `credentials.passwordHash`, Redis `login:fail:*` and `pwd-reset:*` | login, change, forgot, reset by link, reset by code | ends in issue or revokeAllForUser, opens 2FA challenges | `PasswordFlows` |
| One-time codes (`otp.service.ts`) | Redis `otp:{channel}:{user}:{purpose}`, `otp:throttle:*` | send, verify | called by reset, verification, 2FA | `Otp` |
| Two-factor (`two-factor`, `totp` services) | tables of methods and backup codes, Redis `2fa-challenge:*` | enrol, confirm, disable, regenerate codes, challenge, verify | opened by login, uses OTP, ends in issue | `TwoFactor` |
| Registration and contacts (`register`, `email-verify`, `change-contact` services, `PasswordChangeService.set`) | `users`, `credentials`, Redis `email-verify:*` | register, verify by link or code, resend, change e-mail, set password | OTP, mailer, issue | `Contact` |
| Redis client (`redis.adapter.ts`, `redis.service.ts`) | client, connecting promise | getClient, get, set, del, destroy | under everything above | `RedisClient` |
| HTTP cache (`cache.interceptor.ts`) | Redis `http-cache:*` | intercept | global, around every GET handler; over the Redis client | `HttpCache` |
| Mail and SMS queues (queued services, processors, `queue.module.ts`) | BullMQ jobs | send, process, retry | called by OTP, verification, reset | `MailQueue` |
| Pagination (`pagination.pipe.ts`, `pagination.util.ts`, `prisma-paginate.ts`) | none | offset and keyset pages | for listings; none of the application's endpoints uses it yet | `Pagination` |
| Phone numbers, device tokens, WebSocket adapter | | | no caller or no reader in the repository | not modelled, see section 5 |
| Guards, configuration, crypto, database access, health, observability, responses, bootstrap | none of their own | | | not modelled, see section 5 |

What makes each component correct:

- *Sessions*: a token that was rotated or logged out never works again; ending
  all sessions of a user ends all of them and nobody else's; Redis never
  vouches for a session PostgreSQL does not have.
- *Passwords*: an answered change or reset leaves no session of the old
  password; a used link is gone; a lockout ends.
- *One-time codes*: a code counts for what it was sent for, once, within its
  lifetime; a throttled destination recovers.
- *Two-factor*: a session is given for a challenge only against a code of the
  right user and a method the challenge names and that is still there; a backup
  code gives one session and does not outlive the methods.
- *Contacts*: nobody is verified by a proof made for another account; no
  account takes an address whose link was not opened; no two accounts share
  one; the password credential follows the address.
- *Redis client*: one connection per process, however many callers come at
  once and whatever fails; who waits is answered.
- *HTTP cache*: an answer the data has moved on from does not stay.
- *Queues*: what is completed was sent; everything ends; a short outage
  of a provider loses no message.
- *Pagination*: a walk shows every row that stays, once and in order.

`PROJECT.json` lists the hazards behind these, each at its line and with the
properties that watch it.

## 2. The modules

| module | extends, or is composed with | shown to implement | proofs |
| --- | --- | --- | --- |
| `TokenLifecycle` | | | |
| `Sessions` | | `TokenLifecycle` | `SessionsProofs` |
| `PasswordFlows` | `Sessions` | `Sessions` | `PasswordProofs` |
| `Otp` | | | `OtpProofs` |
| `TwoFactor` | the guarantees of `Otp` | | `TwoFactorProofs` |
| `Contact` | the guarantees of `Otp` | | `ContactProofs` |
| `RedisClient` | | | in `HttpCacheProofs` |
| `HttpCache` | `RedisClient` | `RedisClient` | `HttpCacheProofs` |
| `MailQueue` | | | `MailQueueProofs` |
| `Pagination` | | | `PaginationProofs` |

**`TokenLifecycle`** is the abstract specification of refresh tokens: a token
is granted at most once, a token that stopped being live never becomes live
again, and one storage operation ends sessions of one user only.

**`Sessions`** is `TokenService` at the level of storage calls.
`rows`/`revoked` are the table (a row, `revokedAt` set), `mirror` the Redis
keys, `pc`/`req` the requests in flight. A token is the record of its claims
`[sub, iat]` because that is all `signRefreshToken` signs: two tokens of one
user and second are the same string. `issue` is
`Sign; Create | CreateRefused; SetMirror`, `rotate` is
`FindActive; (ReuseDetected | RevokeByHash; DeleteMirror)` followed by
`issue`, `revoke` is `RevokeByHash; DeleteMirror`, `revokeAllForUser` is
`ListActive; RevokeAll; WipeOne*; WipeDone`. `Lifecycle` maps
`granted <- rows`, `live <- the active rows`, `clock <- now`.

**`PasswordFlows`** extends `Sessions`: a slot runs a password handler
(`flow`) and then the `Sessions` operation the handler ends with, so the two
interleave exactly as the code does. `hash` is the EMAIL credential,
`fails`/`lockout` the lockout counter and its TTL, `links` the reset links.
`PSpec` implements `Spec` of `Sessions`, which is both checked and proved.

**`Otp`** is `OtpService` over its two Redis keys, with ages and TTLs in
units of time: `send` is `ReadThrottle; CheckCooldown; StoreCode;
StoreThrottle; Deliver`, `verify` is `ReadOtp; (DropRecord | CountMiss |
Consume)`. The record a verification read is written back by `CountMiss`,
stale as it may be.

**`TwoFactor`** is `TwoFactorService` and `TotpService`: the rows of both
tables, the challenges, and every handler under `2fa/`, from the password
login that opens a challenge to the session that answers it.
`replaceBackupCodes` is two steps, because at PostgreSQL's default isolation
the delete sees only the rows of its own snapshot. `OtpService` appears as
what `Otp` shows about it: it accepts no code but one sent for the user,
channel and purpose (`AcceptedAsSent`), may refuse any, and may accept one
again when a failing verification wrote it back.

**`Contact`** is `RegisterService`, `EmailVerifyService`, the e-mail half of
`ChangeContactService` and `PasswordChangeService.set`. `email` and
`verified` are columns of `users`, `provider` is the `providerId` of the EMAIL
credential (absent for accounts made by OAuth), `links` the records
`email-verify:{hash}`, which verification and change of address share. The
transaction of `register` is one step, `Create`; `confirmEmailChange` is
`ReadLink; CheckOwner; Update; ReadCredential; SyncCredential; DropLink`.
The history `disturbed` names the accounts a change of address failed for
half way, or overlapped another writer on: for them the code promises nothing,
and the properties about changes say so instead of passing over it.

**`RedisClient`** is `RedisAdapter`: one ioredis client, made on first use by
whoever comes first (`connecting` is the promise the others join), dropped when
`connect` or `ping` fails, quit by `onModuleDestroy` while requests are still
served. A caller asks, may wait, and sends its command.

**`HttpCache`** extends it with the callers: a process makes its client when
it starts (`Boot`), a GET request looks its URL up, is handled, and its answer
is stored behind the response (`Lookup; Handle; Store`). The promise of that
`set` is dropped, so its rejection ends the process (`Uncaught`). The key is
the URL alone, as in the code, so one user's answer is another's.

**`MailQueue`** is the two producers, the two processors and the job options
(5 attempts, exponential backoff from 5 seconds). BullMQ is external: one job
at a time per worker, and a job whose process was lost is found stalled and
queued again once, then given up. A provider may take a message and its answer
be lost. A unit of time is 5 seconds; it passes during attempts, for which the
code sets no timeout, and while a job waits for a worker. `since` counts it
from the first error of a job.

**`Pagination`** is the query as `PaginationPipe.transform` and
`createPagination` read it, the page `prismaPaginate` makes of it, and a client
that asks for page after page while rows are inserted and deleted. Nobody in
the repository calls `prismaPaginate`, so its caller is assumed: the sort field
is not null and does not change, cursor walks pass no `args.orderBy` of their
own, offset walks pass one that is total. `asked` is the limit the client gave,
not what the pipe makes of it. `Sorted` is the one listing of the
rows in that order; that there is one is proved.

`MC*` modules add symmetry sets for TLC. Definitions introduced by a comment
`Fault:` are variants of an action with a plausible bug; they are not part of
any specification and exist to show that the properties notice them.

History variables (`delivered`, `rotated`, `ended`, `outdated`, `granted`,
`sentFor`, `proven`, `disturbed`, `accepted`, `kept`, ...) record what clients
were told. No guard reads them except to pick fresh values and to let clients
present only what they received.

Abstractions common to all modules: hashes are injective and random tokens do
not repeat, so a secret stands for its hash; requests carry the authenticated
user, the JWT guard being a stateless predicate; texts and logging are left
out.

## 3. What is checked

| run | question | bounds |
| --- | --- | --- |
| `SessionsSafety` | type, mirror, finality of logout, rotation and revoke-all, refinement of `TokenLifecycle` | 1 user, 2 requests, seconds 0..2, lifetime 2 |
| `PasswordSafety` | no session of an old password, used links, refinement of `Sessions` | 1 user, 2 requests, 2 passwords, 1 link |
| `PasswordLockout` | a lockout ends, though refused logins keep coming | 2 requests, maximum 2, TTL 2 |
| `OtpSequential` | codes count for what they were sent for, and once, requests one after the other; a throttled destination recovers | 1 request, 2 purposes, 2 channels, 2 codes, maximum 2 |
| `TwoFactorConcurrent` | challenges give sessions only as they allow, removed methods give none | 1 user, e-mail method, 2 method ids, 2 requests |
| `TwoFactorSequential` | one session of a backup code and of a challenge, only proven secrets are enabled; requests one after the other | 2 users, authenticator, 1 request, 2 of each value |
| `ContactSafety` | verified by one's own proof, no address unproven or shared, changes take effect, the credential follows | 2 accounts, one of them OAuth only, 2 addresses, one of them a relay, 2 requests, 1 link |
| `HttpCacheRun` | one connection, an open client, nobody waits for ever, no stale answer stays, refinement of `RedisClient` | 2 requests, 3 connections, 2 users, 1 URL, TTL 2, 1 write per user |
| `MailQueueRun` | completed means taken, at most so many copies, no message lost to a short outage, every job ends | 2 mails, 1 process, 4 attempts, stall 3 |
| `PaginationRun` | walks by cursor and by page | every table over 4 ids and 2 sort values, default limit 1, maximum 2, 2 changes |

Why these bounds: every race in the authentication code is between two
requests, so two slots show it, and a third adds no new pair. Times and TTLs
are long enough for a token or a code to expire while a request holds it, and
for two tokens to be signed in the same and in different seconds. Where a
property is about several values (ids, secrets, codes, addresses) there are
two of them, so that one can be replaced by the other. Sequential runs have
one slot: they state what holds when requests follow one another, with any of
them lost half-way. In `HttpCacheRun` three connections are one that failed or
quit, one in use and one too many. In `MailQueueRun` two mails compete for the
one worker of their queue. Four attempts have three backoffs of different
length, and a stalled job waits longer than the first two and shorter than
the last; the code has five attempts and finds stalled jobs every 30 s, six
units, and the theorems cover every number. In `PaginationRun`
two values over four rows make ties that lie inside a page and across two, and
tables of none to four rows end on a full page of two and on a half one.

Every unbounded thing is bounded by a constant: `MaxTime` (seconds), `Links`,
`Codes`, `Challenges`, `MethodIds`, `Secrets`, `BackupCodes` (what is ever
generated), `MaxVersion` (writes), `MaxChanges` (rows that come and go); past
it the step waits. Deadlock is checked in every run but `PaginationRun`, where
a client's walk ends.

Fairness. `PasswordLockout` assumes weak fairness of each request's next step:
Node runs every pending continuation, and every client library call resolves
or rejects; and that TTLs run out. `OtpSequential` assumes only that time
passes. `HttpCacheRun` adds that `connect`, `ping` and `quit` are answered or
fail in the end (ioredis gives up a connection after `connectTimeout`).
`MailQueueRun` assumes that time passes, that each ready job is taken unless it
stays impossible, and that an attempt returns or throws: the code sets no
timeout, nodemailer gives up a connection after two minutes and a silent
socket after ten, twilio a request after thirty seconds. Weak fairness is
enough although jobs compete for a worker, because each is taken a limited
number of times (BullMQ serves them in order). It does not assume that
providers ever accept, or that processes survive. Nothing assumes that a client retries or
stops.

That no operation ends sessions of another user needs two users to be
interesting; `SessionsSafety` has one, and the proof of `ImplementsLifecycle`
covers any number. Likewise `TwoFactorConcurrent` has one user, and
`SessionsAsChallenged` shows for any number that no code and no method of
another user helps. That nobody waits for a connection that is not being made
(`WaitersBelong`) is proved, and in `HttpCacheRun` follows from
`WaitersAnswered` as far as it matters to a caller. That a code counts only for what it was sent for when
requests overlap is the proof of `AcceptedOnlyAsSent`; `OtpSequential` checks
it for one request at a time.

### Disagreements between the code and its own words

Two have a run that expects a violation of one property:

| run | the repository says | the code does |
| --- | --- | --- |
| `SessionsRedeemedOnce` | `token.service.ts:72`: reuse is catastrophic, revoke all sessions | two concurrent refreshes with one token both find it active and both succeed |
| `ContactUnproven` | `email-verify.service.ts:48`: click to verify your email; `change-contact.service.ts:54`: click to confirm your new email | both links share a namespace and a page: a change link opened as a verification marks the present address verified, which nobody proved, and is used up |

The others were met while modelling; each can be seen in the actions named:

- `session.prisma:10`, on rotation a new refreshTokenHash: a rotation in the
  second the token was signed signs the same token (`token.service.ts:106`),
  the insert is refused and the old session is already revoked
  (`CreateRefused` of `Sessions`).
- `otp.service.ts:67`, a record within the cooldown blocks a new send: two
  concurrent sends both pass the check (`CheckCooldown` of `Otp`).
- `two-factor.prisma:40`, usedAt null means still valid: two verifications
  both find a code unused and both get a session (`BackupCodeOnce` holds for
  requests that do not overlap there).
- `two-factor.service.ts:169`, codes do not survive the last method:
  enrolling an authenticator again disables it and leaves the codes.
- `two-factor.service.ts:194`, codes are issued only if the user has none: two
  first confirmations that both count none both issue some
  (`two-factor.service.ts:199`).
- `otp.service.ts:159`: a failed guess in the last second of a code's lifetime
  writes it back for one second more, past the lifetime its message states
  (`CountMiss`).
- `otp.service.ts:124`, a code expires in so many minutes: the mail may go out
  later than that. `mailer.service.ts:48` sets no timeouts, one job of a queue
  runs at a time in a process, and the retries know no deadline: five
  connections that time out, or one server that takes the mail and says
  nothing, last as long as the ten minutes of the code (`Tick` and `Throw` of
  `MailQueue`). What the queue does promise is `OutageOutlasted`.
- `pagination.json:2` and `:3`, page at least 1 and limit between 1 and 150,
  and the `@Min(1)` of `pagination.dto.ts`: the pipe reads `parseInt(...) || 10`
  and `|| 1` (`pagination.pipe.ts:11`), so 0, and a text that is no number, is
  no error but the default (`Number` of `Pagination`). `FullPages` says what
  limits other than 0 get.
- `password-change.service.ts:15`, never pin a password credential to a relay
  address: `confirmEmailChange` moves an existing one to whatever address was
  confirmed, a relay too (`SyncCredential` of `Contact`).

Facts about the HTTP cache that no text of the repository denies, so that no
property does either, but that a reader should know: the key is the URL, so
for a TTL the answer of `GET 2fa/methods` to one user is the answer to every
user, and the health probes are answered from the cache too
(`cache.interceptor.ts:44`); a Redis error in the `set` behind an answer is an
unhandled rejection and ends the process (`cache.interceptor.ts:54`); the
teardown quits the client while requests are served, and one that comes later
opens a connection nobody closes (`redis.adapter.ts:63`). A `quit` that is
rejected there, which ends the process, is not modelled.

## 4. What is proved

For every value of the constants that satisfies the named assumptions
(`SessionsAssumption`, `PasswordAssumption`, `OtpAssumption`,
`TwoFactorAssumption`, `ContactAssumption`, `RedisAssumption`,
`CacheAssumption`, `QueueAssumption`, `PaginationAssumption`: bounds are
naturals, lifetimes positive, `None` is no value of the other sets). None
assumes that there are finitely many users or concurrent requests, so the
theorems hold for any number; `PaginationAssumption` says that a table has
finitely many rows.

Some properties fail when two requests overlap in one place, which section 3
and the hazards say. For those the theorems name the overlap and show that it is
the only cause: the property holds of every behaviour without it
(`...Apart`), whatever else interleaves, aborts and expires, and so of requests
that follow one another (`...InSequence`), which is what the sequential runs
check. The hypothesis is about the one pair of calls; no theorem assumes that
handlers are atomic.

**`SessionsProofs`**. `IInv` is `TypeOK` and the three safety invariants,
strengthened by three facts. `RequestOK`: what a request in flight may rely on
by the call it is at (a request about to set a mirror has its row; one past
the revocation has revoked it; the tokens it must end were held when it
began). `NewTokensDiffer`: two requests between insert and answer carry
different tokens, which needs the unique hash. `SpentWasHeld`: what was
rotated or logged out had been delivered, hence had its row. Without the
second, `SpentIsFinal` is not inductive: one request could set the mirror of a
token that another had logged out, a case the model without it admits because
`iat` has second resolution. From `IInv` follow

- `TypeCorrect`, `MirrorsAreBacked`, `SpentStaysSpent`, `EndedStaysEnded`;
- `ImplementsLifecycle`: each step grants one fresh token, ends tokens of one
  user, lets time pass, or stutters (`StepSimulation`);
- `EndedForGood`: what was revoked or is over never passes a lookup again, a
  consequence of that refinement;
- `RedeemedOnceApart`, `RedeemedOnceInSequence`: the property the run
  `SessionsRedeemedOnce` violates holds while no two rotations of one token are
  both past the lookup and before the revocation (`OneRotation`). The invariant
  `RotationsDiffer`, that a rotation that found its token active is the only
  one of it, rests on the others: past the revocation, a second lookup finds
  the token revoked.

**`PasswordProofs`**. `PIInv` adds to `IInv` the handlers' locals (`FlowOK`)
and that what was outdated is among what was ended. `HandlerStep` shows that
every step of the composed system is a step of `Sessions` or leaves its
variables alone, so `IInv` carries over without a second proof. Then
`PTypeCorrect`, `ImplementsSessions`, `ReplacedPasswordEndsSessions` and
`ConsumedLinksStayGone`.

**`OtpProofs`**. `AcceptedAsSent` alone is not inductive: whether an acceptance
is right depends on the record a verification read some calls ago. `IInv` adds
`RecordSent` (every record in Redis is of a code sent for its key) and
`RequestOK` (so is the record a verification holds; a send that passed the
throttle read a count below the maximum). It survives late write-backs because
they write under the key the record was read from, and fresh codes because an
unused code is in no record. From it follow `TypeCorrect` and
`AcceptedOnlyAsSent`. `AcceptedOnceApart` needs `SpentGone`: an accepted code is
in no record, in Redis or in hand. It is kept while, of the verifications of
one key between read and answer, there is one (`OneVerifier`); two of them can
accept a code twice, and a late `CountMiss` brings one back.

**`TwoFactorProofs`**. What a verification answers was read several calls
before, while methods are disabled, enrolled anew and codes replaced. `IInv`
adds `RowsOwned` and `CodesOwned` (rows and codes belong to the user they were
generated for), `Recorded` (what a challenge lists was recorded
when it was opened) and `RequestOK`: where a request is, it holds a method it
located for its user (`Located`) and, after the challenge was read, one the
challenge names (`Challenged`). Every action only adds to the histories
(`Grows`), so what a slot relies on stays true under the other slots' steps.
From it follow `TypeCorrect`, `SessionsAsChallenged` and
`RemovedMethodsGrantNothing`. Three properties hold apart from one overlap
each: `BackupCodeOnceApart` while no two requests have found the same code and
not yet marked it (`OneHolder`; the mark of `usedAt` follows the lookup), `ChallengeOnceApart`
while no two verifications hold one challenge (`OneVerification`; it is deleted
last), `EnabledProvenApart` while no enrolment replaces a secret between the
check of a confirmation and its write (`NoReenrolment`, an action hypothesis).
Their invariants are `CodesSpent`, `ChallengesSpent` and `EnablesProven`.
`CodesSpent` follows a backup code from its mark to the session: a code that
was accepted is marked or deleted (`Gone`), which no replacement undoes because
new codes are fresh (`GoneStays`), and is in no other request's use; no code
is accepted but through its mark (`AcceptedByUse`).

**`ContactProofs`**. `IInv` joins `TypeOK` (with the unique address and
`providerId`), `LinksOwned` (the account in the record of a link
exists), the three properties and `RequestOK`: a request knows whose link or
code it located and, past the check, that this was presented (`Located`,
`Proved`), and a change that is not disturbed finds the account as it left it
(`Reliable`). The last needs the notion of disturbance to be exact: a change
becomes disturbed in the step another writer touches its account, not later.
From it follow `TypeCorrect`, `VerifiedOnOwnProof`, `AddressProven`,
`ChangeComplete` and `CredentialAlwaysFollows`.
`VerifiedAddressProvenByOwnLinks` is about the property the run
`ContactUnproven` violates: it holds while every link opened at
`POST email/verify` is for the address of its account, or that address is
proved already (`OwnLinks`). So the links of a change, opened there, are the
only way to an unproved mark; codes sent for an earlier address, resends and
overlapping changes are none, because an address that was changed was proved
(`CodesServe`, `RequestServes`).

**`HttpCacheProofs`** proves both modules. `RInv` is the type invariant,
`ClientIsOpen`, `WaitersBelong` and `AdapterOK`: a connection that is not
closed is the client or the one in the making, and never both are there; that
is why `OneConnection` holds. `StepRefines` shows that each step of the cache,
its boot, crash and shutdown is a step of the client or leaves it alone
(`UsesClient`), and the invariant carries over: `OneConnectionAlways`,
`ClientAlwaysOpen`, `WaitersAlwaysBelong`, `HTypeCorrect`.

**`MailQueueProofs`**. `CompletedWasTaken` needs the counters to stay in step
(`Counted`: a job that has not failed has attempts left and was not stalled
more often than is tolerated). Then `JobsAccounted` and `AttemptsBounded`, for any
number of attempts, messages and workers. `TInv` adds the time: what an
unfinished job has waited since its first error and what it has still to wait
are together at least the backoffs of its errors so far (`Waited`), since a job
is taken only when its wait is over and its next error adds the next backoff.
The powers of two are counted as the subsets of `1..n`, from which it follows
that they double (`PowerDoubles`), so that the backoffs add up. Then
`TypeCorrect`, and `ShortOutagesLoseNothing`: a job that is given up for errors
has lasted all backoffs, 15 units or 75 seconds in the code.

**`PaginationProofs`** starts with the order: `OrderTotal` (the cursor field
breaks the ties of the sort field, so `orderBy` is a strict total order),
`HasListing` and `SortedLists` (the rows of a finite table have a listing in
it, with every row once), and `BeyondRow`: what `keysetWhere` leaves of a
cursor is what the order puts behind its row. `PInv` then adds to `TypeOK` and
`KeysetOrdered`: `Stands` (the cursor is that of the last row shown, and whole
pages were), `Seen` (a row that stays was shown or is left by the cursor),
`Pages` (a walk by number has shown the first rows of the listing, up to the
end of its page) and `Asks` (the limit is the one asked for, unless that is 0). An insert or a
delete changes what the cursor leaves by that row only, even if the row of the
cursor goes, since the cursor holds its values. Then `TypeCorrect`,
`CursorWalkOrdered`, `CursorWalkComplete`, `PageWalkComplete` (with
`TotalPagesCounts`, the arithmetic of `totalPages`) and `PagesFull`.

Only model-checked, and why: liveness (`LockoutEnds`, `ThrottleClears`,
`WaitersAnswered`, `StaleEnds`, `EveryJobEnds`), which is outside the prover's
reach. Every other property of a run is stated by a theorem: the five that an overlap
breaks with the hypothesis that excludes it, `VerifiedAddressProven` with
`OwnLinks`, the others of `Spec` alone.

## 5. What is not modelled, and why

- *Change and verification of phone numbers* (`requestPhoneChange`,
  `confirmPhoneChange`, `phone-verify.service.ts`): no endpoint and no caller,
  so no behaviour of the program reaches them.
- *Device tokens* (`fcm-token.service.ts`): two Redis records written by two
  calls; nothing reads them but their own removal, so there is no promise to
  check. The hazards are listed.
- *WebSocket adapter*: two connections of its own, opened at start and closed
  with the server; the repository has no gateway that uses them.
- *Guards and strategies*: predicates on the claims of one token.
- *Configuration*: read once at start; its values are constants here.
- *Crypto*: data; hashes are injective and random values fresh in every module.
- *Database access*: one statement or one transaction is one step.
- *Health, observability, responses and errors, bootstrap*: probes, output,
  formatting and wiring, without state that changes.
- *OAuth sign-in*: the repository has its data types and no handler; accounts
  made by it appear in `Contact` as `OAuthOnly`.
