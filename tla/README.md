# Imobilem API — TLA+ verification project

The API stands between a mobile app in which people authorize payments and the
ERP (SAP) the documents live in. It keeps its own users, roles and sessions in
Postgres, decides documents over an in-memory stand-in for SAP, and keeps a
durable trail of every decision. A client for that ERP is written but not yet
called. This directory specifies the parts that keep
state, checks them with TLC on small instances and proves the main properties
with TLAPS for instances of any size.

## 1. Inventory

One uvicorn process, one event loop, one coroutine and one database session per
request. Postgres runs at READ COMMITTED; no row is locked explicitly, and no
table has a version column.

| Component | State | Operations | Interacts with |
|---|---|---|---|
| Refresh-token sessions: `services/auth.py`, `api/auth.py`, `models/refresh_token.py` | tables `refresh_tokens`, `users.is_active` | login issues a token, refresh rotates it (or answers a replay by revoking everything of that user, or denies an inactive user), logout revokes | rate limiter before login; reads `users` |
| Document store and chain: `services/documents.py`, `schemas/documents.py`, `services/sap_mock_data.py` | `_store` in memory: each document's status and authorization steps | list, get, authorize, reject; rebuilt at start-up | called by the endpoints, synchronously |
| Decision endpoints and audit trail: `api/documents.py`, `services/audit.py`, `models/authorization_event.py` | table `authorization_events`, append only | decide, then commit one row, then answer | store (memory) and Postgres: no common transaction |
| Login rate limiter: `core/rate_limit.py` | a deque of times per client address, in memory | admit or refuse a login | in front of login |
| Access control: `api/deps.py`, `models/user.py`, `role.py`, `permissions.py` | tables `users`, `user_roles`, `roles`, `role_permissions` | load the user of an access token, their roles and the permissions of these; check one permission | in front of every endpoint but login, refresh, logout and health |
| Role synchronisation and scripts: `services/roles.py`, `scripts/` | the same tables, from other processes | create a user, replace a user's roles, synchronise the roles with their definitions | concurrently with the service and with each other |
| SAP client: `core/sap/client.py` | none of its own; a token and a cookie jar per call | read; create (fetch token, post, once again after 403, one deadline) | SAP; no service calls it yet, only the health check probes |
| Access tokens and passwords, configuration, schemas, health, migrations | none that changes while the service runs | — | — |

What is hard here:

* **Interleaving.** Every `await` lets other requests run. `rotate_refresh_token`
  reads the token in one statement, the user in another, and commits later; the
  mass revocation chooses its rows at its UPDATE and shows them at its commit.
* **Two stores without a common transaction.** A decision is made in memory,
  then its row is committed; the commit may fail, or fail only apparently; the
  process may restart, which takes back the decisions and keeps the rows.
* **Stale objects.** The audit row must say what the document was when it was
  decided, while the response is made of the shared document after the commit.
* **Time.** A token expires between the check and the rotation's commit; a row is
  dated when its transaction begins, which is before the decision.
* **Snapshots.** READ COMMITTED shows every SELECT the commits made before it.
  The three SELECTs of a permission check may see three states of the tables, and
  a script computes its changes from rows that another one changes meanwhile.
* **A server that does not answer.** SAP may apply a write whose answer never
  arrives, end a session between a token and its use, or take for ever.

What makes each part correct: see the properties in section 4. Every hazard is
listed in `PROJECT.json` with the line it bites at and the properties aimed at it.

## 2. Modules

```
TokenLedger  <--refines--  RefreshTokens  <-- MCRefreshTokens (TLC)
                                          <-- RefreshTokens_proof (TLAPS)

SlidingWindow <--refines-- LoginRateLimit <-- MCLoginRateLimit (TLC)
                                          <-- LoginRateLimit_proof (TLAPS)

DocumentChain <-- DocumentSeeds
      ^
DocumentDecisions --refines--> AuditedChains
      ^ MCDocumentDecisions (TLC, uses DocumentSeeds)
      ^ DocumentDecisions_proof, over DocumentChain_proof (TLAPS)

RolePolicy   <--refines--  AccessControl  <-- MCAccessControl (TLC)
                                          <-- AccessControl_proof (TLAPS)

AccessControl, DocumentDecisions <--composes and refines both-- AuthorizedDecisions
      ^ MCAuthorizedDecisions (TLC)
      ^ AuthorizedDecisions_proof, over the proofs of both parts (TLAPS)

RemoteWrite  <--refines--  SapWrite       <-- MCSapWrite (TLC)
                                          <-- SapWrite_proof (TLAPS)

TokenLedger, RemoteWrite, RolePolicy,
AuditedChains, SlidingWindow              <-- AbstractSpecs_proof (TLAPS)
```

### RefreshTokens

A variable per column that matters (`active`, `issued`, `owner`, `expires`,
`revoked`), the clock, and `req[r]`: the locals of a request in flight. A request
slot is used again when its request ends, so the number of requests over time is
not bounded by `Requests`, only how many overlap.

| Action | Code |
|---|---|
| `AuthenticateUser`, `IssueRefreshToken` | login: the SELECT of the user with the password check; the INSERT and its commit |
| `RefreshAccepted`, `LoadUser`, `RotateRefreshToken`, `DenyInactive` | refresh: the SELECT of the token with the checks that follow; the SELECT of the user; the commit of either branch |
| `RefreshReplayed`, `ExecuteRevokeAll`, `CommitRevokeAll` | refresh of a revoked token: SELECT, UPDATE, commit |
| `FindForLogout`, `RevokeRefreshToken` | logout: SELECT, commit |
| `Abort` | any of these ends before its commit: database error, dropped connection, end of the process |
| `SetActive`, `Tick` | an operator and the clock (external) |

Two choices deserve a word. The flush of an ORM transaction (its UPDATE and
INSERT) and its commit are one step: the rows are known by primary key before,
so when they are written makes no difference to what a later commit shows. The
UPDATE of `revoke_all_for_user` is different, since it *selects* rows, and is
split from its commit. `session.get` of the user is a SELECT of its own and
sees later commits than the SELECT of the token, as READ COMMITTED has it.
Postgres' row locks are left out: where two transactions write the same row, the
model also has the order in which the second does not wait for the first, and
the victim of a deadlock is an `Abort`.

Answers that change nothing (a wrong password, an unknown or expired token,
logout of a revoked one) are stuttering steps. A generated token is a fresh
element of `Tokens`, which stands for the 384 random bits; it is its own hash.

The history variables `parent`, `seen`, `loggedOut`, `condemned` and `contested`
record what the properties speak of and no action reads. A token is `contested`
from the moment that two requests are between their first read and their end,
one that has found it alive and may yet exchange it, and another that may
exchange or revoke it: a second refresh, a logout, a denial, the answer to a
replay of a token of the same user. It stays contested when one of them fails.

### DocumentChain, DocumentSeeds, DocumentDecisions

`DocumentChain` holds the functions of `services/documents.py` on one document,
reduced to its status and the status and author of each step (user id, name, date
and comment are written together, at the same place). `DocumentSeeds` has the
29 documents of the seed data in that form. `WellFormed` describes a chain:
decided steps first, at most one rejection, which is last, and a status in
agreement. Every seed is well formed (`FreshAssumption`, which TLC evaluates).

`DocumentDecisions` adds requests. Everything from the look-up to the creation
of the row runs without an await and is one action (`Decide`, `Conflict`); the
commit (`CommitRow`, `CommitFails`) and the response (`Respond`) come later.
`CommitFails` may leave the row behind: that is a connection lost during the
commit. `Restart` rebuilds the store and drops the requests in flight. The
resulting status of the row is taken when the row object is created, before the
await, as in `record_authorization`; the response's status when it is sent.
The checks of identity and permission precede `Decide` with no await in between
(`AuthorizedDecisions` has them), so a request that is refused is a request that
does not happen.

### LoginRateLimit

`enforce_login_rate_limit` has no await: one call is one action,
`EnforceLoginRateLimit`. The loop that pops expired entries is the choice of the
number `k` at which it stops (`PopsFrom`); there is exactly one. Time is counted
in ticks, `SECOND` to a second, so that attempts within one second, at the same
moment and exactly a window apart all occur, and the truncation of `Retry-After`
means something. `Restart` loses the deques, which the module's docstring
announces; the properties speak of one process. `admitted` and `answer` are
history.

### AccessControl

Users, roles, memberships and grants as sets, and the locals of the requests and
of the script runs that read and change them.

| Action | Code |
|---|---|
| `LoadUser`, `LoadRoles` | the SELECT of `get_user_by_id`, the selectin SELECT of `User.roles` |
| `Grant`, `Refuse` | the selectin SELECT of the permissions, then, without an await, the two checks of `get_current_user` and `require_permission` |
| `StartAssign` / `StartCreate`, `FindRoles`, `CommitAssign` / `CommitCreate` | assign_roles.py, create_user.py: the look-up of the user, of the roles, the commit |
| `StartSync`, `ReadRole`, `CommitSync` | `sync_roles`: one turn of the loop per definition, then the commit; definitions that `RoleDefinition` refuses (`Valid`) do not get there |
| `AbortTool` | a missing code, a taken key, a deadlock, a lost connection, a killed process |
| `SetActive`, `Restart` | an operator; the service's end, which the scripts survive |

An assignment inserts the rows that were *found* for the codes wanted, and goes
on only if none is missing. The unit of work does not write a list, it writes the difference between the
list assigned and the list *loaded*: `CommitAssign` and `CommitSync` insert and
delete only that. Two runs that insert the same key cannot both commit; a row
to be deleted that is gone already is no error (the asyncpg dialect does not
count the rows of a DELETE). Flushing earlier than at the commit (autoflush)
shows nothing to others and takes locks whose outcome, waiting or an abort, is
there anyway. No code deletes a user or a role.

`ever` and `always` record, for each request, what was there to be seen at some
time and at all times since its first read; `opposed` the rows that others have
changed against the wish of a script run since it began. No action reads them.

### AuthorizedDecisions

The check in front of the endpoints, and the dates of the rows. A request loads
its user (`LoadUser`, where its transaction begins and `createdAt` is fixed, as
Postgres' `now()` has it), its roles, and then reads the permissions and, with
no await in between, decides (`Decide`: `A!Grant` and `D!Decide` in one step) or
is told of a conflict. `A` is `AccessControl` and `D` is `DocumentDecisions`,
instantiated; the module adds no state to either but the three clocks.

### SapWrite

`SapClient.create` and `read`, one `httpx.AsyncClient` per call: at each await
the locals of the call (`call`), what is under way to SAP (`request`) and back
(`reply`). The client's part is small: `FetchFails`, `PostWithToken`,
`FetchAgain` (once, after 403), `PostAnswered`, `Closed` (the `async with` of the
client ends), `Expire` (`asyncio.timeout`), `TransportFails` (anything httpx
raises). SAP is external, and only this is assumed of it: a request is handled
at most once, now, later or never; a write is applied only with a living session
and this session's token, and never if it is answered 3xx or 4xx; one answered
2xx has been applied; one answered 5xx perhaps. A call that is over does not
take back what it has sent. Tokens and cookies are session numbers.

### Abstract specifications

`TokenLedger`: a token is unissued, live, dead, in this order, and only a live
token is exchanged, as the comments of the code promise; with one exception. A
live token may become contested, and a contested one may be exchanged dead. The
refinement maps `contested` to the tokens that two requests were about at the
same time, one of them with an exchange: all that the missing lock can spoil is
confined to these.

`SlidingWindow`: all admitted attempts are remembered, and one more is admitted
exactly when fewer than the limit lie in the window that ends now.

`AuditedChains`: a decision is one indivisible event that uses up one open step
and promises a row; rows are recorded or forgotten; a restart takes decisions
back and no row. There are no requests, answers or stages in it.

`RolePolicy`: a table of the roles each user holds and one of the permissions
each role grants; a script is one step that changes one user's list, or the
roles of one set of definitions. In `ExactSpec` it sets what it was told. In
`Spec` it may leave anything *between* what was there and what it was told: it
takes away nothing it lists, gives nothing it does not list, gives no role that
does not exist and touches nothing else. Overlapping scripts implement the
second, scripts that never overlap the first: the difference is again the
effect of concurrency. In `AuthorizedDecisions`, where one script runs at a
time, the exact policy is what the scripts do beside the requests in flight.

`RemoteWrite`: a write is asked for, applied at most once, at any time after
that, and its caller is told one thing, once: "written" only of a write that has
been applied, "refused" only of one that has not and never will be, "unknown"
whatever became of it, and "moved" (a redirect passed on as a success). There
are no sessions, tokens, retries or deadlines in it.

`AuthorizedDecisions` is the detailed side of two more refinements, `AccessSpec`
and `DecisionsSpec`: composed, neither part does what it would not do alone.

## 3. Runs

All finish within four minutes on two cores. Deadlock checking is off for
sessions, decisions and SAP calls: those models run out of tokens, requests or
calls, which is where their bounds stop them.

| Run | Instance | Shows |
|---|---|---|
| `interleaved` | 2 users, 3 tokens, 2 overlapping requests, time stands still | `TypeOK`, `ReplaySweepsKnown`, `SingleUseUnlessContested`, `ReplayForcesLoginUnlessContested`, `NoExchangeAfterRevocation`, `IssuedWhileActive`, `LogoutFinalUnlessContested`, `LedgerSpec` |
| `requests_fair` | 1 user, 2 tokens, 2 requests, lifetime 1, clock to 2 | `RotationWithinLifetime`, and `EveryRequestAnswered` under `FairSpec` |
| `single_use`, `logout_final`, `replay_login` | 1 user, 3 tokens, 2 requests | three sentences of the comments, as they stand: violated once two requests overlap |
| `contention` | a chain of three steps and one half way, 4 requests, 1 restart | `TypeOK`, `ChainShape`, `DecisionsStand`, `RowsTellTheTruth`, `FinalDecisionIsLast`, `AnswersMatchTrail`, `AnswersShowOwnOrLater`, `AuditedSpec` |
| `seeds` | one document of each of the 9 statuses and chains that occur among the 29 seeds, 3 requests, 1 restart | every kind of seed is a well-formed chain (`FreshAssumption`), and `AuditedSpec` |
| `every_row` | a chain of three steps and one of one, 3 requests, 1 restart | what a test says, violated |
| `window` | 2 clients, limit 2, window of 2 seconds of 2 ticks, clock to 7 | `TypeOK`, `WindowBudget`, `RetryAfterWithinASecond`, `SlidingSpec` |
| `access` | 1 user, 2 roles, 1 permission, 4 versions of the roles, one with an unknown permission, 1 request, 2 script runs | `TypeOK`, `GrantedInForce`, `RefusedNotInForce`, `AssignedExactly`, `SyncedExactly`, `PolicySpec` |
| `authorized` | PE008 and EST006 of the seeds, 2 requests, 1 user whose role may decide the one or the other, 1 script run, clock to 1, 1 restart | `RowsInOrder`, `DecidedWithPermission`, `ExactPolicySpec` |
| `sap` | 2 calls, time-out 1, 2 sessions, clock to 2 | `TypeOK`, `AnswerTellsTheWrite`, `RejectionNeedsExpiry`, `NeverPinned`, `WriteSpec`, and `EveryCreateEnds` under `FairSpec` |

Why the bounds are enough: a lost race takes two overlapping requests, and a
third only repeats the pattern against one of the two; three tokens are a parent
and two rival successors, or a chain of three; lifetime 1 with the clock to 2
has a token checked before, at and after its deadline. Four requests are what it
takes to complete the chain of three steps with one rival, or to close both
documents with a request left to find them closed. An endpoint sees nothing of a
seed document but its status and chain, so one of each kind stands for the 29;
three requests complete the longest chain. Seven ticks are nearly two
windows, so a deque fills, empties and fills again, and half seconds make
`Retry-After` inexact. A request and a script run concern one user. The three
valid versions of the roles disagree about both of them, two of them do not know one,
and what two overlapping runs leave together may be no version at all; more
rivals only repeat that pattern on the same rows, and runs end and start anew
without bound. One permission is enough there, as no code compares two of them:
that they are not confused is checked in `authorized`, which has two. A row of `authorized` needs to be dated before, at or after
a decision, for which two moments suffice. One SAP session ends and one follows
it, which is one retry; the second call shares SAP, its sessions and the clock.
Symmetry (users, tokens, requests, clients, script runs) is used for safety only.

Fairness: `FairSpec` of `RefreshTokens` has weak fairness of each request's own
steps: an `await` on Postgres returns or raises, and the event loop starves no coroutine. Nothing
is assumed of arrivals, operators, the clock, failures or restarts. A login or
rotation cannot proceed when the model is out of tokens, which the property says.
`SapWrite` assumes only that the clock goes on and that `asyncio.timeout` fires
when it is due: nothing of SAP, the network or the progress of the call itself.

## 4. Properties

Sessions:

* `RotationRetiresParent` — revocation of the parent and creation of the
  successor are one transaction; the owner is inherited (proved only).
* `RotationWithinLifetime` — one `now` serves the check and the successor.
* `ReplaySweepsKnown` — when the answer to a replay is sent, every token of that
  user that existed when the replay was read is revoked, whoever touched it.
* `NoExchangeAfterRevocation` — only a request that read the token alive
  exchanges it. This is what is left of "never be exchanged again".
* `SingleUseUnlessContested`, `LogoutFinalUnlessContested`,
  `ReplayForcesLoginUnlessContested` — the three promises of the comments, with
  the exact extent to which the code keeps them while requests overlap: a token
  with two successors, one exchanged after its logout, or one whose successor
  outlives the answer to a replay, was contested. `SingleUse`, `LogoutIsFinal`
  and `ReplayForcesLogin` are the same sentences without the exception, which
  TLC finds violated.
* `IssuedWhileActive` — no token for a user who was inactive during the whole request.
* `EveryRequestAnswered`, `LedgerSpec`.

Decisions:

* `ChainShape`, `DecisionsStand`, `FinalDecisionIsLast`, `ClosedStaysClosed`
  (the last proved only) — no step is decided twice or skipped, no decision
  follows the closing one, a closed document stays as it is.
* `RowsTellTheTruth` — a row's status is the one its own decision left.
* `AnswersMatchTrail` — 200 means a row, 409 means none; a decision of the
  running process without a row was answered 500 or is still being committed.
* `AnswersShowOwnOrLater` — a 200 shows the document as the request's own
  decision or a later one left it, though it is made after the commit.
* `AuditedSpec`.

Limiter:

* `WindowBudget` — no window, wherever it begins, holds more admitted attempts
  than the limit, although the deque forgets.
* `RetryAfterWithinASecond` — a refused client finds room less than a second
  after the time it was told, and is not told to wait too long.
* `SlidingSpec` — nobody is refused under budget either.

Access control:

* `GrantedInForce` — a request is let through only by an active user, a
  membership and a grant each in force at some time while the user was loaded.
  At different times, perhaps: a role taken from the user after the second SELECT
  and given the permission before the third lets a request pass that no single
  state of the tables allows. That is as far as "no stale-token window"
  (`models/role.py:7`) goes.
* `RefusedNotInForce` — nobody is refused what was theirs during the whole check.
* `AssignedExactly`, `SyncedExactly` — a commit leaves exactly what the run was
  asked for, in every row that nobody else has changed against it since it began,
  and touches no row outside its scope.
* `PolicySpec` — the same seen from outside, with no record of who acted against
  whom: whatever overlaps, the tables move between what was and what some script
  was told. `ExactPolicySpec` — where scripts do not overlap, each leaves exactly
  what it was told, also beside decisions in flight.

Authorized decisions:

* `DecidedWithPermission` — whoever decides a document held, while being loaded,
  the permission for just this kind of document.
* `RowsInOrder` — a row dated after another decision on the document was taken
  belongs to a later decision. Rows of overlapping requests may stand in either
  order: `created_at` alone does not order the history of a document.

SAP calls:

* `WriteSpec` — a call is a write applied at most once, of which its caller is
  told nothing that is or becomes untrue, also when SAP handles a request after
  the call has ended. It contains `AtMostOneWrite` (proved only): the retry never
  writes twice.
* `AnswerTellsTheWrite` — a value means the write has been applied, a 4xx that
  it has not been and never will be; 500, 502 and 504 leave it open.
* `RejectionNeedsExpiry` — SAP rejects a token of a call no more often than
  sessions of that call have ended. It does not follow that every single expiry
  is survived: a 403 on a valid token uses up the one retry as well.
* `NeverPinned`, `EveryCreateEnds` — the deadline is one for the whole dance.
* `NeverLooksLikeLogout` — no call ends in 401 or 403 (proved only).

Each property of a passing run has a mutant in `PROJECT.json`: a faulty variant
of a definition, kept next to it (`F_Suffix`), under which TLC finds it violated.

### Disagreements between documentation and code

Runs that TLC finds violated:

1. `services/auth.py:71` "single-use" — two overlapping refreshes of one token
   both get a successor (`single_use`).
2. `api/auth.py:71` "never be exchanged again" — a refresh that has read its
   token before a logout commits still gets a successor (`logout_final`).
3. `services/auth.py:74-76` "force a fresh login" — a refresh in flight during
   the answer to a replay leaves a live token (`replay_login`).
4. `tests/test_documents_audit.py:1-2` "exactly one durable ... row" — a failed
   commit leaves a decided document without one (`every_row`).

Seen while modelling, and stated where the properties above stop:

5. `README.md:23` and `README.md:166` of the repository, "Revocación de logout
   server-side" not done yet and "Logout stateless": out of date.
   `services/auth.py:115-122` revokes the token, and `tests/test_auth.py:169-180`
   tests it.
6. `services/documents.py:9-11` — the answer to an authorize may show another
   request's rejection, decided while the row was being committed.
7. `scripts/assign_roles.py:3` "exactly the codes given" — two overlapping runs
   for one user may leave a mixture of both lists; likewise two synchronisations.
   `PolicySpec` is what holds of them, `ExactPolicySpec` of one script at a time.
8. `core/sap/client.py:84` — a redirect in answer to a write is returned as a
   success; transport errors are mapped by neither operation, and `read` has no
   deadline of its own.

## 5. Proofs

The theorems hold for any finite or infinite sets of users, tokens, documents,
requests, clients, roles, scripts and calls, any lifetime, any chains, any limit
and window, from the assumptions named in the modules: null values are not
members of the sets they stand beside; lifetime, limit, window, tick and
time-out are positive naturals; the roles and permissions of the scripts are
among those there are; and the documents delivered by SAP are well-formed chains
decided by nobody but SAP.

**Sessions** (`RefreshTokens_proof`). The properties are not inductive: whether
a commit is harmless depends on what its request remembers. `IInv` adds
`RequestOK` — for each stage, how the locals relate to the tables: the record
was issued to the user remembered, `now` is not after the clock and lay before
the record's expiry, a sweep's rows belong to its user and, with what is revoked
by now, cover what the replay saw — and `ExpiryBounded`, `ParentIssued`. The
tables only grow (`Grows`), so what a request knows survives the others' steps
(`OtherRequest`); each action is then considered alone. From `IInv` follow
`TypeCorrect`, `RotationRetires`, `RotationIsTimely`, `ReplaySweeps`,
`NoLateExchange` and `NoTokenForInactive`.

`ContestInv` is what the promises of the comments need: a request that may yet
exchange its token finds it unrevoked, unless the token is contested
(`ContestInvariance`). Whoever could revoke it in between is about it at the same
time, so that it was recorded. With it `SingleUseBarRaces`,
`LogoutIsFinalBarRaces` and `ReplayForcesLoginBarRaces` are proved of the service
as it runs, any number of requests overlapping, and `ImplementsLedger` maps a
rotation to an exchange of a live or a contested token.

`RequestsOnlyAdvance` has the half of `EveryRequestAnswered` that is not about
fairness: a measure of what a request still has before it (`Left`) falls with
its every step, and nobody else's step raises it, so that a request between two
awaits is never sent round in circles.

**Decisions** (`DocumentChain_proof`, `DocumentDecisions_proof`).
`DecisionAdvancesChain` says of one document that a decision fills exactly step
`decided + 1` and leaves a chain. `IInv` adds to the properties that chains keep
their length, that a request decides at most once, and that the row a request
carries is the row of its decision. `DecisionsStand` needs the chain (the next
open step lies behind every decided one), `RowsTellTheTruth` needs `RowsDue`,
and `AnswersMatchTrail` needs both. From `IInv` follow `TypeCorrect`,
`ChainsStayChains`, `NoDecisionLost`, `TrailIsTrue`, `ClosingIsLast`,
`AnswersAreTrue`, `ClosedIsFinal`, `AnswersAreNotStale` (with its own invariant:
what an open step or a status shows is the doing of a decision of this run),
`ImplementsAuditedChains` and `RequestsOnlyAdvance`.

**Limiter** (`LoginRateLimit_proof`). The deque is the tail of the log, and all
of the log before it has expired (`DequeIsTail`); with the log in the past
(`Past`) this is inductive client by client (`ByClient`). Popping preserves it
(`PoppedRemembers`), so when the deque is not full the attempt `MAX_ATTEMPTS`
places back has expired (`RoomWhenNotFull`), which is the budget, and when it is
full that attempt is its head (`NoRoomWhenFull`). From `IInv` follow
`TypeCorrect`, `NoWindowOverfull`, `WaitIsHonest` and `ImplementsSlidingWindow`.

**Access control** (`AccessControl_proof`). For requests, `Seen`: what has been
read lies between what was there at all times and what was there at some time.
For script runs, `Found` and `Planned` (what was looked up stays, a plan is about
the rows looked up) and `Undisturbed`: a row that nobody has acted against is
still what it was when it was read. The last is what makes a commit computed
from stale rows exact. A step is first reduced to how it moves one request
(`RequestsMove`) or one run (`RunsMove`), then each part is shown kind by kind.
From `IInv` follow `TypeCorrect`, `GrantsWereInForce`, `RefusalsWereNotInForce`,
`AssignsExactly` and `SyncsExactly`.

`ImplementsPolicy` takes the step from rows to tables: `Found` makes a plan about
rows that were seen, so that what a commit deletes was not listed and what it
inserts was (`CreatePolicy`, `AssignPolicy`, `SyncPolicy`), and that is all
`RolePolicy!Spec` asks, whoever else writes. `AloneImplementsExactPolicy` assumes
that there is one script run at a time: then nobody has acted against it
(`AloneUnopposed`), `Undisturbed` says that each row is still what it was read to
be, and the difference the commit writes ends in the list. `SyncAgainIsNoOp` is
`services/roles.py:5`, "Running it twice is a no-op", in the presence of others:
a synchronisation that commits into tables that say already what it defines
leaves them untouched, whatever it read.

**Authorized decisions** (`AuthorizedDecisions_proof`). Every step is a step of
`AccessControl` or leaves its variables alone, and the same of
`DocumentDecisions`: `ImplementsAccessControl`, `ImplementsDocumentDecisions`.
The proof modules of the parts are instantiated too (`AP`, `DP`), and what they
prove is cited here once their assumptions on the constants are shown to follow
from this module's: so `PartsInvariance` has both inductive invariants of the
composition without a second proof. `DecidersHadPermission` needs only the part
of `AP!IInv` that says what a check has seen. `OrderInv` is added for
`RowsTellTheOrder` — no date lies in the future, and a decision of this run has
left no open step at or before its own (`Filled`), so whatever is decided later
fills a later step — and gives, with the types of the parts, `TypeCorrect`.
`CheckKeepsPromises` and `EndpointsKeepPromises` carry every property proved of
the parts over to the whole, `ScriptsKeepPolicy` the policy of the scripts:
neither a permission check nor a decision in flight disturbs it.

**SAP calls** (`SapWrite_proof`). A step concerns one call (`StepIsLocal`) or
SAP's sessions or the clock. `Wired` says what may be under way in each stage,
`Counted` that a write under way has not been applied and that its answer tells
whether it was, `Told` the same of the result, `Clocked` that the clock never
passes a deadline, and `InSession` that a token, wherever it is, belongs to the
session in the cookie beside it, which is not among the ended ones that earlier
rejections are counted against. From
`IInv` follow `TypeCorrect`, `WritesOnce`, `AnswersTell`, `NoSpuriousLogout`,
`RejectionsNeedExpiries` and `DeadlineHolds`. `ImplementsRemoteWrite` needs of
`Told` that it speaks of what may still happen: a call that ended in a client
error, or with a redirect, has no write under way that SAP could yet apply.
`CallsOnlyAdvance` bounds a call by its own steps: it posts twice at most, and
nothing that SAP or the network does sends it back.

**Abstract specifications** (`AbstractSpecs_proof`). An abstract specification is
worth what follows from it, so this is proved of each, from its `Spec` alone and
with no assumption but on its constants: `LedgerKeepsFamilies`; `LedgerIsSingleUse` (a
token that nobody contested is exchanged once, and never dead); `VerdictsStayTrue`;
`PolicyLeavesNothingDangling`; `DueRowsAgree` (two rows that are due never close
one document differently); `OneLookIsEnough` (the attempt `Limit` places back
decides for every window). By the refinements it holds of the detailed modules.

Only model-checked: liveness (`EveryRequestAnswered`, `EveryCreateEnds`),
which is out of the prover's reach. What can be proved of it is the measure
(`RequestsOnlyAdvance`, `CallsOnlyAdvance`); that a measure which falls with every
step, under weak fairness, reaches its end is left to TLC, on the instances of
the runs.

## 6. Not modelled

* Data that is copied once and never compared: names, e-mails, comments, dates,
  amounts; labels and descriptions of roles. Passwords and access tokens are
  stateless library calls: an access token that does not decode is a request that
  does not happen.
* A caller of the SAP client: there is none in the code. What a caller does after
  a 504 is therefore open, and a second `create()` is a second write. The probes
  `check_connectivity` and `smoke_sap.py` change nothing.
* Deletion of users: no code does it. Several worker processes: the store and
  the limiter are documented as per process.
* Tests' helpers `reset_documents` and `reset_login_rate_limit`.
* The dictionary of client addresses, which is never emptied: only the deque of
  each address is bounded.
* Configuration, schemas, health checks and migrations (see `PROJECT.json`).
* The connection pool: SQLAlchemy's.

## 7. Plan

Done: every component that keeps state or talks to one that does, each with runs
and proofs: sessions, decisions, limiter, access control with the scripts, the
SAP client, and the composition of access control with the decisions. Every
safety property that a passing run checks is also a theorem.

What is worth adding when the code grows:

1. The decision endpoints over `SapWrite.create` in the place of the store in
   memory, once the service calls it: the comment at `api/documents.py:126-128`
   announces the question of which comes first, the row or the write.
2. The sessions behind the limiter, if the limiter should ever be shared by
   several processes: today they share no state.
