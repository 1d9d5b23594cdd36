---------------------------- MODULE RefreshTokens ----------------------------
(***************************************************************************)
(* The refresh-token sessions of app/services/auth.py behind POST          *)
(* /auth/login, /auth/refresh and /auth/logout of app/api/auth.py.         *)
(*                                                                         *)
(* Every handler is a coroutine with its own database session.  It holds   *)
(* no lock: at each await the other requests run, and the database runs at *)
(* READ COMMITTED, so what a SELECT returned may be out of date when the   *)
(* transaction commits.  A step here is what happens between two awaits: a *)
(* statement's snapshot together with the synchronous code that follows    *)
(* it, or a commit.                                                        *)
(*                                                                         *)
(* Answers that change nothing (wrong password, unknown or expired token,  *)
(* logout of a dead token) are the stuttering steps of this specification. *)
(* The throttling of logins is the business of app/core/rate_limit.py.     *)
(***************************************************************************)
EXTENDS Naturals

CONSTANTS
  Users,        \* rows of the table users
  Tokens,       \* raw refresh tokens that may ever be generated (bound)
  Requests,     \* requests the server handles at the same time (bound)
  RefreshTTL,   \* settings.refresh_token_expire_minutes, in clock ticks
  MaxClock,     \* the clock stops here (bound)
  NoUser, NoToken

ASSUME TTLAssumption == RefreshTTL \in Nat \ {0}
ASSUME ClockAssumption == MaxClock \in Nat
ASSUME NullAssumption == NoUser \notin Users /\ NoToken \notin Tokens

VARIABLES
  active,       \* users.is_active
  issued,       \* tokens that have a row in refresh_tokens
  owner,        \* refresh_tokens.user_id
  expires,      \* refresh_tokens.expires_at
  revoked,      \* tokens whose refresh_tokens.revoked_at is not null
  clock,        \* dt.datetime.now(dt.UTC)
  req           \* the local variables of each request in flight

\* History variables: no step of the program reads them.
VARIABLES
  parent,       \* the token a token was exchanged for
  seen,         \* what was committed when a request made its first read
  loggedOut,    \* tokens a finished logout revoked
  condemned,    \* tokens a finished replay response was to revoke
  contested     \* tokens that were being exchanged by one request while
                \* another request was about to revoke them

tables  == <<active, issued, owner, expires, revoked>>
history == <<parent, seen, loggedOut, condemned, contested>>
vars    == <<tables, clock, req, history>>

------------------------------------------------------------------------------
(* Local state of a request *)

Stage == {"idle", "issue", "loadUser", "rotate", "deny",
          "sweep", "sweepCommit", "logout"}

Request == [pc    : Stage,
            user  : Users \cup {NoUser},
            token : Tokens \cup {NoToken},   \* the record read for raw_token
            now   : Nat,                     \* the `now` of the handler
            rows  : SUBSET Tokens]           \* rows matched by an UPDATE

\* What was committed, of the rows a request is about, when it first read:
\* which had been issued and revoked.  `active` tells whether the request's
\* user has been active at any moment since.
View == [issued : SUBSET Tokens, revoked : SUBSET Tokens, active : BOOLEAN]

Idle == [pc |-> "idle", user |-> NoUser, token |-> NoToken, now |-> 0, rows |-> {}]

NoView == [issued |-> {}, revoked |-> {}, active |-> FALSE]

TypeOK ==
  /\ active \in [Users -> BOOLEAN]
  /\ issued \subseteq Tokens
  /\ revoked \subseteq issued
  /\ owner \in [Tokens -> Users \cup {NoUser}]
  /\ \A t \in issued : owner[t] \in Users
  /\ expires \in [Tokens -> Nat]
  /\ clock \in Nat
  /\ req \in [Requests -> Request]
  /\ parent \in [Tokens -> Tokens \cup {NoToken}]
  /\ seen \in [Requests -> View]
  /\ loggedOut \subseteq Tokens
  /\ condemned \subseteq Tokens
  /\ contested \subseteq issued

Init ==
  /\ active = [u \in Users |-> TRUE]
  /\ issued = {} /\ revoked = {}
  /\ owner = [t \in Tokens |-> NoUser]
  /\ expires = [t \in Tokens |-> 0]
  /\ clock = 0
  /\ req = [r \in Requests |-> Idle]
  /\ parent = [t \in Tokens |-> NoToken]
  /\ seen = [r \in Requests |-> NoView]
  /\ loggedOut = {} /\ condemned = {} /\ contested = {}

------------------------------------------------------------------------------
(* Building blocks.  The operators whose name carries a suffix (F_Suffix) are *)
(* faulty variants of F that the properties are tried against; Spec uses none. *)

At(r, stage) == req[r].pc = stage

\* The local state k of a request that may yet exchange token p, or revoke it.
Exchanging(k, p) == k.pc \in {"loadUser", "rotate"} /\ k.token = p

Revoking(k, p) ==
  \/ k.pc \in {"loadUser", "rotate", "deny", "logout"} /\ k.token = p
  \/ k.pc \in {"sweep", "sweepCommit"} /\ k.user = owner[p]

Contested(locals) ==
  {p \in issued : \E q, r \in Requests :
                    q # r /\ Exchanging(locals[q], p) /\ Revoking(locals[r], p)}

\* A handler makes its first read, about the given rows: it becomes request r.
Begin(r, local, about) ==
  /\ req[r] = Idle
  /\ req' = [req EXCEPT ![r] = local]
  /\ contested' = contested \cup Contested(req')
  /\ seen' = [seen EXCEPT ![r] =
                [issued |-> issued \cap about, revoked |-> revoked \cap about,
                 active |-> local.user \in Users /\ active[local.user]]]

\* The handler returns or raises; its session is closed.
Finish(r) ==
  /\ req' = [req EXCEPT ![r] = Idle]
  /\ seen' = [seen EXCEPT ![r] = NoView]
  /\ UNCHANGED contested

Insert_NoOwner(t, u, now, from) ==
  /\ t \in Tokens \ issued
  /\ issued' = issued \cup {t}
  /\ expires' = [expires EXCEPT ![t] = now + RefreshTTL]
  /\ parent' = [parent EXCEPT ![t] = from]
  /\ UNCHANGED owner

\* INSERT INTO refresh_tokens of a generated token, for user u, at time now.
Insert(t, u, now, from) ==
  /\ t \in Tokens \ issued
  /\ issued' = issued \cup {t}
  /\ owner' = [owner EXCEPT ![t] = u]
  /\ expires' = [expires EXCEPT ![t] = now + RefreshTTL]
  /\ parent' = [parent EXCEPT ![t] = from]

NoInsert == UNCHANGED <<issued, owner, expires, parent>>

\* record.revoked_at is None.
NotRevoked_Skipped(t) == TRUE
NotRevoked(t) == t \notin revoked

\* expires_at <= now rejects the token.
Unexpired_AtDeadline(t) == expires[t] >= clock
Unexpired(t) == expires[t] > clock

\* user.is_active.
IsActive_Ignored(u) == TRUE
IsActive(u) == active[u]

Rows(u) == {t \in issued : owner[t] = u}

\* WHERE user_id = u AND revoked_at IS NULL.
ActiveRows_Revoked(u) == Rows(u) \cap revoked
ActiveRows_AnyUser(u) == issued \ revoked
ActiveRows(u) == Rows(u) \ revoked

\* The successors of p.
Exchanged(p) == {t \in issued : parent[t] = p}

------------------------------------------------------------------------------
(* POST /auth/login *)

\* SELECT the user by email; the password is right and the account is active.
AuthenticateUser(r, u) ==
  /\ IsActive(u)
  /\ Begin(r, [Idle EXCEPT !.pc = "issue", !.user = u, !.now = clock], {})
  /\ UNCHANGED <<tables, clock, parent, loggedOut, condemned>>

\* `now` is taken after the SELECTs that load the user's relations.
IssueRefreshToken(r) ==
  /\ At(r, "issue")
  /\ \E t \in Tokens, now \in req[r].now .. clock : Insert(t, req[r].user, now, NoToken)
  /\ Finish(r)
  /\ UNCHANGED <<active, revoked, clock, loggedOut, condemned>>

------------------------------------------------------------------------------
(* POST /auth/refresh *)

\* The row is there, not revoked and not expired: go on to load its user.
RefreshAccepted(r, t) ==
  /\ t \in issued
  /\ NotRevoked(t)
  /\ Unexpired(t)
  /\ Begin(r, [Idle EXCEPT !.pc = "loadUser", !.user = owner[t],
                           !.token = t, !.now = clock],
           {t} \cup Exchanged(t))
  /\ UNCHANGED <<tables, clock, parent, loggedOut, condemned>>

\* The row is already revoked, expired or not: revoke_all_for_user.
RefreshReplayed(r, t) ==
  /\ t \in revoked
  /\ Begin(r, [Idle EXCEPT !.pc = "sweep", !.user = owner[t], !.token = t],
           Rows(owner[t]))
  /\ UNCHANGED <<tables, clock, parent, loggedOut, condemned>>

LoadUser_Retries(r) ==
  /\ At(r, "loadUser")
  /\ req' = [req EXCEPT ![r].pc = IF IsActive(req[r].user) THEN "rotate" ELSE "loadUser"]
  /\ UNCHANGED <<tables, clock, history>>

\* session.get(User, record.user_id) and the branch on user.is_active.
LoadUser(r) ==
  /\ At(r, "loadUser")
  /\ req' = [req EXCEPT ![r].pc = IF IsActive(req[r].user) THEN "rotate" ELSE "deny"]
  /\ UNCHANGED <<tables, clock, history>>

RotateRefreshToken_KeepsParent(r) ==
  /\ At(r, "rotate")
  /\ \E t \in Tokens : Insert(t, req[r].user, req[r].now, req[r].token)
  /\ Finish(r)
  /\ UNCHANGED <<active, revoked, clock, loggedOut, condemned>>

\* UPDATE of the presented token and INSERT of its successor, one commit.
RotateRefreshToken(r) ==
  /\ At(r, "rotate")
  /\ revoked' = revoked \cup {req[r].token}
  /\ \E t \in Tokens : Insert(t, req[r].user, req[r].now, req[r].token)
  /\ Finish(r)
  /\ UNCHANGED <<active, clock, loggedOut, condemned>>

DenyInactive(r) ==
  /\ At(r, "deny")
  /\ revoked' = revoked \cup {req[r].token}
  /\ NoInsert
  /\ Finish(r)
  /\ UNCHANGED <<active, clock, loggedOut, condemned>>

\* The UPDATE of revoke_all_for_user picks its rows when it is executed ...
ExecuteRevokeAll(r) ==
  /\ At(r, "sweep")
  /\ req' = [req EXCEPT ![r].pc = "sweepCommit", ![r].rows = ActiveRows(req[r].user)]
  /\ UNCHANGED <<tables, clock, history>>

\* ... and its effect is there for others when it commits.
CommitRevokeAll(r) ==
  /\ At(r, "sweepCommit")
  /\ revoked' = revoked \cup req[r].rows
  /\ condemned' = condemned \cup seen[r].issued
  /\ NoInsert
  /\ Finish(r)
  /\ UNCHANGED <<active, clock, loggedOut>>

------------------------------------------------------------------------------
(* POST /auth/logout *)

FindForLogout(r, t) ==
  /\ t \in issued \ revoked
  /\ Begin(r, [Idle EXCEPT !.pc = "logout", !.token = t], {})
  /\ UNCHANGED <<tables, clock, parent, loggedOut, condemned>>

RevokeRefreshToken_NotCommitted(r) ==
  /\ At(r, "logout")
  /\ loggedOut' = loggedOut \cup {req[r].token}
  /\ Finish(r)
  /\ UNCHANGED <<tables, clock, parent, condemned>>

RevokeRefreshToken(r) ==
  /\ At(r, "logout")
  /\ revoked' = revoked \cup {req[r].token}
  /\ loggedOut' = loggedOut \cup {req[r].token}
  /\ NoInsert
  /\ Finish(r)
  /\ UNCHANGED <<active, clock, condemned>>

------------------------------------------------------------------------------
(* The environment *)

\* A database error, a dropped connection or the end of the process before
\* the commit: get_session closes the session, which rolls it back.
Abort(r) ==
  /\ ~At(r, "idle")
  /\ Finish(r)
  /\ UNCHANGED <<tables, clock, parent, loggedOut, condemned>>

\* An operator flips users.is_active (no endpoint does).
SetActive(u) ==
  /\ active' = [active EXCEPT ![u] = ~@]
  /\ seen' = [r \in Requests |->
                [seen[r] EXCEPT !.active = @ \/ (req[r].user = u /\ ~active[u])]]
  /\ UNCHANGED <<issued, owner, expires, revoked, clock, req,
                 parent, loggedOut, condemned, contested>>

Tick ==
  /\ clock < MaxClock
  /\ clock' = clock + 1
  /\ UNCHANGED <<tables, req, history>>

------------------------------------------------------------------------------

Arrive(r) ==
  \/ \E u \in Users : AuthenticateUser(r, u)
  \/ \E t \in Tokens : \/ RefreshAccepted(r, t)
                       \/ RefreshReplayed(r, t)
                       \/ FindForLogout(r, t)

\* What the event loop and the database do for a request in flight.
Proceed(r) ==
  \/ IssueRefreshToken(r)
  \/ LoadUser(r)
  \/ RotateRefreshToken(r)
  \/ DenyInactive(r)
  \/ ExecuteRevokeAll(r)
  \/ CommitRevokeAll(r)
  \/ RevokeRefreshToken(r)

Next ==
  \/ \E r \in Requests : Arrive(r) \/ Proceed(r) \/ Abort(r)
  \/ \E u \in Users : SetActive(u)
  \/ Tick

Spec == Init /\ [][Next]_vars

\* Every await completes: the event loop starves no coroutine.
FairSpec == Spec /\ \A r \in Requests : WF_vars(Proceed(r))

------------------------------------------------------------------------------
(* Properties *)

\* The UPDATE and the INSERT of a rotation are one transaction: a token that
\* has a successor is dead, and the successor belongs to the same user,
\* whatever aborts and whatever runs in between.
RotationRetiresParent ==
  \A c \in issued :
    parent[c] # NoToken => parent[c] \in revoked /\ owner[parent[c]] = owner[c]

\* `now` is taken once and used for the expiry check and for the successor's
\* expires_at: a rotation happened strictly before its parent expired, and a
\* chain's expiry never moves backwards.
RotationWithinLifetime ==
  \A c \in issued :
    parent[c] # NoToken => /\ expires[c] < expires[parent[c]] + RefreshTTL
                           /\ expires[parent[c]] <= expires[c]

\* When the answer to a replayed token is sent, every token of that user that
\* existed when the replay was read is dead, also those rotated, revoked or
\* issued by other requests meanwhile.
ReplaySweepsKnown == condemned \subseteq revoked

\* A successor is only created by a request that read its parent before the
\* parent was revoked: a request that starts after a logout, a replay response
\* or an earlier exchange committed never gets one.
ExchangeReadAlive ==
  \A c \in issued' \ issued :
    parent'[c] # NoToken =>
      \E r \in Requests :
        /\ At(r, "rotate") /\ req'[r] = Idle
        /\ req[r].token = parent'[c]
        /\ parent'[c] \notin seen[r].revoked
        /\ Exchanged(parent'[c]) \cap seen[r].issued = {}

NoExchangeAfterRevocation == [][ExchangeReadAlive]_vars

\* A token is only issued to a user who was active at some moment while the
\* request was served: is_active is never staler than the request.
IssuedToActive ==
  \A c \in issued' \ issued :
    \E r \in Requests : /\ ~At(r, "idle") /\ req'[r] = Idle
                        /\ req[r].user = owner'[c]
                        /\ seen[r].active

IssuedWhileActive == [][IssuedToActive]_vars

\* Every request in flight is answered.  Only a model that has run out of
\* tokens to generate may leave one waiting.
EveryRequestAnswered ==
  \A r \in Requests : ~At(r, "idle") ~> (At(r, "idle") \/ issued = Tokens)

\* No lock and no second check keeps two requests from exchanging one token.
\* It takes two that are about it at the same time: a token with two successors
\* was contested, and any other is exchanged at most once, also over a sequence
\* of logins, refreshes, retries and failures.
SingleUseUnlessContested ==
  \A a, b \in issued :
    a # b /\ parent[a] = parent[b] /\ parent[a] # NoToken => parent[a] \in contested

\* After a logout has revoked a token, only a refresh that was under way during
\* that logout can still exchange it.
LogoutFinalUnlessContested ==
  [][\A c \in issued' \ issued :
       parent'[c] \in loggedOut => parent'[c] \in contested]_vars

\* The mass UPDATE misses rows inserted after it picked its own.  A successor of
\* a condemned token that is alive stems from a refresh that was under way
\* during the replay response: every other session of the user is over.
ReplayForcesLoginUnlessContested ==
  \A c \in issued :
    parent[c] \in condemned /\ c \notin revoked => parent[c] \in contested

\* services/auth.py:71 "single-use: the presented token is revoked and a fresh
\* one issued".  The claim without the exception.
SingleUse ==
  \A a, b \in issued : parent[a] # NoToken /\ parent[a] = parent[b] => a = b

\* api/auth.py:71 "Revoke the refresh token so it can never be exchanged
\* again."  The claim without the exception.
LogoutIsFinal ==
  [][\A c \in issued' \ issued : parent'[c] \notin loggedOut]_vars

\* services/auth.py:74-76 "every token for that user is revoked ... force a
\* fresh login": once the replay is answered, what descends from the revoked
\* tokens is dead too.  The claim without the exception.
ReplayForcesLogin ==
  \A c \in issued : parent[c] \in condemned => c \in revoked

------------------------------------------------------------------------------
(* Refinement *)

TokenStatus == [t \in Tokens |-> IF t \notin issued THEN "unissued"
                                 ELSE IF t \in revoked THEN "dead" ELSE "live"]

Ledger ==
  INSTANCE TokenLedger WITH
    status <- TokenStatus,
    holder <- owner,
    origin <- parent

\* The service implements the ledger, requests interleaved in any way.
LedgerSpec == Ledger!Spec
==============================================================================
