------------------------- MODULE RefreshTokens_proof -------------------------
(***************************************************************************)
(* Proofs about RefreshTokens: its types, the inductive invariant that     *)
(* carries its safety properties, and that it implements TokenLedger.      *)
(***************************************************************************)
EXTENDS RefreshTokens, TLAPS

------------------------------------------------------------------------------
(* The inductive invariant *)

\* A token is valid for RefreshTTL from some moment that has passed.
ExpiryBounded == \A t \in issued : expires[t] <= clock + RefreshTTL

ParentIssued == \A c \in issued : parent[c] # NoToken => parent[c] \in issued

\* A login past its password check, whose user has been active meanwhile.
LoginOK(r) ==
  At(r, "issue") => /\ req[r].user \in Users
                    /\ req[r].now <= clock
                    /\ seen[r].active

\* A refresh past its checks: it holds a row that was neither revoked nor
\* exchanged nor expired when it was read.
RefreshOK(r) ==
  req[r].pc \in {"loadUser", "rotate", "deny"} =>
    /\ req[r].token \in issued
    /\ req[r].user = owner[req[r].token]
    /\ req[r].now <= clock
    /\ req[r].now < expires[req[r].token]
    /\ expires[req[r].token] <= req[r].now + RefreshTTL
    /\ req[r].token \notin seen[r].revoked
    /\ Exchanged(req[r].token) \cap seen[r].issued = {}
    /\ At(r, "loadUser") /\ active[req[r].user] => seen[r].active
    /\ At(r, "rotate") => seen[r].active

\* A replay response: what it was to revoke is among the rows it has picked or
\* dead already.
ReplayOK(r) ==
  /\ req[r].pc \in {"sweep", "sweepCommit"} =>
       req[r].user \in Users /\ seen[r].issued \subseteq Rows(req[r].user)
  /\ At(r, "sweepCommit") =>
       /\ req[r].rows \subseteq Rows(req[r].user)
       /\ seen[r].issued \subseteq req[r].rows \cup revoked

LogoutOK(r) == At(r, "logout") => req[r].token \in issued

LocalOK(r) ==
  /\ seen[r].issued \subseteq issued
  /\ LoginOK(r) /\ RefreshOK(r) /\ ReplayOK(r) /\ LogoutOK(r)

RequestOK == \A r \in Requests : LocalOK(r)

IInv ==
  /\ TypeOK
  /\ ExpiryBounded
  /\ ParentIssued
  /\ RotationRetiresParent
  /\ RotationWithinLifetime
  /\ ReplaySweepsKnown
  /\ RequestOK

\* The service starts with empty tables and no request.
LEMMA InitIInv == Init => IInv
<1> SUFFICES ASSUME Init PROVE IInv
  OBVIOUS
<1> USE TTLAssumption DEF Init
<1>1. TypeOK
  BY DEF TypeOK, Request, Stage, View, Idle, NoView
<1>2. RequestOK
  BY DEF RequestOK, LocalOK, LoginOK, RefreshOK, ReplayOK, LogoutOK, At, Idle, NoView
<1>3. ExpiryBounded /\ ParentIssued /\ RotationRetiresParent
      /\ RotationWithinLifetime /\ ReplaySweepsKnown
  BY DEF ExpiryBounded, ParentIssued, RotationRetiresParent,
         RotationWithinLifetime, ReplaySweepsKnown
<1>4. QED
  BY <1>1, <1>2, <1>3 DEF IInv

------------------------------------------------------------------------------
(* What an action leaves alone *)

\* The tables only grow: rows are added, a row's user, expiry and parent never
\* change, and revoked_at is never cleared.
Grows ==
  /\ issued \subseteq issued'
  /\ revoked \subseteq revoked'
  /\ clock <= clock'
  /\ \A t \in issued : /\ owner'[t] = owner[t]
                       /\ expires'[t] = expires[t]
                       /\ parent'[t] = parent[t]

\* What is known of a request survives the steps of the others.
LEMMA OtherRequest ==
  ASSUME TypeOK, RequestOK, Grows, clock' \in Nat, UNCHANGED active,
         NEW q \in Requests, req'[q] = req[q], seen'[q] = seen[q]
  PROVE  LocalOK(q)'
<1> USE DEF Grows, At
<1> LocalOK(q)
  BY DEF RequestOK
<1> req[q] \in Request
  BY DEF TypeOK
<1>1. seen'[q].issued \subseteq issued'
  BY DEF LocalOK
<1>2. LoginOK(q)'
  BY DEF LocalOK, LoginOK, TypeOK, Request
<1>3. RefreshOK(q)'
  <2> SUFFICES ASSUME req[q].pc \in {"loadUser", "rotate", "deny"}
               PROVE  RefreshOK(q)'
    BY DEF RefreshOK
  <2>1. RefreshOK(q)
    BY DEF LocalOK
  <2>2. req[q].token \in issued /\ req[q].token \in Tokens /\ req[q].now \in Nat
    BY <2>1 DEF RefreshOK, TypeOK, Request
  <2>3. (Exchanged(req[q].token) \cap seen[q].issued)' = {}
    BY <2>1, <2>2 DEF RefreshOK, Exchanged, LocalOK
  <2>4. QED
    BY <2>1, <2>2, <2>3 DEF RefreshOK, TypeOK
<1>4. ReplayOK(q)'
  BY DEF LocalOK, ReplayOK, Rows
<1>5. LogoutOK(q)'
  BY DEF LocalOK, LogoutOK
<1>6. QED
  BY <1>1, <1>2, <1>3, <1>4, <1>5 DEF LocalOK

\* A request that is idle has nothing to keep.
LEMMA IdleRequest ==
  ASSUME NEW q \in Requests, req'[q] = Idle, seen'[q] = NoView
  PROVE  LocalOK(q)'
BY DEF LocalOK, LoginOK, RefreshOK, ReplayOK, LogoutOK, At, Idle, NoView

\* A step of request r touches no other request.
OnlyRequest(r) ==
  \A q \in Requests \ {r} : req'[q] = req[q] /\ seen'[q] = seen[q]

\* A step that leaves the users alone keeps RequestOK when it keeps it for the
\* request that takes it.
LEMMA OneRequest ==
  ASSUME TypeOK, RequestOK, Grows, clock' \in Nat, UNCHANGED active,
         NEW r \in Requests, OnlyRequest(r), LocalOK(r)'
  PROVE  RequestOK'
<1> SUFFICES ASSUME NEW q \in Requests PROVE LocalOK(q)'
  BY DEF RequestOK
<1>1. CASE q = r
  BY <1>1
<1>2. CASE q # r
  BY <1>2, OtherRequest DEF OnlyRequest
<1>3. QED
  BY <1>1, <1>2

\* A step that ends a request keeps RequestOK.
LEMMA FinishedRequest ==
  ASSUME TypeOK, RequestOK, Grows, clock' \in Nat, UNCHANGED active,
         NEW r \in Requests, Finish(r)
  PROVE  RequestOK'
<1>1. req'[r] = Idle /\ seen'[r] = NoView /\ OnlyRequest(r)
  BY DEF Finish, TypeOK, OnlyRequest
<1>2. LocalOK(r)'
  BY <1>1, IdleRequest
<1>3. QED
  BY <1>1, <1>2, OneRequest

------------------------------------------------------------------------------
(* What an action does to the tables *)

TablesOK ==
  ExpiryBounded /\ ParentIssued /\ RotationRetiresParent /\ RotationWithinLifetime

\* Revoking more and letting time pass disturbs no row.
LEMMA RevokeKeepsTables ==
  ASSUME TypeOK, TablesOK, NoInsert, revoked \subseteq revoked',
         clock' \in Nat, clock <= clock'
  PROVE  TablesOK' /\ Grows
<1>1. Grows
  BY DEF Grows, NoInsert
<1>2. ExpiryBounded'
  BY TTLAssumption DEF TypeOK, TablesOK, ExpiryBounded, NoInsert
<1>3. (ParentIssued /\ RotationRetiresParent /\ RotationWithinLifetime)'
  BY DEF TablesOK, ParentIssued, RotationRetiresParent, RotationWithinLifetime, NoInsert
<1>4. QED
  BY <1>1, <1>2, <1>3 DEF TablesOK

\* A row inserted for the holder of a live-when-read token, or for a login.
LEMMA InsertKeepsTables ==
  ASSUME TypeOK, TablesOK, NEW t, NEW u \in Users, NEW now \in Nat, now <= clock,
         NEW from \in Tokens \cup {NoToken}, Insert(t, u, now, from),
         revoked \subseteq revoked', clock' = clock,
         from # NoToken => /\ from \in issued
                           /\ from \in revoked'
                           /\ owner[from] = u
                           /\ now < expires[from]
                           /\ expires[from] <= now + RefreshTTL
  PROVE  TablesOK' /\ Grows
<1> USE TTLAssumption DEF Insert, TypeOK
<1>1. /\ issued' = issued \cup {t}
      /\ owner'[t] = u /\ expires'[t] = now + RefreshTTL /\ parent'[t] = from
      /\ \A c \in issued : /\ owner'[c] = owner[c]
                           /\ expires'[c] = expires[c]
                           /\ parent'[c] = parent[c]
  OBVIOUS
<1>2. Grows
  BY <1>1 DEF Grows
<1>3. ExpiryBounded'
  BY <1>1 DEF TablesOK, ExpiryBounded
<1>4. ParentIssued'
  BY <1>1 DEF TablesOK, ParentIssued
<1>5. RotationRetiresParent'
  BY <1>1 DEF TablesOK, ParentIssued, RotationRetiresParent
<1>6. RotationWithinLifetime'
  BY <1>1 DEF TablesOK, ParentIssued, RotationWithinLifetime
<1>7. QED
  BY <1>2, <1>3, <1>4, <1>5, <1>6 DEF TablesOK

------------------------------------------------------------------------------
(* Every step preserves the invariant *)

\* A first read puts a request in the state its handler's checks established.
LEMMA ArrivePreserves ==
  ASSUME IInv, NEW r \in Requests, Arrive(r) PROVE IInv'
<1> USE DEF IInv
<1> SUFFICES ASSUME NEW local \in Request, NEW about, Begin(r, local, about),
                    UNCHANGED <<tables, clock, parent, loggedOut, condemned>>,
                    LocalOK(r)'
             PROVE  IInv'
  <2>1. ASSUME NEW u \in Users, AuthenticateUser(r, u) PROVE IInv'
    <3> DEFINE local == [Idle EXCEPT !.pc = "issue", !.user = u, !.now = clock]
    <3>1. local \in Request /\ clock \in Nat
      BY DEF Request, Stage, Idle, TypeOK
    <3>2. LocalOK(r)'
      BY <2>1, <3>1 DEF AuthenticateUser, Begin, LocalOK, LoginOK, RefreshOK, ReplayOK,
                        LogoutOK, At, Idle, tables, TypeOK, IsActive, Rows, Exchanged
    <3>3. QED
      BY <2>1, <3>1, <3>2 DEF AuthenticateUser
  <2>2. ASSUME NEW t \in Tokens, RefreshAccepted(r, t) PROVE IInv'
    <3> DEFINE local == [Idle EXCEPT !.pc = "loadUser", !.user = owner[t],
                                     !.token = t, !.now = clock]
    <3>1. local \in Request /\ clock \in Nat
      BY <2>2 DEF RefreshAccepted, Request, Stage, Idle, TypeOK
    <3>2. Exchanged(t) = {}
      BY <2>2, NullAssumption DEF RefreshAccepted, NotRevoked, Exchanged, RotationRetiresParent
    <3>3. /\ req'[r] = local /\ UNCHANGED <<tables, clock, parent>>
          /\ seen'[r] = [issued |-> issued \cap {t}, revoked |-> revoked \cap {t},
                         active |-> active[owner[t]]]
      BY <2>2, <3>2 DEF RefreshAccepted, Begin, TypeOK, Idle
    <3>4. RefreshOK(r)'
      BY <2>2, <3>1, <3>2, <3>3, TTLAssumption DEF RefreshAccepted, RefreshOK, NotRevoked,
         Unexpired, At, Idle, ExpiryBounded, Exchanged, tables, TypeOK
    <3>5. LocalOK(r)'
      BY <3>3, <3>4 DEF LocalOK, LoginOK, ReplayOK, LogoutOK, At, Idle, tables
    <3>6. QED
      BY <2>2, <3>1, <3>5 DEF RefreshAccepted
  <2>3. ASSUME NEW t \in Tokens, RefreshReplayed(r, t) PROVE IInv'
    <3> DEFINE local == [Idle EXCEPT !.pc = "sweep", !.user = owner[t], !.token = t]
    <3>1. local \in Request /\ owner[t] \in Users
      BY <2>3 DEF RefreshReplayed, Request, Stage, Idle, TypeOK
    <3>2. LocalOK(r)'
      BY <2>3, <3>1 DEF RefreshReplayed, Begin, LocalOK, LoginOK, RefreshOK, ReplayOK,
                        LogoutOK, At, Idle, tables, TypeOK, Rows
    <3>3. QED
      BY <2>3, <3>1, <3>2 DEF RefreshReplayed
  <2>4. ASSUME NEW t \in Tokens, FindForLogout(r, t) PROVE IInv'
    <3> DEFINE local == [Idle EXCEPT !.pc = "logout", !.token = t]
    <3>1. local \in Request
      BY DEF Request, Stage, Idle
    <3>2. LocalOK(r)'
      BY <2>4 DEF FindForLogout, Begin, LocalOK, LoginOK, RefreshOK, ReplayOK,
                  LogoutOK, At, Idle, tables, TypeOK
    <3>3. QED
      BY <2>4, <3>1, <3>2 DEF FindForLogout
  <2>5. QED
    BY <2>1, <2>2, <2>3, <2>4 DEF Arrive
<1>1. TypeOK'
  BY DEF TypeOK, Begin, View, tables, Contested
<1>2. TablesOK' /\ ReplaySweepsKnown' /\ Grows /\ clock' \in Nat
  BY DEF TablesOK, ExpiryBounded, ParentIssued, RotationRetiresParent,
         RotationWithinLifetime, ReplaySweepsKnown, Grows, tables, TypeOK
<1>3. OnlyRequest(r)
  BY DEF Begin, OnlyRequest, TypeOK
<1>4. RequestOK'
  BY <1>2, <1>3, OneRequest DEF tables
<1>5. QED
  BY <1>1, <1>2, <1>4 DEF TablesOK

\* A step that ends request r, having revoked the tokens S and inserted no row.
LEMMA RevokingStep ==
  ASSUME IInv, NEW r \in Requests, Finish(r), NoInsert, UNCHANGED <<active, clock>>,
         NEW S \in SUBSET issued, revoked' = revoked \cup S,
         loggedOut' \subseteq Tokens, condemned' \subseteq revoked'
  PROVE  IInv'
<1> USE DEF IInv
<1>1. TypeOK'
  BY DEF TypeOK, Finish, NoInsert, Request, Stage, Idle, View, NoView
<1>2. TablesOK' /\ Grows /\ clock' \in Nat
  BY RevokeKeepsTables DEF TypeOK, TablesOK
<1>3. RequestOK'
  BY <1>2, FinishedRequest
<1>4. QED
  BY <1>1, <1>2, <1>3 DEF TablesOK, ReplaySweepsKnown

\* A step that ends request r, having inserted the row of a new token.
LEMMA InsertingStep ==
  ASSUME IInv, NEW r \in Requests, Finish(r), UNCHANGED <<active, clock, loggedOut, condemned>>,
         NEW t, NEW u \in Users, NEW now \in Nat, now <= clock,
         NEW from \in Tokens \cup {NoToken}, Insert(t, u, now, from),
         NEW S \in SUBSET issued, revoked' = revoked \cup S,
         from # NoToken => /\ from \in S
                           /\ owner[from] = u
                           /\ now < expires[from]
                           /\ expires[from] <= now + RefreshTTL
  PROVE  IInv'
<1> USE DEF IInv
<1>1. TypeOK'
  <2>1. /\ owner' \in [Tokens -> Users \cup {NoUser}]
        /\ expires' \in [Tokens -> Nat]
        /\ parent' \in [Tokens -> Tokens \cup {NoToken}]
    BY TTLAssumption DEF TypeOK, Insert
  <2>2. issued' \subseteq Tokens /\ revoked' \subseteq issued'
        /\ contested' \subseteq issued'
        /\ \A c \in issued' : owner'[c] \in Users
    BY DEF TypeOK, Insert, Finish
  <2>3. req' \in [Requests -> Request] /\ seen' \in [Requests -> View]
    BY DEF TypeOK, Finish, Request, Stage, Idle, View, NoView
  <2>4. QED
    BY <2>1, <2>2, <2>3 DEF TypeOK
<1>2. TablesOK' /\ Grows
  <2>1. from # NoToken => from \in issued /\ from \in revoked'
    OBVIOUS
  <2>2. QED
    BY <2>1, InsertKeepsTables DEF TablesOK
<1>3. RequestOK'
  BY <1>2, FinishedRequest DEF TypeOK
<1>4. QED
  BY <1>1, <1>2, <1>3 DEF TablesOK, ReplaySweepsKnown

\* So do the later reads and the commits of each handler.
LEMMA ProceedPreserves ==
  ASSUME IInv, NEW r \in Requests, Proceed(r) PROVE IInv'
<1> USE DEF IInv
<1> req[r] \in Request /\ LocalOK(r) /\ clock \in Nat
  BY DEF TypeOK, RequestOK
<1>1. CASE IssueRefreshToken(r)
  <2>1. PICK t \in Tokens, now \in req[r].now .. clock : Insert(t, req[r].user, now, NoToken)
    BY <1>1 DEF IssueRefreshToken
  <2>2. req[r].user \in Users /\ now \in Nat /\ now <= clock
    BY <1>1 DEF IssueRefreshToken, LocalOK, LoginOK, Request
  <2>3. revoked' = revoked \cup {} /\ {} \in SUBSET issued
    BY <1>1 DEF IssueRefreshToken
  <2>4. Finish(r) /\ UNCHANGED <<active, clock, loggedOut, condemned>>
    BY <1>1 DEF IssueRefreshToken
  <2>5. NoToken \in Tokens \cup {NoToken}
    OBVIOUS
  <2>6. QED
    BY <2>1, <2>2, <2>3, <2>4, <2>5, InsertingStep
<1>2. CASE LoadUser(r)
  <2> DEFINE stage == IF active[req[r].user] THEN "rotate" ELSE "deny"
  <2>1. /\ req' = [req EXCEPT ![r].pc = stage] /\ stage \in Stage
        /\ UNCHANGED <<tables, clock, history>>
    BY <1>2 DEF LoadUser, IsActive, Stage
  <2>2. TypeOK'
    BY <2>1 DEF TypeOK, Request, tables, history
  <2>3. TablesOK' /\ ReplaySweepsKnown' /\ Grows
    BY <2>1 DEF TablesOK, ExpiryBounded, ParentIssued, RotationRetiresParent,
       RotationWithinLifetime, ReplaySweepsKnown, Grows, tables, history, TypeOK
  <2>4. RefreshOK(r)
    BY DEF LocalOK
  <2>5. req'[r] = [req[r] EXCEPT !.pc = stage] /\ seen' = seen
    BY <2>1 DEF TypeOK, history
  <2>6. RefreshOK(r)'
    BY <1>2, <2>1, <2>4, <2>5
       DEF LoadUser, RefreshOK, At, Request, Exchanged, tables, history
  <2>7. LocalOK(r)'
    BY <2>1, <2>5, <2>6
       DEF LocalOK, LoginOK, ReplayOK, LogoutOK, At, tables, history, Request
  <2>8. OnlyRequest(r)
    BY <2>1, <2>5 DEF OnlyRequest, TypeOK
  <2>9. RequestOK'
    BY <2>1, <2>3, <2>7, <2>8, OneRequest DEF tables
  <2>10. QED
    BY <2>2, <2>3, <2>9 DEF TablesOK
<1>3. CASE RotateRefreshToken(r)
  <2> DEFINE p == req[r].token
  <2>1. /\ p \in issued /\ req[r].now \in Nat /\ req[r].now <= clock
        /\ req[r].user = owner[p]
        /\ req[r].now < expires[p] /\ expires[p] <= req[r].now + RefreshTTL
    BY <1>3 DEF RotateRefreshToken, At, LocalOK, RefreshOK, Request
  <2>2. req[r].user \in Users /\ p \in Tokens
    BY <2>1 DEF TypeOK
  <2>3. PICK t \in Tokens : Insert(t, req[r].user, req[r].now, p)
    BY <1>3 DEF RotateRefreshToken
  <2>4. revoked' = revoked \cup {p} /\ {p} \in SUBSET issued
    BY <1>3, <2>1 DEF RotateRefreshToken
  <2>5. QED
    BY <1>3, <2>1, <2>2, <2>3, <2>4, InsertingStep DEF RotateRefreshToken
<1>4. CASE DenyInactive(r)
  <2>1. req[r].token \in issued
    BY <1>4 DEF DenyInactive, At, LocalOK, RefreshOK
  <2>2. QED
    BY <1>4, <2>1, RevokingStep DEF DenyInactive, TypeOK, ReplaySweepsKnown
<1>5. CASE ExecuteRevokeAll(r)
  <2> DEFINE rows == ActiveRows(req[r].user)
  <2>1. /\ req' = [req EXCEPT ![r].pc = "sweepCommit", ![r].rows = rows]
        /\ rows \subseteq Tokens
        /\ UNCHANGED <<tables, clock, history>>
    BY <1>5 DEF ExecuteRevokeAll, ActiveRows, Rows, TypeOK
  <2>2. TypeOK'
    BY <2>1 DEF TypeOK, Request, Stage, tables, history
  <2>3. TablesOK' /\ ReplaySweepsKnown' /\ Grows
    BY <2>1 DEF TablesOK, ExpiryBounded, ParentIssued, RotationRetiresParent,
       RotationWithinLifetime, ReplaySweepsKnown, Grows, tables, history, TypeOK
  <2>4. req'[r] = [req[r] EXCEPT !.pc = "sweepCommit", !.rows = rows] /\ seen' = seen
    BY <2>1 DEF TypeOK, history
  <2>5. ReplayOK(r)
    BY DEF LocalOK
  <2>6. req[r].user \in Users /\ seen[r].issued \subseteq Rows(req[r].user)
    BY <1>5, <2>5 DEF ExecuteRevokeAll, At, ReplayOK
  <2>7. /\ req'[r].pc = "sweepCommit" /\ req'[r].user = req[r].user
        /\ req'[r].rows = Rows(req[r].user) \ revoked
    BY <2>4 DEF Request, ActiveRows
  <2>8. ReplayOK(r)'
    BY <2>1, <2>4, <2>6, <2>7 DEF ReplayOK, At, Rows, tables
  <2>9. LocalOK(r)'
    BY <2>1, <2>4, <2>7, <2>8
       DEF LocalOK, LoginOK, RefreshOK, LogoutOK, At, tables
  <2>10. OnlyRequest(r)
    BY <2>1, <2>4 DEF OnlyRequest, TypeOK
  <2>11. RequestOK'
    BY <2>1, <2>3, <2>9, <2>10, OneRequest DEF tables
  <2>12. QED
    BY <2>2, <2>3, <2>11 DEF TablesOK
<1>6. CASE CommitRevokeAll(r)
  <2>1. ReplayOK(r)
    BY DEF LocalOK
  <2>2. req[r].rows \in SUBSET issued /\ seen[r].issued \subseteq req[r].rows \cup revoked
    BY <1>6, <2>1 DEF CommitRevokeAll, ReplayOK, At, Rows
  <2>3. QED
    BY <1>6, <2>2, RevokingStep DEF CommitRevokeAll, TypeOK, ReplaySweepsKnown
<1>7. CASE RevokeRefreshToken(r)
  <2>1. req[r].token \in issued
    BY <1>7 DEF RevokeRefreshToken, LocalOK, LogoutOK
  <2>2. /\ {req[r].token} \in SUBSET issued
        /\ loggedOut' \subseteq Tokens /\ condemned' \subseteq revoked'
    BY <1>7, <2>1 DEF RevokeRefreshToken, TypeOK, ReplaySweepsKnown
  <2>3. QED
    BY <1>7, <2>2, RevokingStep DEF RevokeRefreshToken
<1>8. QED
  BY <1>1, <1>2, <1>3, <1>4, <1>5, <1>6, <1>7 DEF Proceed

\* A rolled-back request leaves nothing behind.
LEMMA AbortPreserves ==
  ASSUME IInv, NEW r \in Requests, Abort(r) PROVE IInv'
<1>1. NoInsert /\ {} \in SUBSET issued /\ revoked' = revoked \cup {}
  BY DEF Abort, NoInsert, tables
<1>2. QED
  BY <1>1, RevokingStep DEF Abort, tables, IInv, TypeOK, ReplaySweepsKnown

\* Switching a user on or off only concerns what requests know of users.
LEMMA SetActivePreserves ==
  ASSUME IInv, NEW u \in Users, SetActive(u) PROVE IInv'
<1> USE DEF IInv, SetActive
<1>1. TypeOK'
  BY DEF TypeOK, View
<1>2. TablesOK' /\ ReplaySweepsKnown'
  BY DEF TablesOK, ExpiryBounded, ParentIssued, RotationRetiresParent,
         RotationWithinLifetime, ReplaySweepsKnown
<1>3. ASSUME NEW r \in Requests PROVE LocalOK(r)'
  <2>1. LocalOK(r) /\ seen[r] \in View /\ req[r] \in Request
    BY DEF RequestOK, TypeOK
  <2>2. /\ seen'[r].issued = seen[r].issued
        /\ seen'[r].revoked = seen[r].revoked
        /\ seen'[r].active = (seen[r].active \/ (req[r].user = u /\ ~active[u]))
    BY <2>1 DEF View
  <2>3. \A v \in Users : v # u => active'[v] = active[v]
    BY DEF TypeOK
  <2>4. req[r].token \in issued => owner[req[r].token] \in Users
    BY DEF TypeOK
  <2>5. RefreshOK(r)'
    <3> SUFFICES ASSUME req[r].pc \in {"loadUser", "rotate", "deny"}
                 PROVE  RefreshOK(r)'
      BY DEF RefreshOK
    <3>1. RefreshOK(r) /\ req[r].user \in Users
      BY <2>1, <2>4 DEF LocalOK, RefreshOK
    <3>2. (At(r, "loadUser") /\ active[req[r].user] => seen[r].active)'
      BY <2>2, <2>3, <3>1 DEF RefreshOK, At, TypeOK
    <3>3. (At(r, "rotate") => seen[r].active)'
      BY <2>2, <3>1 DEF RefreshOK, At
    <3>4. QED
      BY <2>2, <3>1, <3>2, <3>3 DEF RefreshOK, At, Exchanged
  <2>6. (LoginOK(r) /\ ReplayOK(r) /\ LogoutOK(r))'
    BY <2>1, <2>2 DEF LocalOK, LoginOK, ReplayOK, LogoutOK, At, Rows
  <2>7. QED
    BY <2>1, <2>2, <2>5, <2>6 DEF LocalOK
<1>4. QED
  BY <1>1, <1>2, <1>3 DEF TablesOK, RequestOK

\* Time passing breaks nothing a request has checked.
LEMMA TickPreserves ==
  ASSUME IInv, Tick PROVE IInv'
<1> USE DEF IInv
<1>1. NoInsert /\ revoked \subseteq revoked'
  BY DEF Tick, tables, history, NoInsert
<1> clock' \in Nat /\ clock <= clock'
  BY DEF Tick, TypeOK
<1>2. TypeOK'
  BY <1>1 DEF Tick, tables, history, TypeOK
<1>3. TablesOK' /\ Grows
  BY <1>1, RevokeKeepsTables DEF TablesOK
<1>4. RequestOK'
  <2> SUFFICES ASSUME NEW q \in Requests PROVE LocalOK(q)'
    BY DEF RequestOK
  <2>1. QED
    BY <1>1, <1>3, OtherRequest DEF Tick, tables, history
<1>5. QED
  BY <1>2, <1>3, <1>4 DEF TablesOK, ReplaySweepsKnown, Tick, tables, history

\* Nor do the answers that change nothing.
LEMMA StutterPreserves ==
  ASSUME IInv, UNCHANGED vars PROVE IInv'
BY DEF IInv, TypeOK, ExpiryBounded, ParentIssued, RotationRetiresParent,
       RotationWithinLifetime, ReplaySweepsKnown, RequestOK, LocalOK, LoginOK, RefreshOK,
       ReplayOK, LogoutOK, At, Rows, Exchanged, vars, tables, history

\* IInv is inductive.
LEMMA NextPreserves == IInv /\ [Next]_vars => IInv'
BY ArrivePreserves, ProceedPreserves, AbortPreserves, SetActivePreserves, TickPreserves,
   StutterPreserves DEF Next

\* The inductive invariant holds of every state of the service, whatever the
\* number of users, tokens and concurrent requests.
THEOREM Invariance == Spec => []IInv
BY InitIInv, NextPreserves, PTL DEF Spec

------------------------------------------------------------------------------
(* The safety properties *)

\* Every reachable state is well typed: revoked rows exist, every row has a
\* user, and a request holds what its stage needs.
THEOREM TypeCorrect == Spec => []TypeOK
BY Invariance, PTL DEF IInv

\* However requests interleave and abort, the token a rotation exchanged is
\* dead and its successor belongs to the same user.
THEOREM RotationRetires == Spec => []RotationRetiresParent
BY Invariance, PTL DEF IInv

\* No token is exchanged once it has expired, and a chain of rotations never
\* moves its expiry backwards.
THEOREM RotationIsTimely == Spec => []RotationWithinLifetime
BY Invariance, PTL DEF IInv

\* When a replay is answered, every token its user had when the replay was
\* read is dead, whatever other requests did in between.
THEOREM ReplaySweeps == Spec => []ReplaySweepsKnown
BY Invariance, PTL DEF IInv

\* Only a login and a rotation insert rows, one each.
LEMMA WhoInserts ==
  ASSUME IInv, Next, NEW c \in issued' \ issued
  PROVE  \E r \in Requests :
           /\ IssueRefreshToken(r) \/ RotateRefreshToken(r)
           /\ req'[r] = Idle
           /\ owner'[c] = req[r].user
           /\ parent'[c] = IF At(r, "rotate") THEN req[r].token ELSE NoToken
<1> USE DEF IInv
<1>1. ASSUME NEW r \in Requests, Arrive(r) \/ Abort(r) \/ LoadUser(r) \/ DenyInactive(r)
                    \/ ExecuteRevokeAll(r) \/ CommitRevokeAll(r) \/ RevokeRefreshToken(r)
      PROVE  FALSE
  BY <1>1 DEF Arrive, AuthenticateUser, RefreshAccepted, RefreshReplayed, FindForLogout,
     Abort, LoadUser, DenyInactive, ExecuteRevokeAll, CommitRevokeAll, RevokeRefreshToken,
     tables, NoInsert
<1>2. ASSUME Tick \/ \E u \in Users : SetActive(u) PROVE FALSE
  BY <1>2 DEF Tick, SetActive, tables
<1>3. PICK r \in Requests : IssueRefreshToken(r) \/ RotateRefreshToken(r)
  BY <1>1, <1>2 DEF Next, Proceed
<1>4. req'[r] = Idle
  BY <1>3 DEF IssueRefreshToken, RotateRefreshToken, Finish, TypeOK
<1>5. owner'[c] = req[r].user /\ parent'[c] = IF At(r, "rotate") THEN req[r].token ELSE NoToken
  <2>1. CASE IssueRefreshToken(r)
    <3>1. PICK t \in Tokens, now \in req[r].now .. clock :
             Insert(t, req[r].user, now, NoToken)
      BY <2>1 DEF IssueRefreshToken
    <3>2. c = t /\ owner'[c] = req[r].user /\ parent'[c] = NoToken
      BY <3>1 DEF Insert, TypeOK
    <3>3. QED
      BY <2>1, <3>2 DEF IssueRefreshToken, At
  <2>2. CASE RotateRefreshToken(r)
    <3>1. PICK t \in Tokens : Insert(t, req[r].user, req[r].now, req[r].token)
      BY <2>2 DEF RotateRefreshToken
    <3>2. c = t /\ owner'[c] = req[r].user /\ parent'[c] = req[r].token
      BY <3>1 DEF Insert, TypeOK
    <3>3. QED
      BY <2>2, <3>2 DEF RotateRefreshToken
  <2>3. QED
    BY <1>3, <2>1, <2>2
<1>6. QED
  BY <1>3, <1>4, <1>5

\* No request that starts after a token was revoked or exchanged gets a
\* successor of it.
THEOREM NoLateExchange == Spec => NoExchangeAfterRevocation
<1>1. IInv /\ [Next]_vars => [ExchangeReadAlive]_vars
  <2> SUFFICES ASSUME IInv, Next, NEW c \in issued' \ issued, parent'[c] # NoToken
               PROVE  \E r \in Requests :
                        /\ At(r, "rotate") /\ req'[r] = Idle
                        /\ req[r].token = parent'[c]
                        /\ parent'[c] \notin seen[r].revoked
                        /\ Exchanged(parent'[c]) \cap seen[r].issued = {}
    BY DEF ExchangeReadAlive
  <2>1. PICK r \in Requests : /\ req'[r] = Idle /\ At(r, "rotate")
                              /\ parent'[c] = req[r].token
    BY WhoInserts
  <2>2. RefreshOK(r)
    BY DEF IInv, RequestOK, LocalOK
  <2>3. QED
    BY <2>1, <2>2 DEF RefreshOK, At
<1>2. QED
  BY <1>1, Invariance, PTL DEF Spec, NoExchangeAfterRevocation

\* No token goes to a user who was inactive all the time the request took.
THEOREM NoTokenForInactive == Spec => IssuedWhileActive
<1>1. IInv /\ [Next]_vars => [IssuedToActive]_vars
  <2> SUFFICES ASSUME IInv, Next, NEW c \in issued' \ issued
               PROVE  \E r \in Requests : /\ ~At(r, "idle") /\ req'[r] = Idle
                                          /\ req[r].user = owner'[c]
                                          /\ seen[r].active
    BY DEF IssuedToActive
  <2>1. PICK r \in Requests : /\ IssueRefreshToken(r) \/ RotateRefreshToken(r)
                              /\ req'[r] = Idle /\ owner'[c] = req[r].user
    BY WhoInserts
  <2>2. At(r, "issue") \/ At(r, "rotate")
    BY <2>1 DEF IssueRefreshToken, RotateRefreshToken
  <2>3. LoginOK(r) /\ RefreshOK(r)
    BY DEF IInv, RequestOK, LocalOK
  <2>4. QED
    BY <2>1, <2>2, <2>3 DEF LoginOK, RefreshOK, At
<1>2. QED
  BY <1>1, Invariance, PTL DEF Spec, IssuedWhileActive

------------------------------------------------------------------------------
(* Contested tokens *)

\* A request about to exchange a token that has died meanwhile shares it with
\* the request that revoked it.
ExchangeContested ==
  \A r \in Requests, p \in issued :
    Exchanging(req[r], p) => p \notin revoked \/ p \in contested

\* So does one that adds a successor behind the back of a replay response.
ReplayContested ==
  \A r \in Requests, c \in issued :
    /\ req[r].pc \in {"sweep", "sweepCommit"}
    /\ parent[c] \in seen[r].issued
    /\ c \notin seen[r].issued
    => parent[c] \in contested

ContestInv ==
  /\ Contested(req) \subseteq contested
  /\ ExchangeContested
  /\ ReplayContested
  /\ loggedOut \subseteq revoked
  /\ SingleUseUnlessContested
  /\ ReplayForcesLoginUnlessContested

\* At first there is nothing to contest.
LEMMA InitContest == Init => ContestInv
BY DEF Init, ContestInv, Contested, ExchangeContested, ReplayContested,
       SingleUseUnlessContested, ReplayForcesLoginUnlessContested

\* No request becomes interested in a token it was not interested in.
NoNewInterest ==
  \A q \in Requests :
    /\ \A p \in issued' : Exchanging(req'[q], p) => p \in issued /\ Exchanging(req[q], p)
    /\ \A p \in issued : Revoking(req[q], p)' => Revoking(req[q], p)

\* Then no token becomes contested.
LEMMA NoNewContest ==
  ASSUME Contested(req) \subseteq contested, NoNewInterest, UNCHANGED contested
  PROVE  Contested(req)' \subseteq contested'
BY DEF Contested, NoNewInterest, Exchanging

\* A step that changes none of the rows.
LEMMA QuietContest ==
  ASSUME ContestInv, NoNewInterest,
         UNCHANGED <<issued, owner, revoked, parent, loggedOut, condemned, contested>>,
         \A q \in Requests : req'[q].pc \in {"sweep", "sweepCommit"} =>
           req[q].pc \in {"sweep", "sweepCommit"} /\ seen'[q].issued = seen[q].issued
  PROVE  ContestInv'
<1> USE DEF ContestInv
<1>1. Contested(req)' \subseteq contested'
  BY NoNewContest
<1>2. ExchangeContested' /\ ReplayContested'
  BY DEF ExchangeContested, ReplayContested, NoNewInterest, Exchanging
<1>3. (SingleUseUnlessContested /\ ReplayForcesLoginUnlessContested)'
  BY DEF SingleUseUnlessContested, ReplayForcesLoginUnlessContested
<1>4. QED
  BY <1>1, <1>2, <1>3

\* A request that has returned is interested in nothing.
LEMMA FinishedInterest ==
  ASSUME IInv, NEW r \in Requests, Finish(r), Grows,
         \A t \in issued' \ issued : \A q \in Requests \ {r} : ~Exchanging(req[q], t)
  PROVE  /\ NoNewInterest
         /\ \A q \in Requests :
              req'[q].pc \in {"sweep", "sweepCommit"} => q # r /\ UNCHANGED <<req[q], seen[q]>>
         /\ \A q \in Requests, p \in issued' : Exchanging(req'[q], p) => q # r
<1>1. /\ req'[r] = Idle
      /\ \A q \in Requests \ {r} : UNCHANGED <<req[q], seen[q]>>
  BY DEF Finish, IInv, TypeOK
<1>2. QED
  BY <1>1 DEF Grows, NoNewInterest, Exchanging, Revoking, Idle

\* The interest of a request that is going to revoke tokens makes them contested.
LEMMA SharedInterest ==
  ASSUME ContestInv, NEW q \in Requests, NEW r \in Requests, q # r, NEW p \in issued,
         Exchanging(req[q], p), Revoking(req[r], p)
  PROVE  p \in contested
BY DEF ContestInv, Contested

\* A token that is about to be exchanged has a row.
LEMMA InterestIssued ==
  ASSUME IInv, NEW q \in Requests, NEW p, Exchanging(req[q], p)
  PROVE  p \in issued
BY DEF IInv, RequestOK, LocalOK, RefreshOK, Exchanging, At

\* The end of request r, which revoked the tokens S it was to revoke, is no
\* surprise to the requests that were to exchange them.
LEMMA FinishContest ==
  ASSUME IInv, ContestInv, NEW r \in Requests, Finish(r), Grows,
         NEW S \in SUBSET issued, revoked' = revoked \cup S, \A p \in S : Revoking(req[r], p)
  PROVE  (Contested(req) \subseteq contested /\ ExchangeContested)'
<1>1. UNCHANGED contested
  BY DEF Finish
<1>2. /\ NoNewInterest
      /\ \A q \in Requests, p \in issued' : Exchanging(req'[q], p) => q # r
  BY FinishedInterest, InterestIssued
<1>3. Contested(req)' \subseteq contested'
  BY <1>1, <1>2, NoNewContest DEF ContestInv
<1>4. ASSUME NEW q \in Requests, NEW p \in issued', Exchanging(req'[q], p)
      PROVE  p \notin revoked' \/ p \in contested'
  <2>1. q # r /\ p \in issued /\ Exchanging(req[q], p)
    BY <1>2, <1>4 DEF NoNewInterest
  <2>2. CASE p \in S
    BY <1>1, <2>1, <2>2, SharedInterest
  <2>3. CASE p \notin S
    BY <1>1, <2>1, <2>3 DEF ContestInv, ExchangeContested
  <2>4. QED
    BY <2>2, <2>3
<1>5. QED
  BY <1>3, <1>4 DEF ExchangeContested

\* A step that ends request r, having revoked the tokens S it was to revoke and
\* perhaps answered a replay.
LEMMA RevokingContest ==
  ASSUME IInv, ContestInv, NEW r \in Requests, Finish(r), NoInsert, UNCHANGED clock,
         NEW S \in SUBSET issued, revoked' = revoked \cup S, \A p \in S : Revoking(req[r], p),
         loggedOut' \subseteq revoked',
         \A c \in issued : parent[c] \in condemned' \ condemned /\ c \notin revoked' =>
                           parent[c] \in contested
  PROVE  ContestInv'
<1> USE DEF NoInsert
<1>1. UNCHANGED contested /\ Grows
  BY DEF Finish, Grows, IInv, TypeOK
<1>2. (Contested(req) \subseteq contested /\ ExchangeContested)'
  BY <1>1, FinishContest
<1>3. \A q \in Requests :
        req'[q].pc \in {"sweep", "sweepCommit"} => q # r /\ UNCHANGED <<req[q], seen[q]>>
  BY <1>1, FinishedInterest
<1>4. ReplayContested'
  BY <1>1, <1>3 DEF ContestInv, ReplayContested
<1>5. (SingleUseUnlessContested /\ ReplayForcesLoginUnlessContested)'
  BY <1>1 DEF ContestInv, SingleUseUnlessContested, ReplayForcesLoginUnlessContested
<1>6. QED
  BY <1>2, <1>4, <1>5 DEF ContestInv

\* A step that ends request r, having inserted the row of a new token, the
\* successor of the token it was to exchange or the token of a login.
LEMMA InsertingContest ==
  ASSUME IInv, ContestInv, NEW r \in Requests, Finish(r),
         UNCHANGED <<clock, loggedOut, condemned>>,
         NEW t, NEW u, NEW now, NEW from \in Tokens \cup {NoToken}, Insert(t, u, now, from),
         NEW S \in SUBSET issued, revoked' = revoked \cup S, \A p \in S : Revoking(req[r], p),
         from # NoToken => from \in S /\ Exchanging(req[r], from)
  PROVE  ContestInv'
<1>1. /\ issued' = issued \cup {t} /\ t \notin issued
      /\ parent'[t] = from /\ \A c \in issued : parent'[c] = parent[c]
  BY DEF Insert, IInv, TypeOK
<1>2. UNCHANGED contested /\ Grows
  BY DEF Finish, Grows, Insert, IInv, TypeOK
<1>3. (Contested(req) \subseteq contested /\ ExchangeContested)'
  BY <1>2, FinishContest
<1>4. \A q \in Requests :
        req'[q].pc \in {"sweep", "sweepCommit"} => q # r /\ UNCHANGED <<req[q], seen[q]>>
  BY <1>2, FinishedInterest, InterestIssued
<1>5. NoToken \notin issued /\ NoToken \notin condemned
  BY NullAssumption DEF IInv, TypeOK
<1>6. ASSUME NEW q \in Requests, req'[q].pc \in {"sweep", "sweepCommit"},
             from \in seen'[q].issued
      PROVE  from \in contested
  <2>1. q # r /\ req[q].pc \in {"sweep", "sweepCommit"} /\ from \in seen[q].issued
    BY <1>4, <1>6
  <2>2. from \in issued /\ owner[from] = req[q].user
    BY <2>1 DEF IInv, RequestOK, LocalOK, ReplayOK, Rows
  <2>3. Revoking(req[q], from) /\ Exchanging(req[r], from)
    BY <1>5, <2>1, <2>2 DEF Revoking
  <2>4. QED
    BY <2>1, <2>2, <2>3, SharedInterest
<1>7. ReplayContested'
  BY <1>1, <1>2, <1>4, <1>6 DEF ContestInv, ReplayContested
<1>8. from \in revoked => from \in contested
  BY <1>5 DEF ContestInv, ExchangeContested, IInv, TypeOK
<1>9. SingleUseUnlessContested'
  <2>1. ASSUME NEW c \in issued, parent[c] = from, from # NoToken PROVE from \in contested
    BY <1>8, <2>1 DEF IInv, RotationRetiresParent
  <2>2. QED
    BY <1>1, <1>2, <2>1 DEF ContestInv, SingleUseUnlessContested
<1>10. ReplayForcesLoginUnlessContested'
  BY <1>1, <1>2, <1>8 DEF ContestInv, ReplayForcesLoginUnlessContested, IInv, ReplaySweepsKnown
<1>11. QED
  BY <1>3, <1>7, <1>9, <1>10 DEF ContestInv

\* What the first read of request r establishes.
LEMMA ArriveBegins ==
  ASSUME IInv, NEW r \in Requests, Arrive(r)
  PROVE  /\ UNCHANGED <<tables, clock, parent, loggedOut, condemned>>
         /\ contested' = contested \cup Contested(req')
         /\ \A q \in Requests \ {r} : UNCHANGED <<req[q], seen[q]>>
         /\ \A p : Exchanging(req'[r], p) => p \notin revoked
         /\ req'[r].pc \in {"sweep", "sweepCommit"} =>
              seen'[r].issued = issued \cap Rows(req'[r].user)
<1> USE DEF IInv, TypeOK, Begin, Idle, Exchanging, tables
<1>1. CASE \E u \in Users : AuthenticateUser(r, u)
  BY <1>1 DEF AuthenticateUser
<1>2. CASE \E t \in Tokens : RefreshAccepted(r, t)
  BY <1>2 DEF RefreshAccepted, NotRevoked
<1>3. CASE \E t \in Tokens : RefreshReplayed(r, t)
  BY <1>3 DEF RefreshReplayed
<1>4. CASE \E t \in Tokens : FindForLogout(r, t)
  BY <1>4 DEF FindForLogout
<1>5. QED
  BY <1>1, <1>2, <1>3, <1>4 DEF Arrive

\* Only a live token becomes contested.
LEMMA ContestedAlive ==
  ASSUME IInv, ContestInv, NEW r \in Requests, Arrive(r), NEW p \in Contested(req') \ contested
  PROVE  p \in issued \ revoked
<1>1. PICK q \in Requests : p \in issued /\ Exchanging(req'[q], p)
  BY DEF Contested
<1>2. CASE q = r
  BY <1>1, <1>2, ArriveBegins
<1>3. CASE q # r
  <2>1. Exchanging(req[q], p)
    BY <1>1, <1>3, ArriveBegins
  <2>2. QED
    BY <1>1, <2>1 DEF ContestInv, ExchangeContested
<1>4. QED
  BY <1>2, <1>3

\* The arrival of a request.
LEMMA ArrivingContest ==
  ASSUME IInv, ContestInv, NEW r \in Requests, Arrive(r) PROVE ContestInv'
<1>1. /\ UNCHANGED <<issued, owner, revoked, parent, loggedOut, condemned>>
      /\ contested' = contested \cup Contested(req')
      /\ \A q \in Requests \ {r} : UNCHANGED <<req[q], seen[q]>>
  BY ArriveBegins DEF tables
<1>2. Contested(req)' \subseteq contested'
  BY <1>1 DEF Contested, Revoking
<1>3. ExchangeContested'
  BY <1>1, ArriveBegins DEF ContestInv, ExchangeContested
<1>4. ReplayContested'
  <2>1. ASSUME NEW c \in issued, parent[c] \in issued \cap Rows(req'[r].user)
        PROVE  c \in Rows(req'[r].user)
    BY <2>1, NullAssumption DEF Rows, IInv, TypeOK, RotationRetiresParent
  <2>2. QED
    BY <1>1, <2>1, ArriveBegins DEF ContestInv, ReplayContested
<1>5. (SingleUseUnlessContested /\ ReplayForcesLoginUnlessContested)'
  BY <1>1 DEF ContestInv, SingleUseUnlessContested, ReplayForcesLoginUnlessContested
<1>6. QED
  BY <1>1, <1>2, <1>3, <1>4, <1>5 DEF ContestInv

\* Every step preserves ContestInv.
LEMMA NextContest ==
  ASSUME IInv, ContestInv, [Next]_vars PROVE ContestInv'
<1> USE DEF IInv, TypeOK
<1>1. ASSUME NEW r \in Requests, LoadUser(r) \/ ExecuteRevokeAll(r) PROVE ContestInv'
  <2>1. UNCHANGED <<tables, history>>
    BY <1>1 DEF LoadUser, ExecuteRevokeAll
  <2>2. \A q \in Requests :
          /\ req'[q].token = req[q].token /\ req'[q].user = req[q].user
          /\ \/ req'[q].pc = req[q].pc
             \/ req[q].pc = "loadUser" /\ req'[q].pc \in {"rotate", "deny"}
             \/ req[q].pc = "sweep" /\ req'[q].pc = "sweepCommit"
    BY <1>1 DEF LoadUser, ExecuteRevokeAll, At, Request
  <2>3. NoNewInterest
    BY <2>1, <2>2 DEF NoNewInterest, Exchanging, Revoking, tables
  <2>4. QED
    BY <2>1, <2>2, <2>3, QuietContest DEF tables, history
<1>2. ASSUME \/ \E u \in Users : SetActive(u)
             \/ Tick
             \/ UNCHANGED vars
      PROVE  ContestInv'
  <2>1. /\ UNCHANGED <<issued, owner, revoked, req, parent, loggedOut, condemned, contested>>
        /\ \A q \in Requests : seen'[q].issued = seen[q].issued
    BY <1>2 DEF SetActive, Tick, vars, tables, history, View
  <2>2. NoNewInterest
    BY <2>1 DEF NoNewInterest, Revoking
  <2>3. QED
    BY <2>1, <2>2, QuietContest
<1>3. loggedOut \subseteq revoked
  BY DEF ContestInv
<1>4. ASSUME NEW r \in Requests, IssueRefreshToken(r) PROVE ContestInv'
  <2>1. PICK t \in Tokens, now \in req[r].now .. clock : Insert(t, req[r].user, now, NoToken)
    BY <1>4 DEF IssueRefreshToken
  <2>2. /\ Finish(r) /\ UNCHANGED <<clock, loggedOut, condemned>>
        /\ revoked' = revoked \cup {} /\ {} \in SUBSET issued
    BY <1>4 DEF IssueRefreshToken
  <2>3. NoToken \in Tokens \cup {NoToken}
    OBVIOUS
  <2>4. QED
    BY <2>1, <2>2, <2>3, InsertingContest
<1>5. ASSUME NEW r \in Requests, RotateRefreshToken(r) PROVE ContestInv'
  <2> DEFINE p == req[r].token
  <2>1. Exchanging(req[r], p) /\ Revoking(req[r], p)
    BY <1>5 DEF RotateRefreshToken, At, Exchanging, Revoking
  <2>2. p \in issued /\ p \in Tokens
    BY <2>1, InterestIssued
  <2>3. PICK t \in Tokens : Insert(t, req[r].user, req[r].now, p)
    BY <1>5 DEF RotateRefreshToken
  <2>4. /\ Finish(r) /\ UNCHANGED <<clock, loggedOut, condemned>>
        /\ revoked' = revoked \cup {p} /\ {p} \in SUBSET issued
    BY <1>5, <2>2 DEF RotateRefreshToken
  <2>5. QED
    BY <2>1, <2>2, <2>3, <2>4, InsertingContest
<1>6. ASSUME NEW r \in Requests, Abort(r) PROVE ContestInv'
  <2>1. /\ Finish(r) /\ NoInsert /\ UNCHANGED clock /\ revoked' = revoked \cup {}
        /\ loggedOut' \subseteq revoked' /\ condemned' = condemned
    BY <1>3, <1>6 DEF Abort, NoInsert, tables
  <2>2. {} \in SUBSET issued /\ \A p \in {} : Revoking(req[r], p)
    OBVIOUS
  <2>3. QED
    BY <2>1, <2>2, RevokingContest
<1>7. ASSUME NEW r \in Requests, DenyInactive(r) \/ RevokeRefreshToken(r) PROVE ContestInv'
  <2> DEFINE p == req[r].token
  <2>1. Revoking(req[r], p)
    BY <1>7 DEF DenyInactive, RevokeRefreshToken, At, Revoking
  <2>2. p \in issued
    BY <1>7 DEF DenyInactive, RevokeRefreshToken, At, RequestOK, LocalOK, RefreshOK, LogoutOK
  <2>3. /\ Finish(r) /\ NoInsert /\ UNCHANGED clock /\ revoked' = revoked \cup {p}
        /\ loggedOut' \subseteq revoked' /\ condemned' = condemned
    BY <1>3, <1>7 DEF DenyInactive, RevokeRefreshToken
  <2>4. {p} \in SUBSET issued /\ \A x \in {p} : Revoking(req[r], x)
    BY <2>1, <2>2
  <2>5. QED
    BY <2>3, <2>4, RevokingContest
<1>8. ASSUME NEW r \in Requests, CommitRevokeAll(r) PROVE ContestInv'
  <2> DEFINE S == req[r].rows
             C == seen[r].issued
  <2>1. req[r].pc = "sweepCommit" /\ S \subseteq Rows(req[r].user) /\ C \subseteq S \cup revoked
    BY <1>8 DEF CommitRevokeAll, At, RequestOK, LocalOK, ReplayOK
  <2>2. S \in SUBSET issued /\ \A p \in S : Revoking(req[r], p)
    BY <2>1 DEF Rows, Revoking
  <2>3. /\ Finish(r) /\ NoInsert /\ UNCHANGED clock /\ revoked' = revoked \cup S
        /\ loggedOut' \subseteq revoked' /\ condemned' = condemned \cup C
    BY <1>3, <1>8 DEF CommitRevokeAll
  <2>4. \A c \in issued : parent[c] \in condemned' \ condemned /\ c \notin revoked' =>
                          parent[c] \in contested
    BY <2>1, <2>3 DEF ContestInv, ReplayContested
  <2>5. QED
    BY <2>2, <2>3, <2>4, RevokingContest
<1>9. QED
  BY <1>1, <1>2, <1>4, <1>5, <1>6, <1>7, <1>8, ArrivingContest DEF Next, Proceed

\* So it holds in every reachable state.
LEMMA ContestInvariance == Spec => []ContestInv
<1>1. IInv /\ ContestInv /\ [Next]_vars => ContestInv'
  BY NextContest
<1>2. QED
  BY <1>1, InitContest, Invariance, PTL DEF Spec

\* However many requests there are and however they interleave and fail, a token
\* that no two of them were about at a time is exchanged at most once ...
THEOREM SingleUseBarRaces == Spec => []SingleUseUnlessContested
BY ContestInvariance, PTL DEF ContestInv

\* ... the descendants of a condemned one die with it ...
THEOREM ReplayForcesLoginBarRaces == Spec => []ReplayForcesLoginUnlessContested
BY ContestInvariance, PTL DEF ContestInv

\* ... and once logged out it is not exchanged.
THEOREM LogoutIsFinalBarRaces == Spec => LogoutFinalUnlessContested
<1>1. ASSUME IInv, ContestInv, Next, NEW c \in issued' \ issued, parent'[c] \in loggedOut
      PROVE  parent'[c] \in contested
  <2>1. PICK r \in Requests : parent'[c] = IF At(r, "rotate") THEN req[r].token ELSE NoToken
    BY <1>1, WhoInserts
  <2>2. parent'[c] \in revoked /\ parent'[c] # NoToken
    BY <1>1, NullAssumption DEF ContestInv, IInv, TypeOK
  <2>3. Exchanging(req[r], parent'[c])
    BY <2>1, <2>2 DEF At, Exchanging
  <2>4. QED
    BY <1>1, <2>2, <2>3 DEF ContestInv, ExchangeContested, IInv, TypeOK
<1>2. IInv /\ ContestInv /\ [Next]_vars =>
        [\A c \in issued' \ issued : parent'[c] \in loggedOut => parent'[c] \in contested]_vars
  BY <1>1
<1>3. QED
  BY <1>2, ContestInvariance, Invariance, PTL DEF Spec, LogoutFinalUnlessContested

------------------------------------------------------------------------------
(* RefreshTokens implements TokenLedger *)

\* The ledger only sees the token tables and which tokens were contested.
LEMMA TablesUnchanged ==
  ASSUME UNCHANGED <<issued, owner, revoked, parent, contested>>
  PROVE  UNCHANGED Ledger!ledger
BY DEF Ledger!ledger, TokenStatus

\* Revoking rows of one user is a retirement.
LEMMA RevokeIsRetire ==
  ASSUME TypeOK, NoInsert, NEW u \in Users, NEW S \in SUBSET Rows(u),
         revoked' = revoked \cup S, UNCHANGED contested
  PROVE  Ledger!IssueOrRetire
<1>1. S \in SUBSET Tokens /\ S \subseteq issued
  BY DEF Rows, TypeOK
<1>2. S \in SUBSET Ledger!Of(u)
  BY <1>1 DEF Ledger!Of, Rows, TokenStatus, TypeOK
<1>3. TokenStatus' = [t \in Tokens |-> IF t \in S THEN "dead" ELSE TokenStatus[t]]
  BY <1>1 DEF TokenStatus, NoInsert
<1>4. Ledger!Retire(S)
  BY <1>3 DEF Ledger!Retire, TokenStatus, NoInsert
<1>5. QED
  BY <1>2, <1>4 DEF Ledger!IssueOrRetire

\* Every step of the service is a step of the ledger, or invisible to it.
LEMMA LedgerStep ==
  ASSUME IInv, ContestInv, Next
  PROVE  Ledger!Next \/ UNCHANGED Ledger!ledger
<1> USE DEF IInv
<1>0. ASSUME NEW r \in Requests, Arrive(r) PROVE Ledger!Next
  <2> DEFINE S == Contested(req') \ contested
  <2>1. /\ UNCHANGED <<issued, owner, revoked, parent>>
        /\ contested' = contested \cup S
    BY <1>0, ArriveBegins DEF tables
  <2>2. S \in SUBSET Ledger!Live
    BY <1>0, ContestedAlive DEF Ledger!Live, TokenStatus, TypeOK
  <2>3. Ledger!Contend(S)
    BY <2>1 DEF Ledger!Contend, TokenStatus
  <2>4. QED
    BY <2>2, <2>3 DEF Ledger!Next
<1>1. ASSUME NEW r \in Requests, Abort(r) \/ LoadUser(r) \/ ExecuteRevokeAll(r)
      PROVE  UNCHANGED Ledger!ledger
  BY <1>1, TablesUnchanged DEF Abort, Finish, LoadUser, ExecuteRevokeAll, tables, history
<1>2. ASSUME Tick \/ \E u \in Users : SetActive(u) PROVE UNCHANGED Ledger!ledger
  BY <1>2, TablesUnchanged DEF Tick, SetActive, tables, history
<1>3. ASSUME NEW r \in Requests, IssueRefreshToken(r) PROVE Ledger!IssueOrRetire
  <2> DEFINE u == req[r].user
  <2>1. u \in Users
    BY <1>3 DEF IssueRefreshToken, RequestOK, LocalOK, LoginOK
  <2>2. PICK t \in Tokens, now \in req[r].now .. clock : Insert(t, u, now, NoToken)
    BY <1>3 DEF IssueRefreshToken
  <2> revoked' = revoked
    BY <1>3 DEF IssueRefreshToken
  <2>3. TokenStatus[t] = "unissued" /\ TokenStatus' = [TokenStatus EXCEPT ![t] = "live"]
    BY <2>2 DEF TokenStatus, Insert, TypeOK
  <2>4. Ledger!Issue(u, t)
    BY <1>3, <2>2, <2>3 DEF Ledger!Issue, TokenStatus, Insert, IssueRefreshToken, Finish
  <2>5. QED
    BY <2>1, <2>4 DEF Ledger!IssueOrRetire
<1>4. ASSUME NEW r \in Requests, RotateRefreshToken(r) PROVE Ledger!Next
  <2> DEFINE p == req[r].token
  <2>1. p \in issued /\ p \in Tokens /\ req[r].user = owner[p]
    BY <1>4 DEF RotateRefreshToken, At, RequestOK, LocalOK, RefreshOK, TypeOK
  <2>2. PICK t \in Tokens : Insert(t, owner[p], req[r].now, p)
    BY <1>4, <2>1 DEF RotateRefreshToken
  <2>3. /\ TokenStatus[t] = "unissued"
        /\ TokenStatus' = [TokenStatus EXCEPT ![p] = "dead", ![t] = "live"]
    <3>1. t \in Tokens \ issued /\ issued' = issued \cup {t} /\ revoked' = revoked \cup {p}
      BY <1>4, <2>2 DEF RotateRefreshToken, Insert
    <3>2. QED
      BY <2>1, <3>1 DEF TokenStatus, TypeOK
  <2>4. p \notin revoked \/ p \in contested
    BY <1>4, <2>1 DEF RotateRefreshToken, At, Exchanging, ContestInv, ExchangeContested
  <2>5. TokenStatus[p] = "live" \/ (TokenStatus[p] = "dead" /\ p \in contested)
    BY <2>1, <2>4 DEF TokenStatus
  <2>6. Ledger!Exchange(p, t)
    BY <1>4, <2>2, <2>3, <2>5 DEF Ledger!Exchange, TokenStatus, Insert, RotateRefreshToken, Finish
  <2>7. QED
    BY <2>1, <2>2, <2>6 DEF Ledger!Next, Insert
<1>5. ASSUME NEW r \in Requests, DenyInactive(r) PROVE Ledger!IssueOrRetire
  <2>1. req[r].token \in Rows(owner[req[r].token]) /\ owner[req[r].token] \in Users
    BY <1>5 DEF DenyInactive, At, RequestOK, LocalOK, RefreshOK, TypeOK, Rows
  <2>2. QED
    BY <1>5, <2>1, RevokeIsRetire DEF DenyInactive, Finish
<1>6. ASSUME NEW r \in Requests, CommitRevokeAll(r) PROVE Ledger!IssueOrRetire
  <2>1. req[r].user \in Users /\ req[r].rows \subseteq Rows(req[r].user)
    BY <1>6 DEF CommitRevokeAll, At, RequestOK, LocalOK, ReplayOK
  <2>2. QED
    BY <1>6, <2>1, RevokeIsRetire DEF CommitRevokeAll, Finish
<1>7. ASSUME NEW r \in Requests, RevokeRefreshToken(r) PROVE Ledger!IssueOrRetire
  <2>1. req[r].token \in Rows(owner[req[r].token]) /\ owner[req[r].token] \in Users
    BY <1>7 DEF RevokeRefreshToken, At, RequestOK, LocalOK, LogoutOK, TypeOK, Rows
  <2>2. QED
    BY <1>7, <2>1, RevokeIsRetire DEF RevokeRefreshToken, Finish
<1>8. QED
  BY <1>0, <1>1, <1>2, <1>3, <1>4, <1>5, <1>6, <1>7 DEF Next, Proceed, Ledger!Next

\* The service implements the ledger, requests interleaved in any way: a token
\* never comes back, only logins, exchanges and retirements of one user's
\* tokens happen, and a token is exchanged dead only if two requests were about
\* it while it was alive.
THEOREM ImplementsLedger == Spec => LedgerSpec
<1>1. Init => Ledger!Init
  BY DEF Init, Ledger!Init, TokenStatus
<1>2. IInv /\ ContestInv /\ [Next]_vars => [Ledger!Next]_(Ledger!ledger)
  <2>1. ASSUME UNCHANGED vars PROVE UNCHANGED Ledger!ledger
    BY <2>1, TablesUnchanged DEF vars, tables, history
  <2>2. QED
    BY <2>1, LedgerStep
<1>3. QED
  BY <1>1, <1>2, ContestInvariance, Invariance, PTL DEF Spec, LedgerSpec, Ledger!Spec

------------------------------------------------------------------------------
(* What a request still has before it *)

Left(k) == IF k.pc = "idle" THEN 0 ELSE IF k.pc \in {"loadUser", "sweep"} THEN 2 ELSE 1

\* No step takes a request back, its own or another's: a request is answered at
\* most two of its steps after its first read.
\* This is the part of EveryRequestAnswered that is not about fairness.
THEOREM RequestsOnlyAdvance ==
  Spec => [][\A r \in Requests :
               req'[r] # req[r] => req[r] = Idle \/ Left(req'[r]) < Left(req[r])]_vars
<1>1. ASSUME IInv, Next, NEW r \in Requests, req'[r] # req[r]
      PROVE  req[r] = Idle \/ Left(req'[r]) < Left(req[r])
  <2>1. req \in [Requests -> Request]
    BY <1>1 DEF IInv, TypeOK
  <2>2. ASSUME NEW q \in Requests, Arrive(q) PROVE q = r /\ req[q] = Idle
    BY <1>1, <2>1, <2>2 DEF Arrive, AuthenticateUser, RefreshAccepted, RefreshReplayed,
                            FindForLogout, Begin
  <2>3. ASSUME NEW q \in Requests, Proceed(q) \/ Abort(q)
        PROVE  /\ q = r
               /\ \/ req[q].pc \in {"loadUser", "sweep"}
                     /\ req'[q].pc \in {"rotate", "deny", "sweepCommit", "idle"}
                  \/ req[q].pc \notin {"loadUser", "sweep", "idle"} /\ req'[q].pc = "idle"
    BY <1>1, <2>1, <2>3 DEF Proceed, IssueRefreshToken, LoadUser, RotateRefreshToken,
         DenyInactive, ExecuteRevokeAll, CommitRevokeAll, RevokeRefreshToken, Abort, Finish, At,
         Idle, Request
  <2>4. ~Tick /\ \A u \in Users : ~SetActive(u)
    BY <1>1 DEF Tick, SetActive
  <2>5. QED
    BY <1>1, <2>2, <2>3, <2>4 DEF Next, Left
<1>2. IInv /\ [Next]_vars =>
        [\A r \in Requests :
           req'[r] # req[r] => req[r] = Idle \/ Left(req'[r]) < Left(req[r])]_vars
  BY <1>1
<1>3. QED
  BY <1>2, Invariance, PTL DEF Spec
==============================================================================
