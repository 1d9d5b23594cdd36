------------------------- MODULE AuthorizedDecisions -------------------------
(***************************************************************************)
(* The authorize and reject endpoints behind their check: AccessControl    *)
(* and DocumentDecisions side by side.  A request loads its user, its      *)
(* roles and their permissions in three SELECTs, while scripts change them *)
(* and other requests decide documents; from the last of these SELECTs to  *)
(* the decision there is no await, so check and decision are one step      *)
(* (AuthorizeUser and the body of the endpoints in app/api/documents.py).  *)
(*                                                                         *)
(* The audit row is inserted in the transaction that the first SELECT      *)
(* began: its created_at, now() in Postgres, is the time of that SELECT.   *)
(***************************************************************************)
EXTENDS Naturals, FiniteSets

CONSTANTS
  Users, Roles, Perms, Wishes, Seeds, Tools,   \* of AccessControl
  Docs, Fresh, Sap, MaxRestarts,               \* of DocumentDecisions
  Requests,
  PermissionOf,  \* what deciding a document takes: permission_code of its domain
  MaxTime        \* (bound)

ASSUME PermissionAssumption == PermissionOf \in [Docs -> Perms]
ASSUME TimeAssumption == MaxTime \in Nat

\* Those of AccessControl and DocumentDecisions, which an instance does not assume.
ASSUME WishAssumption == Wishes \subseteq SUBSET Roles
ASSUME SeedAssumption ==
  \A defs \in Seeds : /\ DOMAIN defs \subseteq Roles
                     /\ defs = [role \in DOMAIN defs |-> defs[role]]
ASSUME DisjointAssumption == Users \cap Roles = {}
ASSUME ActorAssumption == Sap \notin Requests
ASSUME RestartAssumption == MaxRestarts \in Nat

VARIABLES
  users, active, roles, members, grants, access, tool, ever, always, opposed,
  store, events, req, restarts, made,
  clock,      \* the clock of the database
  createdAt   \* of the transaction of each request, and of its row

VARIABLE decidedAt  \* history: when each request decided

A == INSTANCE AccessControl WITH req <- access
D == INSTANCE DocumentDecisions

\* SAP delivers documents whose chains are in order (DocumentDecisions).
ASSUME DocumentAssumption ==
  Fresh \in [Docs -> D!Document({Sap})] /\ \A d \in Docs : D!WellFormed(Fresh[d])

checked == <<users, active, roles, members, grants, access, tool, ever, always, opposed>>
decided == <<store, events, req, restarts, made>>
times == <<clock, createdAt, decidedAt>>
vars == <<checked, decided, times>>

Time == 0..MaxTime

TypeOK ==
  /\ A!TypeOK
  /\ D!TypeOK
  /\ clock \in Time
  /\ createdAt \in [Requests -> Time]
  /\ decidedAt \in [Requests -> Time]
  /\ \A r \in Requests : access[r] # A!NoRequest => D!At(r, "new")

Init ==
  /\ A!Init
  /\ D!Init
  /\ clock = 0
  /\ createdAt = [r \in Requests |-> 0]
  /\ decidedAt = [r \in Requests |-> 0]

------------------------------------------------------------------------------

\* The transaction of the request begins.
LoadUser(r) ==
  /\ D!At(r, "new")
  /\ \E u \in Users, d \in Docs : A!LoadUser(r, u, PermissionOf[d])
  /\ A!Watch
  /\ createdAt' = [createdAt EXCEPT ![r] = clock]
  /\ UNCHANGED <<decided, clock, decidedAt>>

LoadRoles(r) == A!LoadRoles(r) /\ A!Watch /\ UNCHANGED <<decided, times>>

\* 401 or 403: the endpoint is not reached and the transaction is rolled back;
\* its caller may try again.
Refuse(r) ==
  /\ A!Refuse(r) /\ A!Watch
  /\ createdAt' = [createdAt EXCEPT ![r] = 0]
  /\ UNCHANGED <<decided, clock, decidedAt>>

\* The check passes and the endpoint runs up to its first await, with a decision
\* or with a conflict.
Decide_AnyDocument(r, d, action) ==
  /\ A!Grant(r) /\ A!Watch
  /\ D!Decide(r, d, action)
  /\ decidedAt' = [decidedAt EXCEPT ![r] = clock]
  /\ UNCHANGED <<clock, createdAt>>

Decide(r, d, action) ==
  /\ A!Grant(r) /\ A!Watch
  /\ access[r].permission = PermissionOf[d]
  /\ D!Decide(r, d, action)
  /\ decidedAt' = [decidedAt EXCEPT ![r] = clock]
  /\ UNCHANGED <<clock, createdAt>>

Conflict(r, d) ==
  /\ A!Grant(r) /\ A!Watch
  /\ access[r].permission = PermissionOf[d]
  /\ D!Conflict(r, d)
  /\ createdAt' = [createdAt EXCEPT ![r] = 0]
  /\ UNCHANGED <<clock, decidedAt>>

Finish_StampsAtCommit(r) ==
  /\ D!Proceed(r)
  /\ createdAt' = IF D!CommitRow(r) THEN [createdAt EXCEPT ![r] = clock] ELSE createdAt
  /\ UNCHANGED <<checked, clock, decidedAt>>

\* The commit of the row, and the response.
Finish(r) == D!Proceed(r) /\ UNCHANGED <<checked, times>>

\* A request that is still loading its user ends with the process and leaves
\* nothing behind: its caller may try again.
Restart ==
  /\ A!Restart /\ A!Watch /\ D!Restart
  /\ createdAt' = [r \in Requests |-> IF D!At(r, "new") THEN 0 ELSE createdAt[r]]
  /\ UNCHANGED <<clock, decidedAt>>

Operate == A!Operate /\ A!Watch /\ UNCHANGED <<decided, times>>

Tick ==
  /\ clock < MaxTime
  /\ clock' = clock + 1
  /\ UNCHANGED <<checked, decided, createdAt, decidedAt>>

Next ==
  \/ \E r \in Requests : LoadUser(r) \/ LoadRoles(r) \/ Refuse(r) \/ Finish(r)
  \/ \E r \in Requests, d \in Docs :
       (\E action \in D!Action : Decide(r, d, action)) \/ Conflict(r, d)
  \/ Restart \/ Operate \/ Tick

Spec == Init /\ [][Next]_vars

------------------------------------------------------------------------------
(* Properties *)

\* Whoever decides a document was, while their user was being loaded, active
\* and in a role that had the permission for just this kind of document.
DecidedWithPermission ==
  [][\A m \in made' \ made :
       \E role \in ever[m.req].held :
         /\ ever[m.req].active
         /\ role \in ever[m.req].granting
         /\ PermissionOf[m.doc] = access[m.req].permission]_vars

\* authorization_event.py:44-46: rows sorted by created_at tell the decisions on
\* a document in their order, but for requests that overlapped: a row dated after
\* another decision was taken is the row of a later decision, whichever was
\* committed first.
Before(m, n) == m.run < n.run \/ (m.run = n.run /\ m.step < n.step)

RowsInOrder ==
  \A m, n \in made :
    m.doc = n.doc /\ createdAt[n.req] > decidedAt[m.req] => Before(m, n)

\* Behind the check the endpoints are what DocumentDecisions says, and the check
\* in front of them what AccessControl says.
DecisionsSpec == D!Spec
AccessSpec == A!Spec

\* While one script runs at a time, whatever the requests do meanwhile, the
\* tables change exactly as the scripts are told to (AccessControl).
ExactPolicySpec == A!ExactPolicySpec
==============================================================================
