---------------------------- MODULE AccessControl ----------------------------
(***************************************************************************)
(* Who may do what: the users, roles and permissions in the database, the  *)
(* check that every request passes (app/api/deps.py over the selectin      *)
(* relationships of app/models/user.py and role.py), and the scripts that  *)
(* change them from processes of their own (scripts/create_user.py,        *)
(* assign_roles.py, seed_roles.py over app/services/roles.py).             *)
(*                                                                         *)
(* Every transaction is READ COMMITTED, so each SELECT sees the commits    *)
(* made before it: the user, their roles and the permissions of these are  *)
(* read at three different times.  A script reads, works out the rows to   *)
(* insert and to delete, and commits; nothing it read is locked.  Two      *)
(* scripts that insert the same key cannot both commit; deleting a row     *)
(* that is gone already is no error.                                       *)
(***************************************************************************)
EXTENDS FiniteSets

CONSTANTS
  Users,     \* people, by e-mail
  Roles,     \* role codes
  Perms,     \* ALL_PERMISSIONS, the catalog in the code
  Wishes,    \* the role lists the scripts are run with
  Seeds,     \* the role definitions written in seed_roles.py, by version
  Requests,  \* requests that overlap
  Tools      \* script runs that overlap

ASSUME WishAssumption == Wishes \subseteq SUBSET Roles
ASSUME SeedAssumption ==
  \A defs \in Seeds : /\ DOMAIN defs \subseteq Roles
                     /\ defs = [role \in DOMAIN defs |-> defs[role]]
ASSUME DisjointAssumption == Users \cap Roles = {}

VARIABLES
  users,    \* table users
  active,   \* users.is_active
  roles,    \* table roles
  members,  \* table user_roles: <<user, role>>
  grants,   \* table role_permissions: <<role, permission>>
  req,      \* the locals of the requests
  tool      \* the locals of the script runs

(* History: what each request could have seen at some time, and at every     *)
(* time, of its reads, and the rows that others changed against the wish of  *)
(* a script run since it began.                                              *)
VARIABLES ever, always, opposed

tables == <<users, active, roles, members, grants>>
history == <<ever, always, opposed>>
vars == <<tables, req, tool, history>>

------------------------------------------------------------------------------

Valid_Unchecked(defs) == TRUE

\* RoleDefinition.__post_init__: a code that is not in the catalog raises, and
\* the script does not get to run.
Valid(defs) == \A role \in DOMAIN defs : defs[role] \subseteq Perms

Definitions == {defs \in Seeds : Valid(defs)}

Members == Users \X Roles
Grants == Roles \X Perms

NoRequest == [pc |-> "idle"]

\* While its user is being loaded: what is to be read next, and what was read.
Request == [pc         : {"roles", "perms"},
            user       : Users,
            permission : Perms,
            isActive   : BOOLEAN,
            roles      : SUBSET Roles]

NoTask == [task |-> "none"]

\* A run of create_user or assign_roles: `rows` the roles found for the codes
\* wanted, once they are all `found`, `loaded` the roles the user had when read.
Assignment == [task : {"create", "assign"}, found : BOOLEAN, user : Users,
               wanted : Wishes, rows : SUBSET Roles, loaded : SUBSET Roles]

\* A run of sync_roles: the definitions still to be looked up, and what it will
\* insert and delete.
Sync == [task : {"sync"}, defs : Definitions, left : SUBSET Roles,
         new : SUBSET Roles, adds : SUBSET Grants, drops : SUBSET Grants]

View == [active : BOOLEAN, held : SUBSET Roles, granting : SUBSET Roles]
NoView == [active |-> FALSE, held |-> {}, granting |-> {}]

TypeOK ==
  /\ users \subseteq Users /\ active \subseteq users /\ roles \subseteq Roles
  /\ members \subseteq users \X roles
  /\ grants \subseteq roles \X Perms
  /\ req \in [Requests -> Request \cup {NoRequest}]
  /\ tool \in [Tools -> Assignment \cup Sync \cup {NoTask}]
  /\ ever \in [Requests -> View] /\ always \in [Requests -> View]
  /\ opposed \in [Tools -> SUBSET (Members \cup Grants)]

\* The tables as the migrations leave them.
Init ==
  /\ users = {} /\ active = {} /\ roles = {} /\ members = {} /\ grants = {}
  /\ req = [r \in Requests |-> NoRequest]
  /\ tool = [k \in Tools |-> NoTask]
  /\ ever = [r \in Requests |-> NoView]
  /\ always = [r \in Requests |-> NoView]
  /\ opposed = [k \in Tools |-> {}]

HeldBy(u) == {role \in Roles : <<u, role>> \in members}
Granting(p) == {role \in Roles : <<role, p>> \in grants}
PermissionsOf(role) == {p \in Perms : <<role, p>> \in grants}

------------------------------------------------------------------------------
(* The check of a request.  Operators with a suffix are faulty variants.     *)

\* SELECT of the user named by the token.
LoadUser(r, u, p) ==
  /\ req[r].pc = "idle"
  /\ u \in users
  /\ req' = [req EXCEPT ![r] = [pc |-> "roles", user |-> u, permission |-> p,
                                isActive |-> u \in active, roles |-> {}]]
  /\ UNCHANGED <<tables, tool>>

\* The selectin SELECT of the user's roles.
LoadRoles(r) ==
  /\ req[r].pc = "roles"
  /\ req' = [req EXCEPT ![r].pc = "perms", ![r].roles = HeldBy(req[r].user)]
  /\ UNCHANGED <<tables, tool>>

Permitted_InactiveToo(r) ==
  req[r].roles \cap Granting(req[r].permission) # {}

Permitted_ByEveryRole(r) ==
  req[r].isActive /\ req[r].roles # {} /\ req[r].roles \subseteq Granting(req[r].permission)

\* The selectin SELECT of the permissions of these roles, and the two checks,
\* which follow without an await.
Permitted(r) ==
  req[r].isActive /\ req[r].roles \cap Granting(req[r].permission) # {}

Grant(r) ==
  /\ req[r].pc = "perms"
  /\ Permitted(r)
  /\ req' = [req EXCEPT ![r] = NoRequest]
  /\ UNCHANGED <<tables, tool>>

\* 401 for an inactive user, 403 for one without the permission.
Refuse(r) ==
  /\ req[r].pc = "perms"
  /\ ~Permitted(r)
  /\ req' = [req EXCEPT ![r] = NoRequest]
  /\ UNCHANGED <<tables, tool>>

\* The service ends with the requests in flight; scripts and tables go on.
Restart ==
  /\ req' = [r \in Requests |-> NoRequest]
  /\ UNCHANGED <<tables, tool>>

\* An operator switches an account off and on (external).
SetActive(u) ==
  /\ u \in users
  /\ active' = IF u \in active THEN active \ {u} ELSE active \cup {u}
  /\ UNCHANGED <<users, roles, members, grants, req, tool>>

------------------------------------------------------------------------------
(* The scripts *)

Begin(k, task) == tool[k] = NoTask /\ tool' = [tool EXCEPT ![k] = task]

StartCreate(k, u, W) ==
  /\ u \notin users
  /\ Begin(k, [task |-> "create", found |-> FALSE, user |-> u, wanted |-> W,
               rows |-> {}, loaded |-> {}])
  /\ UNCHANGED <<tables, req>>

\* The user comes with the roles they have now.
StartAssign(k, u, W) ==
  /\ u \in users
  /\ Begin(k, [task |-> "assign", found |-> FALSE, user |-> u, wanted |-> W,
               rows |-> {}, loaded |-> HeldBy(u)])
  /\ UNCHANGED <<tables, req>>

\* get_roles_by_codes: the rows there are; the script goes on if no code is
\* missing.
FindRoles(k) ==
  /\ tool[k].task \in {"create", "assign"} /\ ~tool[k].found
  /\ tool[k].wanted \subseteq roles
  /\ tool' = [tool EXCEPT ![k].found = TRUE, ![k].rows = tool[k].wanted \cap roles]
  /\ UNCHANGED <<tables, req>>

CommitCreate(k) ==
  /\ tool[k].task = "create" /\ tool[k].found
  /\ tool[k].user \notin users              \* unique e-mail
  /\ users' = users \cup {tool[k].user}
  /\ active' = active \cup {tool[k].user}
  /\ members' = members \cup ({tool[k].user} \X tool[k].rows)
  /\ tool' = [tool EXCEPT ![k] = NoTask]
  /\ UNCHANGED <<roles, grants, req>>

CommitAssign_AddsOnly(k) ==
  /\ tool[k].task = "assign" /\ tool[k].found
  /\ members' = members \cup ({tool[k].user} \X tool[k].rows)
  /\ tool' = [tool EXCEPT ![k] = NoTask]
  /\ UNCHANGED <<users, active, roles, grants, req>>

\* user.roles = roles: the unit of work deletes and inserts the difference to
\* the roles that were loaded.
CommitAssign(k) ==
  LET t == tool[k]
      adds == {t.user} \X (t.rows \ t.loaded)
      drops == {t.user} \X (t.loaded \ t.rows)
  IN  /\ t.task = "assign" /\ t.found
      /\ adds \cap members = {}             \* primary key
      /\ members' = (members \ drops) \cup adds
      /\ tool' = [tool EXCEPT ![k] = NoTask]
      /\ UNCHANGED <<users, active, roles, grants, req>>

StartSync(k, defs) ==
  /\ Valid(defs)
  /\ Begin(k, [task |-> "sync", defs |-> defs, left |-> DOMAIN defs,
               new |-> {}, adds |-> {}, drops |-> {}])
  /\ UNCHANGED <<tables, req>>

ReadRole_KeepsExtra(k, role) ==
  /\ tool[k].task = "sync" /\ role \in tool[k].left
  /\ tool' = [tool EXCEPT
       ![k].left = @ \ {role},
       ![k].new  = IF role \in roles THEN @ ELSE @ \cup {role},
       ![k].adds = @ \cup ({role} \X (tool[k].defs[role] \ PermissionsOf(role)))]
  /\ UNCHANGED <<tables, req>>

\* One turn of the loop: a role that does not exist is to be created, one that
\* does gets what is missing and loses what is extra.  The definitions may
\* stand in any order.
ReadRole(k, role) ==
  /\ tool[k].task = "sync" /\ role \in tool[k].left
  /\ tool' = [tool EXCEPT
       ![k].left  = @ \ {role},
       ![k].new   = IF role \in roles THEN @ ELSE @ \cup {role},
       ![k].adds  = @ \cup ({role} \X (tool[k].defs[role] \ PermissionsOf(role))),
       ![k].drops = @ \cup ({role} \X (PermissionsOf(role) \ tool[k].defs[role]))]
  /\ UNCHANGED <<tables, req>>

CommitSync_PurgesOthers(k) ==
  LET t == tool[k] IN
  /\ t.task = "sync" /\ t.left = {}
  /\ t.new \cap roles = {} /\ t.adds \cap grants = {}
  /\ roles' = roles \cup t.new
  /\ grants' = {x \in (grants \ t.drops) \cup t.adds : x[1] \in DOMAIN t.defs}
  /\ tool' = [tool EXCEPT ![k] = NoTask]
  /\ UNCHANGED <<users, active, members, req>>

CommitSync(k) ==
  LET t == tool[k] IN
  /\ t.task = "sync" /\ t.left = {}
  /\ t.new \cap roles = {}                  \* unique code
  /\ t.adds \cap grants = {}                \* primary key
  /\ roles' = roles \cup t.new
  /\ grants' = (grants \ t.drops) \cup t.adds
  /\ tool' = [tool EXCEPT ![k] = NoTask]
  /\ UNCHANGED <<users, active, members, req>>

\* A run ends without a commit: a code is missing, a key is taken, a deadlock,
\* a lost connection, a killed process.
AbortTool(k) ==
  /\ tool[k] # NoTask
  /\ tool' = [tool EXCEPT ![k] = NoTask]
  /\ UNCHANGED <<tables, req>>

------------------------------------------------------------------------------
(* History *)

\* The rows a run decides about, and those it wants to be there.
Scope(t) ==
  CASE t.task = "none" -> {}
    [] t.task = "sync" -> (DOMAIN t.defs) \X Perms
    [] OTHER           -> {t.user} \X Roles

Wanted(t) ==
  CASE t.task = "none" -> {}
    [] t.task = "sync" -> {x \in (DOMAIN t.defs) \X Perms : x[2] \in t.defs[x[1]]}
    [] OTHER           -> {t.user} \X t.wanted

Rows == members \cup grants

\* What there is to see for a request.
Now(r) == [active |-> req[r].user \in active, held |-> HeldBy(req[r].user),
           granting |-> Granting(req[r].permission)]

Union(v, w) == [active |-> v.active \/ w.active, held |-> v.held \cup w.held,
                granting |-> v.granting \cup w.granting]
Common(v, w) == [active |-> v.active /\ w.active, held |-> v.held \cap w.held,
                 granting |-> v.granting \cap w.granting]

Watched(view, r, Combine(_, _)) ==
  IF req'[r] = NoRequest THEN NoView
  ELSE IF req[r] = NoRequest THEN Now(r)'
  ELSE Combine(view[r], Now(r)')

\* Rows that a step takes from a run's wish.
Against(t) == {x \in Scope(t) : /\ x \in Rows' <=> x \notin Rows
                                /\ x \in Rows' <=> x \notin Wanted(t)}

Watch ==
  /\ ever' = [r \in Requests |-> Watched(ever, r, Union)]
  /\ always' = [r \in Requests |-> Watched(always, r, Common)]
  /\ opposed' = [k \in Tools |-> IF tool'[k] = NoTask THEN {}
                                 ELSE opposed[k] \cup Against(tool[k])]

------------------------------------------------------------------------------

Check(r) == \/ \E u \in Users, p \in Perms : LoadUser(r, u, p)
            \/ LoadRoles(r) \/ Grant(r) \/ Refuse(r)

Script(k) ==
  \/ \E u \in Users, W \in Wishes : StartCreate(k, u, W) \/ StartAssign(k, u, W)
  \/ FindRoles(k) \/ CommitCreate(k) \/ CommitAssign(k)
  \/ \E defs \in Seeds : StartSync(k, defs)
  \/ \E role \in Roles : ReadRole(k, role)
  \/ CommitSync(k) \/ AbortTool(k)

Operate == \/ \E k \in Tools : Script(k)
           \/ \E u \in Users : SetActive(u)

Next == /\ \/ \E r \in Requests : Check(r)
           \/ Operate
           \/ Restart
        /\ Watch

Spec == Init /\ [][Next]_vars

------------------------------------------------------------------------------
(* Properties *)

\* models/role.py:5-7 "revoking a role takes effect on the next request, with
\* no stale-token window": a request is let through only if, while its user was
\* being loaded, the user was active, held some role, and that role had the
\* permission, though perhaps not all at the same instant.
GrantedInForce ==
  [][\A r \in Requests :
       Grant(r) => ever[r].active /\ ever[r].held \cap ever[r].granting # {}]_vars

\* Nobody is refused what was theirs during the whole check, whatever the
\* scripts did to other roles meanwhile.
RefusedNotInForce ==
  [][\A r \in Requests :
       Refuse(r) =>
         ~(always[r].active /\ always[r].held \cap always[r].granting # {})]_vars

\* What a commit leaves is what the run was asked for, in every row but those
\* that another run took the other way since this one began.
Exactly(k) ==
  /\ \A x \in Scope(tool[k]) \ opposed[k] : x \in Rows' <=> x \in Wanted(tool[k])
  /\ \A x \in (Rows \cup Rows') \ Scope(tool[k]) : x \in Rows /\ x \in Rows'

\* scripts/assign_roles.py:3 "Sets the user's role list to exactly the codes
\* given", also when it was computed from a list that another run has changed
\* since.
AssignedExactly ==
  [][\A k \in Tools : CommitAssign(k) \/ CommitCreate(k) => Exactly(k)]_vars

\* services/roles.py:3-6: a synchronisation leaves the roles it defines with
\* the permissions it defines, and no other role changed.
SyncedExactly ==
  [][\A k \in Tools : CommitSync(k) =>
       Exactly(k) /\ roles' = roles \cup DOMAIN tool[k].defs]_vars

------------------------------------------------------------------------------
(* Refinement *)

Policy == INSTANCE RolePolicy WITH
  Seeds   <- Definitions,
  held    <- [u \in Users |-> HeldBy(u)],
  granted <- [role \in Roles |-> PermissionsOf(role)]

\* However the runs overlap, no commit takes from a user or a role what it
\* lists, gives what it does not list, gives a role that does not exist or
\* touches anything that it is not about.
PolicySpec == Policy!Spec

\* Where no two runs overlap, every commit sets exactly what it was told to.
ExactPolicySpec == Policy!ExactSpec
==============================================================================
