------------------------ MODULE AccessControl_proof ------------------------
(***************************************************************************)
(* Proofs about AccessControl: what a request has been shown while its     *)
(* user was being loaded, and what a script run still knows of the tables  *)
(* when it commits.                                                        *)
(***************************************************************************)
EXTENDS AccessControl, TLAPS

------------------------------------------------------------------------------
(* The inductive invariant *)

\* What a request has read was there at some time, and what was there all the
\* time it has read.
Seen(r) ==
  req[r] # NoRequest =>
    /\ req[r].isActive \/ req[r].user \in active => ever[r].active
    /\ req[r].roles \cup HeldBy(req[r].user) \subseteq ever[r].held
    /\ Granting(req[r].permission) \subseteq ever[r].granting
    /\ always[r].active => req[r].isActive /\ req[r].user \in active
    /\ always[r].held \subseteq HeldBy(req[r].user)
    /\ req[r].pc = "perms" => always[r].held \subseteq req[r].roles
    /\ always[r].granting \subseteq Granting(req[r].permission)

\* What a run of create_user or assign_roles has found stays: no script deletes
\* a user or a role.
Found(k) ==
  /\ tool[k] \in Assignment /\ tool[k].found =>
       tool[k].rows = tool[k].wanted /\ tool[k].rows \subseteq roles
  /\ tool[k].task = "assign" => tool[k].user \in users

\* The plan of a synchronisation is about the definitions that have been looked
\* up.
Planned(k) ==
  tool[k] \in Sync =>
    LET t == tool[k]
        read == (DOMAIN t.defs) \ t.left
    IN  /\ t.left \cup t.new \subseteq DOMAIN t.defs
        /\ read \subseteq roles \cup t.new
        /\ t.adds \subseteq (read \X Perms) \cap Wanted(t)
        /\ t.drops \subseteq (read \X Perms) \ Wanted(t)

\* Where nobody has acted against a run, a row that was right when it was read
\* is still right.
Undisturbed(k) ==
  LET t == tool[k] IN
  \A x \in Scope(t) \ opposed[k] :
    /\ t.task = "assign" =>
         /\ x \in Wanted(t) /\ x[2] \in t.loaded => x \in Rows
         /\ x \notin Wanted(t) /\ x[2] \notin t.loaded => x \notin Rows
    /\ t.task = "sync" /\ x[1] \notin t.left =>
         /\ x \in Wanted(t) \ t.adds => x \in Rows
         /\ x \notin Wanted(t) \cup t.drops => x \notin Rows

IInv ==
  /\ TypeOK
  /\ \A r \in Requests : Seen(r)
  /\ \A k \in Tools : Found(k) /\ Planned(k) /\ Undisturbed(k)

------------------------------------------------------------------------------
(* What a step is made of *)

Act == \/ \E r \in Requests : Check(r)
       \/ Operate
       \/ Restart

\* Every step of Next is watched.
LEMMA NextIsAct == Next => Act /\ Watch
BY DEF Next, Act

\* A request stays, goes, begins, or reads the roles of its user.
Stays(r) == req'[r] = req[r]
Begins(r) ==
  /\ req[r] = NoRequest /\ UNCHANGED tables
  /\ \E u \in Users, p \in Perms :
       req'[r] = [pc |-> "roles", user |-> u, permission |-> p,
                  isActive |-> u \in active, roles |-> {}]
Reads(r) ==
  /\ req[r] \in Request /\ UNCHANGED tables
  /\ req'[r] \in Request
  /\ req'[r].pc = "perms" /\ req'[r].roles = HeldBy(req[r].user)
  /\ req'[r].user = req[r].user /\ req'[r].permission = req[r].permission
  /\ req'[r].isActive = req[r].isActive

\* Every step moves each request in one of these ways.
LEMMA RequestsMove ==
  ASSUME TypeOK, Act
  PROVE  /\ req' \in [Requests -> Request \cup {NoRequest}]
         /\ \A r \in Requests : Stays(r) \/ req'[r] = NoRequest \/ Begins(r) \/ Reads(r)
<1>0. req \in [Requests -> Request \cup {NoRequest}]
  BY DEF TypeOK
<1>1. ASSUME NEW r \in Requests, NEW u \in Users, NEW p \in Perms, LoadUser(r, u, p)
      PROVE  /\ req' \in [Requests -> Request \cup {NoRequest}]
             /\ Begins(r) /\ \A q \in Requests \ {r} : Stays(q)
  <2> DEFINE new == [pc |-> "roles", user |-> u, permission |-> p,
                     isActive |-> u \in active, roles |-> {}]
  <2>1. new \in Request
    BY DEF Request
  <2>2. req' = [req EXCEPT ![r] = new] /\ UNCHANGED tables /\ req[r].pc = "idle"
    BY <1>1 DEF LoadUser
  <2>3. req[r] = NoRequest
    BY <1>0, <2>2 DEF Request
  <2>4. Begins(r)
    BY <1>0, <2>2, <2>3 DEF Begins
  <2> HIDE DEF new
  <2>5. QED
    BY <1>0, <2>1, <2>2, <2>4 DEF Stays
<1>2. ASSUME NEW r \in Requests, LoadRoles(r)
      PROVE  /\ req' \in [Requests -> Request \cup {NoRequest}]
             /\ Reads(r) /\ \A q \in Requests \ {r} : Stays(q)
  <2> DEFINE old == req[r]
             held == HeldBy(req[r].user)
             new == [old EXCEPT !.pc = "perms", !.roles = held]
  <2>1. old \in Request /\ held \in SUBSET Roles
    BY <1>0, <1>2 DEF LoadRoles, NoRequest, HeldBy
  <2>2. req' = [req EXCEPT ![r].pc = "perms", ![r].roles = held] /\ UNCHANGED tables
    BY <1>2 DEF LoadRoles
  <2> HIDE DEF held
  <2>3. req' = [req EXCEPT ![r] = new]
    BY <1>0, <2>1, <2>2 DEF Request
  <2> HIDE DEF new
  <2>4. /\ new \in Request /\ new.pc = "perms" /\ new.roles = held /\ new.user = old.user
        /\ new.permission = old.permission /\ new.isActive = old.isActive
    <3>1. new = [old EXCEPT !.pc = "perms", !.roles = held]
      BY DEF new
    <3> HIDE DEF old
    <3>2. QED
      BY <2>1, <3>1 DEF Request
  <2>5. Reads(r)
    BY <1>0, <2>1, <2>2, <2>3, <2>4 DEF Reads, held
  <2>6. QED
    BY <1>0, <2>3, <2>4, <2>5 DEF Stays
<1>3. ASSUME NEW r \in Requests, Grant(r) \/ Refuse(r)
      PROVE  /\ req' \in [Requests -> Request \cup {NoRequest}]
             /\ \A q \in Requests : Stays(q) \/ req'[q] = NoRequest
  BY <1>0, <1>3 DEF Grant, Refuse, Stays
<1>4. CASE Restart
  BY <1>4 DEF Restart
<1>5. CASE Operate
  <2>1. req' = req
    BY <1>5 DEF Operate, Script, SetActive, StartCreate, StartAssign, FindRoles, CommitCreate,
                CommitAssign, StartSync, ReadRole, CommitSync, AbortTool
  <2>2. QED
    BY <1>0, <2>1 DEF Stays
<1>6. ASSUME NEW r \in Requests, Check(r)
      PROVE  /\ req' \in [Requests -> Request \cup {NoRequest}]
             /\ \A q \in Requests : Stays(q) \/ req'[q] = NoRequest \/ Begins(q) \/ Reads(q)
  BY <1>1, <1>2, <1>3, <1>6 DEF Check
<1>7. QED
  BY <1>4, <1>5, <1>6 DEF Act

------------------------------------------------------------------------------
(* What the requests have seen *)

\* What the two combinations of views keep.
LEMMA UnionSees ==
  ASSUME NEW v \in View, NEW w \in View
  PROVE  /\ Union(v, w) \in View /\ Common(v, w) \in View
         /\ v.active \/ w.active => Union(v, w).active
         /\ v.held \cup w.held \subseteq Union(v, w).held
         /\ v.granting \cup w.granting \subseteq Union(v, w).granting
         /\ Common(v, w).active => v.active /\ w.active
         /\ Common(v, w).held = v.held \cap w.held
         /\ Common(v, w).granting = v.granting \cap w.granting
BY DEF Union, Common, View

\* What there is to see is a view.
LEMMA NowType ==
  ASSUME NEW r \in Requests
  PROVE  Now(r) \in View
BY DEF Now, View, HeldBy, Granting

\* The views follow the request.
LEMMA Watches ==
  ASSUME TypeOK, Watch, NEW r \in Requests
  PROVE  /\ req'[r] = NoRequest => ever'[r] = NoView /\ always'[r] = NoView
         /\ req'[r] # NoRequest /\ req[r] = NoRequest =>
              ever'[r] = Now(r)' /\ always'[r] = Now(r)'
         /\ req'[r] # NoRequest /\ req[r] # NoRequest =>
              /\ ever'[r] = Union(ever[r], Now(r)')
              /\ always'[r] = Common(always[r], Now(r)')
BY DEF Watch, Watched

\* What a request has read stays within what was to be seen.
LEMMA StepSeen ==
  ASSUME TypeOK, Act, Watch, NEW r \in Requests, Seen(r)
  PROVE  ever'[r] \in View /\ always'[r] \in View /\ Seen(r)'
<1> DEFINE now == Now(r)'
<1>1. /\ now.active = (req'[r].user \in active')
      /\ now.held = HeldBy(req[r].user)'
      /\ now.granting = Granting(req[r].permission)'
  BY DEF Now
<1>2. now \in View /\ ever[r] \in View /\ always[r] \in View
  BY DEF TypeOK, Now, View, HeldBy, Granting
<1>3. NoView \in View
  BY DEF NoView, View
<1> HIDE DEF now
<1>4. CASE req'[r] = NoRequest
  BY <1>3, <1>4, Watches DEF Seen
<1>5. CASE Begins(r) /\ req'[r] # NoRequest
  <2>1. ever'[r] = now /\ always'[r] = now
    BY <1>5, Watches DEF Begins, now
  <2>2. PICK u \in Users, p \in Perms :
          req'[r] = [pc |-> "roles", user |-> u, permission |-> p,
                     isActive |-> u \in active, roles |-> {}]
    BY <1>5 DEF Begins
  <2>3. /\ req'[r].pc = "roles" /\ req'[r].isActive = (req'[r].user \in active)
        /\ req'[r].roles = {} /\ active' = active
    BY <1>5, <2>2 DEF Begins, tables
  <2>4. QED
    BY <1>1, <1>2, <2>1, <2>3 DEF Seen
<1>6. CASE req[r] # NoRequest /\ req'[r] # NoRequest /\ Stays(r)
  <2>1. ever'[r] = Union(ever[r], now) /\ always'[r] = Common(always[r], now)
    BY <1>6, Watches DEF now
  <2>2. /\ ever[r].active \/ now.active => ever'[r].active
        /\ ever[r].held \cup now.held \subseteq ever'[r].held
        /\ ever[r].granting \cup now.granting \subseteq ever'[r].granting
        /\ always'[r].active => always[r].active /\ now.active
        /\ always'[r].held = always[r].held \cap now.held
        /\ always'[r].granting = always[r].granting \cap now.granting
        /\ ever'[r] \in View /\ always'[r] \in View
    BY <1>2, <2>1, UnionSees
  <2>3. req'[r] = req[r]
    BY <1>6 DEF Stays
  <2>4. QED
    BY <1>1, <1>6, <2>2, <2>3 DEF Seen
<1>7. CASE Reads(r)
  <2>1. req[r] # NoRequest /\ req'[r] # NoRequest
    BY <1>7 DEF Reads, Request, NoRequest
  <2>2. ever'[r] = Union(ever[r], now) /\ always'[r] = Common(always[r], now)
    BY <2>1, Watches DEF now
  <2>3. /\ req'[r].user = req[r].user /\ req'[r].permission = req[r].permission
        /\ req'[r].isActive = req[r].isActive /\ req'[r].roles = HeldBy(req[r].user)
        /\ active' = active /\ HeldBy(req[r].user)' = HeldBy(req[r].user)
    BY <1>7 DEF Reads, tables, HeldBy
  <2>4. QED
    BY <1>1, <1>2, <2>1, <2>2, <2>3, UnionSees DEF Seen
<1>8. QED
  BY <1>4, <1>5, <1>6, <1>7, RequestsMove DEF Stays

------------------------------------------------------------------------------
(* What the runs do *)

Task == Assignment \cup Sync \cup {NoTask}

\* The name of a task tells its kind.
LEMMA TaskKinds ==
  ASSUME NEW t \in Task
  PROVE  /\ t.task \in {"none", "create", "assign", "sync"}
         /\ t.task \in {"create", "assign"} <=> t \in Assignment
         /\ t.task = "sync" <=> t \in Sync
         /\ t.task = "none" <=> t = NoTask
BY DEF Task, Assignment, Sync, NoTask

\* A definition that is not refused maps roles to sets of permissions.
LEMMA SeedType ==
  ASSUME NEW defs \in Definitions
  PROVE  /\ DOMAIN defs \subseteq Roles
         /\ defs = [role \in DOMAIN defs |-> defs[role]]
         /\ \A role \in DOMAIN defs : defs[role] \subseteq Perms
BY SeedAssumption DEF Definitions, Valid

\* A run stays, goes, begins, finds its roles or looks up a definition.
StaysRun(k) == tool'[k] = tool[k]
BeginsRun(k) ==
  /\ tool[k] = NoTask /\ UNCHANGED tables
  /\ \/ \E u \in Users, W \in Wishes :
          \/ tool'[k] = [task |-> "create", found |-> FALSE, user |-> u, wanted |-> W,
                         rows |-> {}, loaded |-> {}]
          \/ /\ u \in users
             /\ tool'[k] = [task |-> "assign", found |-> FALSE, user |-> u, wanted |-> W,
                            rows |-> {}, loaded |-> HeldBy(u)]
     \/ \E defs \in Definitions :
          tool'[k] = [task |-> "sync", defs |-> defs, left |-> DOMAIN defs,
                      new |-> {}, adds |-> {}, drops |-> {}]
FindsRoles(k) ==
  /\ tool[k] \in Assignment /\ tool'[k] \in Assignment /\ UNCHANGED tables
  /\ tool[k].wanted \subseteq roles /\ tool'[k].rows = tool[k].wanted
  /\ tool'[k].task = tool[k].task /\ tool'[k].user = tool[k].user
  /\ tool'[k].wanted = tool[k].wanted /\ tool'[k].loaded = tool[k].loaded
LooksUp(k) ==
  /\ tool[k] \in Sync /\ tool'[k] \in Sync /\ UNCHANGED tables
  /\ tool'[k].defs = tool[k].defs
  /\ \E role \in tool[k].left :
       /\ tool'[k].left = tool[k].left \ {role}
       /\ tool'[k].new = IF role \in roles THEN tool[k].new ELSE tool[k].new \cup {role}
       /\ tool'[k].adds = tool[k].adds
                            \cup ({role} \X (tool[k].defs[role] \ PermissionsOf(role)))
       /\ tool'[k].drops = tool[k].drops
                            \cup ({role} \X (PermissionsOf(role) \ tool[k].defs[role]))

\* FindRoles notes that the codes exist and does nothing else.
LEMMA FindRolesMoves ==
  ASSUME TypeOK, NEW k \in Tools, FindRoles(k)
  PROVE  FindsRoles(k) /\ tool' \in [Tools -> Task] /\ \A j \in Tools \ {k} : StaysRun(j)
<1> DEFINE old == tool[k]
           new == [old EXCEPT !.found = TRUE, !.rows = old.wanted \cap roles]
<1>0. tool \in [Tools -> Task] /\ old \in Assignment
  BY TaskKinds DEF TypeOK, Task, FindRoles
<1>1. tool' = [tool EXCEPT ![k] = new] /\ UNCHANGED tables /\ old.wanted \subseteq roles
  BY <1>0 DEF FindRoles, Assignment
<1>2. /\ new \in Assignment /\ new.task = old.task /\ new.user = old.user
      /\ new.wanted = old.wanted /\ new.loaded = old.loaded /\ new.rows = old.wanted
  <2>1. old.wanted \in Wishes /\ old.wanted \cap roles = old.wanted
    BY <1>0, <1>1 DEF Assignment
  <2> HIDE DEF old
  <2>2. QED
    BY <1>0, <2>1, WishAssumption DEF Assignment
<1> HIDE DEF new
<1>3. tool'[k] = new /\ tool' \in [Tools -> Task] /\ \A j \in Tools \ {k} : tool'[j] = tool[j]
  BY <1>0, <1>1, <1>2 DEF Task
<1>4. QED
  BY <1>0, <1>1, <1>2, <1>3 DEF FindsRoles, StaysRun

\* ReadRole extends the plan by one role and does nothing else.
LEMMA ReadRoleMoves ==
  ASSUME TypeOK, NEW k \in Tools, Planned(k), NEW role \in Roles, ReadRole(k, role)
  PROVE  LooksUp(k) /\ tool' \in [Tools -> Task] /\ \A j \in Tools \ {k} : StaysRun(j)
<1> DEFINE old == tool[k]
           left == old.left \ {role}
           fresh == IF role \in roles THEN old.new ELSE old.new \cup {role}
           adds == old.adds \cup ({role} \X (old.defs[role] \ PermissionsOf(role)))
           drops == old.drops \cup ({role} \X (PermissionsOf(role) \ old.defs[role]))
           new == [old EXCEPT !.left = left, !.new = fresh, !.adds = adds, !.drops = drops]
<1>0. tool \in [Tools -> Task] /\ old \in Sync /\ role \in old.left
  BY TaskKinds DEF TypeOK, Task, ReadRole
<1>1. tool' = [tool EXCEPT ![k] = new] /\ UNCHANGED tables
  BY <1>0 DEF ReadRole, Sync
<1>2. /\ left \in SUBSET Roles /\ fresh \in SUBSET Roles
      /\ adds \in SUBSET Grants /\ drops \in SUBSET Grants
  <2>1. /\ old.defs \in Definitions /\ old.left \subseteq Roles /\ old.new \subseteq Roles
        /\ old.adds \subseteq Grants /\ old.drops \subseteq Grants
    BY <1>0 DEF Sync
  <2>2. role \in DOMAIN old.defs
    BY <1>0 DEF Planned
  <2>3. old.defs[role] \subseteq Perms /\ PermissionsOf(role) \subseteq Perms
    BY <2>1, <2>2, SeedType DEF PermissionsOf
  <2>4. QED
    BY <2>1, <2>3 DEF Grants
<1> HIDE DEF left, fresh, adds, drops
<1>3. /\ new \in Sync /\ new.defs = old.defs /\ new.left = left /\ new.new = fresh
      /\ new.adds = adds /\ new.drops = drops
  <2> HIDE DEF old
  <2>1. QED
    BY <1>0, <1>2 DEF Sync
<1> HIDE DEF new
<1>4. tool'[k] = new /\ tool' \in [Tools -> Task] /\ \A j \in Tools \ {k} : tool'[j] = tool[j]
  BY <1>0, <1>1, <1>3 DEF Task
<1>5. QED
  BY <1>0, <1>1, <1>3, <1>4 DEF LooksUp, StaysRun, left, fresh, adds, drops

Moves(k) == StaysRun(k) \/ tool'[k] = NoTask \/ BeginsRun(k) \/ FindsRoles(k) \/ LooksUp(k)

\* Every step moves each run in one of these ways.
LEMMA RunsMove ==
  ASSUME IInv, Act
  PROVE  tool' \in [Tools -> Task] /\ \A k \in Tools : Moves(k)
<1>0. tool \in [Tools -> Task] /\ NoTask \in Task /\ TypeOK
  BY DEF IInv, TypeOK, Task
<1>1. ASSUME NEW k \in Tools, NEW t \in Task, Begin(k, t)
      PROVE  /\ tool[k] = NoTask /\ tool'[k] = t /\ tool' \in [Tools -> Task]
             /\ \A j \in Tools \ {k} : StaysRun(j)
  BY <1>0, <1>1 DEF Begin, StaysRun
<1>2. ASSUME NEW k \in Tools, tool' = [tool EXCEPT ![k] = NoTask]
      PROVE  tool' \in [Tools -> Task] /\ \A j \in Tools : Moves(j)
  BY <1>0, <1>2 DEF Moves, StaysRun
<1>3. ASSUME NEW k \in Tools, NEW u \in Users, NEW W \in Wishes, StartCreate(k, u, W)
      PROVE  tool' \in [Tools -> Task] /\ \A j \in Tools : Moves(j)
  <2> DEFINE t == [task |-> "create", found |-> FALSE, user |-> u, wanted |-> W,
                   rows |-> {}, loaded |-> {}]
  <2>1. t \in Task
    BY DEF Task, Assignment
  <2>2. Begin(k, t) /\ UNCHANGED tables
    BY <1>3 DEF StartCreate
  <2>3. BeginsRun(k)
    BY <1>1, <2>1, <2>2 DEF BeginsRun
  <2>4. QED
    BY <1>1, <2>1, <2>2, <2>3 DEF Moves
<1>4. ASSUME NEW k \in Tools, NEW u \in Users, NEW W \in Wishes, StartAssign(k, u, W)
      PROVE  tool' \in [Tools -> Task] /\ \A j \in Tools : Moves(j)
  <2> DEFINE t == [task |-> "assign", found |-> FALSE, user |-> u, wanted |-> W,
                   rows |-> {}, loaded |-> HeldBy(u)]
  <2>1. t \in Task
    BY DEF Task, Assignment, HeldBy
  <2>2. Begin(k, t) /\ UNCHANGED tables /\ u \in users
    BY <1>4 DEF StartAssign
  <2>3. BeginsRun(k)
    BY <1>1, <2>1, <2>2 DEF BeginsRun
  <2>4. QED
    BY <1>1, <2>1, <2>2, <2>3 DEF Moves
<1>5. ASSUME NEW k \in Tools, NEW defs \in Seeds, StartSync(k, defs)
      PROVE  tool' \in [Tools -> Task] /\ \A j \in Tools : Moves(j)
  <2> DEFINE t == [task |-> "sync", defs |-> defs, left |-> DOMAIN defs,
                   new |-> {}, adds |-> {}, drops |-> {}]
  <2>0. defs \in Definitions
    BY <1>5 DEF StartSync, Definitions
  <2>1. t \in Task
    BY <2>0, SeedType DEF Task, Sync
  <2>2. Begin(k, t) /\ UNCHANGED tables
    BY <1>5 DEF StartSync
  <2>3. BeginsRun(k)
    BY <1>1, <2>0, <2>1, <2>2 DEF BeginsRun
  <2>4. QED
    BY <1>1, <2>1, <2>2, <2>3 DEF Moves
<1>6. ASSUME NEW k \in Tools, FindRoles(k)
      PROVE  tool' \in [Tools -> Task] /\ \A j \in Tools : Moves(j)
  BY <1>0, <1>6, FindRolesMoves DEF Moves
<1>7. ASSUME NEW k \in Tools, NEW role \in Roles, ReadRole(k, role)
      PROVE  tool' \in [Tools -> Task] /\ \A j \in Tools : Moves(j)
  BY <1>0, <1>7, ReadRoleMoves DEF Moves, IInv
<1>8. ASSUME NEW k \in Tools, CommitCreate(k) \/ CommitAssign(k) \/ CommitSync(k) \/ AbortTool(k)
      PROVE  tool' \in [Tools -> Task] /\ \A j \in Tools : Moves(j)
  BY <1>2, <1>8 DEF CommitCreate, CommitAssign, CommitSync, AbortTool
<1>9. ASSUME tool' = tool PROVE tool' \in [Tools -> Task] /\ \A j \in Tools : Moves(j)
  BY <1>0, <1>9 DEF Moves, StaysRun
<1>10. CASE Operate
  <2>1. ASSUME NEW u \in Users, SetActive(u) PROVE tool' = tool
    BY <2>1 DEF SetActive
  <2>2. QED
    BY <1>3, <1>4, <1>5, <1>6, <1>7, <1>8, <1>9, <1>10, <2>1 DEF Operate, Script
<1>11. CASE Restart \/ \E r \in Requests : Check(r)
  BY <1>9, <1>11 DEF Restart, Check, LoadUser, LoadRoles, Grant, Refuse
<1>12. QED
  BY <1>10, <1>11 DEF Act

------------------------------------------------------------------------------
(* What happens to the tables *)

TablesOK ==
  /\ users \subseteq Users /\ active \subseteq users /\ roles \subseteq Roles
  /\ members \subseteq users \X roles
  /\ grants \subseteq roles \X Perms

\* What a synchronisation commits is about the roles it defines.
LEMMA SyncType ==
  ASSUME IInv, NEW k \in Tools, CommitSync(k)
  PROVE  /\ tool[k] \in Sync
         /\ tool[k].adds \subseteq (DOMAIN tool[k].defs) \X Perms
         /\ tool[k].drops \subseteq (DOMAIN tool[k].defs) \X Perms
         /\ roles' = roles \cup DOMAIN tool[k].defs
         /\ DOMAIN tool[k].defs \subseteq Roles
         /\ tool[k].adds \subseteq Wanted(tool[k])
         /\ tool[k].drops \cap Wanted(tool[k]) = {}
<1>1. tool[k] \in Sync /\ tool[k].left = {} /\ tool[k].defs \in Definitions
  <2>1. tool[k] \in Task /\ tool[k].task = "sync" /\ tool[k].left = {}
    BY DEF IInv, TypeOK, Task, CommitSync
  <2>2. tool[k] \in Sync
    BY <2>1, TaskKinds
  <2>3. QED
    BY <2>1, <2>2 DEF Sync
<1>2. Planned(k)
  BY DEF IInv
<1>3. QED
  BY <1>1, <1>2, SeedType DEF Planned, CommitSync

\* The tables stay well typed; no user and no role is ever deleted.
LEMMA ActTables ==
  ASSUME IInv, Act
  PROVE  TablesOK' /\ users \subseteq users' /\ roles \subseteq roles'
<1>0. TablesOK /\ tool \in [Tools -> Task]
  BY DEF IInv, TypeOK, TablesOK, Task
<1>1. ASSUME UNCHANGED tables PROVE TablesOK' /\ users \subseteq users' /\ roles \subseteq roles'
  BY <1>0, <1>1 DEF tables, TablesOK
<1>2. ASSUME NEW k \in Tools, CommitCreate(k)
      PROVE  TablesOK' /\ users \subseteq users' /\ roles \subseteq roles'
  <2>1. tool[k] \in Assignment /\ tool[k].found
    BY <1>0, <1>2, TaskKinds DEF CommitCreate
  <2>2. tool[k].user \in Users /\ tool[k].rows \subseteq roles
    BY <2>1 DEF Assignment, IInv, Found
  <2>3. QED
    BY <1>0, <1>2, <2>2 DEF CommitCreate, TablesOK
<1>3. ASSUME NEW k \in Tools, CommitAssign(k)
      PROVE  TablesOK' /\ users \subseteq users' /\ roles \subseteq roles'
  <2>1. tool[k] \in Assignment /\ tool[k].found /\ tool[k].task = "assign"
    BY <1>0, <1>3, TaskKinds DEF CommitAssign
  <2>2. tool[k].user \in users /\ tool[k].rows \subseteq roles
    BY <2>1 DEF IInv, Found
  <2>3. QED
    BY <1>0, <1>3, <2>2 DEF CommitAssign, TablesOK
<1>4. ASSUME NEW k \in Tools, CommitSync(k)
      PROVE  TablesOK' /\ users \subseteq users' /\ roles \subseteq roles'
  <2>1. grants' \subseteq roles' \X Perms
    <3>1. roles' = roles \cup DOMAIN tool[k].defs /\ tool[k].adds \subseteq roles' \X Perms
      BY <1>4, SyncType
    <3>2. grants \subseteq roles' \X Perms
      BY <1>0, <3>1 DEF TablesOK
    <3>3. grants' = (grants \ tool[k].drops) \cup tool[k].adds
      BY <1>4 DEF CommitSync
    <3>4. QED
      BY <3>1, <3>2, <3>3
  <2>2. QED
    BY <1>0, <1>4, <2>1, SyncType DEF CommitSync, TablesOK
<1>5. ASSUME NEW u \in Users, SetActive(u)
      PROVE  TablesOK' /\ users \subseteq users' /\ roles \subseteq roles'
  BY <1>0, <1>5 DEF SetActive, TablesOK
<1>6. CASE Operate
  <2>1. ASSUME NEW k \in Tools, Script(k)
        PROVE  TablesOK' /\ users \subseteq users' /\ roles \subseteq roles'
    BY <1>1, <1>2, <1>3, <1>4, <2>1
       DEF Script, StartCreate, StartAssign, FindRoles, StartSync, ReadRole, AbortTool
  <2>2. QED
    BY <1>5, <1>6, <2>1 DEF Operate
<1>7. CASE Restart \/ \E r \in Requests : Check(r)
  BY <1>1, <1>7 DEF Restart, Check, LoadUser, LoadRoles, Grant, Refuse
<1>8. QED
  BY <1>6, <1>7 DEF Act

------------------------------------------------------------------------------
(* What a run still knows of the tables *)

\* A row is in one of the two tables only.
LEMMA RowKinds ==
  ASSUME TablesOK, NEW x
  PROVE  /\ x \in Members => (x \in Rows <=> x \in members)
         /\ x \in Grants => (x \in Rows <=> x \in grants)
BY DisjointAssumption DEF TablesOK, Rows, Members, Grants

\* A row that changes against a run is one the run no longer counts on.
LEMMA Opposed ==
  ASSUME TypeOK, Watch, NEW k \in Tools, tool'[k] # NoTask
  PROVE  /\ opposed[k] \subseteq opposed'[k]
         /\ \A x \in Scope(tool[k]) \ opposed'[k] :
              /\ x \in Wanted(tool[k]) /\ x \in Rows => x \in Rows'
              /\ x \notin Wanted(tool[k]) /\ x \notin Rows => x \notin Rows'
<1>1. opposed'[k] = opposed[k] \cup Against(tool[k])
  BY DEF Watch
<1>2. QED
  BY <1>1 DEF Against

\* How a run begins.
LEMMA BeginsAs ==
  ASSUME NEW k \in Tools, BeginsRun(k)
  PROVE  LET t == tool'[k] IN
         \/ t.task = "create" /\ ~t.found /\ t \notin Sync
         \/ /\ t.task = "assign" /\ ~t.found /\ t \notin Sync
            /\ t.user \in users /\ t.user \in Users /\ t.loaded = HeldBy(t.user)
         \/ /\ t.task = "sync" /\ t \notin Assignment
            /\ t.left = DOMAIN t.defs /\ t.new = {} /\ t.adds = {} /\ t.drops = {}
<1>1. CASE \E u \in Users, W \in Wishes :
             tool'[k] = [task |-> "create", found |-> FALSE, user |-> u, wanted |-> W,
                         rows |-> {}, loaded |-> {}]
  BY <1>1 DEF Sync
<1>2. CASE \E u \in Users, W \in Wishes :
             /\ u \in users
             /\ tool'[k] = [task |-> "assign", found |-> FALSE, user |-> u, wanted |-> W,
                            rows |-> {}, loaded |-> HeldBy(u)]
  BY <1>2 DEF Sync
<1>3. CASE \E defs \in Definitions :
             tool'[k] = [task |-> "sync", defs |-> defs, left |-> DOMAIN defs,
                         new |-> {}, adds |-> {}, drops |-> {}]
  BY <1>3 DEF Assignment
<1>4. QED
  BY <1>1, <1>2, <1>3, Zenon DEF BeginsRun

\* Codes once found stay found.
LEMMA StepFound ==
  ASSUME IInv, Act, NEW k \in Tools
  PROVE  Found(k)'
<1>1. users \subseteq users' /\ roles \subseteq roles' /\ Found(k) /\ tool[k] \in Task
  BY ActTables DEF IInv, TypeOK, Task
<1>2. CASE StaysRun(k)
  BY <1>1, <1>2 DEF StaysRun, Found
<1>3. CASE tool'[k] = NoTask
  BY <1>3 DEF NoTask, Found, Assignment
<1>4. CASE BeginsRun(k)
  BY <1>1, <1>4, BeginsAs DEF Found
<1>5. CASE FindsRoles(k)
  BY <1>1, <1>5 DEF FindsRoles, Found, tables
<1>6. CASE LooksUp(k)
  BY <1>1, <1>6 DEF LooksUp, Found, Sync, Assignment
<1>7. QED
  BY <1>2, <1>3, <1>4, <1>5, <1>6, RunsMove DEF Moves

\* The plan of a synchronisation stays within its definitions.
LEMMA StepPlanned ==
  ASSUME IInv, Act, NEW k \in Tools
  PROVE  Planned(k)'
<1>1. roles \subseteq roles' /\ Planned(k)
  BY ActTables DEF IInv
<1>2. CASE StaysRun(k)
  BY <1>1, <1>2 DEF StaysRun, Planned, Wanted
<1>3. CASE tool'[k] = NoTask
  BY <1>3 DEF NoTask, Planned, Sync
<1>4. CASE BeginsRun(k)
  BY <1>4, BeginsAs DEF Planned
<1>5. CASE FindsRoles(k)
  BY <1>5 DEF FindsRoles, Planned, Sync, Assignment
<1>6. CASE LooksUp(k)
  <2> DEFINE t == tool[k]
             u == tool'[k]
             read == (DOMAIN t.defs) \ t.left
  <2>1. /\ t.left \cup t.new \subseteq DOMAIN t.defs
        /\ read \subseteq roles \cup t.new
        /\ t.adds \subseteq (read \X Perms) \cap Wanted(t)
        /\ t.drops \subseteq (read \X Perms) \ Wanted(t)
    BY <1>1, <1>6 DEF LooksUp, Planned
  <2>2. PICK role \in t.left :
          /\ u.left = t.left \ {role}
          /\ u.new = IF role \in roles THEN t.new ELSE t.new \cup {role}
          /\ u.adds = t.adds \cup ({role} \X (t.defs[role] \ PermissionsOf(role)))
          /\ u.drops = t.drops \cup ({role} \X (PermissionsOf(role) \ t.defs[role]))
    BY <1>6 DEF LooksUp
  <2>3. u.defs = t.defs /\ t.defs \in Definitions /\ u.task = "sync" /\ t.task = "sync"
    BY <1>6 DEF LooksUp, Sync
  <2>4. /\ Wanted(u) = Wanted(t)
        /\ Wanted(t) = {x \in (DOMAIN t.defs) \X Perms : x[2] \in t.defs[x[1]]}
    BY <2>3 DEF Wanted
  <2>5. /\ role \in DOMAIN t.defs /\ t.defs[role] \subseteq Perms
        /\ PermissionsOf(role) \subseteq Perms
    BY <2>1, <2>3, SeedType DEF PermissionsOf
  <2>6. (DOMAIN u.defs) \ u.left = read \cup {role}
    BY <2>2, <2>3, <2>5
  <2>7. u.left \cup u.new \subseteq DOMAIN u.defs /\ read \cup {role} \subseteq roles' \cup u.new
    BY <1>1, <2>1, <2>2, <2>3, <2>5
  <2>8. u.adds \subseteq ((read \cup {role}) \X Perms) \cap Wanted(t)
    BY <2>1, <2>2, <2>4, <2>5
  <2>9. u.drops \subseteq ((read \cup {role}) \X Perms) \ Wanted(t)
    BY <2>1, <2>2, <2>4, <2>5
  <2> HIDE DEF t, read
  <2>10. Wanted(tool[k])' = Wanted(t)
    BY <2>4 DEF Wanted
  <2>11. QED
    BY <2>6, <2>7, <2>8, <2>9, <2>10 DEF Planned
<1>7. QED
  BY <1>2, <1>3, <1>4, <1>5, <1>6, RunsMove DEF Moves

\* Unopposed rows stay as they were read.
LEMMA StepUndisturbed ==
  ASSUME IInv, Act, Watch, NEW k \in Tools
  PROVE  Undisturbed(k)'
<1> DEFINE t == tool[k]
           u == tool'[k]
<1>0. /\ TypeOK /\ TablesOK /\ TablesOK' /\ Undisturbed(k) /\ Planned(k) /\ t \in Task
  BY ActTables DEF IInv, TypeOK, TablesOK, Task
<1>1. CASE u = NoTask
  BY <1>1 DEF NoTask, Undisturbed
<1>2. CASE u # NoTask /\ StaysRun(k)
  <2>1. \A x \in Scope(t) \ opposed'[k] :
          /\ x \notin opposed[k]
          /\ x \in Wanted(t) /\ x \in Rows => x \in Rows'
          /\ x \notin Wanted(t) /\ x \notin Rows => x \notin Rows'
    BY <1>0, <1>2, Opposed
  <2>2. u = t /\ Scope(tool[k])' = Scope(t) /\ Wanted(tool[k])' = Wanted(t)
    BY <1>2 DEF StaysRun, Scope, Wanted
  <2>3. QED
    BY <1>0, <2>1, <2>2 DEF Undisturbed
<1>3. CASE BeginsRun(k)
  <2>1. Rows' = Rows
    BY <1>3 DEF BeginsRun, tables, Rows
  <2>2. CASE u.task = "create"
    BY <2>2 DEF Undisturbed
  <2>3. CASE u.task = "assign" /\ u.user \in Users /\ u.loaded = HeldBy(u.user)
    <3>1. Scope(tool[k])' = {u.user} \X Roles
      BY <2>3 DEF Scope
    <3>2. \A x \in {u.user} \X Roles : x \in Rows <=> x[2] \in u.loaded
      <4> SUFFICES ASSUME NEW role \in Roles
                   PROVE  <<u.user, role>> \in Rows <=> role \in HeldBy(u.user)
        BY <2>3
      <4>1. <<u.user, role>> \in Rows <=> <<u.user, role>> \in members
        BY <1>0, <2>3, RowKinds DEF Members
      <4>2. QED
        BY <4>1 DEF HeldBy
    <3>3. QED
      BY <2>1, <2>3, <3>1, <3>2 DEF Undisturbed
  <2>4. CASE u.task = "sync" /\ u.left = DOMAIN u.defs
    BY <2>4 DEF Undisturbed, Scope
  <2>5. QED
    BY <1>3, <2>2, <2>3, <2>4, BeginsAs
<1>4. CASE FindsRoles(k) /\ u # NoTask
  <2>1. /\ Rows' = Rows /\ u.task = t.task /\ u.loaded = t.loaded
        /\ t.task \in {"create", "assign"} /\ u.user = t.user /\ u.wanted = t.wanted
    BY <1>4 DEF FindsRoles, tables, Rows, Assignment
  <2>2. Scope(tool[k])' = Scope(t) /\ Wanted(tool[k])' = Wanted(t)
    BY <2>1 DEF Scope, Wanted
  <2>3. opposed[k] \subseteq opposed'[k]
    BY <1>0, <1>4, Opposed
  <2>4. QED
    BY <1>0, <2>1, <2>2, <2>3 DEF Undisturbed
<1>5. CASE LooksUp(k) /\ u # NoTask
  <2>1. /\ Rows' = Rows /\ u.task = "sync" /\ t.task = "sync" /\ u.defs = t.defs
        /\ t.defs \in Definitions
    BY <1>5 DEF LooksUp, tables, Rows, Sync
  <2>2. Scope(tool[k])' = Scope(t) /\ Wanted(tool[k])' = Wanted(t)
    BY <2>1 DEF Scope, Wanted
  <2>3. opposed[k] \subseteq opposed'[k]
    BY <1>0, <1>5, Opposed
  <2>4. PICK role \in t.left :
          /\ u.left = t.left \ {role}
          /\ u.adds = t.adds \cup ({role} \X (t.defs[role] \ PermissionsOf(role)))
          /\ u.drops = t.drops \cup ({role} \X (PermissionsOf(role) \ t.defs[role]))
    BY <1>5 DEF LooksUp
  <2>5. role \in DOMAIN t.defs /\ role \in Roles
    BY <1>0, <1>5, <2>1, SeedType DEF LooksUp, Planned
  <2>6. ASSUME NEW x \in Scope(t) \ opposed'[k], x[1] \notin u.left
        PROVE  /\ x \in Wanted(t) \ u.adds => x \in Rows
               /\ x \notin Wanted(t) \cup u.drops => x \notin Rows
    <3>1. x \in (DOMAIN t.defs) \X Perms
      BY <2>1 DEF Scope
    <3>2. CASE x[1] # role
      BY <1>0, <2>1, <2>3, <2>4, <2>6, <3>2 DEF Undisturbed
    <3>3. CASE x[1] = role
      <4>1. x = <<role, x[2]>> /\ x[2] \in Perms
        BY <3>1, <3>3
      <4>2. x \in Rows <=> x[2] \in PermissionsOf(role)
        <5>1. x \in Grants
          BY <2>5, <4>1 DEF Grants
        <5>2. x \in Rows <=> x \in grants
          BY <1>0, <5>1, RowKinds
        <5>3. x[2] \in PermissionsOf(role) <=> x \in grants
          BY <4>1 DEF PermissionsOf
        <5>4. QED
          BY <5>2, <5>3
      <4>3. x \in Wanted(t) <=> x[2] \in t.defs[role]
        BY <2>1, <3>1, <3>3 DEF Wanted
      <4>4. /\ x \notin u.adds => ~(x[2] \in t.defs[role] \ PermissionsOf(role))
            /\ x \notin u.drops => ~(x[2] \in PermissionsOf(role) \ t.defs[role])
        BY <2>4, <4>1
      <4>5. QED
        BY <4>2, <4>3, <4>4
    <3>4. QED
      BY <3>2, <3>3
  <2>7. QED
    BY <2>1, <2>2, <2>6 DEF Undisturbed
<1>6. QED
  BY <1>1, <1>2, <1>3, <1>4, <1>5, RunsMove DEF Moves

------------------------------------------------------------------------------
(* All of it *)

\* A run decides about rows of the two tables only.
LEMMA ScopeType ==
  ASSUME NEW t \in Task
  PROVE  Scope(t) \subseteq Members \cup Grants
<1>1. CASE t.task = "none"
  BY <1>1 DEF Scope
<1>2. CASE t.task = "sync"
  <2>1. t.defs \in Definitions
    BY <1>2, TaskKinds DEF Sync
  <2>2. QED
    BY <1>2, <2>1, SeedType DEF Scope, Grants
<1>3. CASE t.task \in {"create", "assign"}
  <2>1. t.user \in Users
    BY <1>3, TaskKinds DEF Assignment
  <2>2. Scope(t) = {t.user} \X Roles
    BY <1>3 DEF Scope
  <2>3. QED
    BY <2>1, <2>2 DEF Members
<1>4. QED
  BY <1>1, <1>2, <1>3, TaskKinds

\* Every step preserves the types.
LEMMA StepType ==
  ASSUME IInv, Act, Watch
  PROVE  TypeOK'
<1>1. TypeOK /\ \A r \in Requests : Seen(r)
  BY DEF IInv
<1>2. TablesOK'
  BY ActTables
<1>3. req' \in [Requests -> Request \cup {NoRequest}]
  BY <1>1, RequestsMove
<1>4. tool' \in [Tools -> Task]
  BY RunsMove
<1>5. ever' \in [Requests -> View] /\ always' \in [Requests -> View]
  <2>1. \A r \in Requests : ever'[r] \in View /\ always'[r] \in View
    BY <1>1, StepSeen
  <2>2. /\ ever' = [r \in Requests |-> Watched(ever, r, Union)]
        /\ always' = [r \in Requests |-> Watched(always, r, Common)]
    BY DEF Watch
  <2>3. /\ ever' = [r \in Requests |-> ever'[r]]
        /\ always' = [r \in Requests |-> always'[r]]
    BY <2>2
  <2>4. QED
    BY <2>1, <2>3
<1>6. opposed' \in [Tools -> SUBSET (Members \cup Grants)]
  <2>1. \A k \in Tools : Against(tool[k]) \subseteq Members \cup Grants
    BY <1>1, ScopeType DEF TypeOK, Task, Against
  <2>2. QED
    BY <1>1, <2>1 DEF Watch, TypeOK
<1>7. QED
  BY <1>2, <1>3, <1>4, <1>5, <1>6 DEF TypeOK, TablesOK, Task

\* The invariant holds at first.
LEMMA InitIInv == Init => IInv
<1> SUFFICES ASSUME Init PROVE IInv
  OBVIOUS
<1>1. TypeOK
  BY DEF Init, TypeOK, NoView, View
<1>2. ASSUME NEW r \in Requests PROVE Seen(r)
  BY DEF Init, Seen
<1>3. ASSUME NEW k \in Tools PROVE Found(k) /\ Planned(k) /\ Undisturbed(k)
  BY DEF Init, Found, Planned, Undisturbed, NoTask, Assignment, Sync
<1>4. QED
  BY <1>1, <1>2, <1>3 DEF IInv

\* Every step preserves it.
LEMMA NextIInv == IInv /\ [Next]_vars => IInv'
<1> SUFFICES ASSUME IInv, [Next]_vars PROVE IInv'
  OBVIOUS
<1>1. CASE Next
  <2>1. Act /\ Watch
    BY <1>1, NextIsAct
  <2>2. TypeOK' /\ \A r \in Requests : Seen(r)'
    BY <2>1, StepType, StepSeen DEF IInv
  <2>3. \A k \in Tools : (Found(k) /\ Planned(k) /\ Undisturbed(k))'
    BY <2>1, StepFound, StepPlanned, StepUndisturbed
  <2>4. QED
    BY <2>2, <2>3 DEF IInv
<1>2. CASE UNCHANGED vars
  BY <1>2 DEF vars, tables, history, IInv, TypeOK, Seen, HeldBy, Granting, Found, Planned,
              Undisturbed, Rows, Scope, Wanted
<1>3. QED
  BY <1>1, <1>2

\* So it holds in every reachable state.
LEMMA Invariance == Spec => []IInv
BY InitIInv, NextIInv, PTL DEF Spec

\* The types hold in every reachable state.
THEOREM TypeCorrect == Spec => []TypeOK
BY Invariance, PTL DEF IInv

\* Who is let through had, while their user was being loaded, an active account
\* and a role with the permission.
THEOREM GrantsWereInForce == Spec => GrantedInForce
<1>1. ASSUME IInv, NEW r \in Requests, Grant(r)
      PROVE  ever[r].active /\ ever[r].held \cap ever[r].granting # {}
  <2>1. req[r] # NoRequest /\ req[r].pc = "perms" /\ Permitted(r) /\ Seen(r)
    BY <1>1 DEF Grant, NoRequest, IInv
  <2>2. QED
    BY <2>1 DEF Permitted, Seen
<1>2. IInv /\ [Next]_vars =>
        [\A r \in Requests :
           Grant(r) => ever[r].active /\ ever[r].held \cap ever[r].granting # {}]_vars
  BY <1>1
<1>3. QED
  BY <1>2, Invariance, PTL DEF Spec, GrantedInForce

\* Who is refused lacked, at some time of the check, what it takes.
THEOREM RefusalsWereNotInForce == Spec => RefusedNotInForce
<1>1. ASSUME IInv, NEW r \in Requests, Refuse(r)
      PROVE  ~(always[r].active /\ always[r].held \cap always[r].granting # {})
  <2>1. req[r] # NoRequest /\ req[r].pc = "perms" /\ ~Permitted(r) /\ Seen(r)
    BY <1>1 DEF Refuse, NoRequest, IInv
  <2>2. QED
    BY <2>1 DEF Permitted, Seen
<1>2. IInv /\ [Next]_vars =>
        [\A r \in Requests :
           Refuse(r) =>
             ~(always[r].active /\ always[r].held \cap always[r].granting # {})]_vars
  BY <1>1
<1>3. QED
  BY <1>2, Invariance, PTL DEF Spec, RefusedNotInForce

\* assign_roles and create_user leave a user with the roles asked for, but where
\* another run acted against it.
THEOREM AssignsExactly == Spec => AssignedExactly
<1>1. ASSUME IInv, NEW k \in Tools, CommitCreate(k) PROVE Exactly(k)
  <2> DEFINE t == tool[k]
  <2>1. TablesOK /\ t \in Task
    BY <1>1 DEF IInv, TypeOK, TablesOK, Task
  <2>2. /\ t.task = "create" /\ t.user \in Users /\ t.user \notin users
        /\ t.wanted \subseteq Roles /\ t.rows = t.wanted
    BY <1>1, <2>1, TaskKinds, WishAssumption DEF CommitCreate, Assignment, IInv, Found
  <2>3. Scope(t) = {t.user} \X Roles /\ Wanted(t) = {t.user} \X t.wanted
    BY <2>2 DEF Scope, Wanted
  <2>4. Rows' = Rows \cup Wanted(t)
    BY <1>1, <2>2, <2>3 DEF CommitCreate, Rows
  <2>5. \A x \in Scope(t) : x \notin Rows
    BY <2>1, <2>2, <2>3, RowKinds DEF TablesOK, Members
  <2>6. Wanted(t) \subseteq Scope(t)
    BY <2>2, <2>3
  <2>7. QED
    BY <2>4, <2>5, <2>6 DEF Exactly
<1>2. ASSUME IInv, NEW k \in Tools, CommitAssign(k) PROVE Exactly(k)
  <2> DEFINE t == tool[k]
             adds == {t.user} \X (t.wanted \ t.loaded)
             drops == {t.user} \X (t.loaded \ t.wanted)
  <2>1. TablesOK /\ t \in Task /\ Undisturbed(k)
    BY <1>2 DEF IInv, TypeOK, TablesOK, Task
  <2>2. /\ t.task = "assign" /\ t.user \in Users
        /\ t.wanted \subseteq Roles /\ t.loaded \subseteq Roles /\ t.rows = t.wanted
    BY <1>2, <2>1, TaskKinds, WishAssumption DEF CommitAssign, Assignment, IInv, Found
  <2>3. Scope(t) = {t.user} \X Roles /\ Wanted(t) = {t.user} \X t.wanted
    BY <2>2 DEF Scope, Wanted
  <2>4. members' = (members \ drops) \cup adds /\ grants' = grants
    BY <1>2, <2>2 DEF CommitAssign
  <2>5. adds \subseteq Scope(t) /\ drops \subseteq Scope(t) /\ Scope(t) \cap grants = {}
    BY <2>1, <2>2, <2>3, DisjointAssumption DEF TablesOK
  <2>6. ASSUME NEW x \in Scope(t) \ opposed[k] PROVE x \in Rows' <=> x \in Wanted(t)
    <3>1. /\ x \in Wanted(t) /\ x[2] \in t.loaded => x \in members
          /\ x \notin Wanted(t) /\ x[2] \notin t.loaded => x \notin members
      BY <2>1, <2>2, <2>5, <2>6 DEF Undisturbed, Rows
    <3>2. /\ x \in adds <=> x \in Wanted(t) /\ x[2] \notin t.loaded
          /\ x \in drops <=> x \notin Wanted(t) /\ x[2] \in t.loaded
      BY <2>2, <2>3, <2>6
    <3>3. x \in Rows' <=> x \in members'
      BY <2>4, <2>5, <2>6 DEF Rows
    <3> HIDE DEF adds, drops
    <3>4. QED
      BY <2>4, <3>1, <3>2, <3>3
  <2>7. ASSUME NEW x \in (Rows \cup Rows') \ Scope(t) PROVE x \in Rows /\ x \in Rows'
    <3>1. x \notin adds /\ x \notin drops
      BY <2>5, <2>7
    <3> HIDE DEF adds, drops
    <3>2. QED
      BY <2>4, <2>7, <3>1 DEF Rows
  <2>8. QED
    BY <2>6, <2>7 DEF Exactly
<1>3. IInv /\ [Next]_vars =>
        [\A k \in Tools : CommitAssign(k) \/ CommitCreate(k) => Exactly(k)]_vars
  BY <1>1, <1>2
<1>4. QED
  BY <1>3, Invariance, PTL DEF Spec, AssignedExactly

\* sync_roles leaves its roles with their permissions, but where another run
\* acted against it, and leaves no other role changed.
THEOREM SyncsExactly == Spec => SyncedExactly
<1>1. ASSUME IInv, NEW k \in Tools, CommitSync(k)
      PROVE  Exactly(k) /\ roles' = roles \cup DOMAIN tool[k].defs
  <2> DEFINE t == tool[k]
  <2>1. TablesOK /\ Undisturbed(k) /\ t.left = {} /\ t.task = "sync"
    BY <1>1 DEF IInv, TypeOK, TablesOK, CommitSync
  <2>2. /\ t.adds \subseteq (DOMAIN t.defs) \X Perms /\ t.drops \subseteq (DOMAIN t.defs) \X Perms
        /\ t.adds \subseteq Wanted(t) /\ t.drops \cap Wanted(t) = {}
        /\ DOMAIN t.defs \subseteq Roles /\ roles' = roles \cup DOMAIN t.defs
    BY <1>1, SyncType
  <2>3. Scope(t) = (DOMAIN t.defs) \X Perms
    BY <2>1 DEF Scope
  <2>4. grants' = (grants \ t.drops) \cup t.adds /\ members' = members
    BY <1>1 DEF CommitSync
  <2>5. Scope(t) \cap members = {}
    BY <2>1, <2>2, <2>3, DisjointAssumption DEF TablesOK
  <2>6. ASSUME NEW x \in Scope(t) \ opposed[k] PROVE x \in Rows' <=> x \in Wanted(t)
    <3>1. /\ x \in Wanted(t) \ t.adds => x \in grants
          /\ x \notin Wanted(t) \cup t.drops => x \notin grants
      BY <2>1, <2>5, <2>6 DEF Undisturbed, Rows
    <3>2. x \in Rows' <=> x \in grants'
      BY <2>4, <2>5, <2>6 DEF Rows
    <3>3. QED
      BY <2>2, <2>4, <3>1, <3>2
  <2>7. ASSUME NEW x \in (Rows \cup Rows') \ Scope(t) PROVE x \in Rows /\ x \in Rows'
    <3>1. x \notin t.adds /\ x \notin t.drops
      BY <2>2, <2>3, <2>7
    <3>2. QED
      BY <2>4, <2>7, <3>1 DEF Rows
  <2>8. QED
    BY <2>2, <2>6, <2>7 DEF Exactly
<1>2. IInv /\ [Next]_vars =>
        [\A k \in Tools : CommitSync(k) =>
           Exactly(k) /\ roles' = roles \cup DOMAIN tool[k].defs]_vars
  BY <1>1
<1>3. QED
  BY <1>2, Invariance, PTL DEF Spec, SyncedExactly

------------------------------------------------------------------------------
(* The abstract policy *)

\* A table in which one entry is replaced.
LEMMA OneEntry ==
  ASSUME NEW S, NEW f, NEW g, f = [v \in S |-> f[v]], g = [v \in S |-> g[v]],
         NEW u \in S, \A v \in S \ {u} : g[v] = f[v]
  PROVE  g = [f EXCEPT ![u] = g[u]]
OBVIOUS

\* Who holds what is what the rows say.
LEMMA RowsHeld ==
  ASSUME TablesOK
  PROVE  /\ \A u \in Users, role \in Roles :
              /\ role \in HeldBy(u) <=> <<u, role>> \in members
              /\ <<u, role>> \in Rows <=> <<u, role>> \in members
         /\ \A role \in Roles, p \in Perms :
              /\ p \in PermissionsOf(role) <=> <<role, p>> \in grants
              /\ <<role, p>> \in Rows <=> <<role, p>> \in grants
<1>1. ASSUME NEW u \in Users, NEW role \in Roles
      PROVE  /\ role \in HeldBy(u) <=> <<u, role>> \in members
             /\ <<u, role>> \in Rows <=> <<u, role>> \in members
  BY RowKinds DEF HeldBy, Members
<1>2. ASSUME NEW role \in Roles, NEW p \in Perms
      PROVE  /\ p \in PermissionsOf(role) <=> <<role, p>> \in grants
             /\ <<role, p>> \in Rows <=> <<role, p>> \in grants
  BY RowKinds DEF PermissionsOf, Grants
<1>3. QED
  BY <1>1, <1>2

\* The table of who holds what, when the list of one user changes.
LEMMA OneUser ==
  ASSUME NEW u \in Users, NEW list, HeldBy(u)' = list,
         \A v \in Users \ {u} : HeldBy(v)' = HeldBy(v)
  PROVE  [v \in Users |-> HeldBy(v)]' = [[v \in Users |-> HeldBy(v)] EXCEPT ![u] = list]
<1> DEFINE f == [v \in Users |-> HeldBy(v)]
           g == [v \in Users |-> HeldBy(v)']
<1>1. /\ f = [v \in Users |-> f[v]] /\ g = [v \in Users |-> g[v]]
      /\ g[u] = list /\ \A v \in Users \ {u} : g[v] = f[v]
  OBVIOUS
<1> HIDE DEF f, g
<1>2. g = [f EXCEPT ![u] = list]
  BY <1>1, OneEntry
<1>3. QED
  BY <1>2 DEF f, g

\* create_user gives a new user the roles it was told to.
LEMMA CreatePolicy ==
  ASSUME IInv, NEW k \in Tools, CommitCreate(k)
  PROVE  \E u \in Users, W \in Wishes : Policy!Create(u, W)
<1>1. PICK u, W : u = tool[k].user /\ W = tool[k].wanted
  OBVIOUS
<1>2. tool[k] \in Assignment /\ tool[k].found /\ TablesOK /\ Found(k)
  BY TaskKinds DEF IInv, TypeOK, TablesOK, Task, CommitCreate
<1>3. u \in Users /\ W \in Wishes /\ W \subseteq roles /\ roles \subseteq Roles
  BY <1>1, <1>2 DEF Assignment, Found, TablesOK
<1>4. /\ u \notin users /\ users' = users \cup {u} /\ active' = active \cup {u}
      /\ members' = members \cup ({u} \X W) /\ roles' = roles /\ grants' = grants
  BY <1>1, <1>2 DEF CommitCreate, Found
<1>5. HeldBy(u)' = W
  <2>1. \A role \in Roles : <<u, role>> \notin members
    BY <1>2, <1>4 DEF TablesOK
  <2>2. \A role \in Roles : <<u, role>> \in members' <=> role \in W
    BY <1>3, <1>4, <2>1
  <2>3. QED
    BY <1>3, <2>2 DEF HeldBy
<1>6. ASSUME NEW v \in Users \ {u} PROVE HeldBy(v)' = HeldBy(v)
  BY <1>4, <1>6 DEF HeldBy
<1>7. [v \in Users |-> HeldBy(v)]' = [[v \in Users |-> HeldBy(v)] EXCEPT ![u] = W]
  BY <1>3, <1>5, <1>6, OneUser
<1>8. UNCHANGED [role \in Roles |-> PermissionsOf(role)]
  BY <1>4 DEF PermissionsOf
<1>9. QED
  BY <1>3, <1>4, <1>7, <1>8 DEF Policy!Create

\* What assign_roles leaves: the roles the user had, less those that it found
\* to be extra, with those that it found to be missing.
LEMMA AssignPolicy ==
  ASSUME IInv, NEW k \in Tools, CommitAssign(k)
  PROVE  \E u \in Users, W \in Wishes :
           /\ u = tool[k].user /\ W = tool[k].wanted /\ W \subseteq Roles
           /\ HeldBy(u)' = (HeldBy(u) \ (tool[k].loaded \ W)) \cup (W \ tool[k].loaded)
           /\ Policy!Assign(u, W, HeldBy(u)')
<1>1. PICK u, W, L : u = tool[k].user /\ W = tool[k].wanted /\ L = tool[k].loaded
  OBVIOUS
<1>2. /\ tool[k] \in Assignment /\ tool[k].found /\ tool[k].task = "assign"
      /\ TablesOK /\ Found(k)
  BY TaskKinds DEF IInv, TypeOK, TablesOK, Task, CommitAssign
<1>3. u \in Users /\ u \in users /\ W \in Wishes /\ W \subseteq roles /\ roles \subseteq Roles
  BY <1>1, <1>2 DEF Assignment, Found, TablesOK
<1>4. /\ members' = (members \ ({u} \X (L \ W))) \cup ({u} \X (W \ L))
      /\ UNCHANGED <<users, active, roles, grants>>
  BY <1>1, <1>2 DEF CommitAssign, Found
<1>5. HeldBy(u)' = (HeldBy(u) \ (L \ W)) \cup (W \ L)
  <2>1. \A role \in Roles :
          <<u, role>> \in members' <=>
            (<<u, role>> \in members /\ role \notin L \ W) \/ role \in W \ L
    BY <1>4
  <2>2. QED
    BY <1>3, <2>1 DEF HeldBy
<1>6. ASSUME NEW v \in Users \ {u} PROVE HeldBy(v)' = HeldBy(v)
  BY <1>4, <1>6 DEF HeldBy
<1>7. [v \in Users |-> HeldBy(v)]' = [[v \in Users |-> HeldBy(v)] EXCEPT ![u] = HeldBy(u)']
  BY <1>3, <1>6, OneUser
<1>8. UNCHANGED [role \in Roles |-> PermissionsOf(role)]
  BY <1>4 DEF PermissionsOf
<1>9. Policy!Assign(u, W, HeldBy(u)')
  BY <1>3, <1>4, <1>7, <1>8 DEF Policy!Assign
<1>10. QED
  BY <1>1, <1>3, <1>5, <1>9

\* What a synchronisation leaves, role by role, in the same way.
LEMMA SyncPolicy ==
  ASSUME IInv, NEW k \in Tools, CommitSync(k), NEW defs, defs = tool[k].defs,
         NEW table, table = [role \in DOMAIN defs |-> PermissionsOf(role)']
  PROVE  /\ defs \in Definitions /\ table \in [DOMAIN defs -> SUBSET Perms]
         /\ \A role \in DOMAIN defs, p \in Perms :
              /\ role \in Roles
              /\ <<role, p>> \in Wanted(tool[k]) <=> p \in defs[role]
              /\ p \in table[role] <=>
                   (p \in PermissionsOf(role) /\ <<role, p>> \notin tool[k].drops)
                     \/ <<role, p>> \in tool[k].adds
         /\ Policy!Define(defs, table)
<1> DEFINE t == tool[k]
<1>1. t \in Sync /\ defs \in Definitions /\ t.task = "sync"
  BY SyncType DEF Sync
<1>2. /\ t.adds \subseteq (DOMAIN defs) \X Perms /\ t.drops \subseteq (DOMAIN defs) \X Perms
      /\ roles' = roles \cup DOMAIN defs /\ DOMAIN defs \subseteq Roles
  BY SyncType
<1>3. grants' = (grants \ t.drops) \cup t.adds /\ UNCHANGED <<users, active, members>>
  BY DEF CommitSync
<1>4. Wanted(t) = {x \in (DOMAIN defs) \X Perms : x[2] \in defs[x[1]]}
  BY <1>1 DEF Wanted
<1> HIDE DEF t
<1>5. ASSUME NEW role \in DOMAIN defs, NEW p \in Perms
      PROVE  /\ role \in Roles
             /\ <<role, p>> \in Wanted(t) <=> p \in defs[role]
             /\ p \in table[role] <=>
                  (p \in PermissionsOf(role) /\ <<role, p>> \notin t.drops)
                    \/ <<role, p>> \in t.adds
  <2>1. table[role] = PermissionsOf(role)'
    OBVIOUS
  <2>2. QED
    BY <1>2, <1>3, <1>4, <1>5, <2>1 DEF PermissionsOf
<1>6. ASSUME NEW role \in Roles \ DOMAIN defs PROVE PermissionsOf(role)' = PermissionsOf(role)
  BY <1>2, <1>3, <1>6 DEF PermissionsOf
<1>7. [role \in Roles |-> PermissionsOf(role)]'
        = [role \in Roles |-> IF role \in DOMAIN defs THEN table[role]
                              ELSE [r \in Roles |-> PermissionsOf(r)][role]]
  BY <1>6
<1>8. UNCHANGED [u \in Users |-> HeldBy(u)]
  BY <1>3 DEF HeldBy
<1>9. Policy!Define(defs, table)
  BY <1>2, <1>3, <1>7, <1>8 DEF Policy!Define
<1>10. table \in [DOMAIN defs -> SUBSET Perms]
  BY DEF PermissionsOf
<1>11. QED
  BY <1>1, <1>5, <1>9, <1>10 DEF t

\* Every other step leaves the policy alone, or switches an account.
LEMMA OtherPolicy ==
  ASSUME Act, \A k \in Tools : ~(CommitCreate(k) \/ CommitAssign(k) \/ CommitSync(k))
  PROVE  (\E u \in Users : Policy!Switch(u)) \/ UNCHANGED Policy!policy
<1>1. ASSUME NEW u \in Users, SetActive(u) PROVE Policy!Switch(u)
  BY <1>1 DEF SetActive, Policy!Switch, HeldBy, PermissionsOf
<1>2. ASSUME UNCHANGED tables PROVE UNCHANGED Policy!policy
  BY <1>2 DEF tables, Policy!policy, HeldBy, PermissionsOf
<1>3. CASE Operate
  BY <1>1, <1>2, <1>3 DEF Operate, Script, StartCreate, StartAssign, FindRoles, StartSync,
                          ReadRole, AbortTool
<1>4. CASE Restart \/ \E r \in Requests : Check(r)
  BY <1>2, <1>4 DEF Restart, Check, LoadUser, LoadRoles, Grant, Refuse
<1>5. QED
  BY <1>3, <1>4 DEF Act

\* At first nobody holds anything.
LEMMA InitPolicy == Init => Policy!Init
BY DEF Init, Policy!Init, HeldBy, PermissionsOf

\* A step that does not change the variables does not change the policy.
LEMMA StutterPolicy == UNCHANGED vars => UNCHANGED Policy!policy
BY DEF vars, tables, Policy!policy, HeldBy, PermissionsOf

\* Every commit keeps between what was and what its run was told, and touches
\* nothing else, however many runs overlap.
THEOREM ImplementsPolicy == Spec => PolicySpec
<1>1. ASSUME IInv, NEW k \in Tools, CommitAssign(k) PROVE Policy!Next
  <2>1. PICK u \in Users, W \in Wishes :
          /\ Policy!Assign(u, W, HeldBy(u)')
          /\ HeldBy(u) \cap W \subseteq HeldBy(u)' /\ HeldBy(u)' \subseteq HeldBy(u) \cup W
    BY <1>1, AssignPolicy
  <2>2. HeldBy(u)' \in SUBSET Roles
    BY DEF HeldBy
  <2>3. Policy!Between([v \in Users |-> HeldBy(v)][u], W, HeldBy(u)')
    BY <2>1 DEF Policy!Between
  <2>4. QED
    BY <2>1, <2>2, <2>3 DEF Policy!Next
<1>2. ASSUME IInv, NEW k \in Tools, CommitSync(k) PROVE Policy!Next
  <2> DEFINE t == tool[k]
             table == [role \in DOMAIN t.defs |-> PermissionsOf(role)']
  <2>1. /\ t.defs \in Definitions /\ table \in [DOMAIN t.defs -> SUBSET Perms]
        /\ Policy!Define(t.defs, table)
    BY <1>2, SyncPolicy
  <2>2. ASSUME NEW role \in DOMAIN t.defs
        PROVE  Policy!Between([r \in Roles |-> PermissionsOf(r)][role], t.defs[role], table[role])
    <3>1. t.defs[role] \subseteq Perms /\ table[role] \subseteq Perms /\ role \in Roles
      BY <2>1, SeedType
    <3>2. ASSUME NEW p \in Perms
          PROVE  /\ p \in PermissionsOf(role) /\ p \in t.defs[role] => p \in table[role]
                 /\ p \in table[role] => p \in PermissionsOf(role) \/ p \in t.defs[role]
      <4>1. t.adds \subseteq Wanted(t) /\ t.drops \cap Wanted(t) = {}
        BY <1>2, SyncType
      <4>2. /\ <<role, p>> \in Wanted(t) <=> p \in t.defs[role]
            /\ p \in table[role] <=>
                 (p \in PermissionsOf(role) /\ <<role, p>> \notin t.drops)
                   \/ <<role, p>> \in t.adds
        BY <1>2, SyncPolicy
      <4> HIDE DEF table, t
      <4>3. QED
        BY <4>1, <4>2
    <3> HIDE DEF table, t
    <3>3. [r \in Roles |-> PermissionsOf(r)][role] = PermissionsOf(role)
      BY <3>1
    <3>4. QED
      BY <3>1, <3>2, <3>3 DEF Policy!Between, PermissionsOf
  <2> HIDE DEF t, table
  <2>3. QED
    BY <2>1, <2>2 DEF Policy!Next
<1>3. IInv /\ [Next]_vars => [Policy!Next]_(Policy!policy)
  BY <1>1, <1>2, CreatePolicy, OtherPolicy, StutterPolicy, NextIsAct DEF Policy!Next
<1>4. QED
  BY <1>3, InitPolicy, Invariance, PTL DEF Spec, PolicySpec, Policy!Spec

------------------------------------------------------------------------------
(* One run at a time *)

\* Nobody acts against a run that is alone.
Unopposed == \A k \in Tools : opposed[k] = {}

LEMMA AloneUnopposed ==
  ASSUME NEW one, Tools = {one}
  PROVE  Spec => []Unopposed
<1>1. Init => Unopposed
  BY DEF Init, Unopposed
<1>2. ASSUME IInv, Unopposed, Act, Watch, NEW k \in Tools PROVE opposed'[k] = {}
  <2>1. k = one /\ tool \in [Tools -> Task] /\ opposed[k] = {}
    BY <1>2 DEF IInv, TypeOK, Task, Unopposed
  <2>2. opposed'[k] = IF tool'[k] = NoTask THEN {} ELSE opposed[k] \cup Against(tool[k])
    BY <1>2 DEF Watch
  <2>3. CASE CommitCreate(one) \/ CommitAssign(one) \/ CommitSync(one)
    <3>1. tool'[k] = NoTask
      BY <2>1, <2>3 DEF CommitCreate, CommitAssign, CommitSync
    <3>2. QED
      BY <2>2, <3>1
  <2>4. CASE ~(CommitCreate(one) \/ CommitAssign(one) \/ CommitSync(one))
    <3>1. Rows' = Rows
      <4>1. ASSUME UNCHANGED <<members, grants>> PROVE Rows' = Rows
        BY <4>1 DEF Rows
      <4>2. CASE Operate
        <5>1. UNCHANGED <<members, grants>>
          BY <2>4, <4>2 DEF Operate, Script, SetActive, StartCreate, StartAssign, FindRoles,
                            StartSync, ReadRole, AbortTool, tables
        <5>2. QED
          BY <4>1, <5>1
      <4>3. CASE Restart \/ \E r \in Requests : Check(r)
        BY <4>1, <4>3 DEF Restart, Check, LoadUser, LoadRoles, Grant, Refuse, tables
      <4>4. QED
        BY <1>2, <4>2, <4>3 DEF Act
    <3>2. Against(tool[k]) = {}
      BY <3>1 DEF Against
    <3>3. QED
      BY <2>1, <2>2, <3>2
  <2>5. QED
    BY <2>3, <2>4
<1>3. IInv /\ Unopposed /\ [Next]_vars => Unopposed'
  <2>1. ASSUME UNCHANGED vars, Unopposed PROVE Unopposed'
    BY <2>1 DEF vars, history, Unopposed
  <2>2. QED
    BY <1>2, <2>1, NextIsAct DEF Unopposed
<1>4. QED
  BY <1>1, <1>3, Invariance, PTL DEF Spec

\* A script run that nobody overlaps sets what it was told to set, in every row:
\* the tables change as if each script were one step.
THEOREM AloneImplementsExactPolicy ==
  ASSUME NEW one, Tools = {one}
  PROVE  Spec => ExactPolicySpec
<1>1. ASSUME IInv, Unopposed, NEW k \in Tools, CommitAssign(k) PROVE Policy!ExactNext
  <2>1. PICK u \in Users, W \in Wishes :
          /\ u = tool[k].user /\ W = tool[k].wanted /\ W \subseteq Roles
          /\ HeldBy(u)' = (HeldBy(u) \ (tool[k].loaded \ W)) \cup (W \ tool[k].loaded)
          /\ Policy!Assign(u, W, HeldBy(u)')
    BY <1>1, AssignPolicy
  <2>2. TablesOK /\ Undisturbed(k) /\ opposed[k] = {} /\ tool[k].task = "assign"
    BY <1>1 DEF IInv, TypeOK, TablesOK, Unopposed, CommitAssign
  <2>3. Scope(tool[k]) = {u} \X Roles /\ Wanted(tool[k]) = {u} \X W
    BY <2>1, <2>2 DEF Scope, Wanted
  <2>4. ASSUME NEW role \in Roles
        PROVE  /\ role \in W /\ role \in tool[k].loaded => role \in HeldBy(u)
               /\ role \notin W /\ role \notin tool[k].loaded => role \notin HeldBy(u)
    <3>1. /\ <<u, role>> \in Scope(tool[k]) \ opposed[k]
          /\ <<u, role>> \in Wanted(tool[k]) <=> role \in W
          /\ <<u, role>>[2] = role
      BY <2>2, <2>3
    <3>2. /\ role \in W /\ role \in tool[k].loaded => <<u, role>> \in Rows
          /\ role \notin W /\ role \notin tool[k].loaded => <<u, role>> \notin Rows
      BY <2>2, <3>1 DEF Undisturbed
    <3>3. QED
      BY <2>2, <3>2, RowsHeld
  <2>5. HeldBy(u)' = W
    BY <2>1, <2>4 DEF HeldBy
  <2>6. QED
    BY <2>1, <2>5 DEF Policy!ExactNext
<1>2. ASSUME IInv, Unopposed, NEW k \in Tools, CommitSync(k) PROVE Policy!ExactNext
  <2>1. PICK defs \in Definitions : defs = tool[k].defs
    BY <1>2, SyncPolicy
  <2> DEFINE t == tool[k]
             table == [role \in DOMAIN defs |-> PermissionsOf(role)']
  <2>2. Policy!Define(defs, table)
    BY <1>2, <2>1, SyncPolicy
  <2>3. ASSUME NEW role \in DOMAIN defs, NEW p \in Perms
        PROVE  p \in table[role] <=> p \in defs[role]
    <3>1. /\ role \in Roles
          /\ <<role, p>> \in Wanted(t) <=> p \in defs[role]
          /\ p \in table[role] <=>
               (p \in PermissionsOf(role) /\ <<role, p>> \notin t.drops)
                 \/ <<role, p>> \in t.adds
      BY <1>2, <2>1, SyncPolicy
    <3>2. /\ TablesOK /\ Undisturbed(k) /\ opposed[k] = {} /\ t.task = "sync" /\ t.left = {}
          /\ t.adds \subseteq Wanted(t) /\ t.drops \cap Wanted(t) = {}
      BY <1>2, SyncType DEF IInv, TypeOK, TablesOK, Unopposed, CommitSync
    <3>3. <<role, p>> \in Scope(t) \ opposed[k] /\ <<role, p>>[1] \notin t.left
      BY <2>1, <3>2 DEF Scope
    <3>4. /\ <<role, p>> \in Wanted(t) \ t.adds => <<role, p>> \in Rows
          /\ <<role, p>> \notin Wanted(t) \cup t.drops => <<role, p>> \notin Rows
      BY <3>2, <3>3 DEF Undisturbed
    <3>5. p \in PermissionsOf(role) <=> <<role, p>> \in Rows
      BY <3>1, <3>2, RowsHeld
    <3> HIDE DEF t, table
    <3>6. QED
      BY <3>1, <3>2, <3>4, <3>5
  <2>4. /\ defs = [role \in DOMAIN defs |-> defs[role]]
        /\ \A role \in DOMAIN defs : defs[role] \subseteq Perms /\ table[role] \subseteq Perms
    BY <2>1, SeedType DEF PermissionsOf
  <2>5. table = defs
    <3>1. \A role \in DOMAIN defs : table[role] = defs[role]
      BY <2>3, <2>4
    <3>2. table = [role \in DOMAIN defs |-> table[role]]
      OBVIOUS
    <3> HIDE DEF table
    <3>3. QED
      BY <2>4, <3>1, <3>2
  <2>6. QED
    BY <2>2, <2>5 DEF Policy!ExactNext
<1>3. IInv /\ Unopposed /\ [Next]_vars => [Policy!ExactNext]_(Policy!policy)
  BY <1>1, <1>2, CreatePolicy, OtherPolicy, StutterPolicy, NextIsAct DEF Policy!ExactNext
<1>4. QED
  BY <1>3, InitPolicy, Invariance, AloneUnopposed, PTL
     DEF Spec, ExactPolicySpec, Policy!ExactSpec

\* services/roles.py:5 "Running it twice is a no-op": a synchronisation that
\* commits when the tables say already what it defines leaves them untouched,
\* whatever it found when it read them.
THEOREM SyncAgainIsNoOp ==
  Spec =>
    [][\A k \in Tools :
         /\ CommitSync(k)
         /\ \A role \in DOMAIN tool[k].defs :
              role \in roles /\ PermissionsOf(role) = tool[k].defs[role]
         => UNCHANGED tables]_vars
<1>1. ASSUME IInv, NEW k \in Tools, CommitSync(k),
             \A role \in DOMAIN tool[k].defs :
               role \in roles /\ PermissionsOf(role) = tool[k].defs[role]
      PROVE  UNCHANGED tables
  <2> DEFINE t == tool[k]
  <2>1. /\ t.adds \subseteq (DOMAIN t.defs) \X Perms /\ t.drops \subseteq (DOMAIN t.defs) \X Perms
        /\ t.adds \subseteq Wanted(t) /\ t.drops \cap Wanted(t) = {}
        /\ roles' = roles \cup DOMAIN t.defs
    BY <1>1, SyncType
  <2>2. \A role \in DOMAIN t.defs, p \in Perms :
          <<role, p>> \in Wanted(t) <=> <<role, p>> \in grants
    <3>1. \A role \in DOMAIN t.defs, p \in Perms :
            /\ <<role, p>> \in Wanted(t) <=> p \in t.defs[role]
            /\ PermissionsOf(role) = t.defs[role]
      <4>1. t.task = "sync" /\ \A role \in DOMAIN t.defs : PermissionsOf(role) = t.defs[role]
        BY <1>1 DEF CommitSync
      <4>2. Wanted(t) = {x \in (DOMAIN t.defs) \X Perms : x[2] \in t.defs[x[1]]}
        BY <4>1 DEF Wanted
      <4> HIDE DEF t
      <4>3. QED
        BY <4>1, <4>2
    <3>2. QED
      BY <3>1 DEF PermissionsOf
  <2>3. t.adds \cap grants = {} /\ grants' = (grants \ t.drops) \cup t.adds
    BY <1>1 DEF CommitSync
  <2> HIDE DEF t
  <2>4. t.adds = {} /\ t.drops \cap grants = {}
    BY <2>1, <2>2, <2>3
  <2>5. roles' = roles
    BY <1>1, <2>1 DEF t
  <2>6. QED
    BY <1>1, <2>3, <2>4, <2>5 DEF CommitSync, tables
<1>2. IInv /\ [Next]_vars =>
        [\A k \in Tools :
           /\ CommitSync(k)
           /\ \A role \in DOMAIN tool[k].defs :
                role \in roles /\ PermissionsOf(role) = tool[k].defs[role]
           => UNCHANGED tables]_vars
  BY <1>1
<1>3. QED
  BY <1>2, Invariance, PTL DEF Spec
==============================================================================
