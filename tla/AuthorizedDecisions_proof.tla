---------------------- MODULE AuthorizedDecisions_proof ----------------------
(***************************************************************************)
(* Proofs about AuthorizedDecisions: composed, the check and the endpoints *)
(* are still what AccessControl and DocumentDecisions say of each alone,   *)
(* so what is proved of each alone holds of both together; and what only   *)
(* the two together promise, who decided and in which order.               *)
(***************************************************************************)
EXTENDS AuthorizedDecisions, Sequences, TLAPS

\* The proofs about the parts, over the same variables.
AP == INSTANCE AccessControl_proof WITH req <- access
DP == INSTANCE DocumentDecisions_proof

------------------------------------------------------------------------------
(* AP and A, DP and D are instances of the same definitions. *)

LEMMA SameAccessTypes == AP!TypeOK <=> A!TypeOK
BY DEF AP!TypeOK, A!TypeOK, AP!Request, A!Request, AP!NoRequest, A!NoRequest,
       AP!Assignment, A!Assignment, AP!Sync, A!Sync, AP!NoTask, A!NoTask,
       AP!View, A!View, AP!Members, A!Members, AP!Grants, A!Grants,
       AP!Definitions, A!Definitions, AP!Valid, A!Valid

LEMMA SameAccessSpec == AP!Spec <=> A!Spec
<1>1. AP!Init <=> A!Init
  BY DEF AP!Init, A!Init, AP!NoRequest, A!NoRequest, AP!NoTask, A!NoTask, AP!NoView, A!NoView
<1>2. AP!Next <=> A!Next
  BY DEF AP!Next, A!Next, AP!Check, A!Check, AP!Operate, A!Operate, AP!Restart, A!Restart,
         AP!Script, A!Script, AP!SetActive, A!SetActive, AP!LoadUser, A!LoadUser,
         AP!LoadRoles, A!LoadRoles, AP!Grant, A!Grant, AP!Refuse, A!Refuse,
         AP!Permitted, A!Permitted, AP!HeldBy, A!HeldBy, AP!Granting, A!Granting,
         AP!PermissionsOf, A!PermissionsOf, AP!NoRequest, A!NoRequest, AP!NoTask, A!NoTask,
         AP!Begin, A!Begin, AP!StartCreate, A!StartCreate, AP!StartAssign, A!StartAssign,
         AP!FindRoles, A!FindRoles, AP!CommitCreate, A!CommitCreate,
         AP!CommitAssign, A!CommitAssign, AP!Valid, A!Valid,
         AP!StartSync, A!StartSync, AP!ReadRole, A!ReadRole,
         AP!CommitSync, A!CommitSync, AP!AbortTool, A!AbortTool, AP!tables, A!tables,
         AP!Watch, A!Watch, AP!Watched, A!Watched, AP!Union, A!Union, AP!Common, A!Common,
         AP!Now, A!Now, AP!NoView, A!NoView, AP!Against, A!Against, AP!Scope, A!Scope,
         AP!Wanted, A!Wanted, AP!Rows, A!Rows
<1>3. AP!vars = A!vars /\ AP!vars' = A!vars'
  BY DEF AP!vars, A!vars, AP!tables, A!tables, AP!history, A!history
<1>4. [AP!Next]_(AP!vars) <=> [A!Next]_(A!vars)
  BY <1>2, <1>3
<1>5. QED
  BY <1>1, <1>4, PTL DEF AP!Spec, A!Spec

LEMMA SameChains ==
  /\ \A actors : DP!Document(actors) = D!Document(actors)
  /\ \A doc : /\ DP!WellFormed(doc) = D!WellFormed(doc)
              /\ DP!RequirePending(doc) = D!RequirePending(doc)
              /\ DP!FirstPending(doc) = D!FirstPending(doc)
BY DEF DP!Document, D!Document, DP!Step, D!Step, DP!Status, D!Status,
       DP!WellFormed, D!WellFormed, DP!ChainOf, D!ChainOf, DP!OpenSteps, D!OpenSteps,
       DP!RequirePending, D!RequirePending, DP!PENDING_STATUSES, D!PENDING_STATUSES,
       DP!FirstPending, D!FirstPending

LEMMA SameDecisionTypes == DP!TypeOK <=> D!TypeOK
BY SameChains
   DEF DP!TypeOK, D!TypeOK, DP!Actors, D!Actors, DP!Row, D!Row, DP!Request, D!Request,
       DP!Decision, D!Decision, DP!NoRow, D!NoRow, DP!NewRequest, D!NewRequest,
       DP!At, D!At, DP!Status, D!Status, DP!Action, D!Action

LEMMA SameDecide == \A r, d, action : DP!Decide(r, d, action) <=> D!Decide(r, d, action)
BY DEF DP!Decide, D!Decide, DP!At, D!At, DP!Decided, D!Decided,
       DP!FirstPending, D!FirstPending, DP!RequirePending, D!RequirePending,
       DP!PENDING_STATUSES, D!PENDING_STATUSES, DP!OpenSteps, D!OpenSteps,
       DP!AuthorizeDocument, D!AuthorizeDocument, DP!RejectDocument, D!RejectDocument,
       DP!FillNextPendingStep, D!FillNextPendingStep

LEMMA SameDecisionSpec == DP!Spec <=> D!Spec
<1>1. DP!Init <=> D!Init
  BY DEF DP!Init, D!Init, DP!NewRequest, D!NewRequest, DP!NoRow, D!NoRow
<1>2. /\ \A r, d : DP!Conflict(r, d) <=> D!Conflict(r, d)
      /\ \A r : DP!Proceed(r) <=> D!Proceed(r)
      /\ DP!Restart <=> D!Restart
  BY DEF DP!Conflict, D!Conflict, DP!Proceed, D!Proceed, DP!CommitRow, D!CommitRow,
         DP!CommitFails, D!CommitFails, DP!Respond, D!Respond, DP!Restart, D!Restart,
         DP!At, D!At, DP!Answer, D!Answer, DP!RequirePending, D!RequirePending,
         DP!PENDING_STATUSES, D!PENDING_STATUSES
<1>3. DP!Next <=> D!Next
  BY <1>2, SameDecide DEF DP!Next, D!Next, DP!Arrive, D!Arrive, DP!Action, D!Action
<1>4. DP!vars = D!vars /\ DP!vars' = D!vars'
  BY DEF DP!vars, D!vars
<1>5. [DP!Next]_(DP!vars) <=> [D!Next]_(D!vars)
  BY <1>3, <1>4
<1>6. QED
  BY <1>1, <1>5, PTL DEF DP!Spec, D!Spec

------------------------------------------------------------------------------
(* The parts within the whole *)

\* Every step is one of the check, the scripts or the operator, or leaves their
\* state alone.
LEMMA StepIsAccess == Next => A!Next \/ UNCHANGED A!vars
<1> SUFFICES ASSUME Next PROVE A!Next \/ UNCHANGED A!vars
  OBVIOUS
<1>1. ASSUME NEW r \in Requests, LoadUser(r) PROVE A!Next
  <2>1. A!Check(r) /\ A!Watch
    BY <1>1, PermissionAssumption DEF LoadUser, A!Check
  <2>2. QED
    BY <2>1 DEF A!Next
<1>2. ASSUME NEW r \in Requests, LoadRoles(r) \/ Refuse(r) PROVE A!Next
  BY <1>2 DEF LoadRoles, Refuse, A!Check, A!Next
<1>3. ASSUME NEW r \in Requests, A!Grant(r), A!Watch PROVE A!Next
  BY <1>3 DEF A!Check, A!Next
<1>4. ASSUME UNCHANGED checked PROVE UNCHANGED A!vars
  BY <1>4 DEF checked, A!vars, A!tables, A!history
<1>5. CASE Restart
  BY <1>5 DEF Restart, A!Next
<1>6. CASE Operate
  BY <1>6 DEF Operate, A!Next
<1>7. QED
  BY <1>1, <1>2, <1>3, <1>4, <1>5, <1>6 DEF Next, Decide, Conflict, Finish, Tick

\* Every step is one of the endpoints or leaves their state alone.
LEMMA StepIsDecision == Next => D!Next \/ UNCHANGED D!vars
<1> SUFFICES ASSUME Next PROVE D!Next \/ UNCHANGED D!vars
  OBVIOUS
<1>1. ASSUME NEW r \in Requests, D!Arrive(r) \/ D!Proceed(r) PROVE D!Next
  BY <1>1 DEF D!Next
<1>2. ASSUME UNCHANGED decided PROVE UNCHANGED D!vars
  BY <1>2 DEF decided, D!vars
<1>3. CASE Restart
  BY <1>3 DEF Restart, D!Next
<1>4. QED
  BY <1>1, <1>2, <1>3
     DEF Next, LoadUser, LoadRoles, Refuse, Decide, Conflict, Finish, Operate, Tick, D!Arrive

\* The check in front of the endpoints is AccessControl's: what is proved of it
\* holds of the requests that decide documents.
THEOREM ImplementsAccessControl == Spec => AccessSpec
<1>1. UNCHANGED vars => UNCHANGED A!vars
  BY DEF vars, checked, A!vars, A!tables, A!history
<1>2. [Next]_vars => [A!Next]_(A!vars)
  BY <1>1, StepIsAccess
<1>3. Init => A!Init
  BY DEF Init
<1>4. QED
  BY <1>2, <1>3, PTL DEF Spec, AccessSpec, A!Spec

\* The endpoints behind the check are DocumentDecisions': a check in front takes
\* steps away and adds none.
THEOREM ImplementsDocumentDecisions == Spec => DecisionsSpec
<1>1. UNCHANGED vars => UNCHANGED D!vars
  BY DEF vars, decided, D!vars
<1>2. [Next]_vars => [D!Next]_(D!vars)
  BY <1>1, StepIsDecision
<1>3. Init => D!Init
  BY DEF Init
<1>4. QED
  BY <1>2, <1>3, PTL DEF Spec, DecisionsSpec, D!Spec

\* So the inductive invariants of the parts hold of the whole.
LEMMA PartsInvariance == Spec => [](AP!IInv /\ DP!IInv)
<1>1. AP!Spec => []AP!IInv
  BY AP!Invariance, WishAssumption, SeedAssumption, DisjointAssumption
<1>2. DP!FreshAssumption
  BY SameChains, DocumentAssumption DEF DP!FreshAssumption
<1>3. DP!Spec => []DP!IInv
  BY <1>2, DP!Invariance, ActorAssumption, RestartAssumption DEF DP!FreshAssumption
<1>4. QED
  BY <1>1, <1>3, SameAccessSpec, SameDecisionSpec, ImplementsAccessControl,
     ImplementsDocumentDecisions, PTL DEF AccessSpec, DecisionsSpec

\* Only a decision is put down as one.
LEMMA OnlyDecideMakes ==
  ASSUME Next, ~(\E r \in Requests, d \in Docs, action \in D!Action : Decide(r, d, action))
  PROVE  made' = made
<1>1. ASSUME NEW r \in Requests, Finish(r) PROVE made' = made
  BY <1>1 DEF Finish, D!Proceed, D!CommitRow, D!CommitFails, D!Respond
<1>2. ASSUME NEW r \in Requests, NEW d \in Docs, Conflict(r, d) PROVE made' = made
  BY <1>2 DEF Conflict, D!Conflict
<1>3. CASE Restart
  BY <1>3 DEF Restart, D!Restart
<1>4. ASSUME UNCHANGED decided PROVE made' = made
  BY <1>4 DEF decided
<1>5. QED
  BY <1>1, <1>2, <1>3, <1>4 DEF Next, LoadUser, LoadRoles, Refuse, Operate, Tick

------------------------------------------------------------------------------
(* Whoever decides had the permission *)

\* The check passes only when what was read allows it, and it was read within
\* what was there to be seen.
LEMMA GrantSaw ==
  ASSUME AP!IInv, NEW r \in Requests, A!Grant(r)
  PROVE  \E role \in ever[r].held : ever[r].active /\ role \in ever[r].granting
<1>1. access[r].pc = "perms" /\ A!Permitted(r) /\ AP!Seen(r)
  BY DEF A!Grant, AP!IInv
<1>2. access[r] # AP!NoRequest
  BY <1>1 DEF AP!NoRequest
<1>3. /\ access[r].isActive => ever[r].active
      /\ access[r].roles \subseteq ever[r].held
      /\ A!Granting(access[r].permission) \subseteq ever[r].granting
  BY <1>1, <1>2 DEF AP!Seen, AP!Granting, A!Granting
<1>4. QED
  BY <1>1, <1>3 DEF A!Permitted

\* Nobody decides a document without a role that, while the user was being
\* loaded, had the permission for just this kind of document.
THEOREM DecidersHadPermission == Spec => DecidedWithPermission
<1> DEFINE Allowed ==
      \A m \in made' \ made :
        \E role \in ever[m.req].held :
          /\ ever[m.req].active
          /\ role \in ever[m.req].granting
          /\ PermissionOf[m.doc] = access[m.req].permission
<1>1. ASSUME AP!IInv, NEW r \in Requests, NEW d \in Docs, NEW action \in D!Action,
             Decide(r, d, action)
      PROVE  Allowed
  <2>1. \A m \in made' \ made : m.req = r /\ m.doc = d
    BY <1>1 DEF Decide, D!Decide
  <2>2. A!Grant(r) /\ access[r].permission = PermissionOf[d]
    BY <1>1 DEF Decide
  <2>3. QED
    BY <1>1, <2>1, <2>2, GrantSaw
<1>2. ASSUME Next, ~(\E r \in Requests, d \in Docs, action \in D!Action : Decide(r, d, action))
      PROVE  made' = made
  BY <1>2, OnlyDecideMakes
<1>3. AP!IInv /\ Next => Allowed
  <2> HIDE DEF Allowed
  <2>1. made' = made => Allowed
    BY DEF Allowed
  <2>2. QED
    BY <1>1, <1>2, <2>1
<1>4. AP!IInv /\ [Next]_vars => [Allowed]_vars
  BY <1>3
<1>5. QED
  BY <1>4, PartsInvariance, PTL DEF Spec, DecidedWithPermission

------------------------------------------------------------------------------
(* The dates of the rows *)

\* No date is in the future.
Dated ==
  /\ clock \in Time
  /\ createdAt \in [Requests -> Time] /\ \A r \in Requests : createdAt[r] <= clock
  /\ decidedAt \in [Requests -> Time]

Loading(r) == access[r] # A!NoRequest

\* A request whose user is being loaded has not decided: its dates may still move.
Waiting == \A r \in Requests : Loading(r) => D!At(r, "new")

OrderInv == Dated /\ Waiting /\ RowsInOrder

\* What the order needs of the invariants of the parts.
LEMMA PartsTyped ==
  ASSUME AP!IInv, DP!IInv
  PROVE  /\ DOMAIN access = Requests
         /\ access = [q \in Requests |-> access[q]]
         /\ req \in [Requests -> D!Request]
         /\ \A m \in made : /\ m.req \in Requests /\ m.doc \in Docs
                            /\ m.run \in Nat /\ m.run <= restarts /\ m.step \in Nat
                            /\ ~D!At(m.req, "new")
         /\ restarts \in Nat
<1>1. AP!TypeOK /\ D!TypeOK
  BY SameDecisionTypes DEF AP!IInv, DP!IInv
<1>2. \A m \in made : m.run <= restarts /\ ~D!At(m.req, "new")
  BY DEF DP!IInv, DP!DecidesOnce, DP!At, D!At
<1>3. QED
  BY <1>1, <1>2 DEF AP!TypeOK, D!TypeOK, D!Decision

\* At first there are no rows to be in disorder.
LEMMA InitOrder == Init => OrderInv
BY TimeAssumption DEF Init, A!Init, D!Init, OrderInv, Dated, Waiting, Loading, RowsInOrder, Time

\* A step that takes no decision dates at most requests that have decided
\* nothing.
Quiet ==
  /\ UNCHANGED <<made, decidedAt>>
  /\ clock' \in Time /\ clock <= clock' /\ createdAt' \in [Requests -> Time]
  /\ \A q \in Requests : \/ createdAt'[q] = createdAt[q]
                         \/ D!At(q, "new") /\ createdAt'[q] <= clock'

LEMMA QuietOrder ==
  ASSUME AP!IInv, DP!IInv, OrderInv, Quiet, Waiting'
  PROVE  OrderInv'
<1>1. \A m \in made : m.req \in Requests /\ createdAt'[m.req] = createdAt[m.req]
  BY PartsTyped DEF Quiet
<1>2. Dated'
  <2>1. clock \in Nat /\ clock' \in Nat /\ clock <= clock'
    BY DEF OrderInv, Dated, Quiet, Time
  <2>2. ASSUME NEW q \in Requests PROVE createdAt'[q] <= clock'
    <3>1. createdAt[q] \in Nat /\ createdAt[q] <= clock
      BY DEF OrderInv, Dated, Time
    <3>2. QED
      BY <2>1, <3>1 DEF Quiet
  <2>3. QED
    BY <2>2 DEF OrderInv, Dated, Quiet, Time
<1>3. RowsInOrder'
  BY <1>1 DEF OrderInv, RowsInOrder, Before, Quiet
<1>4. QED
  BY <1>2, <1>3 DEF OrderInv

\* A decision comes after those of its document, and no row is dated after it yet.
LEMMA DecideOrder ==
  ASSUME AP!IInv, DP!IInv, OrderInv,
         NEW r \in Requests, NEW d \in Docs, NEW action \in D!Action, Decide(r, d, action)
  PROVE  OrderInv'
<1> DEFINE it == [req |-> r, doc |-> d, action |-> action,
                  step |-> D!FirstPending(store[d]), run |-> restarts]
<1>1. /\ D!At(r, "new") /\ D!RequirePending(store[d]) /\ made' = made \cup {it}
      /\ decidedAt' = [decidedAt EXCEPT ![r] = clock]
      /\ clock' = clock /\ createdAt' = createdAt
      /\ access' = [access EXCEPT ![r] = A!NoRequest]
      /\ \E row : req' = [req EXCEPT ![r].pc = "auditing", ![r].row = row]
  BY DEF Decide, D!Decide, A!Grant
<1>2. it.req = r /\ it.doc = d /\ it.run = restarts
  OBVIOUS
<1>3. \A m \in DP!Current : m.doc = d => m.step < it.step
  <2>1. DP!RequirePending(store[d]) /\ it.step = DP!FirstPending(store[d])
    BY <1>1, SameChains
  <2>2. /\ store[d] \in DP!Document(DP!Actors) /\ Len(store[d].steps) \in Nat
        /\ DP!WellFormed(store[d])
    <3>1. store[d] \in DP!Document(DP!Actors) /\ DP!WellFormed(store[d])
      BY DEF DP!IInv, DP!TypeOK, DP!ChainShape
    <3>2. QED
      BY <3>1 DEF DP!Document
  <2>3. PICK done \in 0..Len(store[d].steps) : DP!ChainOf(store[d], done)
    BY <2>2 DEF DP!WellFormed
  <2>4. DP!FirstPending(store[d]) = done + 1
    BY <2>1, <2>2, <2>3, DP!FirstPendingIsNext, ActorAssumption, RestartAssumption, SameChains,
       DocumentAssumption
  <2> HIDE DEF it
  <2>5. \A m \in DP!Current : m.doc = d => m.step \in 1..done
    BY <2>1, <2>3, DP!OpenDocument, ActorAssumption, RestartAssumption, SameChains,
       DocumentAssumption
  <2>6. QED
    BY <2>1, <2>2, <2>4, <2>5
<1> HIDE DEF it
<1>4. \A m \in made : m.req # r
  BY <1>1, PartsTyped
<1>5. Dated'
  BY <1>1 DEF OrderInv, Dated
<1>6. Waiting'
  <2>1. ~Loading(r)' /\ \A q \in Requests \ {r} : access'[q] = access[q] /\ req'[q] = req[q]
    BY <1>1, PartsTyped DEF Loading
  <2>2. QED
    BY <2>1 DEF OrderInv, Waiting, Loading, D!At
<1>7. RowsInOrder'
  <2>1. decidedAt'[r] = clock /\ \A q \in Requests \ {r} : decidedAt'[q] = decidedAt[q]
    BY <1>1 DEF OrderInv, Dated
  <2>2. /\ clock \in Nat
        /\ \A q \in Requests : createdAt'[q] \in Nat /\ createdAt'[q] <= clock
    BY <1>1 DEF OrderInv, Dated, Time
  <2>3. ASSUME NEW m \in made, NEW n \in made, m.doc = n.doc,
               createdAt'[n.req] > decidedAt'[m.req]
        PROVE  Before(m, n)
    BY <1>1, <1>4, <2>1, <2>3, PartsTyped DEF OrderInv, RowsInOrder
  <2>4. ASSUME NEW m \in made, m.doc = d PROVE Before(m, it)
    <3>1. CASE m.run = restarts
      BY <1>2, <1>3, <2>4, <3>1 DEF Before, DP!Current
    <3>2. CASE m.run # restarts
      BY <1>2, <3>2, PartsTyped DEF Before
    <3>3. QED
      BY <3>1, <3>2
  <2>5. ASSUME NEW n \in made \cup {it} PROVE ~(createdAt'[n.req] > decidedAt'[it.req])
    <3>1. n.req \in Requests
      BY <1>2, PartsTyped
    <3>2. QED
      BY <1>2, <2>1, <2>2, <3>1
  <2>6. QED
    BY <1>1, <1>2, <2>3, <2>4, <2>5 DEF RowsInOrder
<1>8. QED
  BY <1>5, <1>6, <1>7 DEF OrderInv

\* No step but a decision has a request loading its user once it has decided.
LEMMA StepWaits ==
  ASSUME AP!IInv, DP!IInv, Waiting, [Next]_vars,
         ~(\E r \in Requests, d \in Docs, action \in D!Action : Decide(r, d, action))
  PROVE  Waiting'
<1>1. ASSUME \A q \in Requests : Loading(q)' => D!At(q, "new") /\ req'[q] = req[q]
      PROVE  Waiting'
  BY <1>1 DEF Waiting, D!At
<1>2. ASSUME NEW r \in Requests, LoadUser(r) PROVE Waiting'
  <2>1. /\ D!At(r, "new") /\ req' = req
        /\ \A q \in Requests \ {r} : access'[q] = access[q]
    BY <1>2, PartsTyped DEF LoadUser, A!LoadUser, decided
  <2>2. QED
    BY <1>1, <2>1 DEF Waiting, Loading
<1>3. ASSUME NEW r \in Requests, LoadRoles(r) PROVE Waiting'
  <2>1. /\ Loading(r) /\ req' = req
        /\ \A q \in Requests \ {r} : access'[q] = access[q]
    BY <1>3, PartsTyped DEF LoadRoles, A!LoadRoles, A!NoRequest, Loading, decided
  <2>2. QED
    BY <1>1, <2>1 DEF Waiting, Loading
<1>4. ASSUME NEW r \in Requests, access' = [access EXCEPT ![r] = A!NoRequest],
             \A q \in Requests \ {r} : req'[q] = req[q]
      PROVE  Waiting'
  <2>1. \A q \in Requests : Loading(q)' => q # r /\ Loading(q)
    BY <1>4, PartsTyped DEF Loading
  <2>2. QED
    BY <1>1, <1>4, <2>1 DEF Waiting
<1>5. ASSUME NEW r \in Requests, Refuse(r) PROVE Waiting'
  BY <1>4, <1>5 DEF Refuse, A!Refuse, decided
<1>6. ASSUME NEW r \in Requests, NEW d \in Docs, Conflict(r, d) PROVE Waiting'
  <2>1. \A q \in Requests \ {r} : req'[q] = req[q]
    BY <1>6, PartsTyped DEF Conflict, D!Conflict, D!Answer
  <2>2. QED
    BY <1>4, <1>6, <2>1 DEF Conflict, A!Grant
<1>7. ASSUME NEW r \in Requests, Finish(r) PROVE Waiting'
  <2>1. ~D!At(r, "new") /\ access' = access /\ \A q \in Requests \ {r} : req'[q] = req[q]
    BY <1>7, PartsTyped DEF Finish, checked, D!Proceed, D!CommitRow, D!CommitFails, D!Respond,
                            D!Answer, D!At
  <2>2. QED
    BY <1>1, <2>1 DEF Waiting, Loading
<1>8. CASE Restart
  <2>1. \A q \in Requests : ~Loading(q)'
    BY <1>8 DEF Restart, A!Restart, Loading
  <2>2. QED
    BY <1>1, <2>1
<1>9. ASSUME access' = access, req' = req PROVE Waiting'
  BY <1>1, <1>9 DEF Waiting, Loading
<1>10. CASE Operate
  <2>1. access' = access
    BY <1>10 DEF Operate, A!Operate, A!Script, A!SetActive, A!StartCreate, A!StartAssign,
                 A!FindRoles, A!CommitCreate, A!CommitAssign, A!StartSync, A!ReadRole,
                 A!CommitSync, A!AbortTool
  <2>2. QED
    BY <1>9, <1>10, <2>1 DEF Operate, decided
<1>11. CASE Tick \/ UNCHANGED vars
  BY <1>9, <1>11 DEF Tick, vars, checked, decided
<1>12. QED
  BY <1>2, <1>3, <1>5, <1>6, <1>7, <1>8, <1>10, <1>11 DEF Next

\* Every step preserves the order.
LEMMA NextOrder == AP!IInv /\ DP!IInv /\ OrderInv /\ [Next]_vars => OrderInv'
<1> SUFFICES ASSUME AP!IInv, DP!IInv, OrderInv, [Next]_vars,
                    ~(\E r \in Requests, d \in Docs, action \in D!Action : Decide(r, d, action))
             PROVE  Quiet
  BY DecideOrder, QuietOrder, StepWaits DEF OrderInv
<1>1. /\ clock \in Time /\ createdAt \in [Requests -> Time]
      /\ \A q \in Requests : createdAt[q] \in Time
      /\ 0 \in Time /\ \A t \in Time : 0 <= t /\ t <= t
  BY TimeAssumption DEF OrderInv, Dated, Time
<1>2. made' = made
  BY OnlyDecideMakes DEF vars, decided
<1>3. ASSUME NEW r \in Requests, D!At(r, "new"), NEW date \in {0, clock},
             UNCHANGED <<clock, decidedAt>>, createdAt' = [createdAt EXCEPT ![r] = date]
      PROVE  Quiet
  BY <1>1, <1>2, <1>3 DEF Quiet
<1>4. ASSUME UNCHANGED <<clock, createdAt, decidedAt>> PROVE Quiet
  BY <1>1, <1>2, <1>4 DEF Quiet
<1>5. ASSUME NEW r \in Requests, LoadUser(r) PROVE Quiet
  BY <1>3, <1>5 DEF LoadUser
<1>6. ASSUME NEW r \in Requests, Refuse(r) PROVE Quiet
  <2>1. access[r].pc = "perms"
    BY <1>6 DEF Refuse, A!Refuse
  <2>2. D!At(r, "new")
    BY <2>1 DEF OrderInv, Waiting, Loading, A!NoRequest
  <2>3. QED
    BY <1>3, <1>6, <2>2 DEF Refuse
<1>7. ASSUME NEW r \in Requests, NEW d \in Docs, Conflict(r, d) PROVE Quiet
  BY <1>3, <1>7 DEF Conflict, D!Conflict
<1>8. CASE Restart
  BY <1>1, <1>2, <1>8 DEF Restart, Quiet
<1>9. CASE Tick
  <2>1. clock' \in Time /\ clock <= clock'
    BY <1>1, <1>9, TimeAssumption DEF Tick, Time
  <2>2. QED
    BY <1>1, <1>2, <1>9, <2>1 DEF Tick, Quiet
<1>10. CASE Operate \/ (\E r \in Requests : LoadRoles(r) \/ Finish(r)) \/ UNCHANGED vars
  BY <1>4, <1>10 DEF Operate, LoadRoles, Finish, vars, times
<1>11. QED
  BY <1>5, <1>6, <1>7, <1>8, <1>9, <1>10 DEF Next

\* The parts' invariants and the order hold in every reachable state.
LEMMA Invariance == Spec => [](AP!IInv /\ DP!IInv /\ OrderInv)
BY PartsInvariance, InitOrder, NextOrder, PTL DEF Spec

\* Every reachable state is well typed, a request that loads its user has not
\* decided yet, and no time is beyond the clock.
THEOREM TypeCorrect == Spec => []TypeOK
<1>1. AP!IInv /\ DP!IInv /\ OrderInv => TypeOK
  BY SameAccessTypes, SameDecisionTypes
     DEF AP!IInv, DP!IInv, OrderInv, Dated, Waiting, Loading, TypeOK
<1>2. QED
  BY <1>1, Invariance, PTL

\* Read by their created_at, the rows of a document tell its decisions in order:
\* a row dated after a decision was taken is that of a later one, across restarts
\* and whichever was committed first.
THEOREM RowsTellTheOrder == Spec => []RowsInOrder
BY Invariance, PTL DEF OrderInv

------------------------------------------------------------------------------
(* What the parts promise, of the whole *)

\* In front of the endpoints the check and the scripts keep what they promise
\* alone.
THEOREM CheckKeepsPromises ==
  Spec => A!GrantedInForce /\ A!RefusedNotInForce /\ A!AssignedExactly /\ A!SyncedExactly
<1>1. AP!Spec => /\ AP!GrantedInForce /\ AP!RefusedNotInForce
                 /\ AP!AssignedExactly /\ AP!SyncedExactly
  BY AP!GrantsWereInForce, AP!RefusalsWereNotInForce, AP!AssignsExactly, AP!SyncsExactly,
     WishAssumption, SeedAssumption, DisjointAssumption
<1>2. AP!vars = A!vars /\ AP!vars' = A!vars'
  BY DEF AP!vars, A!vars, AP!tables, A!tables, AP!history, A!history
<1>3. AP!GrantedInForce <=> A!GrantedInForce
  <2>1. \A r : AP!Grant(r) <=> A!Grant(r)
    BY DEF AP!Grant, A!Grant, AP!Permitted, A!Permitted, AP!Granting, A!Granting,
           AP!NoRequest, A!NoRequest, AP!tables, A!tables
  <2>2. [\A r \in Requests :
          AP!Grant(r) => ever[r].active /\ ever[r].held \cap ever[r].granting # {}]_(AP!vars)
        <=>
        [\A r \in Requests :
          A!Grant(r) => ever[r].active /\ ever[r].held \cap ever[r].granting # {}]_(A!vars)
    BY <1>2, <2>1
  <2>3. QED
    BY <2>2, PTL DEF AP!GrantedInForce, A!GrantedInForce
<1>4. AP!RefusedNotInForce <=> A!RefusedNotInForce
  <2>1. \A r : AP!Refuse(r) <=> A!Refuse(r)
    BY DEF AP!Refuse, A!Refuse, AP!Permitted, A!Permitted, AP!Granting, A!Granting,
           AP!NoRequest, A!NoRequest, AP!tables, A!tables
  <2>2. [\A r \in Requests :
          AP!Refuse(r) =>
            ~(always[r].active /\ always[r].held \cap always[r].granting # {})]_(AP!vars)
        <=>
        [\A r \in Requests :
          A!Refuse(r) =>
            ~(always[r].active /\ always[r].held \cap always[r].granting # {})]_(A!vars)
    BY <1>2, <2>1
  <2>3. QED
    BY <2>2, PTL DEF AP!RefusedNotInForce, A!RefusedNotInForce
<1>5. \A k : AP!Exactly(k) <=> A!Exactly(k)
  BY DEF AP!Exactly, A!Exactly, AP!Scope, A!Scope, AP!Wanted, A!Wanted, AP!Rows, A!Rows
<1>6. AP!AssignedExactly <=> A!AssignedExactly
  <2>1. \A k : AP!CommitAssign(k) \/ AP!CommitCreate(k) <=> A!CommitAssign(k) \/ A!CommitCreate(k)
    BY DEF AP!CommitAssign, A!CommitAssign, AP!CommitCreate, A!CommitCreate,
           AP!NoTask, A!NoTask
  <2>2. [\A k \in Tools : AP!CommitAssign(k) \/ AP!CommitCreate(k) => AP!Exactly(k)]_(AP!vars)
        <=> [\A k \in Tools : A!CommitAssign(k) \/ A!CommitCreate(k) => A!Exactly(k)]_(A!vars)
    BY <1>2, <1>5, <2>1
  <2>3. QED
    BY <2>2, PTL DEF AP!AssignedExactly, A!AssignedExactly
<1>7. AP!SyncedExactly <=> A!SyncedExactly
  <2>1. \A k : AP!CommitSync(k) <=> A!CommitSync(k)
    BY DEF AP!CommitSync, A!CommitSync, AP!NoTask, A!NoTask
  <2>2. [\A k \in Tools : AP!CommitSync(k) =>
           AP!Exactly(k) /\ roles' = roles \cup DOMAIN tool[k].defs]_(AP!vars)
        <=> [\A k \in Tools : A!CommitSync(k) =>
               A!Exactly(k) /\ roles' = roles \cup DOMAIN tool[k].defs]_(A!vars)
    BY <1>2, <1>5, <2>1
  <2>3. QED
    BY <2>2, PTL DEF AP!SyncedExactly, A!SyncedExactly
<1>8. QED
  BY <1>1, <1>3, <1>4, <1>6, <1>7, SameAccessSpec, ImplementsAccessControl, PTL DEF AccessSpec

\* Behind the check the endpoints keep what they promise alone: chains stay
\* chains, no decision is overwritten, rows and answers tell the truth, and all
\* of it implements AuditedChains.
THEOREM EndpointsKeepPromises ==
  Spec => /\ [](D!ChainShape /\ D!DecisionsStand /\ D!RowsTellTheTruth /\ D!AnswersMatchTrail)
          /\ []D!AnswersShowOwnOrLater
          /\ D!AuditedSpec
<1>0. DP!FreshAssumption
  BY SameChains, DocumentAssumption DEF DP!FreshAssumption
<1>1. DP!Spec => []DP!AnswersShowOwnOrLater
  BY <1>0, DP!AnswersAreNotStale, ActorAssumption, RestartAssumption DEF DP!FreshAssumption
<1>2. DP!Spec => DP!AuditedSpec
  BY <1>0, DP!ImplementsAuditedChains, ActorAssumption, RestartAssumption
     DEF DP!FreshAssumption
<1>3. DP!IInv => D!ChainShape /\ D!DecisionsStand /\ D!RowsTellTheTruth /\ D!AnswersMatchTrail
  BY SameChains
     DEF DP!IInv, DP!ChainShape, D!ChainShape, DP!DecisionsStand, D!DecisionsStand,
         DP!RowsTellTheTruth, D!RowsTellTheTruth, DP!AnswersMatchTrail, D!AnswersMatchTrail,
         DP!Current, D!Current, DP!Verdict, D!Verdict, DP!StatusAfter, D!StatusAfter,
         DP!Closes, D!Closes, DP!At, D!At
<1>4. DP!AnswersShowOwnOrLater <=> D!AnswersShowOwnOrLater
  BY DEF DP!AnswersShowOwnOrLater, D!AnswersShowOwnOrLater, DP!StatusAfter, D!StatusAfter,
         DP!Closes, D!Closes, DP!Verdict, D!Verdict
<1>5. DP!AuditedSpec <=> D!AuditedSpec
  <2>1. DP!Audited!Init <=> D!Audited!Init
    BY DEF DP!Audited!Init, D!Audited!Init, DP!Open, D!Open, DP!OpenSteps, D!OpenSteps,
           DP!Promised, D!Promised, DP!At, D!At
  <2>2. DP!Audited!Next <=> D!Audited!Next
    BY DEF DP!Audited!Next, D!Audited!Next, DP!Audited!Decide, D!Audited!Decide,
           DP!Audited!Record, D!Audited!Record, DP!Audited!Forget, D!Audited!Forget,
           DP!Audited!Restart, D!Audited!Restart, DP!Open, D!Open,
           DP!OpenSteps, D!OpenSteps, DP!Promised, D!Promised, DP!At, D!At
  <2>3. /\ DP!Audited!audited = D!Audited!audited
        /\ DP!Audited!audited' = D!Audited!audited'
    BY DEF DP!Audited!audited, D!Audited!audited, DP!Open, D!Open, DP!OpenSteps, D!OpenSteps,
           DP!Promised, D!Promised, DP!At, D!At
  <2>4. [DP!Audited!Next]_(DP!Audited!audited) <=> [D!Audited!Next]_(D!Audited!audited)
    BY <2>2, <2>3
  <2>5. QED
    BY <2>1, <2>4, PTL DEF DP!AuditedSpec, D!AuditedSpec, DP!Audited!Spec, D!Audited!Spec
<1>6. QED
  BY <1>1, <1>2, <1>3, <1>4, <1>5, SameDecisionSpec, PartsInvariance,
     ImplementsDocumentDecisions, PTL DEF DecisionsSpec


------------------------------------------------------------------------------
(* The policy *)

\* AP's policies and A's are the same.
LEMMA SamePolicy ==
  (AP!PolicySpec <=> A!PolicySpec) /\ (AP!ExactPolicySpec <=> A!ExactPolicySpec)
<1>1. AP!Policy!Init <=> A!Policy!Init
  BY DEF AP!Policy!Init, A!Policy!Init, AP!HeldBy, A!HeldBy, AP!PermissionsOf, A!PermissionsOf
<1>2. /\ AP!Policy!ExactNext <=> A!Policy!ExactNext
      /\ AP!Policy!Next <=> A!Policy!Next
  BY DEF AP!Policy!ExactNext, A!Policy!ExactNext, AP!Policy!Next, A!Policy!Next,
         AP!HeldBy, A!HeldBy, AP!PermissionsOf, A!PermissionsOf,
         AP!Policy!Switch, A!Policy!Switch, AP!Policy!Create, A!Policy!Create,
         AP!Policy!Assign, A!Policy!Assign, AP!Policy!Define, A!Policy!Define,
         AP!Policy!Between, A!Policy!Between,
         AP!Definitions, A!Definitions, AP!Valid, A!Valid
<1>3. AP!Policy!policy = A!Policy!policy /\ AP!Policy!policy' = A!Policy!policy'
  BY DEF AP!Policy!policy, A!Policy!policy, AP!HeldBy, A!HeldBy, AP!PermissionsOf, A!PermissionsOf
<1>4. /\ [AP!Policy!ExactNext]_(AP!Policy!policy) <=> [A!Policy!ExactNext]_(A!Policy!policy)
      /\ [AP!Policy!Next]_(AP!Policy!policy) <=> [A!Policy!Next]_(A!Policy!policy)
  BY <1>2, <1>3
<1>5. QED
  BY <1>1, <1>4, PTL
     DEF AP!ExactPolicySpec, A!ExactPolicySpec, AP!Policy!ExactSpec, A!Policy!ExactSpec,
         AP!PolicySpec, A!PolicySpec, AP!Policy!Spec, A!Policy!Spec

\* Requests and decisions do not disturb the scripts.  However these overlap, no
\* commit takes away what it lists, gives what it does not list or touches
\* anything that it is not about; one that nobody overlaps sets what it was told.
THEOREM ScriptsKeepPolicy ==
  /\ Spec => A!PolicySpec
  /\ \A one : Tools = {one} => (Spec => ExactPolicySpec)
<1>1. AP!Spec => AP!PolicySpec
  BY AP!ImplementsPolicy, WishAssumption, SeedAssumption, DisjointAssumption
<1>2. ASSUME NEW one, Tools = {one}
      PROVE  AP!Spec => AP!ExactPolicySpec
  BY <1>2, AP!AloneImplementsExactPolicy, WishAssumption, SeedAssumption, DisjointAssumption
<1>3. Spec => A!PolicySpec
  BY <1>1, SamePolicy, SameAccessSpec, ImplementsAccessControl, PTL DEF AccessSpec
<1>4. ASSUME NEW one, Tools = {one}
      PROVE  Spec => ExactPolicySpec
  BY <1>2, <1>4, SamePolicy, SameAccessSpec, ImplementsAccessControl, PTL
     DEF AccessSpec, ExactPolicySpec
<1>5. QED
  BY <1>3, <1>4
==============================================================================
