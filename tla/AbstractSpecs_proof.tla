------------------------- MODULE AbstractSpecs_proof -------------------------
(***************************************************************************)
(* What the abstract specifications promise in their turn.  A component    *)
(* that implements one of them inherits these.                             *)
(***************************************************************************)
EXTENDS Naturals, Sequences, TLAPS

------------------------------------------------------------------------------
(* TokenLedger *)

CONSTANTS Users, Tokens, NoUser, NoToken
VARIABLES status, holder, origin, contested

L == INSTANCE TokenLedger

\* Tokens that were exchanged have been issued, and died of it; who holds the
\* one holds the other.
LedgerInv ==
  /\ status \in [Tokens -> {"unissued", "live", "dead"}]
  /\ holder \in [Tokens -> Users \cup {NoUser}]
  /\ origin \in [Tokens -> Tokens \cup {NoToken}]
  /\ \A t \in Tokens : status[t] # "unissued" => holder[t] \in Users
  /\ \A t \in Tokens : status[t] = "unissued" => origin[t] = NoToken
  /\ \A t \in Tokens : origin[t] \in Tokens =>
       status[origin[t]] = "dead" /\ holder[origin[t]] = holder[t]

\* A token's family, all exchanged for one another, has one holder and only its
\* last members live: every step keeps this.
LEMMA LedgerStep ==
  ASSUME NoToken \notin Tokens, LedgerInv, [L!Next]_(L!ledger)
  PROVE  LedgerInv' /\ \A t \in Tokens :
           /\ status[t] = "dead" => status'[t] = "dead"
           /\ status[t] # "unissued" =>
                status'[t] # "unissued" /\ UNCHANGED <<holder[t], origin[t]>>
<1> USE DEF LedgerInv
<1>1. ASSUME NEW u \in Users, NEW t \in Tokens, L!Issue(u, t)
      PROVE  LedgerInv' /\ \A s \in Tokens :
               /\ status[s] = "dead" => status'[s] = "dead"
               /\ status[s] # "unissued" =>
                    status'[s] # "unissued" /\ UNCHANGED <<holder[s], origin[s]>>
  BY <1>1 DEF L!Issue
<1>2. ASSUME NEW u \in Users, NEW S \in SUBSET L!Of(u), L!Retire(S)
      PROVE  LedgerInv' /\ \A s \in Tokens :
               /\ status[s] = "dead" => status'[s] = "dead"
               /\ status[s] # "unissued" =>
                    status'[s] # "unissued" /\ UNCHANGED <<holder[s], origin[s]>>
  BY <1>2 DEF L!Retire, L!Of
<1>3. ASSUME NEW p \in Tokens, NEW t \in Tokens, L!Exchange(p, t)
      PROVE  LedgerInv' /\ \A s \in Tokens :
               /\ status[s] = "dead" => status'[s] = "dead"
               /\ status[s] # "unissued" =>
                    status'[s] # "unissued" /\ UNCHANGED <<holder[s], origin[s]>>
  BY <1>3 DEF L!Exchange
<1>4. CASE UNCHANGED L!ledger \/ \E S \in SUBSET L!Live : L!Contend(S)
  BY <1>4 DEF L!ledger, L!Contend
<1>5. QED
  BY <1>1, <1>2, <1>3, <1>4 DEF L!Next, L!IssueOrRetire

\* Nothing that happens to a ledger brings a dead token back or passes a token
\* on to another user, and all tokens that descend from one login have one
\* holder and are dead but for those nobody has exchanged yet.
THEOREM LedgerKeepsFamilies ==
  ASSUME NoToken \notin Tokens
  PROVE  L!Spec =>
           /\ []LedgerInv
           /\ [][\A t \in Tokens :
                   /\ status[t] = "dead" => status'[t] = "dead"
                   /\ status[t] # "unissued" =>
                        status'[t] # "unissued" /\ UNCHANGED <<holder[t], origin[t]>>]_(L!ledger)
<1>1. L!Init => LedgerInv
  BY DEF L!Init, LedgerInv
<1>2. LedgerInv /\ [L!Next]_(L!ledger) =>
        LedgerInv' /\ [\A t \in Tokens :
                   /\ status[t] = "dead" => status'[t] = "dead"
                   /\ status[t] # "unissued" =>
                        status'[t] # "unissued" /\ UNCHANGED <<holder[t], origin[t]>>]_(L!ledger)
  BY LedgerStep
<1>3. QED
  BY <1>1, <1>2, PTL DEF L!Spec

\* What two successors of one token tell of it.
SuccessorsContested ==
  \A a, b \in Tokens :
    a # b /\ origin[a] = origin[b] /\ origin[a] \in Tokens => origin[a] \in contested

\* A token that died uncontested stays so, and gets no successor any more.
DeadForGood ==
  \A t \in Tokens :
    status[t] = "dead" /\ t \notin contested =>
      /\ t \notin contested'
      /\ \A c \in Tokens : origin'[c] = t => origin[c] = t

\* Every step of a ledger keeps the one and obeys the other.
LEMMA LedgerContest ==
  ASSUME NoToken \notin Tokens, LedgerInv, SuccessorsContested, [L!Next]_(L!ledger)
  PROVE  SuccessorsContested' /\ DeadForGood
<1> USE DEF LedgerInv, SuccessorsContested, DeadForGood
<1>1. CASE \E u \in Users, t \in Tokens : L!Issue(u, t)
  BY <1>1 DEF L!Issue
<1>2. ASSUME NEW p \in Tokens, NEW t \in Tokens, L!Exchange(p, t)
      PROVE  SuccessorsContested' /\ DeadForGood
  <2>1. /\ status[p] = "dead" => p \in contested
        /\ contested' = contested /\ origin' = [origin EXCEPT ![t] = p]
    BY <1>2 DEF L!Exchange
  <2>2. (\E c \in Tokens : origin[c] = p) => p \in contested
    BY <1>2, <2>1 DEF L!Exchange
  <2>3. QED
    BY <2>1, <2>2
<1>3. CASE \E S \in SUBSET L!Live : L!Contend(S)
  BY <1>3 DEF L!Contend, L!Live
<1>4. CASE \/ UNCHANGED L!ledger
           \/ \E u \in Users : \E S \in SUBSET L!Of(u) : L!Retire(S)
  BY <1>4 DEF L!ledger, L!Retire
<1>5. QED
  BY <1>1, <1>2, <1>3, <1>4 DEF L!Next, L!IssueOrRetire

\* In a ledger a token that nobody contested while it lived is exchanged at
\* most once, and never after it died.
THEOREM LedgerIsSingleUse ==
  ASSUME NoToken \notin Tokens
  PROVE  L!Spec => []SuccessorsContested /\ [][DeadForGood]_(L!ledger)
<1>1. L!Init => SuccessorsContested
  BY DEF L!Init, SuccessorsContested
<1>2. LedgerInv /\ SuccessorsContested /\ [L!Next]_(L!ledger) =>
        SuccessorsContested' /\ [DeadForGood]_(L!ledger)
  BY LedgerContest
<1>3. QED
  BY <1>1, <1>2, LedgerKeepsFamilies, PTL DEF L!Spec

------------------------------------------------------------------------------
(* RemoteWrite *)

CONSTANTS Calls
VARIABLES asked, written, told

W == INSTANCE RemoteWrite

\* What a verdict says of the write.
Verdicts ==
  /\ asked \subseteq Calls
  /\ written \in [Calls -> {0, 1}]
  /\ told \in [Calls -> W!Verdict \cup {"nothing"}]
  /\ \A c \in Calls :
       /\ c \notin asked => written[c] = 0 /\ told[c] = "nothing"
       /\ told[c] = "written" => written[c] = 1
       /\ told[c] \in {"refused", "moved"} => written[c] = 0

\* No write is undone or repeated, and no caller told twice.
Settled ==
  \A c \in Calls : /\ written[c] = 1 => written'[c] = 1
                   /\ told[c] # "nothing" => told'[c] = told[c]

\* A verdict is true when it is given and stays true: what was "refused" or
\* "moved" is never written later.
THEOREM VerdictsStayTrue == W!Spec => []Verdicts /\ [][Settled]_(W!remote)
<1>1. W!Init => Verdicts
  BY DEF W!Init, W!Verdict, Verdicts
<1>2. ASSUME Verdicts, NEW c \in Calls,
             W!Ask(c) \/ W!Apply(c) \/ \E verdict \in W!Verdict : W!Tell(c, verdict)
      PROVE  Verdicts' /\ Settled
  <2>1. CASE W!Ask(c)
    BY <1>2, <2>1 DEF W!Ask, Verdicts, Settled
  <2>2. CASE W!Apply(c)
    BY <1>2, <2>2 DEF W!Apply, Verdicts, Settled
  <2>3. CASE \E verdict \in W!Verdict : W!Tell(c, verdict)
    BY <1>2, <2>3 DEF W!Tell, W!Verdict, Verdicts, Settled
  <2>4. QED
    BY <1>2, <2>1, <2>2, <2>3
<1>3. Verdicts /\ [W!Next]_(W!remote) => Verdicts' /\ [Settled]_(W!remote)
  <2>1. Verdicts /\ UNCHANGED W!remote => Verdicts'
    BY DEF W!remote, Verdicts
  <2>2. QED
    BY <1>2, <2>1 DEF W!Next
<1>4. QED
  BY <1>1, <1>3, PTL DEF W!Spec

------------------------------------------------------------------------------
(* RolePolicy *)

CONSTANTS Roles, Perms, Wishes, Seeds
VARIABLES users, active, roles, held, granted

P == INSTANCE RolePolicy

PolicyConstants ==
  /\ Wishes \subseteq SUBSET Roles
  /\ \A defs \in Seeds : \E D \in SUBSET Roles : defs \in [D -> SUBSET Perms]

\* Nobody holds a role without an account or one that does not exist, and no
\* role grants anything before it exists.
NothingDangles ==
  /\ users \subseteq Users /\ active \subseteq users /\ roles \subseteq Roles
  /\ held \in [Users -> SUBSET Roles] /\ granted \in [Roles -> SUBSET Perms]
  /\ \A u \in Users : held[u] \subseteq roles /\ (u \notin users => held[u] = {})
  /\ \A role \in Roles \ roles : granted[role] = {}

\* Scripts that overlap leave nothing dangling either.
THEOREM PolicyLeavesNothingDangling ==
  ASSUME PolicyConstants
  PROVE  P!Spec => []NothingDangles
<1>1. P!Init => NothingDangles
  BY DEF P!Init, NothingDangles
<1>2. ASSUME NothingDangles, [P!Next]_(P!policy) PROVE NothingDangles'
  <2>1. ASSUME NEW u \in Users, P!Switch(u) PROVE NothingDangles'
    BY <1>2, <2>1 DEF P!Switch, NothingDangles
  <2>2. ASSUME NEW u \in Users, NEW X \in Wishes, P!Create(u, X) PROVE NothingDangles'
    BY <1>2, <2>2 DEF P!Create, NothingDangles, PolicyConstants
  <2>3. ASSUME NEW u \in Users, NEW X \in Wishes, NEW list \in SUBSET Roles,
               P!Between(held[u], X, list), P!Assign(u, X, list)
        PROVE  NothingDangles'
    BY <1>2, <2>3 DEF P!Assign, P!Between, NothingDangles
  <2>4. ASSUME NEW defs \in Seeds, NEW table \in [DOMAIN defs -> SUBSET Perms],
               P!Define(defs, table)
        PROVE  NothingDangles'
    <3>1. DOMAIN defs \subseteq Roles
      BY DEF PolicyConstants
    <3>2. QED
      BY <1>2, <2>4, <3>1 DEF P!Define, NothingDangles
  <2>5. CASE UNCHANGED P!policy
    BY <1>2, <2>5 DEF P!policy, NothingDangles
  <2>6. QED
    BY <1>2, <2>1, <2>2, <2>3, <2>4, <2>5 DEF P!Next
<1>3. QED
  BY <1>1, <1>2, PTL DEF P!Spec

------------------------------------------------------------------------------
(* AuditedChains *)

CONSTANTS Docs, Fresh, Ids
VARIABLES chain, promised, trail

C == INSTANCE AuditedChains

Closed == {"authorized", "rejected"}

ChainConstants ==
  \A d \in Docs : Fresh[d].status = "authorized" => Fresh[d].open = {}

\* Rows that are due speak of the documents as they are: one that says how its
\* decision closed a document is about a document closed so, any other about one
\* that has been begun.  An authorized document has no step left.
DueRowsFit ==
  /\ DOMAIN chain = DOMAIN Fresh
  /\ \A d \in Docs : chain[d].status = "authorized" => chain[d].open = {}
  /\ \A row \in promised :
       /\ row.doc \in Docs /\ row.status \in {"partial", "authorized", "rejected"}
       /\ row.status = "rejected" <=> row.action = "reject"
       /\ chain[row.doc].status # "none"
       /\ row.status \in Closed => chain[row.doc].status = row.status

\* What has been decided is only taken back by a restart, all at once, and none
\* takes back a row.
Forward ==
  /\ trail \subseteq trail'
  /\ \/ chain' = Fresh /\ promised' = {}
     \/ \A d \in Docs : /\ chain'[d].open \subseteq chain[d].open
                        /\ chain[d].status \in Closed => chain'[d] = chain[d]
                        /\ chain'[d] # chain[d] => chain'[d].open # chain[d].open

\* The decisions of api/documents.py: no two rows that are due close one document
\* differently, no decision follows one that closed it, and each costs a step.
THEOREM DueRowsAgree ==
  ASSUME ChainConstants, Docs \subseteq DOMAIN Fresh
  PROVE  C!Spec => []DueRowsFit /\ [][Forward]_(C!audited)
<1>1. C!Init => DueRowsFit
  BY DEF C!Init, DueRowsFit, ChainConstants
<1>2. ASSUME DueRowsFit, NEW d \in Docs, NEW id \in Ids, NEW action \in {"authorize", "reject"},
             NEW to \in {"partial", "authorized", "rejected"}, C!Decide(d, id, action, to)
      PROVE  DueRowsFit' /\ Forward
  <2>1. PICK step \in chain[d].open :
          /\ to = IF action = "reject" THEN "rejected"
                  ELSE IF chain[d].open \ {step} = {} THEN "authorized" ELSE "partial"
          /\ chain' = [chain EXCEPT ![d] = [status |-> to, open |-> chain[d].open \ {step}]]
    BY <1>2 DEF C!Decide
  <2>2. /\ chain'[d] = [status |-> to, open |-> chain[d].open \ {step}]
        /\ \A q \in Docs \ {d} : chain'[q] = chain[q]
        /\ DOMAIN chain' = DOMAIN Fresh
    BY <1>2, <2>1 DEF DueRowsFit
  <2>3. /\ chain[d].status \in {"none", "partial"}
        /\ promised' = promised \cup {[req |-> id, doc |-> d, action |-> action, status |-> to]}
        /\ trail' = trail
    BY <1>2 DEF C!Decide
  <2>4. \A row \in promised : row.doc = d => row.status = "partial"
    BY <1>2, <2>3 DEF DueRowsFit, Closed
  <2>5. DueRowsFit'
    BY <1>2, <2>1, <2>2, <2>3, <2>4 DEF DueRowsFit, Closed
  <2>6. Forward
    BY <2>2, <2>3 DEF Forward, Closed
  <2>7. QED
    BY <2>5, <2>6
<1>3. ASSUME DueRowsFit, NEW row \in promised, C!Record(row) \/ C!Forget(row)
      PROVE  DueRowsFit' /\ Forward
  BY <1>3 DEF C!Record, C!Forget, DueRowsFit, Forward
<1>4. ASSUME DueRowsFit, C!Restart PROVE DueRowsFit' /\ Forward
  BY <1>4 DEF C!Restart, DueRowsFit, Forward, ChainConstants
<1>5. DueRowsFit /\ [C!Next]_(C!audited) => DueRowsFit' /\ [Forward]_(C!audited)
  <2>1. DueRowsFit /\ UNCHANGED C!audited => DueRowsFit'
    BY DEF C!audited, DueRowsFit
  <2>2. QED
    BY <1>2, <1>3, <1>4, <2>1 DEF C!Next
<1>6. QED
  BY <1>1, <1>5, PTL DEF C!Spec

------------------------------------------------------------------------------
(* SlidingWindow *)

CONSTANTS Clients, Limit, Window
VARIABLES now, log, verdict

S == INSTANCE SlidingWindow

\* Any Limit + 1 attempts admitted one after the other span a window.
Budget ==
  /\ now \in Nat /\ log \in [Clients -> Seq(Nat)]
  /\ \A c \in Clients : \A i, j \in 1..Len(log[c]) :
       /\ log[c][i] <= now
       /\ i <= j => log[c][i] <= log[c][j]
       /\ i + Limit <= j => log[c][i] + Window <= log[c][j]

\* core/rate_limit.py:45: looking only at the one attempt Limit places back keeps
\* the budget of every window, wherever it begins.
THEOREM OneLookIsEnough ==
  ASSUME Limit \in Nat \ {0}, Window \in Nat
  PROVE  S!Spec => []Budget
<1>1. S!Init => Budget
  BY DEF S!Init, Budget
<1>2. ASSUME Budget, NEW c \in Clients, S!Admit(c) PROVE Budget'
  <2> DEFINE old == log[c]
  <2>1. /\ now' = now /\ now \in Nat /\ old \in Seq(Nat)
        /\ log' = [log EXCEPT ![c] = Append(old, now)]
    BY <1>2 DEF S!Admit, Budget
  <2>2. /\ log' \in [Clients -> Seq(Nat)]
        /\ log'[c] = Append(old, now)
        /\ \A b \in Clients \ {c} : log'[b] = log[b]
    BY <1>2, <2>1 DEF Budget
  <2>3. /\ Len(log'[c]) = Len(old) + 1 /\ Len(old) \in Nat
        /\ \A i \in 1..Len(old) : log'[c][i] = old[i] /\ old[i] \in Nat
        /\ log'[c][Len(old) + 1] = now
    BY <2>1, <2>2
  <2>4. ASSUME NEW i \in 1..Len(old), i + Limit <= Len(old) + 1 PROVE old[i] + Window <= now
    <3>1. Len(old) - Limit + 1 \in 1..Len(old) /\ i <= Len(old) - Limit + 1
      BY <2>3, <2>4
    <3>2. old[Len(old) - Limit + 1] + Window <= now
      BY <1>2, <3>1, <2>3 DEF S!Admit, S!Room
    <3>3. old[i] <= old[Len(old) - Limit + 1]
      BY <1>2, <3>1 DEF Budget
    <3>4. old[i] \in Nat /\ old[Len(old) - Limit + 1] \in Nat
      BY <2>3, <3>1
    <3>5. \A a, b \in Nat : a <= b /\ b + Window <= now => a + Window <= now
      BY <2>1
    <3>6. QED
      BY <3>2, <3>3, <3>4, <3>5
  <2>5. ASSUME NEW i \in 1..Len(log'[c]), NEW j \in 1..Len(log'[c])
        PROVE  /\ log'[c][i] <= now
               /\ i <= j => log'[c][i] <= log'[c][j]
               /\ i + Limit <= j => log'[c][i] + Window <= log'[c][j]
    <3>1. CASE i \in 1..Len(old) /\ j \in 1..Len(old)
      BY <1>2, <2>3, <3>1 DEF Budget
    <3>2. CASE i \in 1..Len(old) /\ j = Len(old) + 1
      BY <1>2, <2>3, <2>4, <3>2 DEF Budget
    <3>3. CASE i = Len(old) + 1
      BY <2>1, <2>3, <3>3
    <3>4. QED
      BY <2>3, <3>1, <3>2, <3>3
  <2>6. QED
    BY <1>2, <2>1, <2>2, <2>5 DEF Budget
<1>3. ASSUME Budget, S!Pass PROVE Budget'
  <2>1. now' \in Nat /\ now <= now' /\ log' = log
    BY <1>3 DEF S!Pass, Budget
  <2>2. \A c \in Clients : \A i \in 1..Len(log[c]) : log[c][i] \in Nat
    BY <1>3 DEF Budget
  <2>3. QED
    BY <1>3, <2>1, <2>2 DEF Budget
<1>4. ASSUME Budget, S!Restart PROVE Budget'
  BY <1>4 DEF S!Restart, Budget
<1>5. ASSUME Budget, (\E c \in Clients : S!Refuse(c)) \/ UNCHANGED S!window PROVE Budget'
  BY <1>5 DEF S!Refuse, S!window, Budget
<1>6. Budget /\ [S!Next]_(S!window) => Budget'
  BY <1>2, <1>3, <1>4, <1>5 DEF S!Next
<1>7. QED
  BY <1>1, <1>6, PTL DEF S!Spec
==============================================================================
