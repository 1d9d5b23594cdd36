----------------------- MODULE DocumentDecisions_proof -----------------------
(***************************************************************************)
(* Proofs about DocumentDecisions: its types, the inductive invariant that *)
(* carries its safety properties, and that it implements AuditedChains.    *)
(***************************************************************************)
EXTENDS DocumentDecisions, DocumentChain_proof

------------------------------------------------------------------------------
(* The inductive invariant *)

\* A chain is as long as SAP delivered it.
LengthFixed == \A d \in Docs : Len(store[d].steps) = Len(Fresh[d].steps)

\* A request decides at most once, and only one that has begun has decided.
DecidesOnce ==
  \A m \in made :
    /\ m.run <= restarts
    /\ ~At(m.req, "new")
    /\ req[m.req].answer # "conflict"
    /\ \A n \in made : n.req = m.req => n = m

RowOf(m) == [req |-> m.req, doc |-> m.doc, action |-> m.action, status |-> StatusAfter(m)]

\* The row a request is about to commit is that of its own decision.
RowsDue ==
  \A r \in Requests :
    At(r, "auditing") => \E m \in made : m.req = r /\ req[r].row = RowOf(m)

\* Where a request stands tells whether its row is there.
RowsRecorded ==
  \A r \in Requests :
    /\ At(r, "auditing") => req[r].answer = "none"
    /\ At(r, "committed") \/ req[r].answer = "ok" => \E e \in events : e.req = r

IInv ==
  /\ TypeOK
  /\ ChainShape
  /\ LengthFixed
  /\ DecisionsStand
  /\ DecidesOnce
  /\ RowsDue
  /\ RowsRecorded
  /\ RowsTellTheTruth
  /\ FinalDecisionIsLast
  /\ AnswersMatchTrail

\* The documents SAP delivers are documents, before any request has acted.
LEMMA FreshTyped == Fresh \in [Docs -> Document(Actors)]
<1>1. ASSUME NEW d \in Docs PROVE Fresh[d] \in Document(Actors)
  <2>1. Fresh[d] \in Document({Sap})
    BY FreshAssumption
  <2>2. Fresh[d].steps \in Seq(Step({Sap})) /\ Fresh[d].status \in Status
    BY <2>1 DEF Document
  <2>3. Step({Sap}) \subseteq Step(Actors)
    BY DEF Step, Actors
  <2>4. Fresh[d].steps \in Seq(Step(Actors))
    BY <2>2, <2>3, SeqMonotonic
  <2>5. QED
    BY <2>1, <2>2, <2>4 DEF Document
<1>2. QED
  BY <1>1, FreshAssumption

\* The process starts with the documents of SAP and no decision.
LEMMA InitIInv == Init => IInv
<1> SUFFICES ASSUME Init PROVE IInv
  OBVIOUS
<1> USE DEF Init
<1>1. store \in [Docs -> Document(Actors)]
  BY FreshTyped
<1>2. TypeOK
  BY <1>1, RestartAssumption DEF TypeOK, Request, NewRequest, NoRow, Status, At
<1>3. ChainShape /\ LengthFixed
  BY FreshAssumption DEF ChainShape, LengthFixed
<1>4. DecisionsStand /\ DecidesOnce /\ FinalDecisionIsLast
  BY DEF DecisionsStand, DecidesOnce, FinalDecisionIsLast, Current
<1>5. RowsDue /\ RowsRecorded /\ RowsTellTheTruth /\ AnswersMatchTrail
  BY DEF RowsDue, RowsRecorded, RowsTellTheTruth, AnswersMatchTrail, NewRequest, At, Current
<1>6. QED
  BY <1>2, <1>3, <1>4, <1>5 DEF IInv

------------------------------------------------------------------------------
(* A decision *)

\* The decisions of this run on an open document fill its decided steps, and
\* none of them closed it.
LEMMA OpenDocument ==
  ASSUME IInv, NEW d \in Docs, RequirePending(store[d]),
         NEW decided \in 0..Len(store[d].steps), ChainOf(store[d], decided),
         NEW m \in Current, m.doc = d
  PROVE  m.step \in 1..decided /\ ~Closes(m)
<1> DEFINE doc == store[d]
<1>1. doc \in Document(Actors) /\ Len(doc.steps) \in Nat /\ DOMAIN doc.steps = 1..Len(doc.steps)
  BY LenProperties DEF IInv, TypeOK, Document
<1>2. m.step \in 1..Len(doc.steps) /\ doc.steps[m.step].status = Verdict(m)
  <2>1. m.step \in DOMAIN doc.steps /\ doc.steps[m.step] = [status |-> Verdict(m), by |-> m.req]
    BY DEF IInv, DecisionsStand
  <2>2. QED
    BY <1>1, <2>1
<1>3. decided < Len(doc.steps) /\ OpenSteps(doc) = (decided + 1)..Len(doc.steps)
  BY <1>1, FirstPendingIsNext
<1>4. m.step \in 1..decided
  <2>1. m.step \notin OpenSteps(doc)
    BY <1>2 DEF OpenSteps, Verdict
  <2>2. QED
    BY <1>1, <1>2, <1>3, <2>1
<1>5. m.action # "reject"
  <2>1. doc.steps[m.step].status # "rejected"
    BY <1>4 DEF ChainOf, RequirePending, PENDING_STATUSES
  <2>2. QED
    BY <1>2, <2>1 DEF Verdict
<1>6. m.step # Len(Fresh[d].steps)
  BY <1>1, <1>3, <1>4 DEF IInv, LengthFixed
<1>7. QED
  BY <1>4, <1>5, <1>6 DEF Closes

\* A decision keeps the chain, disturbs no earlier decision, and its row is due.
LEMMA DecidePreserves ==
  ASSUME IInv, NEW r \in Requests, NEW d \in Docs, NEW action \in Action, Decide(r, d, action)
  PROVE  IInv'
<1> DEFINE old == store[d]
           new == Decided(old, r, action)
           verdict == IF action = "reject" THEN "rejected" ELSE "authorized"
           row == [req |-> r, doc |-> d, action |-> action, status |-> new.status]
           it  == [req |-> r, doc |-> d, action |-> action,
                   step |-> FirstPending(old), run |-> restarts]
<1>1. /\ At(r, "new") /\ RequirePending(old)
      /\ store' = [store EXCEPT ![d] = new]
      /\ req' = [req EXCEPT ![r].pc = "auditing", ![r].row = row]
      /\ made' = made \cup {it}
      /\ events' = events /\ restarts' = restarts
  BY DEF Decide
<1>2. /\ store \in [Docs -> Document(Actors)] /\ old \in Document(Actors) /\ r \in Actors
      /\ Len(old.steps) \in Nat /\ DOMAIN old.steps = 1..Len(old.steps)
  BY LenProperties DEF IInv, TypeOK, Document, Actors
<1>3. PICK decided \in 0..Len(old.steps) : ChainOf(old, decided)
  BY DEF IInv, ChainShape, WellFormed
<1>4. Advances(Actors, old, decided, r, verdict, new)
  <2>1. \/ verdict = "authorized" /\ new = AuthorizeDocument(old, r)
        \/ verdict = "rejected" /\ new = RejectDocument(old, r)
    BY DEF Decided, Action
  <2> HIDE DEF verdict, new
  <2>2. QED
    BY <1>1, <1>2, <1>3, <2>1, DecisionAdvancesChain
<1>5. /\ it.step = decided + 1 /\ it.step \in 1..Len(old.steps)
      /\ new \in Document(Actors) /\ Len(new.steps) = Len(old.steps)
      /\ DOMAIN new.steps = 1..Len(old.steps)
      /\ \A j \in 1..Len(old.steps) :
           new.steps[j] = IF j = decided + 1 THEN [status |-> verdict, by |-> r] ELSE old.steps[j]
      /\ ChainOf(new, decided + 1)
  <2> HIDE DEF verdict, new
  <2>1. new \in Document(Actors) /\ Len(new.steps) = Len(old.steps)
    BY <1>4 DEF Advances, FillsNext
  <2>2. DOMAIN new.steps = 1..Len(old.steps)
    BY <2>1, LenProperties DEF Document
  <2>3. QED
    BY <1>4, <2>1, <2>2 DEF Advances, FillsNext
<1>6. new.status = StatusAfter(it) /\ Verdict(it) = verdict
  BY <1>4, <1>5 DEF Advances, StatusAfter, Closes, Verdict, IInv, LengthFixed
<1>7. it \in Decision /\ row \in Row /\ row = RowOf(it)
  BY <1>5, <1>6 DEF Decision, Row, RowOf, Document, IInv, TypeOK
<1> HIDE DEF verdict, new, it
<1>8. /\ store'[d] = new
      /\ \A e \in Docs \ {d} : store'[e] = store[e]
  BY <1>1, <1>2
<1>9. it.req = r /\ it.doc = d /\ it.action = action /\ it.run = restarts
  BY DEF it
<1>10. /\ req[r] = NewRequest /\ req \in [Requests -> Request]
       /\ \A m \in made : m.req # r
       /\ \A m \in made : m.req \in Requests /\ m.doc \in Docs
  <2>1. req[r] = NewRequest /\ req \in [Requests -> Request]
    BY <1>1 DEF IInv, TypeOK, At
  <2>2. \A m \in made : m.req # r
    BY <1>1 DEF IInv, DecidesOnce
  <2>3. \A m \in made : m.req \in Requests /\ m.doc \in Docs
    BY DEF IInv, TypeOK, Decision
  <2>4. QED
    BY <2>1, <2>2, <2>3
<1>11. /\ req'[r].pc = "auditing" /\ req'[r].row = row /\ req'[r].answer = "none"
       /\ \A q \in Requests \ {r} : req'[q] = req[q]
       /\ req' \in [Requests -> Request]
  <2> HIDE DEF row
  <2> DEFINE begun == [req[r] EXCEPT !.pc = "auditing"]
  <2>1. req[r] \in Request /\ req[r].answer = "none"
    BY <1>10 DEF NewRequest
  <2>2. begun \in Request /\ begun.pc = "auditing" /\ begun.answer = "none"
    BY <2>1 DEF Request
  <2>3. req'[r] = [begun EXCEPT !.row = row] /\ \A q \in Requests \ {r} : req'[q] = req[q]
    BY <1>1, <1>10
  <2> HIDE DEF begun
  <2>4. /\ req'[r] \in Request
        /\ req'[r].pc = "auditing" /\ req'[r].row = row /\ req'[r].answer = "none"
    BY <1>7, <2>2, <2>3 DEF Request
  <2>5. req' \in [Requests -> Request]
    BY <1>1, <1>10, <2>3, <2>4
  <2>6. QED
    BY <2>3, <2>4, <2>5
<1>12. Current' = Current \cup {it}
  BY <1>1, <1>9 DEF Current
<1>13. TypeOK'
  <2>1. store' \in [Docs -> Document(Actors)]
    BY <1>1, <1>2, <1>5
  <2>2. made' \subseteq Decision
    BY <1>1, <1>7 DEF IInv, TypeOK
  <2>3. \A q \in Requests :
          /\ (req[q].pc \in {"auditing", "committed"} => req[q].row \in Row /\ req[q].row.req = q)'
          /\ (req[q].pc = "new" => req[q] = NewRequest)'
    BY <1>7, <1>11 DEF IInv, TypeOK, NewRequest
  <2>4. QED
    BY <1>1, <1>11, <2>1, <2>2, <2>3 DEF IInv, TypeOK
<1>14. ChainShape' /\ LengthFixed'
  <2>1. WellFormed(new)
    BY <1>2, <1>3, <1>5 DEF WellFormed
  <2>2. QED
    BY <1>5, <1>8, <2>1 DEF IInv, ChainShape, LengthFixed
<1>15. DecisionsStand'
  <2>1. ASSUME NEW m \in Current
        PROVE  m.step \in DOMAIN store'[m.doc].steps
               /\ store'[m.doc].steps[m.step] = [status |-> Verdict(m), by |-> m.req]
    <3>1. /\ m.step \in DOMAIN store[m.doc].steps /\ m.doc \in Docs
          /\ store[m.doc].steps[m.step] = [status |-> Verdict(m), by |-> m.req]
      BY <1>10 DEF IInv, DecisionsStand, Current
    <3>2. CASE m.doc = d
      <4>1. m.step \in 1..decided
        BY <1>1, <1>3, <3>2, OpenDocument
      <4>2. QED
        BY <1>2, <1>5, <1>8, <3>1, <3>2, <4>1
    <3>3. CASE m.doc # d
      BY <1>8, <3>1, <3>3
    <3>4. QED
      BY <3>2, <3>3
  <2>2. it.step \in DOMAIN store'[it.doc].steps
        /\ store'[it.doc].steps[it.step] = [status |-> Verdict(it), by |-> it.req]
    BY <1>5, <1>6, <1>8, <1>9
  <2>3. QED
    BY <1>12, <2>1, <2>2 DEF DecisionsStand, Verdict
<1>16. DecidesOnce'
  BY <1>1, <1>7, <1>9, <1>10, <1>11 DEF IInv, TypeOK, DecidesOnce, At
<1>17. RowsDue'
  <2> SUFFICES ASSUME NEW q \in Requests, req'[q].pc = "auditing"
               PROVE  \E m \in made' : m.req = q /\ req'[q].row = RowOf(m)
    BY DEF RowsDue, At, RowOf, StatusAfter, Closes, Verdict
  <2>1. CASE q = r
    BY <1>1, <1>7, <1>9, <1>11, <2>1
  <2>2. CASE q # r
    BY <1>1, <1>11, <2>2 DEF IInv, RowsDue, At
  <2>3. QED
    BY <2>1, <2>2
<1>18. RowsRecorded'
  BY <1>1, <1>11 DEF IInv, RowsRecorded, At
<1>19. RowsTellTheTruth'
  BY <1>1 DEF IInv, RowsTellTheTruth, StatusAfter, Closes, Verdict
<1>20. FinalDecisionIsLast'
  <2>1. ASSUME NEW m \in made, m.doc = d, m.run = restarts
        PROVE  m.step < it.step /\ ~Closes(m)
    <3>1. m \in Current
      BY <2>1 DEF Current
    <3>2. m.step \in 1..decided /\ ~Closes(m)
      BY <1>1, <1>3, <2>1, <3>1, OpenDocument
    <3>3. QED
      BY <1>2, <1>5, <3>2
  <2>2. it.step <= it.step
    BY <1>2, <1>5
  <2>3. \A m \in made : m.step \in Nat
    BY DEF IInv, TypeOK, Decision
  <2>4. it.step \in Nat
    BY <1>2, <1>5
  <2>5. ASSUME NEW m \in made', NEW n \in made', m.doc = n.doc, m.run = n.run, Closes(m)
        PROVE  n.step <= m.step
    <3>1. CASE m = it /\ n = it
      BY <3>1, <2>2
    <3>2. CASE m = it /\ n \in made
      BY <1>9, <2>1, <2>3, <2>4, <2>5, <3>2
    <3>3. CASE m \in made /\ n = it
      BY <1>9, <2>1, <2>5, <3>3
    <3>4. CASE m \in made /\ n \in made
      BY <2>5, <3>4 DEF IInv, FinalDecisionIsLast
    <3>5. QED
      BY <1>1, <3>1, <3>2, <3>3, <3>4
  <2>6. QED
    BY <2>5 DEF FinalDecisionIsLast, Closes
<1>21. AnswersMatchTrail'
  BY <1>1, <1>9, <1>11, <1>12 DEF IInv, AnswersMatchTrail, At
<1>22. QED
  BY <1>13, <1>14, <1>15, <1>16, <1>17, <1>18, <1>19, <1>20, <1>21 DEF IInv

------------------------------------------------------------------------------
(* What follows a decision *)

\* A step that leaves the documents alone and takes request r on to `new`,
\* committing the row that is due or not.
LEMMA RequestStep ==
  ASSUME IInv, NEW r \in Requests, NEW new \in Request,
         UNCHANGED <<store, made, restarts>>,
         req' = [req EXCEPT ![r] = new],
         events' = events \/ (At(r, "auditing") /\ events' = events \cup {req[r].row}),
         new.pc \in {"committed", "answered"},
         new.pc = "committed" => At(r, "auditing") /\ new.row = req[r].row,
         new.pc = "committed" \/ new.answer = "ok" => \E e \in events' : e.req = r,
         new.answer = "conflict" => At(r, "new"),
         (\E m \in Current : m.req = r) /\ ~(\E e \in events' : e.req = r)
           => new.answer = "error"
  PROVE  IInv'
<1>1. /\ req \in [Requests -> Request] /\ req' \in [Requests -> Request]
      /\ req'[r] = new /\ \A q \in Requests \ {r} : req'[q] = req[q]
      /\ made \subseteq Decision /\ events \subseteq Row
      /\ \A m \in made : m.req \in Requests
  BY DEF IInv, TypeOK, Decision
<1>2. At(r, "auditing") => req[r].row \in Row /\ req[r].row.req = r
  BY DEF IInv, TypeOK, At
<1>3. TypeOK'
  <2>1. events' \subseteq Row
    BY <1>1, <1>2
  <2>2. \A q \in Requests :
          /\ (req[q].pc \in {"auditing", "committed"} => req[q].row \in Row /\ req[q].row.req = q)'
          /\ (req[q].pc = "new" => req[q] = NewRequest)'
    BY <1>1, <1>2 DEF IInv, TypeOK
  <2>3. QED
    BY <1>1, <2>1, <2>2 DEF IInv, TypeOK
<1>4. ChainShape' /\ LengthFixed'
  BY DEF IInv, ChainShape, LengthFixed
<1>5. DecisionsStand' /\ FinalDecisionIsLast'
  BY DEF IInv, DecisionsStand, FinalDecisionIsLast, Current, Verdict, Closes
<1>6. DecidesOnce'
  BY <1>1 DEF IInv, DecidesOnce, At
<1>7. RowsDue'
  BY <1>1 DEF IInv, RowsDue, At, RowOf, StatusAfter, Closes, Verdict
<1>8. RowsRecorded'
  BY <1>1 DEF IInv, RowsRecorded, At
<1>9. RowsTellTheTruth'
  <2>1. At(r, "auditing") => \E m \in made : req[r].row = RowOf(m)
    BY DEF IInv, RowsDue
  <2>2. ASSUME NEW e \in events' PROVE \E m \in made : e = RowOf(m)
    BY <2>1 DEF IInv, RowsTellTheTruth, RowOf
  <2>3. QED
    BY <2>2 DEF RowsTellTheTruth, RowOf, StatusAfter, Closes, Verdict
<1>10. AnswersMatchTrail'
  <2>1. At(r, "new") => ~\E e \in events : e.req = r
    BY DEF IInv, RowsTellTheTruth, DecidesOnce
  <2>2. ASSUME NEW q \in Requests \ {r}
        PROVE  (\E e \in events' : e.req = q) <=> (\E e \in events : e.req = q)
    BY <1>2
  <2>3. ASSUME NEW q \in Requests
        PROVE  /\ req'[q].answer = "ok" => \E e \in events' : e.req = q
               /\ req'[q].answer = "conflict" => ~\E e \in events' : e.req = q
               /\ ~(\E e \in events' : e.req = q) /\ (\E m \in Current : m.req = q)
                    => req'[q].pc = "auditing" \/ req'[q].answer = "error"
    <3>1. CASE q = r
      BY <1>1, <2>1, <3>1 DEF At
    <3>2. CASE q # r
      BY <1>1, <2>2, <3>2 DEF IInv, AnswersMatchTrail, At
    <3>3. QED
      BY <3>1, <3>2
  <2>4. QED
    BY <2>3 DEF AnswersMatchTrail, At, Current
<1>11. QED
  BY <1>3, <1>4, <1>5, <1>6, <1>7, <1>8, <1>9, <1>10 DEF IInv

\* So do the conflicts, the commits and the responses.
LEMMA ProceedPreserves ==
  ASSUME IInv, NEW r \in Requests, Proceed(r) \/ \E d \in Docs : Conflict(r, d)
  PROVE  IInv'
<1>1. req \in [Requests -> Request] /\ req[r] \in Request
  BY DEF IInv, TypeOK
<1>2. (\E m \in Current : m.req = r) => ~At(r, "new")
  BY DEF IInv, DecidesOnce, Current
<1>3. At(r, "auditing") => req[r].row.req = r /\ req[r].answer = "none"
  BY DEF IInv, TypeOK, RowsRecorded, At
<1>4. ASSUME NEW d \in Docs, Conflict(r, d) PROVE IInv'
  <2> DEFINE new == [req[r] EXCEPT !.pc = "answered", !.answer = "conflict",
                                   !.shown = store[d].status]
  <2>1. store[d].status \in Status
    BY DEF IInv, TypeOK, Document
  <2>2. /\ req' = [req EXCEPT ![r] = new] /\ new \in Request
        /\ new.pc = "answered" /\ new.answer = "conflict"
    BY <1>1, <1>4, <2>1 DEF Conflict, Answer, Request
  <2>3. At(r, "new") /\ UNCHANGED <<store, events, restarts, made>>
    BY <1>4 DEF Conflict
  <2> HIDE DEF new
  <2>4. QED
    BY <1>2, <2>2, <2>3, RequestStep
<1>5. CASE CommitRow(r)
  <2> DEFINE new == [req[r] EXCEPT !.pc = "committed"]
  <2>1. /\ req' = [req EXCEPT ![r] = new] /\ new \in Request
        /\ new.pc = "committed" /\ new.row = req[r].row /\ new.answer = req[r].answer
    BY <1>1, <1>5 DEF CommitRow, Request
  <2>2. /\ At(r, "auditing") /\ events' = events \cup {req[r].row}
        /\ UNCHANGED <<store, restarts, made>>
    BY <1>5 DEF CommitRow
  <2>3. \E e \in events' : e.req = r
    BY <1>3, <2>2
  <2> HIDE DEF new
  <2>4. QED
    BY <1>3, <2>1, <2>2, <2>3, RequestStep
<1>6. CASE CommitFails(r)
  <2> DEFINE new == [req[r] EXCEPT !.pc = "answered", !.answer = "error", !.shown = "none"]
  <2>1. /\ req' = [req EXCEPT ![r] = new] /\ new \in Request
        /\ new.pc = "answered" /\ new.answer = "error"
    BY <1>1, <1>6 DEF CommitFails, Answer, Request, Status
  <2>2. /\ At(r, "auditing") /\ UNCHANGED <<store, restarts, made>>
        /\ events' = events \/ events' = events \cup {req[r].row}
    BY <1>6 DEF CommitFails
  <2> HIDE DEF new
  <2>3. QED
    BY <2>1, <2>2, RequestStep
<1>7. CASE Respond(r)
  <2> DEFINE new == [req[r] EXCEPT !.pc = "answered", !.answer = "ok",
                                   !.shown = store[req[r].row.doc].status]
  <2>1. /\ At(r, "committed") /\ UNCHANGED <<store, events, restarts, made>>
    BY <1>7 DEF Respond
  <2>2. req[r].row \in Row
    BY <2>1 DEF IInv, TypeOK, At
  <2>3. store[req[r].row.doc].status \in Status
    BY <2>2 DEF IInv, TypeOK, Document, Row
  <2>4. /\ req' = [req EXCEPT ![r] = new] /\ new \in Request
        /\ new.pc = "answered" /\ new.answer = "ok"
    BY <1>1, <1>7, <2>3 DEF Respond, Answer, Request
  <2>5. \E e \in events : e.req = r
    BY <2>1 DEF IInv, RowsRecorded
  <2> HIDE DEF new
  <2>6. QED
    BY <2>1, <2>4, <2>5, RequestStep
<1>8. QED
  BY <1>4, <1>5, <1>6, <1>7 DEF Proceed

\* A restart leaves no decision standing and takes no row back.
LEMMA RestartPreserves ==
  ASSUME IInv, Restart PROVE IInv'
<1> DEFINE InFlight(q) == req[q].pc \in {"auditing", "committed"}
<1>1. /\ store' = Fresh /\ restarts' = restarts + 1 /\ restarts \in Nat
      /\ events' = events /\ made' = made
  BY DEF Restart, IInv, TypeOK
<1>2. req \in [Requests -> Request] /\ made \subseteq Decision
  BY DEF IInv, TypeOK
<1>3. \A q \in Requests :
        /\ InFlight(q) => req'[q] \in Request /\ req'[q].pc = "answered"
                          /\ req'[q].answer = "dropped"
        /\ ~InFlight(q) => req'[q] = req[q]
  <2> SUFFICES ASSUME NEW q \in Requests
               PROVE  /\ InFlight(q) => req'[q] \in Request /\ req'[q].pc = "answered"
                                         /\ req'[q].answer = "dropped"
                      /\ ~InFlight(q) => req'[q] = req[q]
    OBVIOUS
  <2>1. req'[q] = IF InFlight(q) THEN [req[q] EXCEPT !.pc = "answered", !.answer = "dropped"]
                  ELSE req[q]
    BY DEF Restart
  <2>2. req[q] \in Request
    BY <1>2
  <2> HIDE DEF InFlight
  <2>3. QED
    BY <2>1, <2>2 DEF Request
<1> HIDE DEF InFlight
<1> \A m \in made : m.req \in Requests /\ m.run \in Nat /\ m.run <= restarts
  BY <1>2 DEF IInv, DecidesOnce, Decision
<1>4. Current' = {}
  <2>1. \A m \in made : m.run # restarts + 1
    BY <1>1
  <2>2. QED
    BY <1>1, <2>1 DEF Current
<1>5. Fresh \in [Docs -> Document(Actors)]
  BY FreshTyped
<1>6. req' \in [Requests -> Request]
  <2>1. \A q \in Requests : req'[q] \in Request
    BY <1>2, <1>3
  <2>2. QED
    BY <2>1 DEF Restart
<1>7. TypeOK'
  <2>1. \A q \in Requests :
          /\ (req[q].pc \in {"auditing", "committed"} => req[q].row \in Row /\ req[q].row.req = q)'
          /\ (req[q].pc = "new" => req[q] = NewRequest)'
    BY <1>3 DEF IInv, TypeOK, InFlight
  <2>2. QED
    <3>1. store' \in [Docs -> Document(Actors)] /\ restarts' \in Nat
      BY <1>1, <1>5
    <3>2. events' \subseteq Row /\ made' \subseteq Decision
      BY <1>1, <1>2 DEF IInv, TypeOK
    <3>3. QED
      BY <1>6, <2>1, <3>1, <3>2 DEF TypeOK
<1>8. ChainShape' /\ LengthFixed'
  BY <1>1, FreshAssumption DEF ChainShape, LengthFixed
<1>9. DecisionsStand' /\ FinalDecisionIsLast'
  BY <1>1, <1>4 DEF IInv, DecisionsStand, FinalDecisionIsLast, Closes
<1>10. DecidesOnce'
  <2>1. ASSUME NEW m \in made
        PROVE  /\ m.run <= restarts' /\ req'[m.req].pc # "new"
               /\ req'[m.req].answer # "conflict"
               /\ \A n \in made : n.req = m.req => n = m
    BY <1>1, <1>3 DEF IInv, DecidesOnce, At
  <2>2. QED
    BY <1>1, <2>1 DEF DecidesOnce, At
<1>11. RowsDue' /\ RowsRecorded'
  BY <1>1, <1>3 DEF IInv, RowsDue, RowsRecorded, At, InFlight, RowOf, StatusAfter, Closes, Verdict
<1>12. RowsTellTheTruth'
  BY <1>1 DEF IInv, RowsTellTheTruth, StatusAfter, Closes, Verdict
<1>13. AnswersMatchTrail'
  BY <1>1, <1>3, <1>4 DEF IInv, AnswersMatchTrail, At
<1>14. QED
  BY <1>7, <1>8, <1>9, <1>10, <1>11, <1>12, <1>13 DEF IInv

\* Reading changes nothing.
LEMMA StutterPreserves ==
  ASSUME IInv, UNCHANGED vars PROVE IInv'
BY DEF IInv, TypeOK, ChainShape, LengthFixed, DecisionsStand, DecidesOnce, RowsDue,
       RowsRecorded, RowsTellTheTruth, FinalDecisionIsLast, AnswersMatchTrail, Current,
       At, RowOf, StatusAfter, Closes, Verdict, vars

\* IInv is inductive.
LEMMA NextPreserves == IInv /\ [Next]_vars => IInv'
BY DecidePreserves, ProceedPreserves, RestartPreserves, StutterPreserves DEF Next, Arrive

\* The inductive invariant holds of every state, whatever the documents SAP
\* delivers (as long as they are chains), the number of requests and restarts.
THEOREM Invariance == Spec => []IInv
BY InitIInv, NextPreserves, PTL DEF Spec

------------------------------------------------------------------------------
(* The safety properties *)

\* Every reachable state is well typed.
THEOREM TypeCorrect == Spec => []TypeOK
BY Invariance, PTL DEF IInv

\* Every document is at all times a chain whose status agrees with its steps.
THEOREM ChainsStayChains == Spec => []ChainShape
BY Invariance, PTL DEF IInv

\* No decision is ever overwritten by a concurrent one.
THEOREM NoDecisionLost == Spec => []DecisionsStand
BY Invariance, PTL DEF IInv

\* Every row states the status its own decision led to.
THEOREM TrailIsTrue == Spec => []RowsTellTheTruth
BY Invariance, PTL DEF IInv

\* Nothing is decided after the decision that closes a document.
THEOREM ClosingIsLast == Spec => []FinalDecisionIsLast
BY Invariance, PTL DEF IInv

\* A 200 has a row, a 409 has none, and only a 500 leaves that open.
THEOREM AnswersAreTrue == Spec => []AnswersMatchTrail
BY Invariance, PTL DEF IInv

\* Short of a restart, a closed document stays as it is.
THEOREM ClosedIsFinal == Spec => ClosedStaysClosed
<1>1. IInv /\ [Next]_vars => [KeepsClosed]_vars
  <2> SUFFICES ASSUME IInv, Next, NEW d \in Docs, ~RequirePending(store[d]),
                      restarts' = restarts
               PROVE  store'[d] = store[d]
    BY DEF KeepsClosed
  <2>1. CASE Restart
    <3>1. restarts' = restarts + 1
      BY <2>1 DEF Restart
    <3>2. restarts \in Nat
      BY DEF IInv, TypeOK
    <3>3. restarts + 1 # restarts
      BY <3>2
    <3>4. QED
      BY <3>1, <3>3
  <2>2. ASSUME NEW r \in Requests, NEW e \in Docs, NEW action \in Action, Decide(r, e, action)
        PROVE  store'[d] = store[d]
    <3>1. e # d /\ store' = [store EXCEPT ![e] = Decided(store[e], r, action)]
      BY <2>2 DEF Decide
    <3>2. QED
      BY <3>1 DEF IInv, TypeOK
  <2>3. ASSUME NEW r \in Requests, Proceed(r) \/ \E e \in Docs : Conflict(r, e)
        PROVE  store'[d] = store[d]
    BY <2>3 DEF Proceed, Conflict, CommitRow, CommitFails, Respond
  <2>4. QED
    BY <2>1, <2>2, <2>3 DEF Next, Arrive
<1>2. QED
  BY <1>1, Invariance, PTL DEF Spec, ClosedStaysClosed

------------------------------------------------------------------------------
(* What an answer shows *)

\* m's document stands as n, at or after m in the same run, left it.
LaterOf(n, m) == n.doc = m.doc /\ n.run = m.run /\ n.step >= m.step

\* A document that has been decided has the status of one of its decisions that
\* none of the others came after.
StatusIsLast ==
  \A m \in Current : \E n \in Current :
    LaterOf(n, m) /\ store[m.doc].status = StatusAfter(n)

\* A request between its decision and its answer has decided in this run, about
\* the document in its row.
CarriesOwn ==
  \A r \in Requests :
    At(r, "auditing") \/ At(r, "committed")
      => \E m \in Current : m.req = r /\ m.doc = req[r].row.doc

AInv == StatusIsLast /\ CarriesOwn /\ AnswersShowOwnOrLater

\* At first nothing has been decided or answered.
LEMMA InitAInv == Init => AInv
BY DEF Init, AInv, StatusIsLast, CarriesOwn, AnswersShowOwnOrLater, Current, At, NewRequest

\* What a decision adds: it comes after the others of its document and run and
\* leaves the status it says.
Takes(it, r, d) ==
  /\ it.req = r /\ it.doc = d /\ it.run = restarts /\ it.step \in Nat
  /\ made' = made \cup {it} /\ restarts' = restarts
  /\ \A m \in Current : m.doc = d => m.step <= it.step
  /\ store'[d].status = StatusAfter(it)
  /\ \A e \in Docs \ {d} : store'[e] = store[e]
  /\ req'[r].pc = "auditing" /\ req'[r].answer = "none" /\ req'[r].row.doc = d
  /\ \A q \in Requests \ {r} : req'[q] = req[q]

\* A decision is taken in that way.
LEMMA DecisionTakes ==
  ASSUME IInv, NEW r \in Requests, NEW d \in Docs, NEW action \in Action, Decide(r, d, action)
  PROVE  \E it \in Decision : Takes(it, r, d)
<1> DEFINE old == store[d]
           new == Decided(old, r, action)
           row == [req |-> r, doc |-> d, action |-> action, status |-> new.status]
           it  == [req |-> r, doc |-> d, action |-> action,
                   step |-> FirstPending(old), run |-> restarts]
<1>1. /\ At(r, "new") /\ RequirePending(old)
      /\ store' = [store EXCEPT ![d] = new]
      /\ req' = [req EXCEPT ![r].pc = "auditing", ![r].row = row]
      /\ made' = made \cup {it}
      /\ restarts' = restarts
  BY DEF Decide
<1>2. /\ old \in Document(Actors) /\ store \in [Docs -> Document(Actors)]
      /\ Len(old.steps) \in Nat /\ req \in [Requests -> Request] /\ restarts \in Nat
  BY LenProperties DEF IInv, TypeOK, Document
<1>3. PICK decided \in 0..Len(old.steps) : ChainOf(old, decided)
  BY DEF IInv, ChainShape, WellFormed
<1>4. FirstPending(old) = decided + 1
  BY <1>1, <1>2, <1>3, FirstPendingIsNext
<1>5. IInv'
  BY DecidePreserves
<1>6. /\ it.req = r /\ it.doc = d /\ it.run = restarts /\ it.step = decided + 1
      /\ it \in Decision /\ row.doc = d /\ row.status = new.status
  BY <1>2, <1>3, <1>4 DEF Decision
<1> HIDE DEF new, it
<1>7. /\ store'[d] = new
      /\ \A e \in Docs \ {d} : store'[e] = store[e]
  BY <1>1, <1>2
<1>8. /\ req'[r].pc = "auditing" /\ req'[r].row = row /\ req'[r].answer = req[r].answer
      /\ \A q \in Requests \ {r} : req'[q] = req[q]
  <2> HIDE DEF row
  <2> DEFINE begun == [req[r] EXCEPT !.pc = "auditing"]
  <2>1. begun \in Request /\ begun.pc = "auditing" /\ begun.answer = req[r].answer
    BY <1>2 DEF Request
  <2>2. req'[r] = [begun EXCEPT !.row = row] /\ \A q \in Requests \ {r} : req'[q] = req[q]
    BY <1>1, <1>2
  <2> HIDE DEF begun
  <2>3. QED
    BY <2>1, <2>2 DEF Request
<1>9. req[r].answer = "none"
  BY <1>1 DEF IInv, TypeOK, At, NewRequest
<1>10. new.status = StatusAfter(it)
  <2>1. PICK m \in made' : m.req = r /\ req'[r].row = RowOf(m)
    BY <1>5, <1>8 DEF IInv, RowsDue, At, RowOf, StatusAfter, Closes, Verdict
  <2>2. it \in made' /\ m = it
    BY <1>1, <1>5, <1>6, <2>1 DEF IInv, DecidesOnce
  <2>3. row.status = StatusAfter(it)
    BY <1>8, <2>1, <2>2 DEF RowOf
  <2>4. QED
    BY <1>6, <2>3
<1>11. ASSUME NEW m \in Current, m.doc = d PROVE m.step <= it.step
  <2>1. m.step \in 1..decided
    BY <1>1, <1>3, <1>11, OpenDocument
  <2>2. QED
    BY <1>6, <2>1
<1> HIDE DEF row
<1>12. it.step \in Nat
  BY <1>6 DEF Decision
<1>13. row.doc = d
  BY <1>6
<1>14. Takes(it, r, d)
  BY <1>1, <1>6, <1>7, <1>8, <1>9, <1>10, <1>11, <1>12, <1>13 DEF Takes
<1>15. QED
  BY <1>6, <1>14

\* A decision becomes the last one of its document.
LEMMA DecideShows ==
  ASSUME IInv, AInv, NEW r \in Requests, NEW d \in Docs, NEW it \in Decision, Takes(it, r, d)
  PROVE  AInv'
<1>1. /\ it.req = r /\ it.doc = d /\ it.run = restarts /\ it.step \in Nat
      /\ made' = made \cup {it} /\ restarts' = restarts
  BY DEF Takes
<1>2. Current' = Current \cup {it}
  BY <1>1 DEF Current
<1>3. \A m \in made : m.doc \in Docs /\ m.step \in Nat
  BY DEF IInv, TypeOK, Decision
<1>4. StatusIsLast'
  <2>1. ASSUME NEW m \in Current'
        PROVE  \E n \in Current' : LaterOf(n, m) /\ store'[m.doc].status = StatusAfter(n)
    <3>1. CASE m.doc = d
      <4>1. m.run = restarts /\ it.step >= m.step
        BY <1>1, <1>2, <1>3, <3>1 DEF Takes, Current
      <4>2. LaterOf(it, m)
        BY <1>1, <3>1, <4>1 DEF LaterOf
      <4>3. QED
        BY <1>2, <3>1, <4>2 DEF Takes
    <3>2. CASE m.doc # d
      <4>1. m \in Current /\ m.doc \in Docs \ {d}
        BY <1>1, <1>2, <1>3, <3>2 DEF Current
      <4>2. PICK n \in Current : LaterOf(n, m) /\ store[m.doc].status = StatusAfter(n)
        BY <4>1 DEF AInv, StatusIsLast
      <4>3. store'[m.doc] = store[m.doc]
        BY <4>1 DEF Takes
      <4>4. QED
        BY <1>2, <4>2, <4>3
    <3>3. QED
      BY <3>1, <3>2
  <2>2. QED
    BY <2>1 DEF StatusIsLast, LaterOf, StatusAfter, Closes, Verdict
<1>5. CarriesOwn'
  <2>1. ASSUME NEW q \in Requests, req'[q].pc \in {"auditing", "committed"}
        PROVE  \E m \in Current' : m.req = q /\ m.doc = req'[q].row.doc
    <3>1. CASE q = r
      BY <1>1, <1>2, <3>1 DEF Takes
    <3>2. CASE q # r
      BY <1>2, <2>1, <3>2 DEF Takes, AInv, CarriesOwn, At
    <3>3. QED
      BY <3>1, <3>2
  <2>2. QED
    BY <2>1 DEF CarriesOwn, At
<1>6. AnswersShowOwnOrLater'
  <2>1. \A q \in Requests : req'[q].answer = "ok" => req'[q] = req[q]
    BY DEF Takes
  <2>2. QED
    BY <1>1, <2>1 DEF AInv, AnswersShowOwnOrLater, StatusAfter, Closes, Verdict
<1>7. QED
  BY <1>4, <1>5, <1>6 DEF AInv

\* The answers of the others stay true as long as no decision is taken back.
LEMMA RequestShows ==
  ASSUME IInv, AInv, NEW r \in Requests, UNCHANGED <<store, made, restarts>>,
         NEW new, new \in Request, req' = [req EXCEPT ![r] = new],
         new.pc \in {"committed", "answered"},
         new.pc = "committed" => At(r, "auditing") /\ new.row = req[r].row,
         new.answer = "ok" => \/ new.pc = "committed" /\ req[r].answer = "ok"
                              \/ At(r, "committed")
                                 /\ new.shown = store[req[r].row.doc].status
  PROVE  AInv'
<1>1. req'[r] = new /\ \A q \in Requests \ {r} : req'[q] = req[q]
  BY DEF IInv, TypeOK
<1>2. Current' = Current
  BY DEF Current
<1>3. StatusIsLast'
  BY <1>2 DEF AInv, StatusIsLast, LaterOf, StatusAfter, Closes, Verdict
<1>4. CarriesOwn'
  BY <1>1, <1>2 DEF AInv, CarriesOwn, At
<1>5. ASSUME NEW q \in Requests, req'[q].answer = "ok"
      PROVE  \E m, n \in made : m.req = q /\ LaterOf(n, m) /\ req'[q].shown = StatusAfter(n)
  <2>1. CASE q # r
    BY <1>1, <1>5, <2>1 DEF AInv, AnswersShowOwnOrLater, LaterOf
  <2>2. CASE q = r
    <3>1. new.pc # "committed"
      BY <1>1, <1>5, <2>2 DEF IInv, RowsRecorded, At
    <3>2. At(r, "committed") /\ new.shown = store[req[r].row.doc].status
      BY <1>1, <1>5, <2>2, <3>1
    <3>3. PICK m \in Current : m.req = r /\ m.doc = req[r].row.doc
      BY <3>2 DEF AInv, CarriesOwn
    <3>4. PICK n \in Current : LaterOf(n, m) /\ store[m.doc].status = StatusAfter(n)
      BY <3>3 DEF AInv, StatusIsLast
    <3>5. QED
      BY <1>1, <2>2, <3>2, <3>3, <3>4 DEF Current
  <2>3. QED
    BY <2>1, <2>2
<1>6. AnswersShowOwnOrLater'
  BY <1>5 DEF AnswersShowOwnOrLater, LaterOf, StatusAfter, Closes, Verdict
<1>7. QED
  BY <1>3, <1>4, <1>6 DEF AInv

\* Commits, failures and answers preserve what answers show.
LEMMA ProceedShows ==
  ASSUME IInv, AInv, NEW r \in Requests, Proceed(r) \/ \E d \in Docs : Conflict(r, d)
  PROVE  AInv'
<1>1. req[r] \in Request /\ (At(r, "auditing") => req[r].answer = "none")
  BY DEF IInv, TypeOK, RowsRecorded
<1>2. ASSUME NEW d \in Docs, Conflict(r, d) PROVE AInv'
  <2> DEFINE new == [req[r] EXCEPT !.pc = "answered", !.answer = "conflict",
                                   !.shown = store[d].status]
  <2>1. store[d].status \in Status
    BY DEF IInv, TypeOK, Document
  <2>2. /\ req' = [req EXCEPT ![r] = new] /\ new \in Request
        /\ new.pc = "answered" /\ new.answer = "conflict"
    BY <1>1, <1>2, <2>1 DEF Conflict, Answer, Request
  <2>3. UNCHANGED <<store, made, restarts>>
    BY <1>2 DEF Conflict
  <2> HIDE DEF new
  <2>4. QED
    BY <2>2, <2>3, RequestShows
<1>3. CASE CommitRow(r)
  <2> DEFINE new == [req[r] EXCEPT !.pc = "committed"]
  <2>1. /\ req' = [req EXCEPT ![r] = new] /\ new \in Request
        /\ new.pc = "committed" /\ new.row = req[r].row /\ new.answer = req[r].answer
    BY <1>1, <1>3 DEF CommitRow, Request
  <2>2. At(r, "auditing") /\ UNCHANGED <<store, made, restarts>>
    BY <1>3 DEF CommitRow
  <2> HIDE DEF new
  <2>3. QED
    BY <1>1, <2>1, <2>2, RequestShows
<1>4. CASE CommitFails(r)
  <2> DEFINE new == [req[r] EXCEPT !.pc = "answered", !.answer = "error", !.shown = "none"]
  <2>1. /\ req' = [req EXCEPT ![r] = new] /\ new \in Request
        /\ new.pc = "answered" /\ new.answer = "error"
    BY <1>1, <1>4 DEF CommitFails, Answer, Request, Status
  <2>2. UNCHANGED <<store, made, restarts>>
    BY <1>4 DEF CommitFails
  <2> HIDE DEF new
  <2>3. QED
    BY <2>1, <2>2, RequestShows
<1>5. CASE Respond(r)
  <2> DEFINE new == [req[r] EXCEPT !.pc = "answered", !.answer = "ok",
                                   !.shown = store[req[r].row.doc].status]
  <2>1. At(r, "committed") /\ UNCHANGED <<store, made, restarts>>
    BY <1>5 DEF Respond
  <2>2. store[req[r].row.doc].status \in Status
    BY <2>1 DEF IInv, TypeOK, Document, Row, At
  <2>3. /\ req' = [req EXCEPT ![r] = new] /\ new \in Request
        /\ new.pc = "answered" /\ new.shown = store[req[r].row.doc].status
    BY <1>1, <1>5, <2>2 DEF Respond, Answer, Request
  <2> HIDE DEF new
  <2>4. QED
    BY <2>1, <2>3, RequestShows
<1>6. QED
  BY <1>2, <1>3, <1>4, <1>5 DEF Proceed

\* A restart preserves it: nothing of the old process is current.
LEMMA RestartShows ==
  ASSUME IInv, AInv, Restart PROVE AInv'
<1>1. restarts' = restarts + 1 /\ made' = made
  BY DEF Restart
<1>2. \A m \in made : m.run \in Nat /\ m.run <= restarts
  BY DEF IInv, TypeOK, DecidesOnce, Decision
<1>3. Current' = {}
  <2>1. \A m \in made : m.run # restarts + 1
    BY <1>2 DEF IInv, TypeOK
  <2>2. QED
    BY <1>1, <2>1 DEF Current
<1>4. ASSUME NEW q \in Requests
      PROVE  /\ req'[q].pc \notin {"auditing", "committed"}
             /\ req'[q].answer = "ok" => req'[q] = req[q]
  <2>1. req'[q] = IF req[q].pc \in {"auditing", "committed"}
                  THEN [req[q] EXCEPT !.pc = "answered", !.answer = "dropped"] ELSE req[q]
    BY DEF Restart
  <2>2. req[q] \in Request
    BY DEF IInv, TypeOK
  <2>3. QED
    BY <2>1, <2>2 DEF Request
<1>5. AnswersShowOwnOrLater'
  BY <1>1, <1>4 DEF AInv, AnswersShowOwnOrLater, StatusAfter, Closes, Verdict
<1>6. QED
  BY <1>3, <1>4, <1>5 DEF AInv, StatusIsLast, CarriesOwn, At

\* Every step preserves it.
LEMMA NextShows == IInv /\ AInv /\ [Next]_vars => AInv'
<1>1. ASSUME IInv, AInv, UNCHANGED vars PROVE AInv'
  BY <1>1 DEF AInv, StatusIsLast, CarriesOwn, AnswersShowOwnOrLater, LaterOf, Current, At,
              StatusAfter, Closes, Verdict, vars
<1>2. QED
  BY <1>1, DecisionTakes, DecideShows, ProceedShows, RestartShows DEF Next, Arrive

\* A 200 never shows the document as it was before the decision it reports.
THEOREM AnswersAreNotStale == Spec => []AnswersShowOwnOrLater
<1>1. Spec => []AInv
  BY Invariance, InitAInv, NextShows, PTL DEF Spec
<1>2. QED
  BY <1>1, PTL DEF AInv

------------------------------------------------------------------------------
(* DocumentDecisions implements AuditedChains *)

\* A decision uses up one open step and promises its row.
LEMMA DecideIsDecide ==
  ASSUME IInv, NEW r \in Requests, NEW d \in Docs, NEW action \in Action, Decide(r, d, action)
  PROVE  Audited!Next
<1> DEFINE old == store[d]
           new == Decided(old, r, action)
           verdict == IF action = "reject" THEN "rejected" ELSE "authorized"
           row == [req |-> r, doc |-> d, action |-> action, status |-> new.status]
<1>1. /\ At(r, "new") /\ RequirePending(old)
      /\ store' = [store EXCEPT ![d] = new]
      /\ req' = [req EXCEPT ![r].pc = "auditing", ![r].row = row]
      /\ events' = events
  BY DEF Decide
<1>2. /\ store \in [Docs -> Document(Actors)] /\ old \in Document(Actors) /\ r \in Actors
      /\ Len(old.steps) \in Nat /\ req \in [Requests -> Request]
  BY LenProperties DEF IInv, TypeOK, Document, Actors
<1>3. PICK decided \in 0..Len(old.steps) : ChainOf(old, decided)
  BY DEF IInv, ChainShape, WellFormed
<1>4. Advances(Actors, old, decided, r, verdict, new)
  <2>1. \/ verdict = "authorized" /\ new = AuthorizeDocument(old, r)
        \/ verdict = "rejected" /\ new = RejectDocument(old, r)
    BY DEF Decided, Action
  <2> HIDE DEF verdict, new
  <2>2. QED
    BY <1>1, <1>2, <1>3, <2>1, DecisionAdvancesChain
<1>5. OpenSteps(old) = (decided + 1)..Len(old.steps)
  BY <1>1, <1>2, <1>3, FirstPendingIsNext
<1>6. verdict = IF action = "reject" THEN "rejected" ELSE "authorized"
  OBVIOUS
<1> HIDE DEF verdict, new
<1>7. /\ decided + 1 \in OpenSteps(old) /\ OpenSteps(new) = OpenSteps(old) \ {decided + 1}
      /\ new.status = IF action = "reject" THEN "rejected"
                      ELSE IF OpenSteps(new) = {} THEN "authorized" ELSE "partial"
  <2>1. decided + 1 \in OpenSteps(old) /\ OpenSteps(new) = OpenSteps(old) \ {decided + 1}
    BY <1>2, <1>4, <1>5 DEF Advances
  <2>2. OpenSteps(new) = {} <=> decided + 1 = Len(old.steps)
    BY <1>2, <1>4, <1>5, <2>1 DEF Advances
  <2>3. new.status = IF verdict = "rejected" \/ decided + 1 = Len(old.steps)
                     THEN verdict ELSE "partial"
    BY <1>4 DEF Advances
  <2>4. QED
    BY <1>6, <2>1, <2>2, <2>3
<1>8. Open(store)' = [Open(store) EXCEPT ![d] = [status |-> new.status, open |-> OpenSteps(new)]]
  <2>1. store'[d] = new /\ \A e \in Docs \ {d} : store'[e] = store[e]
    BY <1>1, <1>2
  <2>2. QED
    BY <2>1 DEF Open
<1>9. Promised' = Promised \cup {row}
  <2> DEFINE begun == [req[r] EXCEPT !.pc = "auditing"]
  <2>1. begun \in Request /\ begun.pc = "auditing"
    BY <1>2 DEF Request
  <2>2. req'[r] = [begun EXCEPT !.row = row] /\ \A q \in Requests \ {r} : req'[q] = req[q]
    BY <1>1, <1>2
  <2> HIDE DEF begun, row
  <2>3. req'[r].pc = "auditing" /\ req'[r].row = row
    BY <2>1, <2>2 DEF Request
  <2>4. ASSUME NEW x PROVE x \in Promised' <=> x \in Promised \/ x = row
    <3>1. x \in Promised' <=> \E q \in Requests : req'[q].pc = "auditing" /\ req'[q].row = x
      BY DEF Promised, At
    <3>2. x \in Promised <=> \E q \in Requests : req[q].pc = "auditing" /\ req[q].row = x
      BY DEF Promised, At
    <3>3. req[r].pc # "auditing"
      BY <1>1 DEF At
    <3>4. QED
      BY <2>2, <2>3, <3>1, <3>2, <3>3
  <2>5. QED
    BY <2>4
<1>10. new.status \in {"partial", "authorized", "rejected"}
  BY <1>7
<1>11. Audited!Decide(d, r, action, new.status)
  <2>1. /\ Open(store)[d].status \in {"none", "partial"}
        /\ Open(store)[d].open = OpenSteps(old)
    BY <1>1 DEF Open, RequirePending, PENDING_STATUSES
  <2>2. QED
    BY <1>1, <1>7, <1>8, <1>9, <2>1 DEF Audited!Decide
<1>12. QED
  BY <1>10, <1>11 DEF Audited!Next, Action

\* A request that is not committing a row neither makes nor keeps a promise.
LEMMA OtherPromises ==
  ASSUME IInv, NEW r \in Requests, req'[r].pc # "auditing",
         \A q \in Requests \ {r} : req'[q] = req[q]
  PROVE  /\ ~At(r, "auditing") => Promised' = Promised
         /\ At(r, "auditing") => /\ req[r].row \in Promised
                                 /\ Promised' = Promised \ {req[r].row}
<1>1. \A q \in Requests : At(q, "auditing") => req[q].row.req = q
  BY DEF IInv, TypeOK, At
<1>2. ASSUME NEW x
      PROVE  x \in Promised' <=> \E q \in Requests \ {r} : At(q, "auditing") /\ req[q].row = x
  <2>1. x \in Promised' <=> \E q \in Requests : req'[q].pc = "auditing" /\ req'[q].row = x
    BY DEF Promised, At
  <2>2. QED
    BY <2>1 DEF At
<1>3. ASSUME NEW x
      PROVE  x \in Promised <=> \E q \in Requests : At(q, "auditing") /\ req[q].row = x
  BY DEF Promised
<1>4. ASSUME ~At(r, "auditing") PROVE Promised' = Promised
  <2>1. ASSUME NEW x PROVE x \in Promised' <=> x \in Promised
    BY <1>2, <1>3, <1>4
  <2>2. QED
    BY <2>1
<1>5. ASSUME At(r, "auditing") PROVE Promised' = Promised \ {req[r].row}
  <2>1. ASSUME NEW x PROVE x \in Promised' <=> x \in Promised /\ x # req[r].row
    BY <1>1, <1>2, <1>3, <1>5
  <2>2. QED
    BY <2>1
<1>6. QED
  BY <1>3, <1>4, <1>5

\* Every step of the endpoints is a step of the abstraction, or invisible to it.
LEMMA AuditedStep ==
  ASSUME IInv, Next PROVE Audited!Next \/ UNCHANGED Audited!audited
<1>1. req \in [Requests -> Request]
  BY DEF IInv, TypeOK
<1>2. ASSUME NEW r \in Requests, \E d \in Docs : Conflict(r, d)
      PROVE  UNCHANGED Audited!audited
  <2>1. PICK d \in Docs : Conflict(r, d)
    BY <1>2
  <2>2. ~At(r, "auditing") /\ UNCHANGED <<store, events>>
    BY <2>1 DEF Conflict, At
  <2>3. req'[r].pc = "answered" /\ \A q \in Requests \ {r} : req'[q] = req[q]
    BY <1>1, <2>1 DEF Conflict, Answer, Request
  <2>4. QED
    BY <2>2, <2>3, OtherPromises DEF Audited!audited, Open
<1>3. ASSUME NEW r \in Requests, Respond(r) PROVE UNCHANGED Audited!audited
  <2>1. ~At(r, "auditing") /\ UNCHANGED <<store, events>>
    BY <1>3 DEF Respond, At
  <2>2. req'[r].pc = "answered" /\ \A q \in Requests \ {r} : req'[q] = req[q]
    BY <1>1, <1>3 DEF Respond, Answer, Request
  <2>3. QED
    BY <2>1, <2>2, OtherPromises DEF Audited!audited, Open
<1>4. ASSUME NEW r \in Requests, CommitRow(r) \/ CommitFails(r) PROVE Audited!Next
  <2>1. /\ At(r, "auditing") /\ UNCHANGED store
        /\ events' = events \/ events' = events \cup {req[r].row}
    BY <1>4 DEF CommitRow, CommitFails
  <2>2. req'[r].pc # "auditing" /\ \A q \in Requests \ {r} : req'[q] = req[q]
    BY <1>1, <1>4 DEF CommitRow, CommitFails, Answer, Request
  <2>3. req[r].row \in Promised /\ Promised' = Promised \ {req[r].row}
    BY <2>1, <2>2, OtherPromises
  <2>4. Audited!Record(req[r].row) \/ Audited!Forget(req[r].row)
    BY <2>1, <2>3 DEF Audited!Record, Audited!Forget, Open
  <2>5. QED
    BY <2>3, <2>4 DEF Audited!Next
<1>5. CASE Restart
  <2>1. store' = Fresh /\ events' = events
    BY <1>5 DEF Restart
  <2>2. ASSUME NEW q \in Requests PROVE req'[q].pc # "auditing"
    <3>1. req'[q] = IF req[q].pc \in {"auditing", "committed"}
                    THEN [req[q] EXCEPT !.pc = "answered", !.answer = "dropped"] ELSE req[q]
      BY <1>5 DEF Restart
    <3>2. req[q] \in Request
      BY <1>1
    <3>3. QED
      BY <3>1, <3>2 DEF Request
  <2>3. Promised' = {}
    BY <2>2 DEF Promised, At
  <2>4. Audited!Restart
    BY <2>1, <2>3 DEF Audited!Restart, Open
  <2>5. QED
    BY <2>4 DEF Audited!Next
<1>6. QED
  BY <1>2, <1>3, <1>4, <1>5, DecideIsDecide DEF Next, Arrive, Proceed

\* The endpoints implement the abstraction: however requests interleave, fail
\* or are cut off, documents are decided one indivisible decision at a time
\* and each is recorded at most once.
THEOREM ImplementsAuditedChains == Spec => AuditedSpec
<1>1. Init => Audited!Init
  BY DEF Init, Audited!Init, Promised, At, NewRequest
<1>2. IInv /\ [Next]_vars => [Audited!Next]_(Audited!audited)
  <2>1. ASSUME UNCHANGED vars PROVE UNCHANGED Audited!audited
    BY <2>1 DEF vars, Audited!audited, Open, Promised, At
  <2>2. QED
    BY <2>1, AuditedStep
<1>3. QED
  BY <1>1, <1>2, Invariance, PTL DEF Spec, AuditedSpec, Audited!Spec

------------------------------------------------------------------------------
(* What a request still has before it *)

Left(k) ==
  IF k.pc = "new" THEN 3 ELSE IF k.pc = "auditing" THEN 2 ELSE IF k.pc = "committed" THEN 1 ELSE 0

\* No step takes a request back, neither another's nor a restart: a decision is
\* answered once, at most three steps after it began, and its row is committed
\* at most once.
THEOREM RequestsOnlyAdvance ==
  Spec => [][\A r \in Requests : req'[r] # req[r] => Left(req'[r]) < Left(req[r])]_vars
<1>1. ASSUME IInv, Next, NEW r \in Requests, req'[r] # req[r]
      PROVE  Left(req'[r]) < Left(req[r])
  <2>1. req \in [Requests -> Request]
    BY <1>1 DEF IInv, TypeOK
  <2>2. ASSUME NEW q \in Requests, Arrive(q) \/ Proceed(q)
        PROVE  /\ q = r
               /\ \/ req[q].pc = "new" /\ req'[q].pc \in {"auditing", "answered"}
                  \/ req[q].pc = "auditing" /\ req'[q].pc \in {"committed", "answered"}
                  \/ req[q].pc = "committed" /\ req'[q].pc = "answered"
    BY <1>1, <2>1, <2>2 DEF Arrive, Proceed, Decide, Conflict, CommitRow, CommitFails, Respond,
                            Answer, At, Request
  <2>3. CASE Restart
    <3>1. req[r].pc \in {"auditing", "committed"} /\ req'[r].pc = "answered"
      BY <1>1, <2>1, <2>3 DEF Restart, Request
    <3>2. QED
      BY <3>1 DEF Left
  <2>4. QED
    BY <1>1, <2>2, <2>3 DEF Next, Left
<1>2. IInv /\ [Next]_vars =>
        [\A r \in Requests : req'[r] # req[r] => Left(req'[r]) < Left(req[r])]_vars
  BY <1>1
<1>3. QED
  BY <1>2, Invariance, PTL DEF Spec
==============================================================================
