------------------------- MODULE DocumentChain_proof -------------------------
(***************************************************************************)
(* What authorizing and rejecting do to a well-formed document.            *)
(***************************************************************************)
EXTENDS DocumentChain, SequenceTheorems, TLAPS

\* The first pending step of a chain comes right after the decided ones.
LEMMA FirstPendingIsNext ==
  ASSUME NEW Actors, NEW doc \in Document(Actors),
         NEW decided \in 0..Len(doc.steps), ChainOf(doc, decided), RequirePending(doc)
  PROVE  /\ decided < Len(doc.steps)
         /\ OpenSteps(doc) = (decided + 1)..Len(doc.steps)
         /\ FirstPending(doc) = decided + 1
<1>1. Len(doc.steps) \in Nat
  BY LenProperties DEF Document
<1>2. decided < Len(doc.steps) /\ OpenSteps(doc) = (decided + 1)..Len(doc.steps)
  BY <1>1 DEF ChainOf, RequirePending, PENDING_STATUSES
<1>3. /\ decided + 1 \in OpenSteps(doc)
      /\ \A i \in OpenSteps(doc) : decided + 1 <= i
  BY <1>1, <1>2
<1>4. \A i \in OpenSteps(doc) : (\A j \in OpenSteps(doc) : i <= j) => i = decided + 1
  BY <1>1, <1>2, <1>3
<1>5. QED
  BY <1>2, <1>3, <1>4 DEF FirstPending

\* `new` is doc with the step after the decided ones written and nothing else.
FillsNext(Actors, doc, decided, actor, verdict, new) ==
  /\ new \in Document(Actors)
  /\ Len(new.steps) = Len(doc.steps)
  /\ \A j \in 1..Len(doc.steps) :
       new.steps[j] = IF j = decided + 1 THEN [status |-> verdict, by |-> actor]
                      ELSE doc.steps[j]
  /\ OpenSteps(new) = (decided + 2)..Len(doc.steps)

\* Filling the first pending step of a chain does that.
LEMMA FillWritesNext ==
  ASSUME NEW Actors, NEW doc \in Document(Actors), NEW actor \in Actors,
         NEW verdict \in {"authorized", "rejected"},
         NEW decided \in 0..Len(doc.steps), ChainOf(doc, decided), RequirePending(doc),
         NEW filled, filled = FillNextPendingStep(doc, actor, verdict)
  PROVE  FillsNext(Actors, doc, decided, actor, verdict, filled)
<1> DEFINE step   == [status |-> verdict, by |-> actor]
           steps  == [doc.steps EXCEPT ![decided + 1] = step]
<1>1. /\ decided < Len(doc.steps) /\ Len(doc.steps) \in Nat
      /\ OpenSteps(doc) = (decided + 1)..Len(doc.steps)
      /\ FirstPending(doc) = decided + 1
      /\ decided + 1 \in 1..Len(doc.steps)
  BY FirstPendingIsNext, LenProperties DEF Document
<1>2. doc.steps \in Seq(Step(Actors)) /\ step \in Step(Actors) /\ doc.status \in Status
  BY DEF Document, Step, Status
<1>3. /\ steps \in Seq(Step(Actors)) /\ Len(steps) = Len(doc.steps)
      /\ \A j \in 1..Len(doc.steps) : steps[j] = IF j = decided + 1 THEN step ELSE doc.steps[j]
  <2> HIDE DEF step
  <2>1. QED
    BY <1>1, <1>2, ExceptSeq
<1>4. filled = [doc EXCEPT !.steps = steps]
  <2>1. OpenSteps(doc) # {}
    BY <1>1
  <2>2. QED
    BY <1>1, <2>1 DEF FillNextPendingStep
<1>5. filled = [status |-> doc.status, steps |-> steps]
  BY <1>2, <1>4 DEF Document
<1>6. filled \in Document(Actors)
  <2> HIDE DEF steps
  <2>1. QED
    BY <1>2, <1>3, <1>5 DEF Document
<1>7. DOMAIN filled.steps = 1..Len(doc.steps) /\ DOMAIN doc.steps = 1..Len(doc.steps)
  <2> HIDE DEF steps
  <2>1. filled.steps = steps
    BY <1>5
  <2>2. QED
    BY <1>2, <1>3, <2>1, LenProperties
<1>8. OpenSteps(filled) = (decided + 2)..Len(doc.steps)
  <2> HIDE DEF steps
  <2>1. \A j \in 1..Len(doc.steps) :
          filled.steps[j] = IF j = decided + 1 THEN step ELSE doc.steps[j]
    BY <1>3, <1>5
  <2>2. step.status # "none"
    OBVIOUS
  <2>3. \A j \in 1..Len(doc.steps) : doc.steps[j].status = "none" <=> j > decided
    BY <1>1, <1>7 DEF OpenSteps
  <2>4. \A j \in 1..Len(doc.steps) : filled.steps[j].status = "none" <=> j > decided + 1
    <3> HIDE DEF step
    <3>1. QED
      BY <2>1, <2>2, <2>3
  <2>5. QED
    BY <1>1, <1>7, <2>4 DEF OpenSteps
<1>9. QED
  BY <1>3, <1>5, <1>6, <1>8 DEF FillsNext

\* `new` is doc after a decision: closed when that was the last step or a
\* rejection, open and partial otherwise.
Advances(Actors, doc, decided, actor, verdict, new) ==
  /\ FirstPending(doc) = decided + 1
  /\ decided + 1 \in 1..Len(doc.steps)
  /\ FillsNext(Actors, doc, decided, actor, verdict, new)
  /\ new.status = IF verdict = "rejected" \/ decided + 1 = Len(doc.steps)
                  THEN verdict ELSE "partial"
  /\ OpenSteps(new) = OpenSteps(doc) \ {decided + 1}
  /\ ChainOf(new, decided + 1)

\* A decision on a chain decides its next step and leaves a chain.
THEOREM DecisionAdvancesChain ==
  ASSUME NEW Actors, NEW doc \in Document(Actors), NEW actor \in Actors,
         NEW decided \in 0..Len(doc.steps), ChainOf(doc, decided), RequirePending(doc),
         NEW verdict, NEW new,
         \/ verdict = "authorized" /\ new = AuthorizeDocument(doc, actor)
         \/ verdict = "rejected" /\ new = RejectDocument(doc, actor)
  PROVE  Advances(Actors, doc, decided, actor, verdict, new)
<1> DEFINE filled == FillNextPendingStep(doc, actor, verdict)
           status == IF verdict = "rejected" \/ decided + 1 = Len(doc.steps)
                     THEN verdict ELSE "partial"
<1>1. /\ decided < Len(doc.steps) /\ Len(doc.steps) \in Nat
      /\ OpenSteps(doc) = (decided + 1)..Len(doc.steps)
      /\ FirstPending(doc) = decided + 1
      /\ decided + 1 \in 1..Len(doc.steps)
  BY FirstPendingIsNext, LenProperties DEF Document
<1>2. FillsNext(Actors, doc, decided, actor, verdict, filled)
  <2>1. verdict \in {"authorized", "rejected"}
    OBVIOUS
  <2>2. QED
    BY <2>1, FillWritesNext
<1> HIDE DEF filled
<1>3. new = [filled EXCEPT !.status = status]
  <2>1. OpenSteps(filled) = {} <=> decided + 1 = Len(doc.steps)
    BY <1>1, <1>2 DEF FillsNext
  <2>2. CASE verdict = "authorized" /\ new = AuthorizeDocument(doc, actor)
    BY <2>1, <2>2 DEF AuthorizeDocument, filled
  <2>3. CASE verdict = "rejected" /\ new = RejectDocument(doc, actor)
    BY <2>3 DEF RejectDocument, filled
  <2>4. QED
    BY <2>2, <2>3
<1>4. new.status = status /\ new.steps = filled.steps /\ new \in Document(Actors)
  BY <1>2, <1>3 DEF FillsNext, Document, Status
<1>5. OpenSteps(new) = OpenSteps(filled)
  BY <1>4 DEF OpenSteps
<1>6. ChainOf(new, decided + 1)
  <2>1. \A i \in 1..decided : doc.steps[i].status = "authorized"
    BY <1>1 DEF ChainOf, RequirePending, PENDING_STATUSES
  <2>2. \A i \in 1..(decided + 1) :
          new.steps[i].status = IF i = decided + 1 THEN verdict ELSE "authorized"
    BY <1>1, <1>2, <1>4, <2>1 DEF FillsNext
  <2>3. OpenSteps(new) = ((decided + 1) + 1)..Len(new.steps)
    BY <1>1, <1>2, <1>4, <1>5 DEF FillsNext
  <2>4. verdict \in {"authorized", "rejected"}
    OBVIOUS
  <2>5. QED
    BY <1>1, <1>2, <1>4, <2>2, <2>3, <2>4 DEF ChainOf, FillsNext
<1>7. QED
  <2>1. FillsNext(Actors, doc, decided, actor, verdict, new)
    BY <1>2, <1>4, <1>5 DEF FillsNext
  <2>2. OpenSteps(new) = OpenSteps(doc) \ {decided + 1}
    BY <1>1, <1>2, <1>5 DEF FillsNext
  <2>3. QED
    BY <1>1, <1>4, <1>6, <2>1, <2>2 DEF Advances
==============================================================================
