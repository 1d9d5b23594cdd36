---------------------------- MODULE DocumentChain ----------------------------
(***************************************************************************)
(* One document and its authorization chain: the pure part of              *)
(* app/services/documents.py over the models of app/schemas/documents.py.  *)
(*                                                                         *)
(* The four document types differ in the data they carry and not in how    *)
(* they are decided.  Of a step only its status and who filled it are kept *)
(* (user_id, user_name, date and comment are all written together).        *)
(***************************************************************************)
EXTENDS Naturals, Sequences

\* AuthorizationStatus
Status == {"none", "partial", "authorized", "rejected", "received"}

PENDING_STATUSES == {"none", "partial"}

Step(Actors) == [status : Status, by : Actors]

Document(Actors) == [status : Status, steps : Seq(Step(Actors))]

------------------------------------------------------------------------------

OpenSteps(doc) == {i \in DOMAIN doc.steps : doc.steps[i].status = "none"}

FirstPending_IgnoresStatus(doc) == 1
FirstPending(doc) ==
  CHOOSE i \in OpenSteps(doc) : \A j \in OpenSteps(doc) : i <= j

\* A document without an open step is returned as it is.
FillNextPendingStep(doc, actor, status) ==
  IF OpenSteps(doc) = {} THEN doc
  ELSE [doc EXCEPT !.steps[FirstPending(doc)] = [status |-> status, by |-> actor]]

RequirePending(doc) == doc.status \in PENDING_STATUSES

AuthorizeDocument_ForgetsChain(doc, actor) ==
  [FillNextPendingStep(doc, actor, "authorized") EXCEPT !.status = "authorized"]

AuthorizeDocument(doc, actor) ==
  LET filled == FillNextPendingStep(doc, actor, "authorized")
      chain_done == OpenSteps(filled) = {}
  IN  [filled EXCEPT !.status = IF chain_done THEN "authorized" ELSE "partial"]

RejectDocument_KeepsStatus(doc, actor) == FillNextPendingStep(doc, actor, "rejected")
RejectDocument(doc, actor) ==
  [FillNextPendingStep(doc, actor, "rejected") EXCEPT !.status = "rejected"]

------------------------------------------------------------------------------
(* What a chain looks like *)

\* The steps decided are the first ones, only the last of them may be a
\* rejection, and the document's status says how far the chain has come.
ChainOf(doc, decided) ==
  LET steps == doc.steps IN
  /\ OpenSteps(doc) = (decided + 1)..Len(steps)
  /\ \A i \in 1..decided : steps[i].status \in {"authorized", "rejected"}
  /\ \A i \in 1..decided : steps[i].status = "rejected" =>
                             i = decided /\ doc.status = "rejected"
  /\ CASE doc.status = "none"     -> decided = 0 /\ decided < Len(steps)
       [] doc.status = "partial"  -> decided > 0 /\ decided < Len(steps)
       [] doc.status = "rejected" -> decided > 0 /\ steps[decided].status = "rejected"
       [] OTHER                   -> decided > 0 /\ decided = Len(steps)

WellFormed(doc) == \E decided \in 0..Len(doc.steps) : ChainOf(doc, decided)
==============================================================================
