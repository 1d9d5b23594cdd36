-------------------------- MODULE DocumentDecisions --------------------------
(***************************************************************************)
(* The decisions on documents and their audit trail: the authorize and     *)
(* reject endpoints of app/api/documents.py, over the store of             *)
(* app/services/documents.py and record_authorization of                   *)
(* app/services/audit.py.                                                  *)
(*                                                                         *)
(* Up to the creation of the audit row an endpoint runs without an await:  *)
(* look-up, check, decision and the row's snapshot of the document are one *)
(* step.  Then it awaits the commit, other requests run, and the response  *)
(* is made of the shared document when the coroutine resumes.  The store   *)
(* is in the memory of the process, the rows are in the database: a commit *)
(* that fails does not take the decision back, a restart takes back every  *)
(* decision and no row.                                                    *)
(*                                                                         *)
(* Requests that change nothing (GET, 401, 403, 404, 422) are stuttering   *)
(* steps.                                                                  *)
(***************************************************************************)
EXTENDS DocumentChain

CONSTANTS
  Docs,        \* documents in the store, over all domains
  Fresh,       \* _build_store(): the documents as SAP delivers them
  Sap,         \* who filled the steps that come decided
  Requests,    \* authorize and reject requests ever made (bound)
  MaxRestarts  \* (bound)

Actors == Requests \cup {Sap}

ASSUME ActorAssumption == Sap \notin Requests
ASSUME RestartAssumption == MaxRestarts \in Nat
ASSUME FreshAssumption ==
  /\ Fresh \in [Docs -> Document({Sap})]
  /\ \A d \in Docs : WellFormed(Fresh[d])

VARIABLES
  store,      \* _store
  events,     \* the rows of authorization_events
  req,        \* the requests
  restarts    \* how often the process has been restarted

\* History variable: the decisions taken, with the step each one filled.
VARIABLE made

vars == <<store, events, req, restarts, made>>

------------------------------------------------------------------------------

Action == {"authorize", "reject"}

\* An AuthorizationEvent.  req stands for its id and the actor's snapshot.
Row == [req : Requests, doc : Docs, action : Action, status : Status]

NoRow == [req |-> Sap]

Request == [pc     : {"new", "auditing", "committed", "answered"},
            row    : Row \cup {NoRow},
            answer : {"none", "ok", "conflict", "error", "dropped"},
            shown  : Status]       \* the status in the response's body

NewRequest == [pc |-> "new", row |-> NoRow, answer |-> "none", shown |-> "none"]

Decision == [req : Requests, doc : Docs, action : Action, step : Nat, run : Nat]

TypeOK ==
  /\ store \in [Docs -> Document(Actors)]
  /\ events \subseteq Row
  /\ req \in [Requests -> Request]
  /\ restarts \in Nat
  /\ made \subseteq Decision
  /\ \A r \in Requests :
       /\ req[r].pc \in {"auditing", "committed"} => req[r].row \in Row /\ req[r].row.req = r
       /\ req[r].pc = "new" => req[r] = NewRequest

Init ==
  /\ store = Fresh
  /\ events = {}
  /\ req = [r \in Requests |-> NewRequest]
  /\ restarts = 0
  /\ made = {}

------------------------------------------------------------------------------
(* The endpoints.  The operators with a suffix (F_Suffix) are faulty variants *)
(* of F that the properties are tried against; Spec uses none of them.        *)

At(r, pc) == req[r].pc = pc

Answer(r, answer, shown) ==
  req' = [req EXCEPT ![r].pc = "answered", ![r].answer = answer, ![r].shown = shown]

Decided(doc, actor, action) ==
  IF action = "authorize" THEN AuthorizeDocument(doc, actor) ELSE RejectDocument(doc, actor)

Decide_ChecksStepsOnly(r, d, action) ==
  /\ At(r, "new")
  /\ OpenSteps(store[d]) # {}
  /\ LET doc == Decided(store[d], r, action)
         row == [req |-> r, doc |-> d, action |-> action, status |-> doc.status]
     IN  /\ store' = [store EXCEPT ![d] = doc]
         /\ req' = [req EXCEPT ![r].pc = "auditing", ![r].row = row]
         /\ made' = made \cup {[req |-> r, doc |-> d, action |-> action,
                                step |-> FirstPending(store[d]), run |-> restarts]}
  /\ UNCHANGED <<events, restarts>>

Decide_RecordsActionTwice(r, d, action) ==
  /\ At(r, "new")
  /\ RequirePending(store[d])
  /\ LET row == [req |-> r, doc |-> d, action |-> action, status |-> action]
     IN  /\ store' = [store EXCEPT ![d] = Decided(store[d], r, action)]
         /\ req' = [req EXCEPT ![r].pc = "auditing", ![r].row = row]
         /\ made' = made \cup {[req |-> r, doc |-> d, action |-> action,
                                step |-> FirstPending(store[d]), run |-> restarts]}
  /\ UNCHANGED <<events, restarts>>

\* The check passes, the document is decided, and the row takes down the
\* status it has now.
Decide(r, d, action) ==
  /\ At(r, "new")
  /\ RequirePending(store[d])
  /\ LET doc == Decided(store[d], r, action)
         row == [req |-> r, doc |-> d, action |-> action, status |-> doc.status]
     IN  /\ store' = [store EXCEPT ![d] = doc]
         /\ req' = [req EXCEPT ![r].pc = "auditing", ![r].row = row]
         /\ made' = made \cup {[req |-> r, doc |-> d, action |-> action,
                                step |-> FirstPending(store[d]), run |-> restarts]}
  /\ UNCHANGED <<events, restarts>>

\* 409: the document has been decided already.
Conflict(r, d) ==
  /\ At(r, "new")
  /\ ~RequirePending(store[d])
  /\ Answer(r, "conflict", store[d].status)
  /\ UNCHANGED <<store, events, restarts, made>>

CommitRow_ReadsStatusLate(r) ==
  /\ At(r, "auditing")
  /\ events' = events \cup {[req[r].row EXCEPT !.status = store[req[r].row.doc].status]}
  /\ req' = [req EXCEPT ![r].pc = "committed"]
  /\ UNCHANGED <<store, restarts, made>>

CommitRow(r) ==
  /\ At(r, "auditing")
  /\ events' = events \cup {req[r].row}
  /\ req' = [req EXCEPT ![r].pc = "committed"]
  /\ UNCHANGED <<store, restarts, made>>

CommitFails_Unreported(r) ==
  /\ At(r, "auditing")
  /\ \/ events' = events \cup {req[r].row}
     \/ events' = events
  /\ req' = [req EXCEPT ![r].pc = "committed"]
  /\ UNCHANGED <<store, restarts, made>>

\* The commit raises: 500.  When it is the connection that broke, the row may
\* have been committed all the same.
CommitFails(r) ==
  /\ At(r, "auditing")
  /\ \/ events' = events \cup {req[r].row}
     \/ events' = events
  /\ Answer(r, "error", "none")
  /\ UNCHANGED <<store, restarts, made>>

Respond_Reloads(r) ==
  /\ At(r, "committed")
  /\ Answer(r, "ok", Fresh[req[r].row.doc].status)
  /\ UNCHANGED <<store, events, restarts, made>>

\* The coroutine resumes and the shared document is serialized.
Respond(r) ==
  /\ At(r, "committed")
  /\ Answer(r, "ok", store[req[r].row.doc].status)
  /\ UNCHANGED <<store, events, restarts, made>>

\* The process ends, with the requests in flight, and starts again.
Restart ==
  /\ restarts < MaxRestarts
  /\ restarts' = restarts + 1
  /\ store' = Fresh
  /\ req' = [r \in Requests |->
               IF req[r].pc \in {"auditing", "committed"}
               THEN [req[r] EXCEPT !.pc = "answered", !.answer = "dropped"]
               ELSE req[r]]
  /\ UNCHANGED <<events, made>>

------------------------------------------------------------------------------

Arrive(r) == \E d \in Docs : \/ \E action \in Action : Decide(r, d, action)
                             \/ Conflict(r, d)

Proceed(r) == CommitRow(r) \/ CommitFails(r) \/ Respond(r)

Next == \/ \E r \in Requests : Arrive(r) \/ Proceed(r)
        \/ Restart

Spec == Init /\ [][Next]_vars

------------------------------------------------------------------------------
(* Properties *)

\* The decisions taken since the last restart.
Current == {m \in made : m.run = restarts}

\* What a decision writes in its step, whether it closes its document, and the
\* status it leaves it with: the chain's length tells, it never changes.
Verdict(m) == IF m.action = "reject" THEN "rejected" ELSE "authorized"

Closes(m) == m.action = "reject" \/ m.step = Len(Fresh[m.doc].steps)

StatusAfter(m) == IF Closes(m) THEN Verdict(m) ELSE "partial"

\* Every document is always a chain: decided steps first, at most one
\* rejection and that the last decision, and a status that agrees.
ChainShape == \A d \in Docs : WellFormed(store[d])

\* A step once filled is never filled again: every decision of this run is
\* still there to be read in the document, under its author.
DecisionsStand ==
  \A m \in Current :
    /\ m.step \in DOMAIN store[m.doc].steps
    /\ store[m.doc].steps[m.step] = [status |-> Verdict(m), by |-> m.req]

\* The resulting status of a row is the one the chain had right after that
\* decision, whatever was decided while the row was being committed.
RowsTellTheTruth ==
  \A e \in events : \E m \in made :
    e = [req |-> m.req, doc |-> m.doc, action |-> m.action, status |-> StatusAfter(m)]

\* A decision that closes a document is the last one of its run.
FinalDecisionIsLast ==
  \A m, n \in made :
    m.doc = n.doc /\ m.run = n.run /\ Closes(m) => n.step <= m.step

\* An answer can be trusted: 200 means the row is there to stay, 409 that
\* there is none; only a decision answered 500 may have no row.
AnswersMatchTrail ==
  \A r \in Requests :
    LET row == \E e \in events : e.req = r IN
    /\ req[r].answer = "ok" => row
    /\ req[r].answer = "conflict" => ~row
    /\ ~row /\ (\E m \in Current : m.req = r) =>
         At(r, "auditing") \/ req[r].answer = "error"

\* A 200 shows the document as the request's own decision left it or as a later
\* one did, never as it was before: the response is made of the shared
\* document after the commit, and others may have decided it meanwhile.
AnswersShowOwnOrLater ==
  \A r \in Requests : req[r].answer = "ok" =>
    \E m, n \in made :
      /\ m.req = r
      /\ n.doc = m.doc /\ n.run = m.run /\ n.step >= m.step
      /\ req[r].shown = StatusAfter(n)

\* A document is left open or decided, never reopened, unless the process
\* restarts.
KeepsClosed ==
  \A d \in Docs : ~RequirePending(store[d]) /\ restarts' = restarts
                    => store'[d] = store[d]

ClosedStaysClosed == [][KeepsClosed]_vars

\* tests/test_documents_audit.py:1 "every authorize/reject leaves exactly one
\* durable, correct AuthorizationEvent row".
EveryDecisionHasRow ==
  \A m \in Current : At(m.req, "answered") => \E e \in events : e.req = m.req

------------------------------------------------------------------------------
(* Refinement *)

Open(docs) == [d \in Docs |-> [status |-> docs[d].status, open |-> OpenSteps(docs[d])]]

Promised == {req[r].row : r \in {q \in Requests : At(q, "auditing")}}

Audited ==
  INSTANCE AuditedChains WITH
    Fresh    <- Open(Fresh),
    Ids      <- Requests,
    chain    <- Open(store),
    promised <- Promised,
    trail    <- events

\* Requests interleaved in any way, the endpoints decide documents one
\* indivisible decision at a time and record each decision at most once.
AuditedSpec == Audited!Spec
==============================================================================
