---------------------------- MODULE AuditedChains ----------------------------
(***************************************************************************)
(* What the decision service promises of a document and its audit trail.   *)
(* A decision is one indivisible event: it uses up one open step, moves    *)
(* the document's status and promises one row that says so.  Later the row *)
(* is recorded or, when the database fails, forgotten.  A restart of the   *)
(* process takes the documents back and voids what was promised; what has  *)
(* been recorded stays.                                                    *)
(***************************************************************************)
CONSTANTS Docs, Fresh,   \* the documents as SAP delivers them
          Ids            \* the requests decisions come from

VARIABLES chain,      \* each document's status and open steps
          promised,   \* rows that are due
          trail       \* rows recorded

audited == <<chain, promised, trail>>

Init ==
  /\ chain = Fresh
  /\ promised = {} /\ trail = {}

\* The decision `action` on document d takes it to status `to`.
Decide(d, id, action, to) ==
  /\ chain[d].status \in {"none", "partial"}
  /\ \E step \in chain[d].open :
       LET left == chain[d].open \ {step} IN
       /\ to = IF action = "reject" THEN "rejected"
               ELSE IF left = {} THEN "authorized" ELSE "partial"
       /\ chain' = [chain EXCEPT ![d] = [status |-> to, open |-> left]]
  /\ promised' = promised \cup {[req |-> id, doc |-> d, action |-> action, status |-> to]}
  /\ UNCHANGED trail

Record(row) ==
  /\ row \in promised
  /\ trail' = trail \cup {row}
  /\ promised' = promised \ {row}
  /\ UNCHANGED chain

Forget(row) ==
  /\ row \in promised
  /\ promised' = promised \ {row}
  /\ UNCHANGED <<chain, trail>>

Restart ==
  /\ chain' = Fresh
  /\ promised' = {}
  /\ UNCHANGED trail

Next ==
  \/ \E d \in Docs, id \in Ids, action \in {"authorize", "reject"},
        to \in {"partial", "authorized", "rejected"} : Decide(d, id, action, to)
  \/ \E row \in promised : Record(row) \/ Forget(row)
  \/ Restart

Spec == Init /\ [][Next]_audited
==============================================================================
