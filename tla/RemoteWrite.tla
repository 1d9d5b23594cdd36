----------------------------- MODULE RemoteWrite -----------------------------
(***************************************************************************)
(* What a client promises of a write to a remote system that answers late  *)
(* or never, with the sessions, tokens, retries and deadlines taken away.  *)
(* The remote system applies the write of a call at most once, at any time *)
(* after it was asked to.  The caller is told one thing, once: "written"   *)
(* only of a write that has been applied, "refused" only of one that has   *)
(* not and never will be.  "unknown" promises nothing: the write may have  *)
(* been applied and may still be.  "moved" is the one answer that misleads *)
(* (the caller sees a success, the remote system had only redirected).     *)
(***************************************************************************)
EXTENDS Naturals

CONSTANTS Calls

VARIABLES asked,    \* the calls that have begun
          written,  \* how often each call's write has been applied
          told      \* what each caller has been told

remote == <<asked, written, told>>

Verdict == {"written", "moved", "refused", "unknown"}

Init ==
  /\ asked = {}
  /\ written = [c \in Calls |-> 0]
  /\ told = [c \in Calls |-> "nothing"]

Ask(c) ==
  /\ c \notin asked
  /\ asked' = asked \cup {c}
  /\ UNCHANGED <<written, told>>

Apply(c) ==
  /\ c \in asked /\ written[c] = 0
  /\ told[c] \in {"nothing", "unknown"}
  /\ written' = [written EXCEPT ![c] = 1]
  /\ UNCHANGED <<asked, told>>

Tell(c, verdict) ==
  /\ c \in asked /\ told[c] = "nothing"
  /\ verdict = "written" => written[c] = 1
  /\ verdict \in {"moved", "refused"} => written[c] = 0
  /\ told' = [told EXCEPT ![c] = verdict]
  /\ UNCHANGED <<asked, written>>

Next ==
  \E c \in Calls :
    \/ Ask(c) \/ Apply(c)
    \/ \E verdict \in Verdict : Tell(c, verdict)

Spec == Init /\ [][Next]_remote
==============================================================================
