---------------------------- MODULE SlidingWindow ----------------------------
(***************************************************************************)
(* What a sliding-window limiter promises: of the attempts of one client,  *)
(* all remembered, an attempt is admitted exactly when fewer than Limit    *)
(* were admitted within the window that ends now.  Nothing is forgotten    *)
(* but in a restart.                                                       *)
(***************************************************************************)
EXTENDS Naturals, Sequences

CONSTANTS Clients, Limit, Window

VARIABLES now,       \* the time
          log,       \* each client's admitted attempts, oldest first
          verdict    \* the last answer each client got

window == <<now, log, verdict>>

Init ==
  /\ now = 0
  /\ log = [c \in Clients |-> <<>>]
  /\ verdict = [c \in Clients |-> "none"]

\* The attempt Limit places back, if there is one, has left the window.
Room(c) ==
  Len(log[c]) >= Limit => log[c][Len(log[c]) - Limit + 1] + Window <= now

Admit(c) ==
  /\ Room(c)
  /\ log' = [log EXCEPT ![c] = Append(@, now)]
  /\ verdict' = [verdict EXCEPT ![c] = "admitted"]
  /\ UNCHANGED now

Refuse(c) ==
  /\ ~Room(c)
  /\ verdict' = [verdict EXCEPT ![c] = "refused"]
  /\ UNCHANGED <<now, log>>

Pass == now' = now + 1 /\ UNCHANGED <<log, verdict>>

Restart ==
  /\ log' = [c \in Clients |-> <<>>]
  /\ verdict' = [c \in Clients |-> "none"]
  /\ UNCHANGED now

Next == (\E c \in Clients : Admit(c) \/ Refuse(c)) \/ Pass \/ Restart

Spec == Init /\ [][Next]_window
==============================================================================
