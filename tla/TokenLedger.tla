----------------------------- MODULE TokenLedger -----------------------------
(***************************************************************************)
(* What the refresh-token service promises, with the requests, the clock   *)
(* and the database transactions taken away.  A token is unissued, then    *)
(* live, then dead, and never goes back.  A login issues a live token; an  *)
(* exchange issues the successor of a token of the same holder and leaves  *)
(* that token dead; a retirement kills tokens of one holder.               *)
(*                                                                         *)
(* Only a live token is exchanged, as the service's comments word it, with *)
(* one exception: requests that are about a live token at the same time    *)
(* make it contested, and a contested token may be exchanged dead.         *)
(***************************************************************************)
CONSTANTS Users, Tokens, NoUser, NoToken

VARIABLES status,   \* each token: "unissued", "live" or "dead"
          holder,   \* the user a token was issued to
          origin,   \* the token it was exchanged for, NoToken after a login
          contested \* tokens that several requests were about at a time

ledger == <<status, holder, origin, contested>>

Of(u) == {t \in Tokens : status[t] # "unissued" /\ holder[t] = u}

Live == {t \in Tokens : status[t] = "live"}

Init ==
  /\ status = [t \in Tokens |-> "unissued"]
  /\ holder = [t \in Tokens |-> NoUser]
  /\ origin = [t \in Tokens |-> NoToken]
  /\ contested = {}

Contend(S) ==
  /\ contested' = contested \cup S
  /\ UNCHANGED <<status, holder, origin>>

Issue(u, t) ==
  /\ status[t] = "unissued"
  /\ status' = [status EXCEPT ![t] = "live"]
  /\ holder' = [holder EXCEPT ![t] = u]
  /\ origin' = [origin EXCEPT ![t] = NoToken]
  /\ UNCHANGED contested

Exchange(p, t) ==
  /\ status[p] = "live" \/ (status[p] = "dead" /\ p \in contested)
  /\ status[t] = "unissued"
  /\ status' = [status EXCEPT ![p] = "dead", ![t] = "live"]
  /\ holder' = [holder EXCEPT ![t] = holder[p]]
  /\ origin' = [origin EXCEPT ![t] = p]
  /\ UNCHANGED contested

Retire(S) ==
  /\ status' = [t \in Tokens |-> IF t \in S THEN "dead" ELSE status[t]]
  /\ UNCHANGED <<holder, origin, contested>>

IssueOrRetire ==
  \E u \in Users : \/ \E t \in Tokens : Issue(u, t)
                   \/ \E S \in SUBSET Of(u) : Retire(S)

Next ==
  \/ IssueOrRetire
  \/ \E p, t \in Tokens : Exchange(p, t)
  \/ \E S \in SUBSET Live : Contend(S)

Spec == Init /\ [][Next]_ledger
==============================================================================
