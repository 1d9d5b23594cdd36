----------------------------- MODULE RolePolicy -----------------------------
(***************************************************************************)
(* What the administration scripts promise, with their runs, their reads   *)
(* and their plans taken away: a table of the roles each user holds and    *)
(* one of the permissions each role grants, and steps that change one      *)
(* user's list, or one set of definitions, at a time.                      *)
(*                                                                         *)
(* A script whose run nobody disturbs sets what it was told to set         *)
(* (ExactSpec).  One that overlaps with others keeps between what was and  *)
(* what it was told: it takes away nothing it lists, adds nothing it does  *)
(* not list, and touches nobody else (Spec).                               *)
(***************************************************************************)
CONSTANTS Users, Roles, Perms, Wishes, Seeds

VARIABLES users,    \* those who have an account
          active,   \* those whose account is on
          roles,    \* the roles that exist
          held,     \* the roles of each user
          granted   \* the permissions of each role

policy == <<users, active, roles, held, granted>>

Init ==
  /\ users = {} /\ active = {} /\ roles = {}
  /\ held = [u \in Users |-> {}]
  /\ granted = [role \in Roles |-> {}]

\* Nobody is given a role that does not exist.
Create(u, W) ==
  /\ u \notin users /\ W \subseteq roles
  /\ users' = users \cup {u} /\ active' = active \cup {u}
  /\ held' = [held EXCEPT ![u] = W]
  /\ UNCHANGED <<roles, granted>>

Switch(u) ==
  /\ u \in users
  /\ active' = IF u \in active THEN active \ {u} ELSE active \cup {u}
  /\ UNCHANGED <<users, roles, held, granted>>

Assign(u, W, list) ==
  /\ u \in users /\ W \subseteq roles
  /\ held' = [held EXCEPT ![u] = list]
  /\ UNCHANGED <<users, active, roles, granted>>

Define(defs, table) ==
  /\ roles' = roles \cup DOMAIN defs
  /\ granted' = [role \in Roles |->
                   IF role \in DOMAIN defs THEN table[role] ELSE granted[role]]
  /\ UNCHANGED <<users, active, held>>

Between(old, wish, new) == old \cap wish \subseteq new /\ new \subseteq old \cup wish

Next ==
  \/ \E u \in Users : Switch(u)
  \/ \E u \in Users, W \in Wishes :
       \/ Create(u, W)
       \/ \E list \in SUBSET Roles : Between(held[u], W, list) /\ Assign(u, W, list)
  \/ \E defs \in Seeds : \E table \in [DOMAIN defs -> SUBSET Perms] :
       /\ \A role \in DOMAIN defs : Between(granted[role], defs[role], table[role])
       /\ Define(defs, table)

ExactNext ==
  \/ \E u \in Users : Switch(u)
  \/ \E u \in Users, W \in Wishes : Create(u, W) \/ Assign(u, W, W)
  \/ \E defs \in Seeds : Define(defs, defs)

Spec == Init /\ [][Next]_policy
ExactSpec == Init /\ [][ExactNext]_policy
==============================================================================
