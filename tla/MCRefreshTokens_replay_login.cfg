\* A replay response and a refresh of the same user.
CONSTANTS
  Users = {u1}
  Tokens = {t1, t2, t3}
  Requests = {r1, r2}
  RefreshTTL = 1
  MaxClock = 0
  NoUser = NoUser
  NoToken = NoToken
SPECIFICATION Spec
SYMMETRY Symmetry
INVARIANTS ReplayForcesLogin
CHECK_DEADLOCK FALSE
