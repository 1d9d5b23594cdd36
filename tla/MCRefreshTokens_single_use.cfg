\* Two requests refresh the same token.
CONSTANTS
  Users = {u1}
  Tokens = {t1, t2, t3}
  Requests = {r1, r2}
  RefreshTTL = 1
  MaxClock = 0
  NoUser = NoUser
  NoToken = NoToken
SPECIFICATION Spec
SYMMETRY Symmetry
INVARIANTS SingleUse
CHECK_DEADLOCK FALSE
