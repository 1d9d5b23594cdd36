\* A token expires while two requests are in flight.  Liveness: no symmetry.
CONSTANTS
  Users = {u1}
  Tokens = {t1, t2}
  Requests = {r1, r2}
  RefreshTTL = 1
  MaxClock = 2
  NoUser = NoUser
  NoToken = NoToken
SPECIFICATION FairSpec
INVARIANTS RotationWithinLifetime
PROPERTIES EveryRequestAnswered
CHECK_DEADLOCK FALSE
