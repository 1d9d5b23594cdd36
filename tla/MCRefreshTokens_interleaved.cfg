\* Two users, two requests in flight, time stands still.
CONSTANTS
  Users = {u1, u2}
  Tokens = {t1, t2, t3}
  Requests = {r1, r2}
  RefreshTTL = 1
  MaxClock = 0
  NoUser = NoUser
  NoToken = NoToken
SPECIFICATION Spec
SYMMETRY Symmetry
INVARIANTS
  TypeOK
  ReplaySweepsKnown
  SingleUseUnlessContested
  ReplayForcesLoginUnlessContested
PROPERTIES
  NoExchangeAfterRevocation
  IssuedWhileActive
  LogoutFinalUnlessContested
  LedgerSpec
CHECK_DEADLOCK FALSE
