\* Two clients, half seconds.
SPECIFICATION Spec
CONSTANTS
  Clients = {c1, c2}
  MAX_ATTEMPTS = 2
  WINDOW_SECONDS = 2
  SECOND = 2
  MaxClock = 7
INVARIANTS TypeOK WindowBudget RetryAfterWithinASecond
PROPERTIES SlidingSpec
SYMMETRY Symmetry
