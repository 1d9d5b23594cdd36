CONSTANTS
  Calls = {c1, c2}
  Timeout = 1
  MaxSessions = 2
  MaxTime = 2
SPECIFICATION FairSpec
INVARIANTS
  TypeOK
  AnswerTellsTheWrite
  RejectionNeedsExpiry
  NeverPinned
PROPERTIES
  EveryCreateEnds
  WriteSpec
CHECK_DEADLOCK FALSE
