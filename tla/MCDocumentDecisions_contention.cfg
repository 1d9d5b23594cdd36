SPECIFICATION Spec
CONSTANTS
  Docs = {"EST001", "PE002"}
  Fresh <- SeedsOfDocs
  Sap = Sap
  Requests = {r1, r2, r3, r4}
  MaxRestarts = 1
INVARIANTS
  TypeOK
  ChainShape
  DecisionsStand
  RowsTellTheTruth
  FinalDecisionIsLast
  AnswersMatchTrail
  AnswersShowOwnOrLater
PROPERTIES
  AuditedSpec
SYMMETRY Symmetry
CHECK_DEADLOCK FALSE
