SPECIFICATION Spec
CONSTANTS
  Docs = {"EST001", "PE008"}
  Fresh <- SeedsOfDocs
  Sap = Sap
  Requests = {r1, r2, r3}
  MaxRestarts = 1
INVARIANTS
  EveryDecisionHasRow
CHECK_DEADLOCK FALSE
