\* Every status and chain of the seed data.
SPECIFICATION Spec
CONSTANTS
  Docs <- OneOfEachKind
  Fresh <- SeedsOfDocs
  Sap = Sap
  Requests = {r1, r2, r3}
  MaxRestarts = 1
PROPERTIES
  AuditedSpec
SYMMETRY Symmetry
CHECK_DEADLOCK FALSE
