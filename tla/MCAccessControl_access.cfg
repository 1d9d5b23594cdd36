SPECIFICATION Spec
CONSTANTS
  Users = {u1}
  Roles = {"clerk", "boss"}
  Perms = {"sign"}
  Wishes <- RoleLists
  Seeds <- SeedVersions
  Requests = {r1}
  Tools = {k1, k2}
INVARIANTS
  TypeOK
PROPERTIES
  GrantedInForce
  RefusedNotInForce
  AssignedExactly
  SyncedExactly
  PolicySpec
SYMMETRY Symmetry
