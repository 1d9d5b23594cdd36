SPECIFICATION Spec
CONSTANTS
  Users = {u1}
  Roles = {"boss"}
  Perms = {"pre_estimates:authorize", "estimates:authorize"}
  Wishes <- RoleLists
  Seeds <- RoleVersions
  Tools = {k1}
  Docs = {"PE008", "EST006"}
  Fresh <- SeedsOfDocs
  Sap = Sap
  Requests = {r1, r2}
  MaxRestarts = 1
  PermissionOf <- PermissionOfDocs
  MaxTime = 1
INVARIANTS
  RowsInOrder
PROPERTIES
  DecidedWithPermission
  ExactPolicySpec
SYMMETRY Symmetry
CHECK_DEADLOCK FALSE
