------------------------ MODULE MCAuthorizedDecisions ------------------------
EXTENDS AuthorizedDecisions, TLC

Seeding == INSTANCE DocumentSeeds

SeedsOfDocs == [d \in Docs |-> Seeding!BuildStore[d]]

\* The documents of two domains, and one role that first may decide the ones,
\* then the others.
DecidingPermission == [PE008 |-> "pre_estimates:authorize", EST006 |-> "estimates:authorize"]
PermissionOfDocs == [d \in Docs |-> DecidingPermission[d]]

RoleVersions == {[boss |-> {PermissionOf[d]}] : d \in Docs}
RoleLists == {{"boss"}}

Symmetry == Permutations(Requests)
==============================================================================
