--------------------------- MODULE MCAccessControl ---------------------------
EXTENDS AccessControl, TLC

\* Versions of the role list that disagree about both roles; two of them do
\* not know one.  Overlapping runs can leave a mixture that is no version.  The
\* last names a permission that the catalog does not have.
SeedVersions ==
  {[clerk |-> {}, boss |-> {"sign"}], [clerk |-> {"sign"}], [boss |-> {}],
   [boss |-> {"sign", "seal"}]}

RoleLists == {{}, {"clerk", "boss"}}

Symmetry == Permutations(Tools)
==============================================================================
