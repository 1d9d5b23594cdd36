------------------------- MODULE MCDocumentDecisions -------------------------
EXTENDS DocumentDecisions, TLC, Functions

Seeds == INSTANCE DocumentSeeds

\* The seed documents a run is about, and one of each status and chain among the
\* 29: an endpoint sees nothing else of a document.
SeedsOfDocs == [d \in Docs |-> Seeds!BuildStore[d]]
OneOfEachKind ==
  {CHOOSE d \in DOMAIN Seeds!BuildStore : Seeds!BuildStore[d] = kind :
     kind \in Range(Seeds!BuildStore)}

Symmetry == Permutations(Requests)
==============================================================================
