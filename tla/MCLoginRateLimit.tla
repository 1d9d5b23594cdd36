--------------------------- MODULE MCLoginRateLimit ---------------------------
EXTENDS LoginRateLimit, TLC

Symmetry == Permutations(Clients)
==============================================================================
