------------------------------ MODULE MCSessions ------------------------------
EXTENDS Sessions, TLC

Symmetry == Permutations(Requests) \cup Permutations(SessionIds) \cup Permutations(TokenIds)
=============================================================================
