------------------------------- MODULE MCShell -------------------------------
EXTENDS Shell, TLC

Symmetry == Permutations(Zbuff) \cup Permutations(Pid)
=============================================================================
