------------------------------- MODULE MCUndo -------------------------------
EXTENDS Undo, TLC

Symmetry == Permutations(Page)
=============================================================================
