----------------------------- MODULE MCBuffText -----------------------------
(* Module BuffText on small instances. *)
EXTENDS BuffText, TLC

Symmetry == Permutations(Page) \cup Permutations(Mark)
=============================================================================
