---------------------------- MODULE MCIdleUnload ----------------------------
(* Instances of IdleUnload for TLC. *)
EXTENDS IdleUnload, TLC

CONSTANTS s1, s2, c1, c2, k1, k2

Symmetry == Permutations(Callers) \cup Permutations(Keys)
=============================================================================
