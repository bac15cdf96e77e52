-------------------------- MODULE MCPersonalStore --------------------------
(* PersonalStore with two concurrent calls.                                *)
EXTENDS PersonalStore, TLC

CONSTANTS c1, c2

MCCallers == {c1, c2}

MCKinds == <<{"create", "refresh"}, {"refresh", "touch", "list"}>>

Symmetry == Permutations(MCCallers)
=============================================================================
