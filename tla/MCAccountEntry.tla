---------------------------- MODULE MCAccountEntry ----------------------------
(* Two tabs of one browser, as model values that may be exchanged.         *)
EXTENDS AccountEntry, TLC

Symmetry == Permutations(Tabs)

=============================================================================
