----------------------------- MODULE MCAccountLife -----------------------------
(***************************************************************************)
(* AccountLife for TLC: tabs, which nothing tells apart.                   *)
(***************************************************************************)
EXTENDS AccountLife, TLC

Symmetry == Permutations(Tabs)

=============================================================================
