------------------------------ MODULE MCWorksheet ------------------------------
(***************************************************************************)
(* Worksheet for TLC: two tabs, which nothing tells apart.                 *)
(***************************************************************************)
EXTENDS Worksheet

Symmetry == Permutations(Tabs)

=============================================================================
