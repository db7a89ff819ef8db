---------------------------- MODULE MCContentCache ----------------------------
(***************************************************************************)
(* ContentCache for TLC.  Requests of a kind are interchangeable, and so   *)
(* are tags and bodies.                                                    *)
(***************************************************************************)
EXTENDS ContentCache, TLC

Symmetry ==
    Permutations(Reads) \cup Permutations(Posts)
    \cup Permutations(Tags) \cup Permutations(Bodies)

=============================================================================
