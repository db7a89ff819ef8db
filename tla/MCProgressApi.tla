---------------------------- MODULE MCProgressApi ----------------------------
(***************************************************************************)
(* ProgressApi for TLC.  Slots of requests, programs and editions are each *)
(* interchangeable: no handler prefers one of them.                        *)
(***************************************************************************)
EXTENDS ProgressApi, TLC

Symmetry ==
    Permutations(Requests) \cup Permutations(Units) \cup Permutations(Languages)

=============================================================================
