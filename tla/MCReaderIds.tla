------------------------------ MODULE MCReaderIds ------------------------------
(***************************************************************************)
(* ReaderIds for TLC: two servers of one API, and one of another, of one   *)
(* user.                                                                   *)
(***************************************************************************)
EXTENDS ReaderIds, TLC

CONSTANTS claude, editor, elsewhere, here, there

MCOrigin == (claude :> here) @@ (editor :> here) @@ (elsewhere :> there)

\* The two servers of one API are alike.
Symmetry == Permutations({claude, editor})

=============================================================================
