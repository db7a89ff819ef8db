--------------------------- MODULE MCReadingOrder ---------------------------
(* Model values, symmetry and the track for the runs of ReadingOrder.      *)
EXTENDS ReadingOrder, TLC

CONSTANTS en, pl, c1, c2

Track == <<3, 1>>
Symmetry == Permutations({c1, c2}) \cup Permutations({en, pl})

=============================================================================
