SPECIFICATION CacheSpec
CONSTANTS
    Tags = {t1, t2, t3}
    Bodies = {x, y}
    Times = {1, 2}
    Reads = {r1, r2}
    Posts = {p1, p2}
    LostAnswers = TRUE
    NoBundle = NoBundle
INVARIANTS CacheTypeOK StaleOnlyWhenLate
SYMMETRY Symmetry
