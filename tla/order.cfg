SPECIFICATION Spec
CONSTANTS
    en = en
    pl = pl
    c1 = c1
    c2 = c2
    Length <- Track
    Editions = {en, pl}
    Calls = {c1, c2}
    None = None
    MaxCalls = 3
    MaxVisits = 1
    MaxReveals = 1
    MaxForgets = 1
    MaxLost = 1
SYMMETRY Symmetry
CHECK_DEADLOCK FALSE
INVARIANTS
    TypeOK
    InOrder
    NoneSkipped
    SwitchHolds
