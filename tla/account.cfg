SPECIFICATION Spec
CHECK_DEADLOCK FALSE
CONSTANTS
    Tabs = {t1, t2}
    Rungs = 2
    MaxSignIns = 2
    MaxWrites = 1
    MaxAsks = 2
    MaxTurns = 1
    MaxStrays = 1
SYMMETRY Symmetry
INVARIANTS TypeOK NothingLeft ToldIsSo
PROPERTIES FailureKeepsSession
