SPECIFICATION Spec
CHECK_DEADLOCK FALSE
CONSTANTS
    MaxAttempt = 2
    WIDEST = 64
    None = None
    gap = gap
    bisection = bisection
    stray = stray
    other = other
    Callers <- AllCallers
    Steps = {1, 2}
    Checks = {gap, bisection, stray}
    MaxFaults = 1
    EarlierRuns = {1}
    MaxRuns = 2
    MaxStops = 1
    MaxDecisions = 1
    MaxElsewhere = 1
    Docs <- LabDocs
    Outputs <- LabOutputs
    Elsewhere <- LabElsewhere
INVARIANTS TypeOK StoppedIsOver NothingUnasked CountsAreTrue
PROPERTIES ComesBack
