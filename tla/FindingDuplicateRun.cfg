SPECIFICATION Spec
CONSTANTS
    c1 = c1
    c2 = c2
    r1 = r1
    r2 = r2
    r3 = r3
    r4 = r4
    NoRun = NoRun
    Caller <- TwoCallers
    RunId <- ThreeRuns
    Branches = 1
SYMMETRY Symmetry
INVARIANT OneRunPerStep
CHECK_DEADLOCK FALSE
