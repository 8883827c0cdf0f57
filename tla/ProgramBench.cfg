SPECIFICATION Spec
CONSTANTS
    c1 = c1
    c2 = c2
    r1 = r1
    r2 = r2
    r3 = r3
    r4 = r4
    NoRun = NoRun
    Caller <- OneCaller
    RunId <- FourRuns
    Branches = 2
SYMMETRY Symmetry
INVARIANTS OneRunPerStep CancelledLeavesNoWork CleanedUp EnvironmentOutlivesBranches CompletedIsBacked
CHECK_DEADLOCK FALSE
