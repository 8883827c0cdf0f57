SPECIFICATION ValidationSpec
CONSTANTS
    c1 = c1
    c2 = c2
    Caller <- MCCaller
    Chunk = 2
    MinMeaningful = 2
    Images <- MCImages
    MaxRuns = 2
    MaxCases = 2
SYMMETRY Symmetry
INVARIANTS AdmittedIsClean OneAudit ProbeSparesItsRun SuccessLeavesNothing
CHECK_DEADLOCK FALSE
