SPECIFICATION Spec
CONSTANTS
    c1 = c1
    c2 = c2
    r1 = r1
    r2 = r2
    r3 = r3
    NoRun = NoRun
    Caller <- MCCaller
    RunId <- MCRunId
SYMMETRY Symmetry
INVARIANTS ReleasedIsBound EvidenceIsBacked FileFits
CHECK_DEADLOCK FALSE
