SPECIFICATION Spec
CONSTANTS
  p1 = p1
  p2 = p2
  r1 = r1
  r2 = r2
  r3 = r3
  Caller <- MCCaller
  RunId <- MCRunId
  NoRun = NoRun
  NoCaller = NoCaller
  BundleDamage = TRUE
SYMMETRY Symmetry
INVARIANTS NoReplacementRun ReleasedRunIsRecorded CompletedIsBacked CancelledLeavesNoWork
PROPERTY ImplementsEpisode
CHECK_DEADLOCK FALSE
