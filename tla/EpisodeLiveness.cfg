SPECIFICATION FairSpec
CONSTANTS
  p1 = p1
  p2 = p2
  r1 = r1
  r2 = r2
  r3 = r3
  Caller <- MCCaller
  RunId <- MCRunPerStage
  NoRun = NoRun
  NoCaller = NoCaller
  BundleDamage = FALSE
PROPERTY ReleasedStageSettles
CHECK_DEADLOCK FALSE
