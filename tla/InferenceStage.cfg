SPECIFICATION FairSpec
CONSTANT MaxRevision = 3
INVARIANTS NothingLeaks TunnelOutlivesObserver CommitsSettledProgress
PROPERTY StageReturns
CHECK_DEADLOCK FALSE
