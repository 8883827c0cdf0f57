SPECIFICATION FairSpec
CONSTANTS
  p1 = p1
  p2 = p2
  e1 = e1
  e2 = e2
  e3 = e3
  Resumer <- MCAlone
  EnvironmentId <- MCEnvironment
  NoEnvironment = NoEnvironment
INVARIANT OneEnvironment
PROPERTIES ImplementsPrepared IdentifiedSettles
CHECK_DEADLOCK FALSE
