SPECIFICATION Spec
CONSTANTS
  p1 = p1
  p2 = p2
  e1 = e1
  e2 = e2
  e3 = e3
  Resumer <- MCTogether
  EnvironmentId <- MCManyEnvironments
  NoEnvironment = NoEnvironment
SYMMETRY Symmetry
INVARIANTS NothingBeforeItsRecord AdoptedIsVerified
CHECK_DEADLOCK FALSE
