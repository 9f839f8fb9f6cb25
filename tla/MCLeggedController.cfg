CONSTANT MaxTime = 2
SPECIFICATION ControllerFairSpec
INVARIANTS
  ControllerTypeOK
  OneAdvanceAtATime
  RunningHasPolicy
  StoppedSolverRests
  FirstStartIsFresh
PROPERTIES
  PolicyNeverOlder
  DestructorReturns
  StartEndsOnShutdown
CHECK_DEADLOCK FALSE
