CONSTANT MaxTime = 2
SPECIFICATION LoopFairSpec
PROPERTIES
  ControllerSpec
  ContractSpec
  ShutdownCompletes
  StopIsServed
CHECK_DEADLOCK FALSE
