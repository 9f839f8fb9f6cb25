CONSTANT MaxTime = 3
SPECIFICATION LoopSpec
INVARIANT StartHasFreshPolicy
CHECK_DEADLOCK FALSE
