CONSTANT MaxTime = 3
SPECIFICATION LoopSpec
INVARIANT RunningHasMpcThread
CHECK_DEADLOCK FALSE
