CONSTANTS
  Delay = 3
  MaxStep = 2
  MaxTime = 8
SPECIFICATION Spec
INVARIANTS
  AppliesDelayedCommand
  BufferBounded
