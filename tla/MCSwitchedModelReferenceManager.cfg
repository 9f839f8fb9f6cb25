CONSTANTS
  Legs <- MCLegs
  Gaits <- MCGaits
  DefaultGait <- Standing
  Transition = 1
  Horizon = 3
  MaxStep = 2
  FirstEvent = 2
SPECIFICATION Spec
INVARIANTS
  TypeOK
  EverySwingIsDefined
  SwingSpansTheAir
  GaitIsWalked
  FootTermsFit
PROPERTIES
  HorizonIsKept
  SwingIsKept
