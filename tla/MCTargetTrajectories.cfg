CONSTANTS
  Sectors = 3
  Turns <- MCTurns
  Headings <- MCHeadings
  MaxRuns = 2
  Rates <- MCRates
  WalkTimes = {0, 2}
  TimeToTarget = 2
SPECIFICATION Spec
INVARIANTS
  TypeOK
  TurnIsFeasible
  SolvesForThisRun
PROPERTIES
  YawFollowsRobot
  StaleTargetsDieOut
  OwnTargetsAdvance
