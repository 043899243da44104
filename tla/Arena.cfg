SPECIFICATION Spec
CONSTANTS
  MaxPlanets = 5
  MaxDrops = 3
  LastKind = 3
  DropKinds = {1, 2}
  Points <- MCPoints
  TopLimit = 1
  ExplodeTime = 1
  FrameTimes = {1}
INVARIANTS
  TypeOK
  MassConserved
  ScoreBalance
  MergedOnce
  TimerIsTouch
PROPERTIES
  NoEarlyGameOver
