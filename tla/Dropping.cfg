SPECIFICATION DropFairSpec
CONSTANTS
  LastKind = 3
  DropKinds = {1, 2}
  FrameTimes = {1, 2, 3}
  MinX <- MCMinX
  MaxX = 4
  StartX <- MCStartX
  MaxSpeed = 2
  MinDropWait = 4
INVARIANTS
  DropTypeOK
PROPERTIES
  DropSpacing
  CarriesAgain
