SPECIFICATION AgedSpec
CONSTANTS
  LastKind = 2
  DropKinds = {1}
  FrameTimes = {1}
  MaxPlanets = 3
  Points <- MCPoints
  TopLimit = 1
  ExplodeTime = 2
  MinX = 0
  MaxX = 0
  StartX = 0
  MaxSpeed = 0
  MinDropWait = 1
  MaxScenes = 5
  MaxBanners = 1
  BannerLife = 3
  FadeTime = 3
INVARIANTS
  PlanetPresent
