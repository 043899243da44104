SPECIFICATION AgedFairSpec
CONSTANTS
  LastKind = 2
  DropKinds = {1}
  FrameTimes = {1}
  MaxPlanets = 4
  Points <- MCPoints
  TopLimit = 1
  ExplodeTime = 1
  MinX = 0
  MaxX = 0
  StartX = 0
  MaxSpeed = 0
  MinDropWait = 1
  MaxScenes = 5
  MaxBanners = 1
  BannerLife = 2
  FadeTime = 2
INVARIANTS
  TypeOK
  HeldIntact
  NoOrphans
PROPERTIES
  TopBringsBanner
  FollowsSceneFlow
