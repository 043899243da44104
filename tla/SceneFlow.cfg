SPECIFICATION FairSpec
CONSTANTS
  MaxScenes = 6
  MaxBanners = 3
  BannerLife = 4
  FrameTimes = {1, 2}
INVARIANTS
  TypeOK
  OneScene
  FewScenes
PROPERTIES
  StaleBannerWindow
  ImplementsGameFlow
