SPECIFICATION Spec
CONSTANTS
  MapNames = {Level}
  Models = {Star, Rock}
  SmoothModels = {Star}
  Places = {Home, Away}
  Home = Home
  Colours = {Red}
  NoModel = NoModel
  NoColour = NoColour
  NoFile = NoFile
  NoMap = NoMap
  FrustumDepth = 2
  MaxLayers = 2
  MaxID = 2
INVARIANTS
  TypeOK
  FreshNames
  LayersApart
PROPERTY
  RoundTrip
