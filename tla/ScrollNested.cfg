SPECIFICATION Spec
CONSTANTS
  Planet = Planet
  Box = Box
  Section = Section
  PlanetBinder = PlanetBinder
  DefaultBinder = DefaultBinder
  NoBinder = NoBinder
  NoModel = NoModel
  Models = {Planet, Box}
  Binders = {PlanetBinder, DefaultBinder}
  Lineage <- MCLineage
  BoundTo <- MCBoundTo
  Child <- MCChild
  Pausable = {Planet}
  MaxObjects = 3
  MaxCalls = 2
  NestedWalks = TRUE
  TakesMark = FALSE
INVARIANT WalkSafe
