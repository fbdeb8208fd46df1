SPECIFICATION Spec
CONSTANTS
  d1 = d1
  d2 = d2
  c1 = c1
  c2 = c2
  general = general
  graphic = graphic
  Docs <- MCDocs
  Contents <- MCContents
  Cats <- MCCats
  Names <- OneName
  Sanitize <- MCSanitize
  NoData = NoData
  Garbage = Garbage
  Hosts <- AllHosts
  Grace = TRUE
  Faults = TRUE
  Rot = FALSE
  MaxVersions = 0
SYMMETRY Symmetry
INVARIANTS
  TombstoneFirst
  ScheduledStillActive
PROPERTIES
  OnlyWipesLoseContent
  ImplementsLifecycle
