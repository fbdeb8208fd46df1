SPECIFICATION Spec
CONSTANTS
  k1 = k1
  k2 = k2
  c1 = c1
  p1 = p1
  p2 = p2
  s1 = s1
  s2 = s2
  Conns <- TwoConns
  Contents <- OneContent
  Paths <- TwoPaths
  Subs <- TwoSubs
  Cleaning = TRUE
  Faults = TRUE
SYMMETRY Symmetry
INVARIANTS
  TypeOK
  AdmittedIsCustodied
  OwnDocument
  ContentRegisteredOnce
  AckedIsSaved
PROPERTIES
  ImplementsDeliveries
