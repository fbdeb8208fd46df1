SPECIFICATION Spec
CONSTANTS
  k1 = k1
  k2 = k2
  c1 = c1
  p1 = p1
  p2 = p2
  s1 = s1
  s2 = s2
  Conns <- OneConn
  Contents <- OneContent
  Paths <- OnePath
  Subs <- TwoSubs
  Cleaning = FALSE
  Faults = FALSE
INVARIANT
  PendingKeepsItsFile
