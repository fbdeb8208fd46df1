SPECIFICATION Spec
CONSTANTS
  d1 = d1
  d2 = d2
  c1 = c1
  c2 = c2
  general = general
  graphic = graphic
  Docs <- MCDocs
  Contents <- MCContents
  Cats <- MCCats
  Names <- TwoNames
  Sanitize <- MCSanitize
  NoData = NoData
  Garbage = Garbage
  Hosts <- AllHosts
  Grace = FALSE
  Faults = FALSE
  Rot = FALSE
  MaxVersions = 2
SYMMETRY Symmetry
INVARIANTS
  TypeOK
  PathsUnique
  FilesMatchRecords
  VersionsMatchCopies
