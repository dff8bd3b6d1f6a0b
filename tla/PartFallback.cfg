\* A part of a library that is being loaded.
SPECIFICATION Spec
CONSTANTS
  Segment <- MCSegments
  Disks <- MCDisks
  SearchPaths <- MCSearchPaths
  MainScript <- Main
  Package = "package:"
  CinderUrl <- Cinder
  Asserts = FALSE
INVARIANTS
  PartFallbackOnlyForMain
CHECK_DEADLOCK FALSE
