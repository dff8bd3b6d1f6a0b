\* A Release build: every file system of MCDisks, with fairness.
SPECIFICATION FairSpec
CONSTANTS
  Segment <- MCSegments
  Disks <- MCDisks
  SearchPaths <- MCSearchPaths
  MainScript <- Main
  Package = "package:"
  CinderUrl <- Cinder
  Asserts = FALSE
INVARIANTS
  TypeOK
  SuccessIsComplete
  ImportedMatchesLoaded
  PackagePartsBesideLibrary
  NearestFileWins
  NoReentry
  OutcomeIsThatOfTheFiles
PROPERTIES
  LoadEnds
  ImplementsGraph
CHECK_DEADLOCK FALSE
