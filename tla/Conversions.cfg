\* Every type from every object, in Debug and Release, in callbacks and handlers;
\* integers of 4 bits for int, of 6 bits for int64_t.
SPECIFICATION Spec
CONSTANTS
  IntHalf = 8
  LongHalf = 32
  Types <- MCTypes
  Handles <- MCHandles
INVARIANTS
  TypeOK
  AllOrNothing
  NumbersAreRight
  CinderObjectsConvert
  LevelsAgree
  DebugNeverGuesses
CHECK_DEADLOCK FALSE
