\* Up to three invokes inside each other, in Release and Debug builds.
SPECIFICATION Spec
CONSTANTS
  Names <- MCNames
  Keys <- MCKeys
  MaxDepth = 7
INVARIANTS
  TypeOK
  ScopesMatchFrames
  ExceptionsFindTheirCode
PROPERTIES
  ThrowReturnsToHandlersOnly
  ImplementsNesting
CHECK_DEADLOCK FALSE
