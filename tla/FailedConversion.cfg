\* Conversions that fail.
SPECIFICATION Spec
CONSTANTS
  IntHalf = 8
  LongHalf = 32
  Types <- MCTypes
  Handles <- MCHandles
INVARIANTS
  ErrorsGiveDefaults
CHECK_DEADLOCK FALSE
