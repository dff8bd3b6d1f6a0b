\* The ways Script::create can fail, in a Debug build.
SPECIFICATION Spec
CONSTANTS
  Script = {s1, s2}
  Slot = {mScript}
  NoScript = NoScript
  NoSlot = NoSlot
  Asserts = TRUE
INVARIANTS
  LoadErrorsAreDartExceptions
CHECK_DEADLOCK FALSE
