\* A script is created while the isolate of another is current.
SPECIFICATION Spec
CONSTANTS
  Script = {s1, s2}
  Slot = {mScript}
  NoScript = NoScript
  NoSlot = NoSlot
  Asserts = FALSE
PROPERTIES
  IsolateCreatedWithNoneCurrent
CHECK_DEADLOCK FALSE
