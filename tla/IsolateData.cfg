\* The Script that is the data of an isolate is freed.
SPECIFICATION Spec
CONSTANTS
  Script = {s1, s2}
  Slot = {mScript}
  NoScript = NoScript
  NoSlot = NoSlot
  Asserts = FALSE
INVARIANTS
  IsolateDataConsistent
CHECK_DEADLOCK FALSE
