\* Two scripts of which the older one is invoked.
SPECIFICATION Spec
CONSTANTS
  Script = {s1, s2}
  Slot = {mScript, sScript}
  NoScript = NoScript
  NoSlot = NoSlot
  Asserts = FALSE
INVARIANTS
  InvokeRunsInReceiver
CHECK_DEADLOCK FALSE
