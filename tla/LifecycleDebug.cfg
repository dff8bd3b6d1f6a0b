\* A Debug build: four scripts over two ScriptRef variables.
SPECIFICATION Spec
CONSTANTS
  Script = {s1, s2, s3, s4}
  Slot = {mScript, sScript}
  NoScript = NoScript
  NoSlot = NoSlot
  Asserts = TRUE
SYMMETRY Symmetry
INVARIANTS
  TypeOK
  ScopesBalanced
  HeldScriptsAreReady
  NewestScriptIsCurrent
PROPERTIES
  ImplementsService
  KeepsDartContract
CHECK_DEADLOCK FALSE
