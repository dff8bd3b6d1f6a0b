\* Release builds of all the applications, and of any application at all.
SPECIFICATION FairAppSpec
CONSTANTS
  Script = {s1, s2, s3}
  mScript = mScript
  sScript = sScript
  Slot = {mScript, sScript}
  NoScript = NoScript
  NoSlot = NoSlot
  Asserts = FALSE
  DartKeys = {"radius", "segments", "color", "fruit", "number"}
  MaxRects = 2
INVARIANTS
  SubmittedArrives
  CallbacksMeetTheirScript
  HeldScriptsAreReady
  NewestScriptAnswers
PROPERTIES
  EventsAreHandled
  ConstructionEnds
CHECK_DEADLOCK FALSE
