------------------------- MODULE MCScriptLifecycle -------------------------
(* Instances of ScriptLifecycle for TLC: scripts are interchangeable, and so *)
(* are the ScriptRef variables.                                              *)
EXTENDS ScriptLifecycle, TLC

Symmetry == Permutations(Script) \cup Permutations(Slot)
=============================================================================
