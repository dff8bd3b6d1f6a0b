---------------------------- MODULE ScriptService ----------------------------
(***************************************************************************)
(* What the application sees of Script::create and of its ScriptRefs: an   *)
(* assignment  v = Script::create( ... )  either happens at once and with  *)
(* a script whose main has run, or does not happen at all and leaves v the *)
(* script it had.  A script is created once and never comes back.          *)
(***************************************************************************)
CONSTANTS Script, Slot, NoScript

VARIABLES
  held,   \* what each ScriptRef refers to
  phase,  \* how far each script has come
  alive   \* has the process not aborted?

vars == <<held, phase, alive>>

Init ==
  /\ held = [v \in Slot |-> NoScript]
  /\ phase = [s \in Script |-> "new"]
  /\ alive = TRUE

\* The script's main runs to its end.
RunMain(s) ==
  /\ alive
  /\ phase[s] = "new"
  /\ phase' = [phase EXCEPT ![s] = "ran"]
  /\ UNCHANGED <<held, alive>>

\* create returns, and what v held before is destroyed.
Assign(v, s) ==
  /\ alive
  /\ phase[s] = "ran"
  /\ held' = [held EXCEPT ![v] = s]
  /\ phase' = [x \in Script |->
                 IF x = s THEN "held" ELSE IF x = held[v] THEN "gone" ELSE phase[x]]
  /\ UNCHANGED alive

\* create throws, which it does no more once main has run.
Fail(s) ==
  /\ alive
  /\ phase[s] = "new"
  /\ phase' = [phase EXCEPT ![s] = "gone"]
  /\ UNCHANGED <<held, alive>>

Reset(v) ==
  /\ alive
  /\ held[v] # NoScript
  /\ held' = [held EXCEPT ![v] = NoScript]
  /\ phase' = [phase EXCEPT ![held[v]] = "gone"]
  /\ UNCHANGED alive

Crash ==
  /\ alive
  /\ alive' = FALSE
  /\ UNCHANGED <<held, phase>>

Next ==
  \/ \E s \in Script : RunMain(s) \/ Fail(s) \/ \E v \in Slot : Assign(v, s)
  \/ \E v \in Slot : Reset(v)
  \/ Crash

Spec == Init /\ [][Next]_vars

=============================================================================
