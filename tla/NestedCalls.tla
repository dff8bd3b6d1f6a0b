----------------------------- MODULE NestedCalls -----------------------------
(***************************************************************************)
(* What C++ code may count on when it calls Dart code that calls it back: *)
(* the calls of one thread are nested.  Each waits for the Dart code it    *)
(* invoked until that is done with, with all it called, and then goes on   *)
(* from there, with a result or with a DartException; none is jumped over. *)
(* Its handles are good from its first to its last moment, no longer.     *)
(***************************************************************************)
EXTENDS Integers

CONSTANT Level   \* numbers: how deep a call is inside others

VARIABLES
  call,    \* of each level: what the C++ function there is doing, if there is one
  scoped,  \* the levels whose handles are good
  alive    \* has the process not ended?

vars == <<call, scoped, alive>>

Init ==
  /\ call = [n \in Level |-> "none"]
  /\ scoped = {}
  /\ alive = TRUE

\* One call does something else now, and nothing runs inside it.
Step(n, from, to) ==
  /\ alive
  /\ call[n] \in from
  /\ \A m \in Level : m > n => call[m] = "none"
  /\ call' = [call EXCEPT ![n] = to]
  /\ UNCHANGED alive

\* A handler or a native begins, as the library's code or as the application's.
Begin(n) ==
  /\ \A m \in Level : m < n => call[m] \in {"none", "waiting"}
  /\ Step(n, {"none"}, "library") \/ Step(n, {"none"}, "active")
  /\ scoped' = scoped \cup {n}

\* The library hands on to a callback of the application.
Dispatch(n) == Step(n, {"library"}, "active") /\ UNCHANGED scoped

Invoke(n) == Step(n, {"active"}, "waiting") /\ UNCHANGED scoped

\* What was invoked has returned, or was left by an exception.
ComeBack(n) ==
  /\ Step(n, {"waiting"}, "active") \/ Step(n, {"waiting"}, "raised")
  /\ UNCHANGED scoped

\* There was nothing to invoke.
Raise(n) == Step(n, {"active"}, "raised") /\ UNCHANGED scoped

Catch(n) == Step(n, {"raised"}, "active") /\ UNCHANGED scoped

\* It returns, or throws into the Dart code that called it.  A DartException leaves
\* only where there is no such code.
Leave(n) ==
  /\ \/ Step(n, {"library", "active"}, "none")
     \/ Step(n, {"raised"}, "none") /\ \A m \in Level : m < n => call[m] = "none"
  /\ scoped' = scoped \ {n}

Crash ==
  /\ alive
  /\ alive' = FALSE
  /\ UNCHANGED <<call, scoped>>

Next ==
  \/ \E n \in Level : \/ Begin(n) \/ Dispatch(n) \/ Invoke(n) \/ ComeBack(n)
                      \/ Raise(n) \/ Catch(n) \/ Leave(n)
  \/ Crash

Spec == Init /\ [][Next]_vars

=============================================================================
