---------------------------- MODULE DartIsolates ----------------------------
(***************************************************************************)
(* The part of the Dart embedding API that has a state, as its header      *)
(* describes it to a program that uses it from one thread: which isolates  *)
(* there are and which is current, the API scopes open in each, the root   *)
(* script of each, and whether a call of Dart_Invoke is in progress.  A    *)
(* guard is what the header requires of the caller.                        *)
(*                                                                         *)
(* Three calls that the header rules out are here nevertheless, with what  *)
(* comes of each, because the program makes them: Dart_CreateIsolate has   *)
(* no guard on the isolate that is current, and the actions of Misuse are  *)
(* the other two.                                                          *)
(***************************************************************************)
EXTENDS Naturals

CONSTANTS
  Isolate,  \* the isolates there may ever be
  None      \* no isolate

VARIABLES
  vm,       \* whether the VM has its flags, and is initialised
  created,  \* the isolates created so far
  current,  \* the isolate that is ready to execute on the thread
  scopes,   \* number of API scopes open in each isolate
  root,     \* how far the root script of each isolate is
  running,  \* the isolate of the call of Dart_Invoke in progress
  fatal     \* has a call ended the process?

vars == <<vm, created, current, scopes, root, running, fatal>>

Init ==
  /\ vm = "absent"
  /\ created = {}
  /\ current = None
  /\ scopes = [i \in Isolate |-> 0]
  /\ root = [i \in Isolate |-> "none"]
  /\ running = None
  /\ fatal = FALSE

\* "Should be called before Dart_Initialize."
Dart_SetVMFlags ==
  /\ vm # "started"
  /\ vm' = "flagged"
  /\ UNCHANGED <<created, current, scopes, root, running, fatal>>

\* Once initialised the VM is not initialised again; nothing but its version is to
\* be had before.
Dart_Initialize ==
  /\ vm # "started"
  /\ vm' = "started"
  /\ UNCHANGED <<created, current, scopes, root, running, fatal>>

\* The new isolate becomes the current isolate, whatever was current before: the
\* header requires that there be none, and the program does not see to it.
Dart_CreateIsolate(i) ==
  /\ vm = "started"
  /\ i \notin created
  /\ running = None
  /\ created' = created \cup {i}
  /\ current' = i
  /\ UNCHANGED <<vm, scopes, root, running, fatal>>

\* It answers NULL, and may have left the current isolate before.
Dart_CreateIsolateFails ==
  /\ vm = "started"
  /\ running = None
  /\ current' = None
  /\ UNCHANGED <<vm, created, scopes, root, running, fatal>>

Dart_EnterScope ==
  /\ current # None
  /\ scopes' = [scopes EXCEPT ![current] = @ + 1]
  /\ UNCHANGED <<vm, created, current, root, running, fatal>>

\* The scope that is left was entered in the isolate that is current, and the
\* handles in it are not those of a call in progress.
Dart_ExitScope ==
  /\ current # None
  /\ running = None
  /\ scopes[current] > 0
  /\ scopes' = [scopes EXCEPT ![current] = @ - 1]
  /\ UNCHANGED <<vm, created, current, root, running, fatal>>

\* Its arguments and its result are local handles: there is a scope for them.
HasScope == current # None /\ scopes[current] > 0

\* The root script is loaded once.
Dart_LoadScript ==
  /\ HasScope
  /\ root[current] = "none"
  /\ \E r \in {"loaded", "failed"} : root' = [root EXCEPT ![current] = r]
  /\ UNCHANGED <<vm, created, current, scopes, running, fatal>>

\* All outstanding load requests have been satisfied.
Dart_FinalizeLoading ==
  /\ HasScope
  /\ root[current] = "loaded"
  /\ root' = [root EXCEPT ![current] = "finalized"]
  /\ UNCHANGED <<vm, created, current, scopes, running, fatal>>

\* A function of the root library is called.
Dart_Invoke ==
  /\ HasScope
  /\ running = None
  /\ root[current] = "finalized"
  /\ running' = current
  /\ UNCHANGED <<vm, created, current, scopes, root, fatal>>

\* It answers, with a value or an error, or the process ends in it.
Dart_InvokeReturns ==
  /\ running # None
  /\ running = current
  /\ running' = None
  /\ UNCHANGED <<vm, created, current, scopes, root, fatal>>

\* "Requires there to be a current isolate": without one the process ends.
EnterScopeWithoutIsolate ==
  /\ current = None
  /\ fatal' = TRUE
  /\ UNCHANGED <<vm, created, current, scopes, root, running>>

\* "target An object, type, or library": the root script was never loaded, so that
\* there is null instead, or it failed to load.  No code runs; the answer is an error.
InvokeWithoutLibrary ==
  /\ HasScope
  /\ running = None
  /\ root[current] \in {"none", "failed"}
  /\ running' = current
  /\ UNCHANGED <<vm, created, current, scopes, root, fatal>>

Use ==
  \/ Dart_SetVMFlags \/ Dart_Initialize
  \/ \E i \in Isolate : Dart_CreateIsolate(i)
  \/ Dart_CreateIsolateFails
  \/ Dart_EnterScope \/ Dart_ExitScope
  \/ Dart_LoadScript \/ Dart_FinalizeLoading
  \/ Dart_Invoke \/ Dart_InvokeReturns

Misuse == EnterScopeWithoutIsolate \/ InvokeWithoutLibrary

\* A process that has ended calls nothing.
Next == ~ fatal /\ (Use \/ Misuse)

Spec == Init /\ [][Next]_vars

=============================================================================
