--------------------------- MODULE ScriptLifecycle ---------------------------
(***************************************************************************)
(* The life of the cidart::Script objects of one application and of the   *)
(* Dart isolates they create: Script::create with every way it can end,   *)
(* Script::invoke called from an event handler, and the release of a      *)
(* ScriptRef.  Everything happens on the application's main thread, so    *)
(* one call is in progress at a time; what is hard is the order of the    *)
(* calls and the many exits of Script::init.                              *)
(*                                                                         *)
(* An isolate is named by the Script whose init created it: that pointer  *)
(* is the isolate's callback data.  Nothing in the code ever enters an    *)
(* existing isolate or shuts one down.                                    *)
(***************************************************************************)
EXTENDS Naturals

CONSTANTS
  Script,    \* the Script objects the application ever allocates
  Slot,      \* the application's ScriptRef variables, e.g. mScript and sScript
  NoScript,  \* the null ScriptRef, and the absence of a current isolate
  NoSlot,    \* no assignment is pending
  Asserts    \* TRUE in a Debug build, where CI_ASSERT aborts; FALSE in Release

ASSUME ConstantsAssumption ==
  /\ NoScript \notin Script
  /\ NoSlot \notin Slot
  /\ Asserts \in BOOLEAN

VARIABLES
  vm,       \* how far VM::VM has come
  object,   \* memory of each Script object
  slot,     \* what each ScriptRef variable holds
  isolate,  \* the scripts whose isolate was created
  current,  \* the isolate the Dart VM has as current
  newest,   \* the script for which Dart_CreateIsolate was last called (history)
  library,  \* the root library of each script's isolate
  scope,    \* number of Dart API scopes open in each isolate
  step,     \* where the call in progress stands
  self,     \* the `this' of the call in progress
  target,   \* the ScriptRef the result of create is going to be assigned to
  scoped,   \* is the DartScope object of the call in progress alive?
  result    \* how the last Script::create ended (history)

vars == <<vm, object, slot, isolate, current, newest, library, scope,
          step, self, target, scoped, result>>

\* What a step of Script::init that only decides how to go on leaves alone.
vmVars     == <<vm, isolate, current, newest, library, scope>>
memoryVars == <<object, slot>>
callVars   == <<self, target>>

\* The steps of Script::init that run with its DartScope alive.
ScopedSteps == {"loadCinder", "loadSource", "loadScript", "finalize", "runMain", "inMain", "return"}
CreateSteps == {"checkPath", "createIsolate", "setHandler", "unwind"} \cup ScopedSteps
InvokeSteps == {"invoke", "inDart", "leaving"}

TypeOK ==
  /\ vm \in {"absent", "flagged", "started"}
  /\ object \in [Script -> {"unallocated", "constructing", "complete", "freed"}]
  /\ slot \in [Slot -> Script \cup {NoScript}]
  /\ isolate \in SUBSET Script
  /\ current \in Script \cup {NoScript}
  /\ newest \in Script \cup {NoScript}
  /\ library \in [Script -> {"none", "failed", "loaded", "ran"}]
  /\ scope \in [Script -> Nat]
  /\ step \in {"idle", "aborted"} \cup CreateSteps \cup InvokeSteps
  /\ self \in Script \cup {NoScript}
  /\ target \in Slot \cup {NoSlot}
  /\ scoped \in BOOLEAN
  /\ result \in {"none", "returned", "DartException", "StreamExc", "aborted"}

Init ==
  /\ vm = "absent"
  /\ object = [s \in Script |-> "unallocated"]
  /\ slot = [v \in Slot |-> NoScript]
  /\ isolate = {}
  /\ current = NoScript
  /\ newest = NoScript
  /\ library = [s \in Script |-> "none"]
  /\ scope = [s \in Script |-> 0]
  /\ step = "idle"
  /\ self = NoScript
  /\ target = NoSlot
  /\ scoped = FALSE
  /\ result = "none"

-----------------------------------------------------------------------------
(* How a step of Script::init hands over to what follows. *)

Goto(next) == step' = next /\ UNCHANGED <<scoped, result>>

\* A C++ exception leaves init: the stack unwinds, see Unwind.
Throw(exception) == step' = "unwind" /\ result' = exception /\ UNCHANGED scoped

\* The process ends, as CI_ASSERT( 0 ) does it in a Debug build.
Abort == step' = "aborted" /\ result' = "aborted" /\ UNCHANGED scoped

\* CIDART_CHECK on an error handle: the error is logged, and asserted against
\* in a Debug build only; a Release build carries on.
CheckedError(next) == IF Asserts THEN Abort ELSE Goto(next)

\* MUTANT: a DartScope without its destructor.
ExitScopeMissing == UNCHANGED scope

\* MUTANT: Dart_ExitScope called by hand as well as by the destructor.
ExitScopeTwice == scope' = [scope EXCEPT ![current] = @ - 2]

\* The DartScope constructor and destructor act on whichever isolate is current.
EnterScope(i) == scope' = [scope EXCEPT ![i] = @ + 1]
ExitScope     == scope' = [scope EXCEPT ![current] = @ - 1]

-----------------------------------------------------------------------------
(* VM::VM, in whichever call uses VM::instance first: a setter that the *)
(* application calls, or createIsolateCallback.                         *)

\* The flags are constants of the code, and the VM takes them.
SetVMFlags ==
  /\ step \in {"idle", "createIsolate"}
  /\ vm = "absent"
  /\ vm' = "flagged"
  /\ UNCHANGED <<memoryVars, isolate, current, newest, library, scope, step, callVars,
                 scoped, result>>

\* The instance is made once, so that the VM was not initialised before.
InitializeVM ==
  /\ vm = "flagged"
  /\ vm' = "started"
  /\ UNCHANGED <<memoryVars, isolate, current, newest, library, scope, step, callVars,
                 scoped, result>>

-----------------------------------------------------------------------------
(* Script::create *)

\* The application evaluates  v = Script::create( path, options ).
Create(v, s) ==
  /\ step = "idle"
  /\ object[s] = "unallocated"
  /\ object' = [object EXCEPT ![s] = "constructing"]
  /\ step' = "checkPath"
  /\ self' = s
  /\ target' = v
  /\ UNCHANGED <<slot, scoped, result, vmVars>>

\* The path of the script must name an existing regular file.
CheckPath ==
  /\ step = "checkPath"
  /\ Throw("DartException") \/ Goto("createIsolate")
  /\ UNCHANGED <<memoryVars, vmVars, callVars>>

\* Reading the snapshot data source throws out of createIsolateCallback.
SnapshotUnreadable ==
  /\ step = "createIsolate"
  /\ vm = "started"
  /\ Throw("StreamExc")
  /\ UNCHANGED <<memoryVars, vmVars, callVars>>

\* Dart_CreateIsolate answers NULL; the API leaves open whether an isolate that
\* was current before the call still is.
IsolateRefused ==
  /\ step = "createIsolate"
  /\ vm = "started"
  /\ newest' = self
  /\ current' \in {current, NoScript}
  /\ Throw("DartException")
  /\ UNCHANGED <<memoryVars, vm, isolate, library, scope, callVars>>

\* The new isolate becomes current whatever was current before.
IsolateCreated ==
  /\ step = "createIsolate"
  /\ vm = "started"
  /\ newest' = self
  /\ isolate' = isolate \cup {self}
  /\ current' = self
  /\ Goto("setHandler")
  /\ UNCHANGED <<vm, memoryVars, library, scope, callVars>>

\* Dart_SetLibraryTagHandler, under a CIDART_CHECK.  The DartScope it is called in
\* is left when createIsolateCallback returns; then init enters its own.
SetTagHandler ==
  /\ step = "setHandler"
  /\ EnterScope(self)
  /\ scoped' = TRUE
  /\ \/ step' = "loadCinder" /\ UNCHANGED result
     \/ Asserts /\ step' = "aborted" /\ result' = "aborted"
  /\ UNCHANGED <<memoryVars, vm, isolate, current, newest, library, callVars>>

\* VM::loadCinderDartLib: no cinder.dart or one that does not load, a data
\* source that cannot be read, an error some CIDART_CHECK logs, or success.
LoadCinderLib ==
  /\ step = "loadCinder"
  /\ \/ Throw("DartException")
     \/ Throw("StreamExc")
     \/ CheckedError("loadSource")
     \/ Goto("loadSource")
  /\ UNCHANGED <<memoryVars, vmVars, callVars>>

\* Script::loadSourceImpl turns a StreamExc into a DartException.
LoadSource ==
  /\ step = "loadSource"
  /\ Throw("DartException") \/ Goto("loadScript")
  /\ UNCHANGED <<memoryVars, vmVars, callVars>>

ScriptLoaded ==
  /\ step = "loadScript"
  /\ library' = [library EXCEPT ![self] = "loaded"]
  /\ Goto("finalize")
  /\ UNCHANGED <<memoryVars, vm, isolate, current, newest, scope, callVars>>

\* The source is not a valid string or does not compile.  throwIfError calls
\* Dart_ThrowException, which needs Dart frames on the stack and here finds
\* none: it answers an error, which CIDART_CHECK treats as any other.
ScriptRejected ==
  /\ step = "loadScript"
  /\ library' = [library EXCEPT ![self] = "failed"]
  /\ CheckedError("finalize")
  /\ UNCHANGED <<memoryVars, vm, isolate, current, newest, scope, callVars>>

\* The library tag handler throws a DartException through Dart_LoadScript, that
\* is through a VM not built for exceptions: it arrives or ends the process.
ImportThrows ==
  /\ step = "loadScript"
  /\ library' = [library EXCEPT ![self] = "failed"]
  /\ Throw("DartException") \/ Abort
  /\ UNCHANGED <<memoryVars, vm, isolate, current, newest, scope, callVars>>

\* Dart_SetNativeResolver and Dart_FinalizeLoading, each under CIDART_CHECK.
FinalizeLoading ==
  /\ step = "finalize"
  /\ Goto("runMain") \/ CheckedError("runMain")
  /\ UNCHANGED <<memoryVars, vmVars, callVars>>

\* invoke( "main" ) calls Dart_Invoke on whatever root library there is.
RunMain ==
  /\ step = "runMain"
  /\ Goto("inMain")
  /\ UNCHANGED <<memoryVars, vmVars, callVars>>

\* Only a library that did load has a main to run.
MainReturns ==
  /\ step = "inMain"
  /\ library[self] = "loaded"
  /\ library' = [library EXCEPT ![self] = "ran"]
  /\ Goto("return")
  /\ UNCHANGED <<memoryVars, vm, isolate, current, newest, scope, callVars>>

\* MUTANT: init ignores the error handle of invoke( "main" ).
MainErrorIgnored ==
  /\ step = "inMain"
  /\ Goto("return")
  /\ UNCHANGED <<memoryVars, vmVars, callVars>>

\* Dart_Invoke answers an error: main is missing, the library did not load, or
\* an exception went unhandled in main.
MainFails ==
  /\ step = "inMain"
  /\ Throw("DartException")
  /\ UNCHANGED <<memoryVars, vmVars, callVars>>

\* init leaves its DartScope, the ScriptRef is assigned, and the Script the
\* variable held before is destroyed; its destructor does not touch the isolate.
CreateReturns ==
  /\ step = "return"
  /\ ExitScope
  /\ object' = [s \in Script |-> IF s = self THEN "complete"
                                 ELSE IF s = slot[target] THEN "freed" ELSE object[s]]
  /\ slot' = [slot EXCEPT ![target] = self]
  /\ step' = "idle"
  /\ self' = NoScript
  /\ target' = NoSlot
  /\ scoped' = FALSE
  /\ result' = "returned"
  /\ UNCHANGED <<vm, isolate, current, newest, library>>

\* MUTANT: the memory of a Script whose constructor throws is not freed.
UnwindLeaks ==
  /\ step = "unwind"
  /\ IF scoped THEN ExitScope ELSE UNCHANGED scope
  /\ step' = "idle"
  /\ self' = NoScript
  /\ target' = NoSlot
  /\ scoped' = FALSE
  /\ UNCHANGED <<memoryVars, vm, isolate, current, newest, library, result>>

\* MUTANT: a create that fails takes the script the variable had with it.
UnwindClears ==
  /\ step = "unwind"
  /\ IF scoped THEN ExitScope ELSE UNCHANGED scope
  /\ object' = [s \in Script |-> IF s \in {self, slot[target]} THEN "freed" ELSE object[s]]
  /\ slot' = [slot EXCEPT ![target] = NoScript]
  /\ step' = "idle"
  /\ self' = NoScript
  /\ target' = NoSlot
  /\ scoped' = FALSE
  /\ UNCHANGED <<vm, isolate, current, newest, library, result>>

\* MUTANT: Dart_ExitScope called by hand wherever init is left by an exception.
UnwindExitsAlways ==
  /\ step = "unwind"
  /\ ExitScope
  /\ object' = [object EXCEPT ![self] = "freed"]
  /\ step' = "idle"
  /\ self' = NoScript
  /\ target' = NoSlot
  /\ scoped' = FALSE
  /\ UNCHANGED <<vm, slot, isolate, current, newest, library, result>>

\* The exception passes the DartScope, if init got that far, and ends the
\* constructor, so that operator new's memory is freed; the application's catch
\* block logs it and no assignment happens.
Unwind ==
  /\ step = "unwind"
  /\ IF scoped THEN ExitScope ELSE UNCHANGED scope
  /\ object' = [object EXCEPT ![self] = "freed"]
  /\ step' = "idle"
  /\ self' = NoScript
  /\ target' = NoSlot
  /\ scoped' = FALSE
  /\ UNCHANGED <<vm, slot, isolate, current, newest, library, result>>

-----------------------------------------------------------------------------
(* Script::invoke from an event handler, and the end of a ScriptRef *)

\* The handler enters a DartScope, whatever isolate is current, and then calls
\* v->invoke( ... ).  With no isolate current Dart_EnterScope ends the process.
BeginInvoke(v) ==
  /\ step = "idle"
  /\ \/ /\ current # NoScript
        /\ EnterScope(current)
        /\ self' = slot[v]
        /\ scoped' = TRUE
        /\ step' = "invoke"
     \/ /\ current = NoScript
        /\ step' = "aborted"
        /\ UNCHANGED <<scope, self, scoped>>
  /\ UNCHANGED <<memoryVars, vm, isolate, current, newest, library, target, result>>

\* invoke through a null ScriptRef is undefined: as it uses no member of the
\* Script it may well run like any other call, or end the process.
InvokeCrashes ==
  /\ step = "invoke"
  /\ self = NoScript
  /\ step' = "aborted"
  /\ UNCHANGED <<memoryVars, vmVars, callVars, scoped, result>>

\* Dart_RootLibrary answers null where no script has been set: an isolate that
\* never got to its script has none, one whose script failed to load may have one.
RootMayBeNull  == library[current] \in {"none", "failed"}
RootMayBeThere == library[current] # "none"

\* CI_ASSERT( ! Dart_IsNull( library ) )
InvokeAsserts ==
  /\ step = "invoke"
  /\ Asserts
  /\ RootMayBeNull
  /\ step' = "aborted"
  /\ UNCHANGED <<memoryVars, vmVars, callVars, scoped, result>>

\* Dart_Invoke is called on the root library of the current isolate, if it has one,
\* on null or on a library that failed to load otherwise.
CallFunction ==
  /\ step = "invoke"
  /\ Asserts => RootMayBeThere
  /\ Goto("inDart")
  /\ UNCHANGED <<memoryVars, vmVars, callVars>>

\* Dart code runs in the isolate that is current.
FunctionRuns ==
  /\ step \in {"inMain", "inDart"}
  /\ library[current] \in {"loaded", "ran"}

\* The function returns; or Dart_Invoke answers an error, because the function is
\* missing, or the library, or an exception went unhandled in it, and invoke throws.
EndInvoke ==
  /\ step = "inDart"
  /\ Goto("leaving")
  /\ UNCHANGED <<memoryVars, vmVars, callVars>>

\* The handler's DartScope is left, by the exception if there is one.
LeaveInvoke ==
  /\ step = "leaving"
  /\ ExitScope
  /\ step' = "idle"
  /\ self' = NoScript
  /\ scoped' = FALSE
  /\ UNCHANGED <<memoryVars, vm, isolate, current, newest, library, target, result>>

\* A native of the library that main or the function calls fails a CIDART_CHECK,
\* and the process ends in a Debug build.
NativeAsserts ==
  /\ Asserts
  /\ FunctionRuns
  /\ step' = "aborted"
  /\ UNCHANGED <<memoryVars, vmVars, callVars, scoped, result>>

\* MUTANT: a destructor that calls Dart_ShutdownIsolate, which acts on the
\* current isolate and not on that of the script.
ReleaseShutsDown(v) ==
  /\ step = "idle"
  /\ slot[v] # NoScript
  /\ object' = [object EXCEPT ![slot[v]] = "freed"]
  /\ slot' = [slot EXCEPT ![v] = NoScript]
  /\ current' = NoScript
  /\ UNCHANGED <<vm, isolate, newest, library, scope, step, callVars, scoped, result>>

\* v.reset(): the implicit destructor frees the object and nothing else.
Release(v) ==
  /\ step = "idle"
  /\ slot[v] # NoScript
  /\ object' = [object EXCEPT ![slot[v]] = "freed"]
  /\ slot' = [slot EXCEPT ![v] = NoScript]
  /\ UNCHANGED <<vmVars, step, callVars, scoped, result>>

-----------------------------------------------------------------------------

\* What the application decides to do.
AppStep ==
  /\ vm # "flagged"
  /\ \/ step = "idle" /\ SetVMFlags
     \/ \E v \in Slot :
          \/ \E s \in Script : Create(v, s)
          \/ BeginInvoke(v)
          \/ Release(v)

\* What the library and the Dart VM do once called.
LibraryStep ==
  \/ step = "createIsolate" /\ SetVMFlags
  \/ InitializeVM
  \/ CheckPath
  \/ SnapshotUnreadable \/ IsolateRefused \/ IsolateCreated \/ SetTagHandler
  \/ LoadCinderLib \/ LoadSource
  \/ ScriptLoaded \/ ScriptRejected \/ ImportThrows
  \/ FinalizeLoading
  \/ RunMain \/ MainReturns \/ MainFails
  \/ CreateReturns \/ Unwind
  \/ InvokeCrashes \/ InvokeAsserts \/ CallFunction \/ EndInvoke \/ LeaveInvoke
  \/ NativeAsserts

Next == AppStep \/ LibraryStep

Spec == Init /\ [][Next]_vars

\* A call that has begun goes on: it is straight-line code, and the Dart code it
\* runs is assumed to come to an end.
FairSpec == Spec /\ WF_vars(LibraryStep)

-----------------------------------------------------------------------------
(* Properties *)

\* Between calls no isolate has an API scope left open: whichever of its exits
\* Script::init took, and whatever isolate was made current under way, the
\* Dart_ExitScope of ~DartScope met the isolate its Dart_EnterScope had entered.
ScopesBalanced == step = "idle" => \A s \in Script : scope[s] = 0

\* A ScriptRef the application holds refers to a live object whose library
\* loaded and whose main ran to its end.  The errors CIDART_CHECK only logs in a
\* Release build must not let a half-loaded script escape from create.
HeldScriptsAreReady ==
  \A v \in Slot : slot[v] # NoScript =>
    /\ object[slot[v]] = "complete"
    /\ slot[v] \in isolate
    /\ library[slot[v]] = "ran"

\* If the script created last is held, its isolate is the current one, so that
\* invoke, which uses whatever is current, reaches it: nothing that happens
\* after Dart_CreateIsolate, the destruction of the script it replaces
\* included, may take the current isolate away.
NewestScriptIsCurrent ==
  \A v \in Slot : slot[v] # NoScript /\ slot[v] = newest => current = newest

\* No error path strands a half-built Script: each construction is completed,
\* undone, or ends the process.
ConstructionEnds ==
  \A s \in Script :
    object[s] = "constructing" ~> (object[s] \in {"complete", "freed"} \/ step = "aborted")

\* What the application is promised: create is all or nothing.  Whichever of its
\* exits init takes, the variable keeps its old script or gets a new one whose
\* main has run, and nothing goes wrong in between once main has run.
Phase(s) ==
  IF object[s] = "freed" THEN "gone"
  ELSE IF object[s] = "complete" THEN "held"
  ELSE IF library[s] = "ran" THEN "ran" ELSE "new"

Service ==
  INSTANCE ScriptService WITH
    held <- slot, phase <- [s \in Script |-> Phase(s)], alive <- (step # "aborted")

ImplementsService == Service!Spec

\* What the Dart VM is promised: each call of its API, in whatever order handlers
\* and exits bring them about, meets the state that dart_api.h asks for, but for
\* the three that DartIsolates names, of which one comes from a handler: it may
\* enter a scope with no isolate current, and that is the last call it makes.
\* Otherwise a scope is only entered with an isolate current, only left where it
\* was entered and after the Dart code in it came to its end, no function runs
\* before the script is loaded and finalized, and the VM is initialised, with its
\* flags, before anything else is asked of it.
Root(s) ==
  IF library[s] = "loaded" /\ s = self /\ step = "finalize" THEN "loaded"
  ELSE IF library[s] \in {"loaded", "ran"} THEN "finalized" ELSE library[s]

Isolates ==
  INSTANCE DartIsolates WITH
    Isolate <- Script, None <- NoScript, created <- isolate, scopes <- scope,
    root <- [s \in Script |-> Root(s)],
    running <- IF step \in {"inMain", "inDart"} THEN current ELSE NoScript,
    fatal <- step = "aborted" /\ current = NoScript

KeepsDartContract == Isolates!Spec

(* Claims of the documentation that the code does not keep. *)

\* Script.h: "Invokes the function functionName within the script."
InvokeRunsInReceiver == step = "inDart" /\ FunctionRuns /\ self # NoScript => current = self

\* dart_api.h on Dart_CreateIsolate: "Requires there to be no current isolate."
IsolateCreatedWithNoneCurrent == [][isolate' # isolate => current = NoScript]_vars

\* Script.h: "When an error occurs before a script is loaded, a
\* cidart::DartException is thrown."
LoadErrorsAreDartExceptions == result \in {"none", "returned", "DartException"}

\* dart_api.h on Dart_IsolateData: "The embedder is responsible for ensuring the
\* consistency of this data with respect to the lifecycle of an Isolate."  While
\* Dart code runs, its natives take the data of its isolate for a live Script.
IsolateDataConsistent == step = "inDart" /\ FunctionRuns => object[current] = "complete"

=============================================================================
