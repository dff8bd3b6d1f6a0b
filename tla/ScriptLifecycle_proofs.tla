----------------------- MODULE ScriptLifecycle_proofs -----------------------
(***************************************************************************)
(* Proofs of the safety properties of ScriptLifecycle, for any number of  *)
(* scripts and ScriptRef variables and for both kinds of build.  They all *)
(* follow from one inductive invariant, IInv.                             *)
(***************************************************************************)
EXTENDS ScriptLifecycle, TLAPS

\* The only scope that is ever open is the one of the DartScope that is alive,
\* and it is open in the isolate that is current.
ScopeInv ==
  /\ scoped => current \in Script
  /\ \A s \in Script : scope[s] = IF scoped /\ s = current THEN 1 ELSE 0

\* Where the call in progress has its DartScope and where it has none; on the
\* way out of init, and in a process that aborted, it may be either.
ScopedInv ==
  /\ step \in ScopedSteps \cup InvokeSteps => scoped
  /\ step \in {"idle", "checkPath", "createIsolate", "setHandler"} => ~ scoped

\* Script::create works on an object that it alone knows of.
CreateInv ==
  step \in CreateSteps =>
    /\ self \in Script
    /\ target \in Slot
    /\ object[self] = "constructing"

\* Once init has its isolate, that isolate stays the newest and the current one.
IsolateInv ==
  /\ step \in ScopedSteps \cup {"setHandler"} =>
       self \in isolate /\ newest = self /\ current = self
  /\ step = "return" => library[self] = "ran"

\* No two ScriptRefs share a script.
SlotInv ==
  \A v, w \in Slot : slot[v] = slot[w] /\ v # w => slot[v] = NoScript

IInv ==
  /\ TypeOK
  /\ ScopeInv
  /\ ScopedInv
  /\ CreateInv
  /\ IsolateInv
  /\ SlotInv
  /\ HeldScriptsAreReady
  /\ NewestScriptIsCurrent

-----------------------------------------------------------------------------

\* Before the first call nothing is allocated, open or held.
LEMMA InitIInv == Init => IInv
<1> SUFFICES ASSUME Init PROVE IInv
  OBVIOUS
<1> USE DEF Init
<1>1. TypeOK
  BY DEF TypeOK
<1>2. ScopeInv /\ ScopedInv
  BY DEF ScopeInv, ScopedInv, ScopedSteps, InvokeSteps
<1>3. CreateInv /\ IsolateInv
  BY DEF CreateInv, IsolateInv, CreateSteps, ScopedSteps
<1>4. SlotInv /\ HeldScriptsAreReady /\ NewestScriptIsCurrent
  BY DEF SlotInv, HeldScriptsAreReady, NewestScriptIsCurrent
<1> QED
  BY <1>1, <1>2, <1>3, <1>4 DEF IInv

\* Leaving the DartScope that is alive leaves no scope open in any isolate.
LEMMA ExitScopeClosesAll ==
  ASSUME TypeOK, ScopeInv, scoped, ExitScope
  PROVE  /\ scope' \in [Script -> Nat]
         /\ \A s \in Script : scope'[s] = 0
<1>1. current \in Script /\ scope[current] = 1
  BY DEF ScopeInv
<1>2. scope' = [scope EXCEPT ![current] = 0]
  BY <1>1 DEF ExitScope
<1> QED
  BY <1>1, <1>2 DEF TypeOK, ScopeInv

\* The first DartScope opens the only scope.
LEMMA EnterScopeOpensOne ==
  ASSUME TypeOK, ScopeInv, ~ scoped, NEW i \in Script, EnterScope(i)
  PROVE  /\ scope' \in [Script -> Nat]
         /\ \A s \in Script : scope'[s] = IF s = i THEN 1 ELSE 0
<1>1. \A s \in Script : scope[s] = 0
  BY DEF ScopeInv
<1> QED
  BY <1>1 DEF EnterScope, TypeOK

\* A step that only decides how the call in progress goes on, and stays within
\* its phase, leaves through an exception, or aborts.
OnlyControl ==
  /\ UNCHANGED <<memoryVars, vmVars, callVars, scoped>>
  /\ \/ step' = "aborted"
     \/ step \in CreateSteps /\ step' = "unwind"
     \/ step = "checkPath" /\ step' = "createIsolate"
     \/ step \in ScopedSteps /\ step' \in ScopedSteps \ {"return"}
     \/ step \in InvokeSteps /\ step' \in InvokeSteps
  /\ result' \in {result, "DartException", "StreamExc", "aborted"}

\* Such a step preserves the invariant, whatever it decides.
LEMMA OnlyControlIInv == ASSUME IInv, OnlyControl PROVE IInv'
<1> USE DEF IInv, OnlyControl, memoryVars, vmVars, callVars,
            CreateSteps, ScopedSteps, InvokeSteps
<1>1. TypeOK'
  BY DEF TypeOK
<1>2. ScopeInv' /\ SlotInv' /\ HeldScriptsAreReady' /\ NewestScriptIsCurrent'
  BY DEF ScopeInv, SlotInv, HeldScriptsAreReady, NewestScriptIsCurrent
<1>3. ScopedInv'
  BY DEF ScopedInv
<1>4. CreateInv' /\ IsolateInv'
  BY DEF CreateInv, IsolateInv
<1> QED
  BY <1>1, <1>2, <1>3, <1>4

\* The steps of init and invoke that are of this kind.
ControlStep ==
  \/ CheckPath \/ SnapshotUnreadable \/ LoadCinderLib \/ LoadSource
  \/ FinalizeLoading \/ RunMain \/ MainFails
  \/ InvokeCrashes \/ InvokeAsserts \/ CallFunction \/ EndInvoke \/ NativeAsserts

LEMMA ControlStepIInv == ASSUME IInv, ControlStep PROVE IInv'
<1> USE DEF Goto, Throw, Abort, CheckedError, CreateSteps, ScopedSteps, InvokeSteps
<1>1. CASE CheckPath \/ SnapshotUnreadable
  BY <1>1, OnlyControlIInv DEF CheckPath, SnapshotUnreadable, OnlyControl
<1>2. CASE LoadCinderLib \/ LoadSource
  BY <1>2, OnlyControlIInv DEF LoadCinderLib, LoadSource, OnlyControl
<1>3. CASE FinalizeLoading \/ RunMain \/ MainFails
  BY <1>3, OnlyControlIInv DEF FinalizeLoading, RunMain, MainFails, OnlyControl
<1>4. CASE InvokeCrashes \/ InvokeAsserts \/ CallFunction \/ EndInvoke
  BY <1>4, OnlyControlIInv DEF InvokeCrashes, InvokeAsserts, CallFunction, EndInvoke, OnlyControl
<1>5. CASE NativeAsserts
  BY <1>5, OnlyControlIInv DEF NativeAsserts, FunctionRuns, OnlyControl
<1> QED
  BY <1>1, <1>2, <1>3, <1>4, <1>5 DEF ControlStep

-----------------------------------------------------------------------------

\* The start of the VM leaves the scripts alone.
LEMMA StartVMIInv == ASSUME IInv, SetVMFlags \/ InitializeVM PROVE IInv'
<1>1. /\ UNCHANGED <<object, slot, isolate, current, newest, library, scope, step, self, target,
                     scoped, result>>
      /\ vm' \in {"flagged", "started"}
  BY DEF SetVMFlags, InitializeVM, memoryVars, callVars
<1> QED
  BY <1>1 DEF IInv, TypeOK, ScopeInv, ScopedInv, CreateInv, IsolateInv, SlotInv,
              HeldScriptsAreReady, NewestScriptIsCurrent

\* Create takes an object no ScriptRef can refer to yet.
LEMMA CreateIInv ==
  ASSUME NEW v \in Slot, NEW s \in Script, IInv, Create(v, s) PROVE IInv'
<1> USE DEF IInv, Create, vmVars
<1>1. TypeOK'
  BY DEF TypeOK, CreateSteps
<1>2. ScopeInv' /\ ScopedInv'
  BY DEF ScopeInv, ScopedInv, ScopedSteps, InvokeSteps
<1>3. CreateInv' /\ IsolateInv'
  BY DEF CreateInv, IsolateInv, ScopedSteps, TypeOK
<1>4. SlotInv' /\ NewestScriptIsCurrent'
  BY DEF SlotInv, NewestScriptIsCurrent
<1>5. HeldScriptsAreReady'
  BY DEF HeldScriptsAreReady, TypeOK
<1> QED
  BY <1>1, <1>2, <1>3, <1>4, <1>5

\* A refused isolate becomes the newest script's without becoming current; that
\* script is under construction, so no ScriptRef holds it.
LEMMA IsolateRefusedIInv == ASSUME IInv, IsolateRefused PROVE IInv'
<1> USE DEF IInv, IsolateRefused, memoryVars, callVars, Throw
<1>1. TypeOK'
  BY DEF TypeOK, CreateInv, CreateSteps
<1>2. ScopeInv' /\ ScopedInv'
  BY DEF ScopeInv, ScopedInv, ScopedSteps, InvokeSteps
<1>3. CreateInv' /\ IsolateInv'
  BY DEF CreateInv, IsolateInv, CreateSteps, ScopedSteps
<1>4. SlotInv' /\ HeldScriptsAreReady'
  BY DEF SlotInv, HeldScriptsAreReady
<1>5. NewestScriptIsCurrent'
  BY DEF NewestScriptIsCurrent, HeldScriptsAreReady, CreateInv, CreateSteps
<1> QED
  BY <1>1, <1>2, <1>3, <1>4, <1>5

\* A new isolate is current, without a scope as yet.
LEMMA IsolateCreatedIInv == ASSUME IInv, IsolateCreated PROVE IInv'
<1> USE DEF IInv, IsolateCreated, memoryVars, callVars, Goto
<1>1. self \in Script /\ object[self] = "constructing" /\ ~ scoped
  BY DEF CreateInv, CreateSteps, ScopedInv
<1>2. TypeOK'
  BY <1>1 DEF TypeOK, CreateSteps
<1>3. ScopeInv' /\ ScopedInv'
  BY <1>1 DEF ScopeInv, ScopedInv, ScopedSteps, InvokeSteps
<1>4. CreateInv' /\ IsolateInv'
  BY <1>1 DEF CreateInv, IsolateInv, CreateSteps, ScopedSteps
<1>5. SlotInv' /\ HeldScriptsAreReady' /\ NewestScriptIsCurrent'
  BY <1>1 DEF SlotInv, HeldScriptsAreReady, NewestScriptIsCurrent
<1> QED
  BY <1>2, <1>3, <1>4, <1>5

\* The new isolate is entered while no scope is open anywhere.
LEMMA SetTagHandlerIInv == ASSUME IInv, SetTagHandler PROVE IInv'
<1> USE DEF IInv, SetTagHandler, memoryVars, callVars
<1>1. /\ self \in Script /\ target \in Slot /\ object[self] = "constructing" /\ ~ scoped
      /\ self \in isolate /\ newest = self /\ current = self
  BY DEF CreateInv, CreateSteps, ScopedInv, IsolateInv
<1>2. /\ scope' \in [Script -> Nat]
      /\ \A s \in Script : scope'[s] = IF s = self THEN 1 ELSE 0
  BY <1>1, EnterScopeOpensOne
<1>3. TypeOK'
  BY <1>1, <1>2 DEF TypeOK, CreateSteps, ScopedSteps
<1>4. ScopeInv' /\ ScopedInv'
  BY <1>1, <1>2 DEF ScopeInv, ScopedInv
<1>5. CreateInv' /\ IsolateInv'
  BY <1>1 DEF CreateInv, IsolateInv
<1>6. SlotInv' /\ HeldScriptsAreReady' /\ NewestScriptIsCurrent'
  BY <1>1 DEF SlotInv, HeldScriptsAreReady, NewestScriptIsCurrent
<1> QED
  BY <1>3, <1>4, <1>5, <1>6

\* The steps that settle what became of the script's library.
LibraryResult == ScriptLoaded \/ ScriptRejected \/ ImportThrows \/ MainReturns

\* They change the library of the script under construction, which is not held.
LEMMA LibraryResultIInv == ASSUME IInv, LibraryResult PROVE IInv'
<1> USE DEF IInv, memoryVars, callVars, Goto, Throw, Abort, CheckedError,
            CreateSteps, ScopedSteps, InvokeSteps
<1>1. /\ UNCHANGED <<vm, memoryVars, isolate, current, newest, scope, callVars, scoped>>
      /\ step \in ScopedSteps
      /\ step' \in {"aborted", "unwind"} \cup ScopedSteps
      /\ \E lib \in {"failed", "loaded", "ran"} :
            /\ library' = [library EXCEPT ![self] = lib]
            /\ step' = "return" => lib = "ran"
      /\ result' \in {result, "DartException", "aborted"}
  BY DEF LibraryResult, ScriptLoaded, ScriptRejected, ImportThrows, MainReturns
<1>2. self \in Script /\ object[self] = "constructing"
  BY <1>1 DEF CreateInv
<1>3. TypeOK'
  <2>1. library' \in [Script -> {"none", "failed", "loaded", "ran"}]
    BY <1>1 DEF TypeOK
  <2>2. result' \in {"none", "returned", "DartException", "StreamExc", "aborted"}
    BY <1>1 DEF TypeOK
  <2> QED
    BY <1>1, <2>1, <2>2 DEF TypeOK
<1>4. ScopeInv' /\ ScopedInv' /\ SlotInv' /\ NewestScriptIsCurrent'
  BY <1>1 DEF ScopeInv, ScopedInv, SlotInv, NewestScriptIsCurrent
<1>5. CreateInv' /\ IsolateInv'
  BY <1>1, <1>2 DEF CreateInv, IsolateInv, TypeOK
<1>6. HeldScriptsAreReady'
  BY <1>1, <1>2 DEF HeldScriptsAreReady, TypeOK
<1> QED
  BY <1>3, <1>4, <1>5, <1>6

\* The assignment frees the script that the variable held and no other does; the
\* variable then holds a script that ran main in the isolate that is current.
LEMMA CreateReturnsIInv == ASSUME IInv, CreateReturns PROVE IInv'
<1> USE DEF IInv, CreateReturns
<1>1. /\ self \in Script /\ target \in Slot /\ object[self] = "constructing"
      /\ self \in isolate /\ library[self] = "ran"
      /\ newest = self /\ current = self /\ scoped
  BY DEF CreateInv, IsolateInv, ScopedInv, CreateSteps, ScopedSteps
<1>2. scope' \in [Script -> Nat] /\ \A s \in Script : scope'[s] = 0
  BY <1>1, ExitScopeClosesAll
<1>3. TypeOK'
  BY <1>1, <1>2 DEF TypeOK
<1>4. ScopeInv' /\ ScopedInv' /\ CreateInv' /\ IsolateInv'
  BY <1>2 DEF ScopeInv, ScopedInv, CreateInv, IsolateInv, ScopedSteps, CreateSteps, InvokeSteps
<1>5. \A v \in Slot : slot[v] # self
  BY <1>1, ConstantsAssumption DEF HeldScriptsAreReady
<1>6. SlotInv'
  BY <1>1, <1>5 DEF SlotInv, TypeOK
<1>7. HeldScriptsAreReady'
  BY <1>1, <1>5 DEF HeldScriptsAreReady, SlotInv, TypeOK
<1>8. NewestScriptIsCurrent'
  BY <1>1 DEF NewestScriptIsCurrent, TypeOK
<1> QED
  BY <1>3, <1>4, <1>6, <1>7, <1>8

\* An exception closes the scope if there is one, and frees an object that no
\* ScriptRef holds.
LEMMA UnwindIInv == ASSUME IInv, Unwind PROVE IInv'
<1> USE DEF IInv, Unwind
<1>1. self \in Script /\ object[self] = "constructing"
  BY DEF CreateInv, CreateSteps
<1>2. scope' \in [Script -> Nat] /\ \A s \in Script : scope'[s] = 0
  <2>1. CASE scoped
    BY <2>1, ExitScopeClosesAll
  <2>2. CASE ~ scoped
    BY <2>2 DEF ScopeInv, TypeOK
  <2> QED
    BY <2>1, <2>2
<1>3. TypeOK'
  BY <1>1, <1>2 DEF TypeOK
<1>4. ScopeInv' /\ ScopedInv' /\ CreateInv' /\ IsolateInv'
  BY <1>2 DEF ScopeInv, ScopedInv, CreateInv, IsolateInv, ScopedSteps, CreateSteps, InvokeSteps
<1>5. SlotInv' /\ NewestScriptIsCurrent'
  BY DEF SlotInv, NewestScriptIsCurrent
<1>6. HeldScriptsAreReady'
  BY <1>1 DEF HeldScriptsAreReady, TypeOK
<1> QED
  BY <1>3, <1>4, <1>5, <1>6

-----------------------------------------------------------------------------

\* A handler finds no isolate to enter.
LEMMA NoIsolateIInv ==
  ASSUME NEW v \in Slot, IInv, BeginInvoke(v), current = NoScript PROVE IInv'
BY OnlyControlIInv DEF BeginInvoke, OnlyControl, vmVars, callVars

\* A handler enters the current isolate, in which no scope is open.
LEMMA BeginInvokeIInv ==
  ASSUME NEW v \in Slot, IInv, BeginInvoke(v), current # NoScript PROVE IInv'
<1> USE DEF IInv, BeginInvoke, memoryVars
<1>1. current \in Script /\ ~ scoped
  BY DEF TypeOK, ScopedInv
<1>2. /\ scope' \in [Script -> Nat]
      /\ \A s \in Script : scope'[s] = IF s = current THEN 1 ELSE 0
  BY <1>1, EnterScopeOpensOne
<1>3. TypeOK'
  BY <1>2 DEF TypeOK, InvokeSteps
<1>4. ScopeInv' /\ ScopedInv'
  BY <1>1, <1>2 DEF ScopeInv, ScopedInv
<1>5. CreateInv' /\ IsolateInv'
  BY DEF CreateInv, IsolateInv, CreateSteps, ScopedSteps
<1>6. SlotInv' /\ HeldScriptsAreReady' /\ NewestScriptIsCurrent'
  BY DEF SlotInv, HeldScriptsAreReady, NewestScriptIsCurrent
<1> QED
  BY <1>3, <1>4, <1>5, <1>6

\* Both ways out of invoke leave the handler's DartScope.
LEMMA LeaveInvokeIInv == ASSUME IInv, LeaveInvoke PROVE IInv'
<1> USE DEF IInv, LeaveInvoke, memoryVars
<1>1. scoped
  BY DEF ScopedInv, InvokeSteps
<1>2. scope' \in [Script -> Nat] /\ \A s \in Script : scope'[s] = 0
  BY <1>1, ExitScopeClosesAll
<1>3. TypeOK'
  BY <1>1, <1>2 DEF TypeOK
<1>4. ScopeInv' /\ ScopedInv' /\ CreateInv' /\ IsolateInv'
  BY <1>1, <1>2 DEF ScopeInv, ScopedInv, CreateInv, IsolateInv, ScopedSteps, CreateSteps, InvokeSteps
<1>5. SlotInv' /\ HeldScriptsAreReady' /\ NewestScriptIsCurrent'
  BY <1>1 DEF SlotInv, HeldScriptsAreReady, NewestScriptIsCurrent
<1> QED
  BY <1>3, <1>4, <1>5

\* Letting go of a script frees it and takes nothing from the other ScriptRefs.
LEMMA ReleaseIInv ==
  ASSUME NEW v \in Slot, IInv, Release(v) PROVE IInv'
<1> USE DEF IInv, Release, vmVars, callVars
<1>1. TypeOK'
  BY DEF TypeOK
<1>2. ScopeInv' /\ ScopedInv' /\ CreateInv' /\ IsolateInv'
  BY DEF ScopeInv, ScopedInv, CreateInv, IsolateInv, CreateSteps, ScopedSteps
<1>3. SlotInv'
  BY DEF SlotInv, TypeOK
<1>4. HeldScriptsAreReady'
  BY DEF HeldScriptsAreReady, SlotInv, TypeOK
<1>5. NewestScriptIsCurrent'
  BY DEF NewestScriptIsCurrent, TypeOK
<1> QED
  BY <1>1, <1>2, <1>3, <1>4, <1>5

-----------------------------------------------------------------------------

\* IInv is inductive.
LEMMA NextIInv == IInv /\ [Next]_vars => IInv'
<1> SUFFICES ASSUME IInv, [Next]_vars PROVE IInv'
  OBVIOUS
<1>1. CASE AppStep
  <2>1. ASSUME NEW v \in Slot, NEW s \in Script, Create(v, s) PROVE IInv'
    BY <2>1, CreateIInv
  <2>2. ASSUME NEW v \in Slot, BeginInvoke(v) PROVE IInv'
    BY <2>2, BeginInvokeIInv, NoIsolateIInv
  <2>4. ASSUME NEW v \in Slot, Release(v) PROVE IInv'
    BY <2>4, ReleaseIInv
  <2>5. CASE SetVMFlags
    BY <2>5, StartVMIInv
  <2> QED
    BY <1>1, <2>1, <2>2, <2>4, <2>5 DEF AppStep
<1>2. CASE LibraryStep
  <2>1. CASE ControlStep
    BY <2>1, ControlStepIInv
  <2>2. CASE IsolateRefused \/ IsolateCreated \/ SetTagHandler
    BY <2>2, IsolateRefusedIInv, IsolateCreatedIInv, SetTagHandlerIInv
  <2>3. CASE LibraryResult
    BY <2>3, LibraryResultIInv
  <2>4. CASE CreateReturns \/ Unwind
    BY <2>4, CreateReturnsIInv, UnwindIInv
  <2>5. CASE LeaveInvoke
    BY <2>5, LeaveInvokeIInv
  <2>6. CASE SetVMFlags \/ InitializeVM
    BY <2>6, StartVMIInv
  <2> QED
    BY <1>2, <2>1, <2>2, <2>3, <2>4, <2>5, <2>6 DEF LibraryStep, ControlStep, LibraryResult
<1>3. CASE UNCHANGED vars
  BY <1>3 DEF vars, IInv, TypeOK, ScopeInv, ScopedInv, CreateInv, IsolateInv, SlotInv,
              HeldScriptsAreReady, NewestScriptIsCurrent
<1> QED
  BY <1>1, <1>2, <1>3 DEF Next

\* Every state the application can reach satisfies the inductive invariant.
THEOREM Inductive == Spec => []IInv
<1> QED
  BY InitIInv, NextIInv, PTL DEF Spec

\* The variables always have their types; no scope count goes below zero.
THEOREM TypeCorrect == Spec => []TypeOK
<1>1. IInv => TypeOK
  BY DEF IInv
<1> QED
  BY <1>1, Inductive, PTL

\* Whichever way Script::create and Script::invoke end, every Dart API scope
\* entered in an isolate has been left in that isolate.
THEOREM ScopesAreBalanced == Spec => []ScopesBalanced
<1>1. IInv => ScopesBalanced
  BY DEF IInv, ScopesBalanced, ScopeInv, ScopedInv
<1> QED
  BY <1>1, Inductive, PTL

\* Script::create never hands out a script that did not load and run its main,
\* and a ScriptRef never outlives the object it refers to.
THEOREM HeldScriptsReady == Spec => []HeldScriptsAreReady
<1>1. IInv => HeldScriptsAreReady
  BY DEF IInv
<1> QED
  BY <1>1, Inductive, PTL

\* The script that was created last is the one invoke reaches.
THEOREM NewestCurrent == Spec => []NewestScriptIsCurrent
<1>1. IInv => NewestScriptIsCurrent
  BY DEF IInv
<1> QED
  BY <1>1, Inductive, PTL

=============================================================================
