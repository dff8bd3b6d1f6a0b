------------------------- MODULE DartIsolates_proofs -------------------------
(***************************************************************************)
(* The lifecycle of scripts calls the Dart VM as dart_api.h asks of a      *)
(* program, but for the calls that DartIsolates names: for any number of   *)
(* scripts and ScriptRef variables and for both kinds of build its steps   *)
(* are steps of DartIsolates.                                              *)
(***************************************************************************)
EXTENDS ScriptLifecycle_proofs

\* What the refinement needs beyond IInv: an isolate is created and its script
\* loaded once, and nothing else happens while the VM is being started.
OrderInv ==
  /\ \A s \in Script : object[s] = "unallocated" => s \notin isolate /\ library[s] = "none"
  /\ step \in {"checkPath", "createIsolate"} => self \notin isolate
  /\ step \in {"checkPath", "createIsolate", "setHandler", "loadCinder", "loadSource", "loadScript"} =>
       library[self] = "none"
  /\ vm = "flagged" => step \in {"idle", "createIsolate"}

\* Each step of init leaves the script as the next one needs it.
LEMMA OrderInvStep == IInv /\ OrderInv /\ [Next]_vars => OrderInv'
<1> SUFFICES ASSUME IInv, OrderInv, [Next]_vars PROVE OrderInv'
  OBVIOUS
<1> USE DEF OrderInv
<1>0. /\ TypeOK
      /\ step \in CreateSteps => self \in Script /\ object[self] = "constructing"
  BY DEF IInv, CreateInv
<1>1. ASSUME NEW v \in Slot, NEW s \in Script, Create(v, s), vm # "flagged" PROVE OrderInv'
  BY <1>0, <1>1 DEF Create, vmVars, TypeOK
<1>2. ASSUME NEW v \in Slot, BeginInvoke(v) \/ Release(v), vm # "flagged" PROVE OrderInv'
  <2>1. UNCHANGED <<vm, isolate, library>> /\ step' \in {"invoke", "aborted", "idle"}
    BY <1>2 DEF BeginInvoke, Release, vmVars
  <2>2. \A s \in Script : object'[s] = "unallocated" => object[s] = "unallocated"
    BY <1>0, <1>2 DEF BeginInvoke, Release, memoryVars, TypeOK
  <2> QED
    BY <1>2, <2>1, <2>2
<1>3. CASE CheckPath \/ SnapshotUnreadable \/ LoadCinderLib \/ LoadSource \/ FinalizeLoading
           \/ RunMain \/ MainFails
  BY <1>3 DEF CheckPath, SnapshotUnreadable, LoadCinderLib, LoadSource, FinalizeLoading, RunMain,
              MainFails, Goto, Throw, Abort, CheckedError, memoryVars, vmVars, callVars
<1>4. CASE IsolateRefused \/ IsolateCreated \/ SetTagHandler
  BY <1>0, <1>4 DEF IsolateRefused, IsolateCreated, SetTagHandler, Goto, Throw, memoryVars,
                    callVars, CreateSteps, ScopedSteps
<1>5. CASE ScriptLoaded \/ ScriptRejected \/ ImportThrows \/ MainReturns
  BY <1>0, <1>5 DEF ScriptLoaded, ScriptRejected, ImportThrows, MainReturns, Goto, Throw, Abort,
                    CheckedError, memoryVars, callVars, TypeOK, CreateSteps, ScopedSteps
<1>6. CASE CreateReturns \/ Unwind
  BY <1>0, <1>6 DEF CreateReturns, Unwind, TypeOK
<1>7. CASE InvokeCrashes \/ InvokeAsserts \/ CallFunction \/ EndInvoke \/ LeaveInvoke \/ NativeAsserts
  BY <1>7 DEF InvokeCrashes, InvokeAsserts, CallFunction, EndInvoke, LeaveInvoke, NativeAsserts,
              FunctionRuns, Goto, memoryVars, vmVars, callVars
<1>8. CASE SetVMFlags \/ InitializeVM \/ UNCHANGED vars
  BY <1>8 DEF SetVMFlags, InitializeVM, memoryVars, callVars, vars
<1> QED
  BY <1>1, <1>2, <1>3, <1>4, <1>5, <1>6, <1>7, <1>8 DEF Next, AppStep, LibraryStep

-----------------------------------------------------------------------------
(* Steps *)

InDartCode == step \in {"inMain", "inDart"}

\* A call has ended the process.
FatalCall == step = "aborted" /\ current = NoScript

\* Nothing but a handler without an isolate does that.
LEMMA OnlyHandlersDie ==
  ASSUME IInv, OrderInv,
         \/ LibraryStep \/ SetVMFlags
         \/ \E v \in Slot : Release(v) \/ \E s \in Script : Create(v, s)
  PROVE  ~ FatalCall /\ ~ FatalCall'
<1> USE DEF FatalCall, ScopedSteps, InvokeSteps
<1>1. /\ step \in ScopedSteps \cup InvokeSteps => current \in Script
      /\ step = "setHandler" => current \in Script
  BY DEF IInv, ScopedInv, ScopeInv, IsolateInv, CreateInv, CreateSteps
<1>2. CASE SetVMFlags \/ InitializeVM
  BY <1>2 DEF SetVMFlags, InitializeVM, OrderInv
<1>3. ASSUME NEW v \in Slot, Release(v) \/ \E s \in Script : Create(v, s)
      PROVE  ~ FatalCall /\ ~ FatalCall'
  BY <1>3 DEF Release, Create
<1>4. CASE CheckPath \/ SnapshotUnreadable \/ IsolateRefused \/ IsolateCreated \/ CreateReturns
           \/ Unwind \/ LeaveInvoke
  BY <1>4 DEF CheckPath, SnapshotUnreadable, IsolateRefused, IsolateCreated, CreateReturns, Unwind,
              LeaveInvoke, Goto, Throw
<1>5. CASE SetTagHandler \/ LoadCinderLib \/ LoadSource \/ ScriptLoaded \/ ScriptRejected \/ ImportThrows
           \/ FinalizeLoading \/ RunMain \/ MainReturns \/ MainFails
  <2>1. step \in ScopedSteps \cup {"setHandler"} /\ current' = current
    BY <1>5 DEF SetTagHandler, LoadCinderLib, LoadSource, ScriptLoaded, ScriptRejected, ImportThrows,
                FinalizeLoading, RunMain, MainReturns, MainFails, vmVars
  <2> QED
    BY <1>1, <2>1, ConstantsAssumption
<1>6. CASE InvokeCrashes \/ InvokeAsserts \/ CallFunction \/ EndInvoke \/ NativeAsserts
  <2>1. step \in InvokeSteps \cup {"inMain"} /\ current' = current
    BY <1>6 DEF InvokeCrashes, InvokeAsserts, CallFunction, EndInvoke, NativeAsserts, FunctionRuns, vmVars
  <2> QED
    BY <1>1, <2>1, ConstantsAssumption
<1> QED
  BY <1>2, <1>3, <1>4, <1>5, <1>6 DEF LibraryStep

\* The root scripts are what they were.
LEMMA RootsStay ==
  ASSUME UNCHANGED library, step # "finalize", step' # "finalize"
  PROVE  UNCHANGED [s \in Script |-> Root(s)]
BY DEF Root

\* A step without a call of the API.
LEMMA NoCall ==
  ASSUME UNCHANGED <<vm, isolate, current, scope, library>>, step # "finalize", step' # "finalize",
         ~ InDartCode, ~ InDartCode', ~ FatalCall, ~ FatalCall'
  PROVE  UNCHANGED Isolates!vars
BY RootsStay DEF InDartCode, FatalCall, Isolates!vars

\* The Dart code that runs comes to its end.
LEMMA DartEnds ==
  ASSUME UNCHANGED <<vm, isolate, current, scope, [s \in Script |-> Root(s)]>>,
         current \in Script, InDartCode, ~ InDartCode', ~ FatalCall, ~ FatalCall'
  PROVE  Isolates!Dart_InvokeReturns
<1>1. current # NoScript
  BY ConstantsAssumption
<1> QED
  BY <1>1 DEF InDartCode, FatalCall, Isolates!Dart_InvokeReturns

\* The scope of the call in progress is left, in the isolate it was entered in.
LEMMA ScopeIsLeft ==
  ASSUME IInv, scoped, ExitScope, UNCHANGED <<vm, isolate, current, library>>,
         step # "finalize", step' # "finalize", ~ InDartCode, ~ InDartCode',
         ~ FatalCall, ~ FatalCall'
  PROVE  Isolates!Dart_ExitScope
<1>1. current \in Script /\ scope[current] = 1 /\ current # NoScript
  BY ConstantsAssumption DEF IInv, ScopeInv
<1>2. scope[current] > 0
  BY <1>1
<1> QED
  BY <1>1, <1>2, RootsStay DEF InDartCode, FatalCall, ExitScope, Isolates!Dart_ExitScope

\* A step inside a call has a scope for its handles.
LEMMA ScopedHasScope == ASSUME IInv, scoped PROVE current \in Script /\ Isolates!HasScope
<1>1. current \in Script /\ scope[current] = 1 /\ current # NoScript
  BY ConstantsAssumption DEF IInv, ScopeInv
<1>2. scope[current] > 0
  BY <1>1
<1> QED
  BY <1>1, <1>2 DEF Isolates!HasScope

\* Every step of the application but those of its handlers is a call the API
\* allows in that state, or none.
LEMMA CallAllowed ==
  ASSUME IInv, OrderInv,
         \/ LibraryStep \/ SetVMFlags
         \/ \E v \in Slot : Release(v) \/ \E s \in Script : Create(v, s)
  PROVE  UNCHANGED Isolates!vars \/ Isolates!Use \/ Isolates!InvokeWithoutLibrary
<1> DEFINE Allowed == UNCHANGED Isolates!vars \/ Isolates!Use \/ Isolates!InvokeWithoutLibrary
<1> USE DEF InDartCode
<1>0. /\ TypeOK
      /\ step \in CreateSteps => self \in Script
      /\ step \in ScopedSteps \cup {"setHandler"} => current = self
      /\ step \in ScopedSteps \cup InvokeSteps => scoped
      /\ ~ FatalCall /\ ~ FatalCall'
  BY OnlyHandlersDie DEF IInv, CreateInv, ScopedInv, IsolateInv
<1>1. ASSUME NEW v \in Slot, NEW s \in Script, Create(v, s) PROVE Allowed
  BY <1>0, <1>1, NoCall DEF Create, vmVars
<1>2. ASSUME NEW v \in Slot, Release(v) PROVE Allowed
  BY <1>0, <1>2, NoCall DEF Release, vmVars
<1>4. CASE CheckPath \/ SnapshotUnreadable \/ LoadCinderLib \/ LoadSource
  BY <1>0, <1>4, NoCall DEF CheckPath, SnapshotUnreadable, LoadCinderLib, LoadSource, Goto, Throw, Abort,
                      CheckedError, vmVars
<1>5. CASE IsolateRefused
  <2>1. CASE current' = current
    BY <1>0, <1>5, <2>1, NoCall DEF IsolateRefused, Throw
  <2>2. CASE current' = NoScript
    BY <1>0, <1>5, <2>2, RootsStay
    DEF IsolateRefused, Throw, FatalCall, Isolates!Dart_CreateIsolateFails, Isolates!Use
  <2> QED
    BY <1>5, <2>1, <2>2 DEF IsolateRefused
<1>6. CASE IsolateCreated
  <2>1. Isolates!Dart_CreateIsolate(self)
    BY <1>0, <1>6, RootsStay DEF IsolateCreated, Goto, OrderInv, FatalCall, Isolates!Dart_CreateIsolate
  <2>2. self \in Script
    BY <1>0, <1>6 DEF IsolateCreated, CreateSteps
  <2> QED
    BY <2>1, <2>2 DEF Isolates!Use
<1>7. CASE SetTagHandler
  <2>1. self \in Script /\ current = self /\ current # NoScript
    BY <1>0, <1>7, ConstantsAssumption DEF SetTagHandler, CreateSteps
  <2>2. Isolates!Dart_EnterScope
    BY <1>0, <1>7, <2>1, RootsStay DEF SetTagHandler, EnterScope, FatalCall, Isolates!Dart_EnterScope
  <2> QED
    BY <2>2 DEF Isolates!Use
<1>8. CASE ScriptLoaded \/ ScriptRejected \/ ImportThrows
  <2>1. /\ self \in Script /\ current = self /\ library[self] = "none" /\ step = "loadScript"
        /\ Isolates!HasScope
    BY <1>0, <1>8, ScopedHasScope
    DEF ScriptLoaded, ScriptRejected, ImportThrows, CreateSteps, ScopedSteps, OrderInv
  <2>2. CASE ScriptLoaded
    <3>1. [s \in Script |-> Root(s)]' = [[s \in Script |-> Root(s)] EXCEPT ![self] = "loaded"]
      BY <1>0, <2>1, <2>2 DEF ScriptLoaded, Goto, callVars, Root, TypeOK
    <3>2. Isolates!Dart_LoadScript
      BY <1>0, <2>1, <2>2, <3>1 DEF ScriptLoaded, Goto, Root, FatalCall, Isolates!Dart_LoadScript
    <3> QED
      BY <3>2 DEF Isolates!Use
  <2>3. CASE ScriptRejected \/ ImportThrows
    <3>1. [s \in Script |-> Root(s)]' = [[s \in Script |-> Root(s)] EXCEPT ![self] = "failed"]
      BY <1>0, <2>1, <2>3 DEF ScriptRejected, ImportThrows, callVars, Root, TypeOK
    <3>2. ~ InDartCode' /\ UNCHANGED <<vm, isolate, current, scope>>
      BY <2>3 DEF ScriptRejected, ImportThrows, Goto, Throw, Abort, CheckedError
    <3>3. Isolates!Dart_LoadScript
      BY <1>0, <2>1, <3>1, <3>2 DEF Root, FatalCall, Isolates!Dart_LoadScript
    <3> QED
      BY <3>3 DEF Isolates!Use
  <2> QED
    BY <1>8, <2>2, <2>3
<1>9. CASE FinalizeLoading
  <2>1. /\ self \in Script /\ current = self /\ step = "finalize" /\ Isolates!HasScope
        /\ UNCHANGED <<vm, isolate, current, scope, library, self>>
        /\ ~ InDartCode /\ ~ InDartCode' /\ step' # "finalize"
    BY <1>0, <1>9, ScopedHasScope
    DEF FinalizeLoading, Goto, Abort, CheckedError, vmVars, callVars, CreateSteps, ScopedSteps
  <2>2. CASE library[self] = "loaded"
    <3>1. [s \in Script |-> Root(s)]' = [[s \in Script |-> Root(s)] EXCEPT ![self] = "finalized"]
      BY <2>1, <2>2 DEF Root
    <3>2. Isolates!Dart_FinalizeLoading
      BY <1>0, <2>1, <2>2, <3>1 DEF Root, FatalCall, Isolates!Dart_FinalizeLoading
    <3> QED
      BY <3>2 DEF Isolates!Use
  <2>3. CASE library[self] # "loaded"
    <3>1. UNCHANGED [s \in Script |-> Root(s)]
      BY <2>1, <2>3 DEF Root
    <3> QED
      BY <1>0, <2>1, <3>1 DEF FatalCall, Isolates!vars
  <2> QED
    BY <2>2, <2>3
<1>10. CASE RunMain \/ CallFunction
  <2>1. /\ current \in Script /\ Isolates!HasScope
        /\ step \in {"runMain", "invoke"} /\ step' \in {"inMain", "inDart"}
        /\ UNCHANGED <<vm, isolate, current, scope, library>>
    BY <1>0, <1>10, ScopedHasScope DEF RunMain, CallFunction, Goto, vmVars, ScopedSteps, InvokeSteps
  <2>2. UNCHANGED [s \in Script |-> Root(s)]
    BY <2>1, RootsStay
  <2>3. CASE library[current] \in {"loaded", "ran"}
    <3>1. Isolates!Dart_Invoke
      BY <1>0, <2>1, <2>2, <2>3 DEF Root, FatalCall, Isolates!Dart_Invoke
    <3> QED
      BY <3>1 DEF Isolates!Use
  <2>4. CASE library[current] \in {"none", "failed"}
    BY <1>0, <2>1, <2>2, <2>4 DEF Root, FatalCall, Isolates!InvokeWithoutLibrary
  <2> QED
    BY <1>0, <2>1, <2>3, <2>4 DEF TypeOK
<1>11. CASE MainReturns
  <2>1. /\ current \in Script /\ self = current /\ library[self] = "loaded" /\ step = "inMain"
        /\ step' = "return" /\ library' = [library EXCEPT ![self] = "ran"]
        /\ UNCHANGED <<vm, isolate, current, scope>>
    BY <1>0, <1>11 DEF MainReturns, Goto, CreateSteps, ScopedSteps
  <2>2. UNCHANGED [s \in Script |-> Root(s)]
    BY <1>0, <2>1 DEF Root, TypeOK
  <2>3. Isolates!Dart_InvokeReturns
    BY <1>0, <2>1, <2>2, DartEnds
  <2> QED
    BY <2>3 DEF Isolates!Use
<1>12. CASE MainFails \/ EndInvoke \/ NativeAsserts
  <2>1. /\ UNCHANGED <<vm, isolate, current, scope, library>>
        /\ step \in {"inMain", "inDart"} /\ step' \in {"unwind", "leaving", "aborted"}
    BY <1>12 DEF MainFails, EndInvoke, NativeAsserts, FunctionRuns, Goto, Throw, vmVars
  <2>2. current \in Script
    BY <1>0, <2>1, ScopedHasScope DEF ScopedSteps, InvokeSteps
  <2>3. Isolates!Dart_InvokeReturns
    BY <1>0, <2>1, <2>2, RootsStay, DartEnds
  <2> QED
    BY <2>3 DEF Isolates!Use
<1>13. CASE CreateReturns \/ Unwind
  <2>1. CASE scoped
    BY <1>0, <1>13, <2>1, ScopeIsLeft DEF CreateReturns, Unwind, Isolates!Use
  <2>2. CASE ~ scoped
    BY <1>0, <1>13, <2>2, NoCall DEF CreateReturns, Unwind, ScopedSteps
  <2> QED
    BY <2>1, <2>2
<1>14. CASE LeaveInvoke
  BY <1>0, <1>14, ScopeIsLeft DEF LeaveInvoke, InvokeSteps, Isolates!Use
<1>15. CASE InvokeCrashes \/ InvokeAsserts
  BY <1>0, <1>15, NoCall DEF InvokeCrashes, InvokeAsserts, vmVars
<1>17. CASE SetVMFlags \/ InitializeVM
  <2>1. /\ UNCHANGED <<isolate, current, scope, library, self, step>>
        /\ vm # "started" /\ vm' \in {"flagged", "started"}
    BY <1>17 DEF SetVMFlags, InitializeVM, callVars
  <2>2. UNCHANGED [s \in Script |-> Root(s)]
    BY <2>1 DEF Root
  <2>3. Isolates!Dart_SetVMFlags \/ Isolates!Dart_Initialize
    BY <1>0, <2>1, <2>2 DEF FatalCall, Isolates!Dart_SetVMFlags, Isolates!Dart_Initialize
  <2> QED
    BY <2>3 DEF Isolates!Use
<1> QED
  BY <1>1, <1>2, <1>4, <1>5, <1>6, <1>7, <1>8, <1>9, <1>10, <1>11, <1>12, <1>13, <1>14, <1>15,
     <1>17 DEF LibraryStep

\* A handler enters a scope, with or without an isolate.
LEMMA HandlerEnters ==
  ASSUME IInv, NEW v \in Slot, BeginInvoke(v)
  PROVE  ~ FatalCall /\ (Isolates!Dart_EnterScope \/ Isolates!EnterScopeWithoutIsolate)
<1>1. step = "idle" /\ UNCHANGED <<vm, isolate, current, library>> /\ step' \in {"invoke", "aborted"}
  BY DEF BeginInvoke
<1>2. UNCHANGED [s \in Script |-> Root(s)]
  BY <1>1, RootsStay
<1>3. CASE current # NoScript
  BY <1>1, <1>2, <1>3 DEF BeginInvoke, EnterScope, FatalCall, Isolates!Dart_EnterScope
<1>4. CASE current = NoScript
  BY <1>1, <1>2, <1>4 DEF BeginInvoke, FatalCall, Isolates!EnterScopeWithoutIsolate
<1> QED
  BY <1>3, <1>4

\* Every step is one of DartIsolates.
LEMMA StepKeepsContract == IInv /\ OrderInv /\ [Next]_vars => [Isolates!Next]_(Isolates!vars)
<1> SUFFICES ASSUME IInv, OrderInv, [Next]_vars PROVE [Isolates!Next]_(Isolates!vars)
  OBVIOUS
<1> USE DEF Isolates!Next, Isolates!Misuse
<1>1. CASE \/ LibraryStep \/ SetVMFlags
           \/ \E v \in Slot : Release(v) \/ \E s \in Script : Create(v, s)
  <2>1. ~ FatalCall
    BY <1>1, OnlyHandlersDie
  <2>2. UNCHANGED Isolates!vars \/ Isolates!Use \/ Isolates!InvokeWithoutLibrary
    BY <1>1, CallAllowed
  <2> QED
    BY <2>1, <2>2 DEF FatalCall
<1>2. ASSUME NEW v \in Slot, BeginInvoke(v) PROVE [Isolates!Next]_(Isolates!vars)
  <2>1. ~ FatalCall /\ (Isolates!Dart_EnterScope \/ Isolates!EnterScopeWithoutIsolate)
    BY <1>2, HandlerEnters
  <2> QED
    BY <2>1 DEF FatalCall, Isolates!Use
<1>3. CASE UNCHANGED vars
  BY <1>3 DEF vars, Root, Isolates!vars
<1> QED
  BY <1>1, <1>2, <1>3 DEF Next, AppStep

-----------------------------------------------------------------------------

\* Whatever the application does with its scripts and whichever exits init and
\* invoke take, the Dart VM is called in the states its header asks for, but for
\* an isolate created while another is current, a scope entered with none current,
\* which ends the process, and a function invoked without a library to find it in.
THEOREM ContractKept == Spec => KeepsDartContract
<1>1. Init => OrderInv /\ Isolates!Init
  BY DEF Init, OrderInv, Root, Isolates!Init
<1>2. IInv /\ OrderInv /\ [Next]_vars => OrderInv'
  BY OrderInvStep
<1>3. Spec => []IInv
  BY Inductive
<1>4. IInv /\ OrderInv /\ [Next]_vars => [Isolates!Next]_(Isolates!vars)
  BY StepKeepsContract
<1> QED
  BY <1>1, <1>2, <1>3, <1>4, PTL DEF Spec, KeepsDartContract, Isolates!Spec

=============================================================================
