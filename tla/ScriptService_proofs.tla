------------------------ MODULE ScriptService_proofs ------------------------
(***************************************************************************)
(* The lifecycle of scripts implements ScriptService, for any number of    *)
(* scripts and ScriptRef variables and for both kinds of build.            *)
(***************************************************************************)
EXTENDS ScriptLifecycle_proofs

\* What the refinement needs beyond IInv: a library that ran belongs to a script
\* that is on its way out of create, or has been there.
RanInv ==
  /\ \A s \in Script : object[s] = "unallocated" => library[s] = "none"
  /\ step \in CreateSteps \ {"return"} => library[self] # "ran"

\* Only init touches a library, that of its own script, and "ran" is the last it
\* makes of it.
LEMMA RanInvStep == IInv /\ RanInv /\ [Next]_vars => RanInv'
<1> SUFFICES ASSUME IInv, RanInv, [Next]_vars PROVE RanInv'
  OBVIOUS
<1> USE DEF RanInv, CreateSteps, ScopedSteps
<1>0. /\ TypeOK
      /\ step \in CreateSteps => self \in Script /\ object[self] = "constructing"
  BY DEF IInv, CreateInv
<1>1. ASSUME NEW v \in Slot, NEW s \in Script, Create(v, s) PROVE RanInv'
  BY <1>0, <1>1 DEF Create, vmVars, TypeOK
<1>2. ASSUME NEW v \in Slot, BeginInvoke(v) \/ Release(v) PROVE RanInv'
  <2>1. /\ UNCHANGED library /\ step' \in {"invoke", "aborted", step}
        /\ step = "idle"
    BY <1>2 DEF BeginInvoke, Release, vmVars
  <2>2. \A s \in Script : object'[s] = "unallocated" => object[s] = "unallocated"
    BY <1>0, <1>2 DEF BeginInvoke, Release, memoryVars, TypeOK
  <2> QED
    BY <2>1, <2>2
<1>3. CASE CheckPath \/ SnapshotUnreadable \/ LoadCinderLib \/ LoadSource \/ FinalizeLoading \/ RunMain \/ MainFails
  BY <1>3 DEF CheckPath, SnapshotUnreadable, LoadCinderLib, LoadSource, FinalizeLoading, RunMain, MainFails,
              Goto, Throw, Abort, CheckedError, memoryVars, vmVars, callVars
<1>4. CASE IsolateRefused \/ IsolateCreated \/ SetTagHandler
  BY <1>4 DEF IsolateRefused, IsolateCreated, SetTagHandler, Goto, Throw, memoryVars, callVars
<1>5. CASE ScriptLoaded \/ ScriptRejected \/ ImportThrows
  BY <1>0, <1>5 DEF ScriptLoaded, ScriptRejected, ImportThrows, Goto, Throw, Abort, CheckedError,
                    memoryVars, callVars, TypeOK
<1>6. CASE MainReturns
  BY <1>0, <1>6 DEF MainReturns, Goto, memoryVars, callVars, TypeOK
<1>7. CASE CreateReturns \/ Unwind
  BY <1>0, <1>7 DEF CreateReturns, Unwind, TypeOK
<1>8. CASE InvokeCrashes \/ InvokeAsserts \/ CallFunction \/ NativeAsserts \/ EndInvoke \/ LeaveInvoke
  BY <1>8 DEF InvokeCrashes, InvokeAsserts, CallFunction, NativeAsserts, FunctionRuns, EndInvoke, LeaveInvoke, Goto,
              memoryVars, vmVars, callVars
<1>9. CASE SetVMFlags \/ InitializeVM \/ UNCHANGED vars
  BY <1>9 DEF SetVMFlags, InitializeVM, memoryVars, callVars, vars
<1> QED
  BY <1>1, <1>2, <1>3, <1>4, <1>5, <1>6, <1>7, <1>8, <1>9 DEF Next, AppStep, LibraryStep

-----------------------------------------------------------------------------
(* Steps *)

\* A step that hands nothing over either goes unnoticed or ends the process.
LEMMA QuietStep ==
  ASSUME step # "aborted", UNCHANGED slot, \A s \in Script : Phase(s)' = Phase(s)
  PROVE  [Service!Next]_(Service!vars)
<1>1. [s \in Script |-> Phase(s)]' = [s \in Script |-> Phase(s)]
  OBVIOUS
<1>2. CASE step' = "aborted"
  BY <1>1, <1>2 DEF Service!Next, Service!Crash
<1>3. CASE step' # "aborted"
  BY <1>1, <1>3 DEF Service!vars
<1> QED
  BY <1>2, <1>3

\* Every step is one of the service, or none that the application sees.
LEMMA StepImplements == IInv /\ RanInv /\ [Next]_vars => [Service!Next]_(Service!vars)
<1> SUFFICES ASSUME IInv, RanInv, [Next]_vars PROVE [Service!Next]_(Service!vars)
  OBVIOUS
<1>0. /\ TypeOK /\ HeldScriptsAreReady
      /\ step \in CreateSteps => self \in Script /\ target \in Slot /\ object[self] = "constructing"
      /\ step = "return" => library[self] = "ran"
      /\ step \in CreateSteps \ {"return"} => library[self] # "ran"
  BY DEF IInv, CreateInv, IsolateInv, RanInv
<1>1. ASSUME NEW v \in Slot, NEW s \in Script, Create(v, s) PROVE [Service!Next]_(Service!vars)
  <2>1. \A x \in Script : Phase(x)' = Phase(x)
    BY <1>0, <1>1 DEF Create, Phase, vmVars, TypeOK
  <2> QED
    BY <1>1, <2>1, QuietStep DEF Create
<1>2. ASSUME NEW v \in Slot, BeginInvoke(v)
      PROVE  [Service!Next]_(Service!vars)
  <2>1. UNCHANGED <<object, slot, library>> /\ step # "aborted"
    BY <1>2 DEF BeginInvoke, memoryVars, vmVars
  <2> QED
    BY <2>1, QuietStep DEF Phase
<1>3. ASSUME NEW v \in Slot, Release(v) PROVE [Service!Next]_(Service!vars)
  <2>1. /\ slot[v] \in Script /\ step = "idle" /\ step' = step /\ slot[v] # NoScript
        /\ slot' = [slot EXCEPT ![v] = NoScript]
        /\ object' = [object EXCEPT ![slot[v]] = "freed"] /\ library' = library
    BY <1>0, <1>3 DEF Release, vmVars, TypeOK
  <2>2. [x \in Script |-> Phase(x)]' = [[x \in Script |-> Phase(x)] EXCEPT ![slot[v]] = "gone"]
    BY <1>0, <2>1 DEF Phase, TypeOK
  <2>3. Service!Reset(v)
    BY <2>1, <2>2 DEF Service!Reset
  <2> QED
    BY <2>3 DEF Service!Next
<1>4. CASE CheckPath \/ SnapshotUnreadable \/ LoadCinderLib \/ LoadSource \/ FinalizeLoading \/ RunMain \/ MainFails
  <2>1. UNCHANGED <<object, slot, library>> /\ step # "aborted"
    BY <1>4 DEF CheckPath, SnapshotUnreadable, LoadCinderLib, LoadSource, FinalizeLoading, RunMain, MainFails,
                memoryVars, vmVars
  <2> QED
    BY <2>1, QuietStep DEF Phase
<1>5. CASE IsolateRefused \/ IsolateCreated \/ SetTagHandler
  <2>1. UNCHANGED <<object, slot, library>> /\ step # "aborted"
    BY <1>5 DEF IsolateRefused, IsolateCreated, SetTagHandler, memoryVars
  <2> QED
    BY <2>1, QuietStep DEF Phase
<1>6. CASE ScriptLoaded \/ ScriptRejected \/ ImportThrows
  <2>1. /\ UNCHANGED <<object, slot>> /\ step = "loadScript"
        /\ \E l \in {"loaded", "failed"} : library' = [library EXCEPT ![self] = l]
    BY <1>6 DEF ScriptLoaded, ScriptRejected, ImportThrows, memoryVars
  <2>2. library[self] # "ran"
    BY <1>0, <2>1 DEF CreateSteps, ScopedSteps
  <2>3. \A x \in Script : Phase(x)' = Phase(x)
    BY <1>0, <2>1, <2>2 DEF Phase, TypeOK
  <2> QED
    BY <2>1, <2>3, QuietStep
<1>7. CASE MainReturns
  <2>1. /\ self \in Script /\ object[self] = "constructing" /\ library[self] # "ran"
        /\ step = "inMain" /\ step' = "return"
        /\ UNCHANGED <<object, slot>> /\ library' = [library EXCEPT ![self] = "ran"]
    BY <1>0, <1>7 DEF MainReturns, Goto, memoryVars, CreateSteps, ScopedSteps
  <2>2. /\ Phase(self) = "new"
        /\ [x \in Script |-> Phase(x)]' = [[x \in Script |-> Phase(x)] EXCEPT ![self] = "ran"]
    BY <1>0, <2>1 DEF Phase, TypeOK
  <2>3. Service!RunMain(self)
    BY <2>1, <2>2 DEF Service!RunMain
  <2> QED
    BY <2>1, <2>3 DEF Service!Next
<1>8. CASE CreateReturns
  <2>1. /\ self \in Script /\ target \in Slot /\ object[self] = "constructing" /\ library[self] = "ran"
        /\ step = "return" /\ step' = "idle" /\ library' = library
        /\ slot' = [slot EXCEPT ![target] = self]
        /\ object' = [s \in Script |-> IF s = self THEN "complete"
                                       ELSE IF s = slot[target] THEN "freed" ELSE object[s]]
    BY <1>0, <1>8 DEF CreateReturns, CreateSteps, ScopedSteps
  <2>2. /\ Phase(self) = "ran"
        /\ [x \in Script |-> Phase(x)]' =
             [x \in Script |->
                IF x = self THEN "held" ELSE IF x = slot[target] THEN "gone"
                ELSE [y \in Script |-> Phase(y)][x]]
    BY <2>1 DEF Phase
  <2>3. Service!Assign(target, self)
    BY <2>1, <2>2 DEF Service!Assign
  <2> QED
    BY <2>1, <2>3 DEF Service!Next
<1>9. CASE Unwind
  <2>1. /\ self \in Script /\ object[self] = "constructing" /\ library[self] # "ran"
        /\ step = "unwind" /\ step' = "idle" /\ UNCHANGED <<slot, library>>
        /\ object' = [object EXCEPT ![self] = "freed"]
    BY <1>0, <1>9 DEF Unwind, CreateSteps, ScopedSteps
  <2>2. /\ Phase(self) = "new"
        /\ [x \in Script |-> Phase(x)]' = [[x \in Script |-> Phase(x)] EXCEPT ![self] = "gone"]
    BY <1>0, <2>1 DEF Phase, TypeOK
  <2>3. Service!Fail(self)
    BY <2>1, <2>2 DEF Service!Fail
  <2> QED
    BY <2>1, <2>3 DEF Service!Next
<1>10. CASE InvokeCrashes \/ InvokeAsserts \/ CallFunction \/ NativeAsserts \/ EndInvoke \/ LeaveInvoke
  <2>1. UNCHANGED <<object, slot, library>> /\ step # "aborted"
    BY <1>10 DEF InvokeCrashes, InvokeAsserts, CallFunction, NativeAsserts, FunctionRuns, EndInvoke, LeaveInvoke,
                memoryVars, vmVars
  <2> QED
    BY <2>1, QuietStep DEF Phase
<1>11. CASE SetVMFlags \/ InitializeVM \/ UNCHANGED vars
  BY <1>11 DEF SetVMFlags, InitializeVM, memoryVars, vars, Phase, Service!vars
<1> QED
  BY <1>1, <1>2, <1>3, <1>4, <1>5, <1>6, <1>7, <1>8, <1>9, <1>10, <1>11
  DEF Next, AppStep, LibraryStep

-----------------------------------------------------------------------------

\* The application's view holds for every application: an assignment of a new
\* script is all or nothing, whichever exit init takes.
THEOREM Refinement == Spec => ImplementsService
<1>1. Init => RanInv /\ Service!Init
  BY DEF Init, RanInv, CreateSteps, ScopedSteps, Phase, Service!Init
<1>2. IInv /\ RanInv /\ [Next]_vars => RanInv'
  BY RanInvStep
<1>3. Spec => []IInv
  BY Inductive
<1>4. IInv /\ RanInv /\ [Next]_vars => [Service!Next]_(Service!vars)
  BY StepImplements
<1> QED
  BY <1>1, <1>2, <1>3, <1>4, PTL DEF Spec, ImplementsService, Service!Spec

=============================================================================
