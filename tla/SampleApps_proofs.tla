-------------------------- MODULE SampleApps_proofs --------------------------
(***************************************************************************)
(* Proofs about the sample applications, for any number of scripts and     *)
(* for both kinds of build: they use their scripts as ScriptLifecycle says *)
(* any application does, and what their scripts send arrives.              *)
(***************************************************************************)
EXTENDS SampleApps, ScriptLifecycle_proofs

\* What the event handlers do with their scripts is what AppStep allows.
LEMMA EventIsAppStep ==
  ASSUME [AppNext]_allVars
  PROVE  [Next]_vars
<1> USE AppsAssumption
<1>1. ASSUME NEW v \in Slot, NEW source, AtRest, CreateFrom(v, source) PROVE Next
  BY <1>1 DEF AtRest, CreateFrom, NextScript, Next, AppStep
<1>2. ASSUME NEW v \in Slot, AtRest, BeginInvoke(v) PROVE Next
  BY <1>2 DEF AtRest, Next, AppStep
<1>3. CASE Event
  BY <1>1, <1>2, <1>3 DEF Event, Reload, LoadScript, Click, ClearRects, RunBenchmarks, Waiting, AnyStep,
                          Next
<1>4. CASE Handle
  <2>1. CASE NextBenchmark
    BY <1>2, <2>1 DEF NextBenchmark
  <2>4. CASE SetUp
    BY <1>1, <2>4 DEF SetUp, AtRest, LoadScript, Next, AppStep
  <2>2. CASE Inside
    BY <2>2 DEF Inside, Next, LibraryStep
  <2>3. CASE CreateThrows \/ InvokeReturns \/ InvokeThrows
    BY <2>3 DEF CreateThrows, InvokeReturns, InvokeThrows, Next, LibraryStep
  <2> QED
    BY <1>4, <2>1, <2>2, <2>3, <2>4 DEF Handle
<1>5. CASE CallNative \/ Convey
  BY <1>5 DEF CallNative, Call, Convey, Convert, ConvertLogs, ConvertThrows
<1>6. CASE UNCHANGED allVars
  BY <1>6 DEF allVars
<1> QED
  BY <1>3, <1>4, <1>5, <1>6 DEF AppNext

\* Every one of the applications is an application of ScriptLifecycle, so that
\* all that is proved of any application holds for each.
THEOREM AppsUseScripts == AppSpec => Spec
<1>1. AppInit => Init
  BY DEF AppInit
<1> QED
  BY <1>1, EventIsAppStep, PTL DEF AppSpec, Spec

LEMMA AppInductive == AppSpec => []IInv
BY AppsUseScripts, Inductive, PTL

\* No application ever holds a script that is freed, half-loaded or without its main.
THEOREM AppScriptsAreReady == AppSpec => []HeldScriptsAreReady
BY AppsUseScripts, HeldScriptsReady, PTL

-----------------------------------------------------------------------------
(* Which script the event handlers have to do with *)

AppTypes ==
  /\ asset \in [Script -> {"main", "benchmark"}]
  /\ current # NoScript => newest # NoScript

\* runBenchmarks goes on only with its script loaded.
BenchInv ==
  /\ app # "CallbackTest" => bench = "none"
  /\ bench # "none" =>
       \/ step \in CreateSteps /\ target = sScript
       \/ step = "aborted"
       \/ slot[sScript] # NoScript

\* sScript is loaded once, from the benchmark: while it is held, no failed
\* benchmark script is current.
AssetInv ==
  /\ step \in CreateSteps =>
       /\ asset[self] = IF target = sScript THEN "benchmark" ELSE "main"
       /\ target = sScript => slot[sScript] = NoScript
  /\ slot[sScript] # NoScript => asset[slot[sScript]] = "benchmark"
  /\ current \in Script /\ object[current] = "freed" /\ asset[current] = "benchmark" =>
       slot[sScript] = NoScript

\* Who invokes, and on which script.
InvokeInv ==
  /\ step \in InvokeSteps => app \in {"DartFields", "CallbackTest"}
  /\ step \in {"invoke", "inDart"} =>
       /\ self \in {slot[mScript], slot[sScript]}
       /\ bench # "none" => self = slot[sScript]
       /\ app = "CallbackTest" => bench # "none"

HandlerInv == AppTypes /\ BenchInv /\ (app # "Any" => AssetInv /\ InvokeInv)

\* A script is created from its asset.
LEMMA CreateFromHandlerInv ==
  ASSUME NEW v \in {mScript, sScript}, NEW source \in {"main", "benchmark"},
         IInv, HandlerInv, CreateFrom(v, source), app' = app,
         source = (IF v = sScript THEN "benchmark" ELSE "main"),
         v = sScript => slot[sScript] = NoScript,
         bench' = (IF v = sScript THEN "load" ELSE bench),
         app # "CallbackTest" => v = mScript, step = "idle", bench = "none"
  PROVE  HandlerInv'
<1> DEFINE n == NextScript
<1>1. n \in Script /\ object[n] = "unallocated"
  BY DEF CreateFrom, NextScript
<1>2. /\ UNCHANGED <<slot, current, newest>>
      /\ object' = [object EXCEPT ![n] = "constructing"]
      /\ step' = "checkPath" /\ self' = n /\ target' = v
      /\ asset' = [asset EXCEPT ![n] = source]
  BY DEF CreateFrom, Create, vmVars
<1> HIDE DEF n
<1>3. TypeOK /\ slot[sScript] # n
  BY <1>1, AppsAssumption, ConstantsAssumption DEF IInv, HeldScriptsAreReady
<1>4. AppTypes'
  BY <1>1, <1>2 DEF HandlerInv, AppTypes
<1>5. BenchInv'
  BY <1>2, AppsAssumption DEF HandlerInv, BenchInv, CreateSteps
<1>6. ASSUME app # "Any" PROVE AssetInv' /\ InvokeInv'
  <2>1. AssetInv /\ AppTypes /\ mScript # sScript
    BY <1>6, AppsAssumption DEF HandlerInv
  <2>2. AssetInv'
    BY <1>1, <1>2, <1>3, <2>1, AppsAssumption DEF AssetInv, AppTypes, TypeOK, CreateSteps
  <2>3. InvokeInv'
    BY <1>2 DEF InvokeInv, InvokeSteps
  <2> QED
    BY <2>2, <2>3
<1> QED
  BY <1>4, <1>5, <1>6 DEF HandlerInv

\* A handler invokes one of the scripts, or the process ends for want of an isolate.
LEMMA InvokeHandlerInv ==
  ASSUME NEW v \in {mScript, sScript}, IInv, HandlerInv, BeginInvoke(v),
         UNCHANGED <<app, asset>>, app \in {"DartFields", "CallbackTest"},
         app = "CallbackTest" => v = sScript /\ bench' # "none" /\ slot[sScript] # NoScript,
         app = "DartFields" => bench' = "none"
  PROVE  HandlerInv'
<1>1. /\ UNCHANGED <<object, slot, current, newest>>
      /\ step' = "aborted" \/ (step' = "invoke" /\ self' = slot[v])
  BY DEF BeginInvoke, memoryVars
<1>2. AppTypes' /\ BenchInv'
  BY <1>1 DEF HandlerInv, AppTypes, BenchInv
<1>3. AssetInv' /\ InvokeInv'
  BY <1>1 DEF HandlerInv, AssetInv, InvokeInv, CreateSteps, ScopedSteps, InvokeSteps
<1> QED
  BY <1>2, <1>3 DEF HandlerInv

\* The steps of the library that change no script and no variable of the handler.
LEMMA QuietHandlerInv ==
  ASSUME HandlerInv, UNCHANGED <<app, bench, asset, slot, self, target, object>>,
         \/ current' \in {current, NoScript}
         \/ current' = self /\ object[self] = "constructing",
         newest' = newest \/ (newest' = self /\ self # NoScript),
         current' = self => newest' = self \/ current' = current,
         \/ step' = "aborted"
         \/ step \in CreateSteps /\ step' \in CreateSteps
         \/ step \in InvokeSteps /\ step' = "leaving"
         \/ step = "invoke" /\ step' = "inDart"
  PROVE  HandlerInv'
<1> USE DEF CreateSteps, ScopedSteps, InvokeSteps
<1>1. AppTypes'
  BY DEF HandlerInv, AppTypes
<1>2. BenchInv'
  BY DEF HandlerInv, BenchInv
<1>3. app # "Any" => AssetInv' /\ InvokeInv'
  BY ConstantsAssumption DEF HandlerInv, AssetInv, InvokeInv
<1> QED
  BY <1>1, <1>2, <1>3 DEF HandlerInv

\* The VM starts without the handlers seeing anything of it.
LEMMA StartHandlerInv ==
  ASSUME HandlerInv, SetVMFlags \/ InitializeVM, UNCHANGED <<app, bench, asset>> PROVE HandlerInv'
<1>1. UNCHANGED <<object, slot, current, newest, step, self, target>>
  BY DEF SetVMFlags, InitializeVM, memoryVars, callVars
<1> QED
  BY <1>1 DEF HandlerInv, AppTypes, BenchInv, AssetInv, InvokeInv

LEMMA InsideHandlerInv ==
  ASSUME IInv, HandlerInv, Inside PROVE HandlerInv'
<1> USE DEF CreateSteps, ScopedSteps, InvokeSteps
<1>0. /\ UNCHANGED <<app, bench, asset>>
      /\ TypeOK
      /\ step \in CreateSteps =>
           /\ self \in Script /\ self # NoScript /\ target \in Slot
           /\ object[self] = "constructing"
  BY ConstantsAssumption DEF Inside, appVars, IInv, CreateInv
<1>9. CASE SetVMFlags \/ InitializeVM
  BY <1>0, <1>9, StartHandlerInv
<1>1. CASE CheckPath \/ SnapshotUnreadable \/ LoadCinderLib \/ LoadSource \/ FinalizeLoading
           \/ RunMain \/ MainFails
  BY <1>0, <1>1, QuietHandlerInv
  DEF CheckPath, SnapshotUnreadable, LoadCinderLib, LoadSource, FinalizeLoading, RunMain, MainFails,
      Goto, Throw, Abort, CheckedError, memoryVars, vmVars, callVars
<1>2. CASE IsolateRefused \/ IsolateCreated
  BY <1>0, <1>2, QuietHandlerInv DEF IsolateRefused, IsolateCreated, Goto, Throw, memoryVars, callVars
<1>3. CASE SetTagHandler
  BY <1>0, <1>3, QuietHandlerInv DEF SetTagHandler, memoryVars, callVars
<1>4. CASE ScriptLoaded \/ ScriptRejected \/ ImportThrows \/ MainReturns
  BY <1>0, <1>4, QuietHandlerInv
  DEF ScriptLoaded, ScriptRejected, ImportThrows, MainReturns, Goto, Throw, Abort, CheckedError,
      memoryVars, callVars
<1>5. CASE InvokeCrashes \/ InvokeAsserts \/ NativeAsserts
  BY <1>0, <1>5, QuietHandlerInv DEF InvokeCrashes, InvokeAsserts, NativeAsserts, memoryVars, vmVars, callVars
<1>6. CASE CallFunction
  BY <1>0, <1>6, QuietHandlerInv DEF CallFunction, Goto, memoryVars, vmVars, callVars
<1>7. CASE CreateReturns
  <2>1. /\ self \in Script /\ self # NoScript /\ target \in Slot /\ current = self /\ step = "return"
        /\ UNCHANGED <<current, newest, app, bench, asset>> /\ step' = "idle"
        /\ object'[self] = "complete"
        /\ slot' = [slot EXCEPT ![target] = self]
    BY <1>0, <1>7 DEF CreateReturns, IInv, IsolateInv
  <2>2. AppTypes'
    BY <2>1 DEF HandlerInv, AppTypes
  <2>3. BenchInv'
    BY <1>0, <2>1, AppsAssumption DEF HandlerInv, BenchInv, TypeOK
  <2>4. ASSUME app # "Any" PROVE AssetInv' /\ InvokeInv'
    <3>1. AssetInv'
      BY <1>0, <2>1, <2>4, AppsAssumption DEF HandlerInv, AssetInv, TypeOK
    <3>2. InvokeInv'
      BY <2>1 DEF InvokeInv
    <3> QED
      BY <3>1, <3>2
  <2> QED
    BY <1>0, <2>2, <2>3, <2>4 DEF HandlerInv
<1>8. CASE LeaveInvoke
  <2>1. UNCHANGED <<object, slot, current, newest, app, bench, asset>> /\ step' = "idle" /\ step = "leaving"
    BY <1>0, <1>8 DEF LeaveInvoke, memoryVars
  <2> QED
    BY <2>1 DEF HandlerInv, AppTypes, BenchInv, AssetInv, InvokeInv
<1> QED
  BY <1>1, <1>2, <1>3, <1>4, <1>5, <1>6, <1>7, <1>8, <1>9 DEF Inside

\* The exits that the handler notices, and the steps of an application at large.
LEMMA ExitHandlerInv ==
  ASSUME IInv, HandlerInv, CreateThrows \/ InvokeReturns \/ InvokeThrows \/ AnyStep
  PROVE  HandlerInv'
<1> USE DEF CreateSteps, ScopedSteps, InvokeSteps
<1>0. TypeOK
  BY DEF IInv
<1>1. CASE CreateThrows
  <2>1. /\ step = "unwind" /\ step' = "idle" /\ bench' = "none"
        /\ object' = [object EXCEPT ![self] = "freed"]
        /\ UNCHANGED <<slot, current, newest, app, asset>>
        /\ self \in Script /\ target \in Slot
    BY <1>1 DEF CreateThrows, Unwind, IInv, CreateInv
  <2>2. AppTypes' /\ BenchInv'
    BY <2>1 DEF HandlerInv, AppTypes, BenchInv
  <2>3. ASSUME app # "Any" PROVE AssetInv' /\ InvokeInv'
    <3>1. AssetInv'
      BY <1>0, <2>1, <2>3 DEF HandlerInv, AssetInv, TypeOK
    <3>2. InvokeInv'
      BY <2>1 DEF InvokeInv
    <3> QED
      BY <3>1, <3>2
  <2> QED
    BY <2>1, <2>2, <2>3 DEF HandlerInv
<1>2. CASE InvokeReturns \/ InvokeThrows
  <2>1. /\ UNCHANGED <<object, slot, current, newest, app, asset>>
        /\ step \in InvokeSteps /\ step' = "leaving" /\ bench' \in {bench, "none"}
    BY <1>2 DEF InvokeReturns, InvokeThrows, EndInvoke, Goto, memoryVars, vmVars
  <2> QED
    BY <2>1 DEF HandlerInv, AppTypes, BenchInv, AssetInv, InvokeInv
<1>3. CASE AnyStep
  <2>1. app = "Any" /\ UNCHANGED <<app, bench, asset, current, newest>>
    BY <1>3 DEF AnyStep, AppStep, appVars, SetVMFlags, Create, BeginInvoke, Release, vmVars
  <2> QED
    BY <2>1 DEF HandlerInv, AppTypes, BenchInv
<1> QED
  BY <1>1, <1>2, <1>3

\* Where the handlers call the library.
LEMMA EventHandlerInv ==
  ASSUME IInv, HandlerInv, SetUp \/ Reload \/ Click \/ RunBenchmarks \/ NextBenchmark
  PROVE  HandlerInv'
<1>1. CASE Reload
  BY <1>1, CreateFromHandlerInv, AppsAssumption DEF Reload, LoadScript, Waiting, AtRest
<1>5. CASE SetUp
  <2>1. UNCHANGED <<app, bench>> /\ step = "idle" /\ bench = "none"
    BY <1>5 DEF SetUp, AtRest
  <2>2. CASE SetVMFlags /\ UNCHANGED asset
    BY <2>1, <2>2, StartHandlerInv
  <2>3. CASE LoadScript
    BY <2>1, <2>3, CreateFromHandlerInv, AppsAssumption DEF LoadScript
  <2>4. CASE UNCHANGED <<vars, asset>>
    BY <2>1, <2>4 DEF vars, HandlerInv, AppTypes, BenchInv, AssetInv, InvokeInv
  <2> QED
    BY <1>5, <2>2, <2>3, <2>4 DEF SetUp
<1>2. CASE Click
  <2>1. app = "DartFields" /\ UNCHANGED <<app, asset, bench>> /\ bench = "none"
        /\ BeginInvoke(mScript)
    BY <1>2 DEF Click, Waiting, appVars
  <2> QED
    BY <2>1, InvokeHandlerInv
<1>3. CASE RunBenchmarks
  <2>1. app = "CallbackTest" /\ UNCHANGED app /\ step = "idle" /\ bench = "none"
    BY <1>3 DEF RunBenchmarks, Waiting, AtRest
  <2>2. CASE slot[sScript] = NoScript /\ CreateFrom(sScript, "benchmark") /\ bench' = "load"
    BY <2>1, <2>2, CreateFromHandlerInv, AppsAssumption
  <2>3. CASE slot[sScript] # NoScript /\ BeginInvoke(sScript) /\ bench' = "first" /\ UNCHANGED asset
    BY <2>1, <2>3, InvokeHandlerInv
  <2> QED
    BY <1>3, <2>2, <2>3 DEF RunBenchmarks
<1>4. CASE NextBenchmark
  <2>1. /\ BeginInvoke(sScript) /\ UNCHANGED <<app, asset>> /\ bench' # "none"
        /\ app = "CallbackTest" /\ slot[sScript] # NoScript
    BY <1>4 DEF NextBenchmark, AtRest, HandlerInv, BenchInv, CreateSteps, ScopedSteps
  <2> QED
    BY <2>1, InvokeHandlerInv
<1> QED
  BY <1>1, <1>2, <1>3, <1>4, <1>5

LEMMA NextHandlerInv == IInv /\ HandlerInv /\ [AppNext]_allVars => HandlerInv'
<1> SUFFICES ASSUME IInv, HandlerInv, [AppNext]_allVars PROVE HandlerInv'
  OBVIOUS
<1>1. CASE SetUp \/ Reload \/ Click \/ RunBenchmarks \/ NextBenchmark
  BY <1>1, EventHandlerInv
<1>2. CASE CreateThrows \/ InvokeReturns \/ InvokeThrows \/ AnyStep
  BY <1>2, ExitHandlerInv
<1>3. CASE Inside
  BY <1>3, InsideHandlerInv
<1>4. CASE ClearRects \/ CallNative \/ Convey \/ UNCHANGED allVars
  <2>1. UNCHANGED <<vars, app, bench, asset>>
    BY <1>4 DEF ClearRects, CallNative, Call, Convey, Convert, ConvertLogs, ConvertThrows, allVars, appVars
  <2> QED
    BY <2>1 DEF vars, HandlerInv, AppTypes, BenchInv, AssetInv, InvokeInv
<1> QED
  BY <1>1, <1>2, <1>3, <1>4 DEF AppNext, Event, Handle

LEMMA HandlersInductive == AppSpec => []HandlerInv
<1>1. AppInit => HandlerInv
  BY ConstantsAssumption, AppsAssumption
  DEF AppInit, Init, HandlerInv, AppTypes, BenchInv, AssetInv, InvokeInv, CreateSteps, ScopedSteps,
      InvokeSteps
<1> QED
  BY <1>1, NextHandlerInv, AppInductive, PTL DEF AppSpec

-----------------------------------------------------------------------------
(* The newest script answers *)

\* The function is missing only where the script is not the newest one.
THEOREM NewestAnswers == AppSpec => []NewestScriptAnswers
<1>1. ASSUME IInv, HandlerInv, app # "Any", step = "inDart", self = newest
      PROVE  FunctionThere
  <2>1. self # NoScript /\ self \in {slot[mScript], slot[sScript]} /\ (bench # "none" => self = slot[sScript])
    <3>1. current \in Script
      BY <1>1 DEF IInv, ScopeInv, ScopedInv, InvokeSteps
    <3> QED
      BY <1>1, <3>1, ConstantsAssumption DEF HandlerInv, AppTypes, InvokeInv
  <2>2. current = self /\ library[self] = "ran"
    BY <1>1, <2>1, AppsAssumption DEF IInv, NewestScriptIsCurrent, HeldScriptsAreReady
  <2>3. bench # "none" => asset[self] = "benchmark"
    BY <1>1, <2>1 DEF HandlerInv, AssetInv
  <2> QED
    BY <2>2, <2>3 DEF FunctionThere
<1>2. IInv /\ HandlerInv => NewestScriptAnswers
  BY <1>1 DEF NewestScriptAnswers
<1> QED
  BY <1>2, AppInductive, HandlersInductive, PTL

-----------------------------------------------------------------------------
(* What scripts send *)

\* The member shows what was sent for it, or somebody was told.
Shown(f) ==
  \/ field[f] = sent[f]
  \/ sent[f] = "told"
  \/ sent[f] = "logged" /\ field[f] = NoScript

\* No two conversions are for the same member.
OneEach(reads) == \A q, r \in reads : q.to \in Members /\ q.to = r.to => q = r

\* Between two conversions a member has its value or is going to get it, and the
\* script that sent it is still the one that runs.
DeliveryInv ==
  /\ todo # {} => step \in {"inMain", "inDart", "aborted"} /\ object[current] # "freed"
  /\ \A r \in todo : r.to \in Members => sent[r.to] = current
  /\ OneEach(todo)
  /\ \A f \in Members : Shown(f) \/ \E r \in todo : r.to = f

DeliveryTypes ==
  /\ field \in [Members -> Script \cup {NoScript}]
  /\ sent \in [Members -> Script \cup {NoScript, "told", "logged"}]

\* A callback converts what its script sends, once, and only that goes to a member.
WellFormed(callback) ==
  /\ \A f \in callback.sends : f \in Members /\ \E r \in callback.reads : r.to = f
  /\ \A r \in callback.reads : r.to \in Members => r.to \in callback.sends
  /\ OneEach(callback.reads)

LEMMA CallbacksWellFormed ==
  /\ WellFormed(Message) /\ WellFormed(Increment) /\ WellFormed(Sphere) /\ WellFormed(LookAt)
  /\ \A keys \in SUBSET DartKeys : WellFormed(Info(keys))
<1> USE DEF WellFormed, OneEach, Members
<1>1. WellFormed(Message) /\ WellFormed(Increment) /\ WellFormed(Sphere) /\ WellFormed(LookAt)
  <2>1. WellFormed(Message)
    <3>1. Message.sends = {"message"} /\ Message.reads = {[at |-> 1, to |-> "message"]}
      BY DEF Message
    <3>2. [at |-> 1, to |-> "message"].to = "message"
      OBVIOUS
    <3> QED
      BY <3>1, <3>2
  <2>2. WellFormed(Increment)
    BY DEF Increment
  <2>3. WellFormed(Sphere)
    <3>1. /\ Sphere.sends = {"center", "radius"}
          /\ Sphere.reads = {[at |-> 1, to |-> "center"], [at |-> 2, to |-> "radius"]}
      BY DEF Sphere
    <3>2. [at |-> 1, to |-> "center"].to = "center" /\ [at |-> 2, to |-> "radius"].to = "radius"
      OBVIOUS
    <3> QED
      BY <3>1, <3>2
  <2>4. WellFormed(LookAt)
    <3>1. LookAt.sends = {"camera"} /\ LookAt.reads = {[at |-> 1, to |-> "camera"]}
      BY DEF LookAt
    <3>2. [at |-> 1, to |-> "camera"].to = "camera"
      OBVIOUS
    <3> QED
      BY <3>1, <3>2
  <2> QED
    BY <2>1, <2>2, <2>3, <2>4
<1>2. ASSUME NEW keys \in SUBSET DartKeys PROVE WellFormed(Info(keys))
  <2>1. \A i \in 1..5 : ReceiveOrder[i] \in {"radius", "segments", "color", "rotationRate", "fruit"}
    BY DEF ReceiveOrder
  <2>2. \A i \in 1..5 : ReceiveOrder[i] \in InfoOf(keys) <=> ReceiveOrder[i] \in keys
    BY <2>1 DEF InfoOf, KeyString
  <2>3. ASSUME NEW f \in keys \cap Members PROVE \E r \in Receive(InfoOf(keys)) : r.to = f
    <3>1. PICK i \in 1..5 : ReceiveOrder[i] = f
      BY AppsAssumption
    <3>2. [at |-> i, to |-> ReceiveOrder[i]] \in Receive(InfoOf(keys))
      BY <2>2, <3>1 DEF Receive
    <3> QED
      BY <3>1, <3>2
  <2>4. ASSUME NEW r \in Receive(InfoOf(keys)), r.to \in Members PROVE r.to \in keys
    BY <2>2, <2>4 DEF Receive
  <2>5. OneEach(Receive(InfoOf(keys)))
    <3>1. SUFFICES ASSUME NEW q \in Receive(InfoOf(keys)), NEW r \in Receive(InfoOf(keys)), q.to = r.to
                   PROVE  q = r
      OBVIOUS
    <3>2. PICK i \in 1..5 : q = [at |-> i, to |-> ReceiveOrder[i]]
      BY DEF Receive
    <3>3. PICK j \in 1..5 : r = [at |-> j, to |-> ReceiveOrder[j]]
      BY DEF Receive
    <3>4. i = j
      BY <3>1, <3>2, <3>3 DEF ReceiveOrder
    <3> QED
      BY <3>2, <3>3, <3>4
  <2> QED
    BY <2>3, <2>4, <2>5 DEF Info
<1> QED
  BY <1>1, <1>2

\* A native call hands over what the callback then converts.
LEMMA CallDelivery ==
  ASSUME NEW callback, WellFormed(callback), Call(callback), DeliveryInv, object[current] # "freed",
         DeliveryTypes
  PROVE  DeliveryInv'
<1>1. /\ step \in {"inMain", "inDart"} /\ todo = {} /\ todo' = callback.reads
      /\ sent' = [f \in Members |-> IF f \in callback.sends THEN current ELSE sent[f]]
      /\ UNCHANGED <<step, object, current, field>>
  BY DEF Call, InDart, vars
<1>2. ASSUME NEW f \in Members, ~ \E r \in todo' : r.to = f PROVE Shown(f)'
  BY <1>1, <1>2 DEF DeliveryInv, WellFormed, Shown, DeliveryTypes
<1> QED
  BY <1>1, <1>2 DEF DeliveryInv, WellFormed, DeliveryTypes

\* Natives are called in a script that is not yet, or still, alive.
LEMMA CallerAlive == ASSUME IInv, HandlerInv, CallNative PROVE object[current] # "freed"
<1>1. CASE step = "inMain"
  BY <1>1 DEF IInv, CreateInv, IsolateInv, CreateSteps, ScopedSteps
<1>2. CASE step = "inDart"
  <2>1. app = "CallbackTest"
    BY <1>2 DEF CallNative, HandlerInv, InvokeInv, InvokeSteps
  <2>2. asset[current] = "benchmark" /\ slot[sScript] # NoScript /\ current \in Script
    BY <1>2, <2>1 DEF CallNative, Call, InDart, FunctionThere, HandlerInv, InvokeInv, BenchInv, IInv,
                      ScopedInv, ScopeInv, InvokeSteps, CreateSteps, ScopedSteps
  <2> QED
    BY <2>1, <2>2 DEF HandlerInv, AssetInv
<1> QED
  BY <1>1, <1>2 DEF CallNative, Call, InDart

\* A conversion gives its member the value its script sent, or somebody is told.
LEMMA ConveyDelivery == ASSUME DeliveryInv, Convey, DeliveryTypes PROVE DeliveryInv'
<1>0. UNCHANGED vars
  BY DEF Convey, Convert, ConvertLogs, ConvertThrows
<1>1. CASE Convert
  <2>1. PICK r \in todo :
          /\ field' = [f \in Members |-> IF f = r.to THEN current ELSE field[f]]
          /\ todo' = todo \ {r} /\ sent' = sent
    BY <1>1 DEF Convert
  <2>2. ASSUME NEW f \in Members PROVE Shown(f)' \/ \E q \in todo' : q.to = f
    BY <2>1 DEF DeliveryInv, Shown
  <2> QED
    BY <1>0, <2>1, <2>2 DEF DeliveryInv, OneEach, vars
<1>2. CASE ConvertLogs
  <2>1. PICK r \in todo :
          /\ r.to \in Members
          /\ field' = [field EXCEPT ![r.to] = NoScript]
          /\ sent' = [sent EXCEPT ![r.to] = "logged"]
          /\ todo' = todo \ {r}
    BY <1>2 DEF ConvertLogs, Lenient, Members
  <2>2. ASSUME NEW f \in Members PROVE Shown(f)' \/ \E q \in todo' : q.to = f
    <3>1. CASE f = r.to
      BY <2>1, <3>1 DEF DeliveryTypes, Shown
    <3>2. CASE f # r.to
      BY <2>1, <3>2 DEF DeliveryInv, DeliveryTypes, Shown
    <3> QED
      BY <3>1, <3>2
  <2>3. ASSUME NEW q \in todo', q.to \in Members PROVE sent'[q.to] = current
    <3>1. q.to # r.to
      BY <2>1, <2>3 DEF DeliveryInv, OneEach
    <3> QED
      BY <2>1, <2>3, <3>1 DEF DeliveryInv, DeliveryTypes
  <2> QED
    BY <1>0, <2>1, <2>2, <2>3 DEF DeliveryInv, OneEach, vars
<1>3. CASE ConvertThrows
  <2>1. /\ todo' = {} /\ field' = field
        /\ sent' = [f \in Members |-> IF \E q \in todo : q.to = f THEN "told" ELSE sent[f]]
    BY <1>3 DEF ConvertThrows
  <2>2. ASSUME NEW f \in Members PROVE Shown(f)'
    BY <2>1 DEF DeliveryInv, Shown
  <2> QED
    BY <2>1, <2>2 DEF DeliveryInv, OneEach
<1> QED
  BY <1>1, <1>2, <1>3 DEF Convey

\* While conversions are due nothing else happens but the end of the process.
LEMMA OthersDelivery ==
  ASSUME DeliveryInv, [AppNext]_allVars, ~ CallNative, ~ Convey
  PROVE  DeliveryInv'
<1>1. UNCHANGED <<field, todo, sent>>
  BY DEF AppNext, Event, Reload, LoadScript, Click, ClearRects, RunBenchmarks, AnyStep, Handle,
         SetUp, NextBenchmark, Inside, CreateThrows, InvokeReturns, InvokeThrows, allVars, appVars
<1>2. CASE todo = {}
  BY <1>1, <1>2 DEF DeliveryInv, Shown
<1>3. CASE todo # {}
  <2>1. step \in {"inMain", "inDart", "aborted"}
    BY <1>3 DEF DeliveryInv
  <2>2. NativeAsserts \/ InitializeVM \/ UNCHANGED vars
    BY <1>3, <2>1
    DEF AppNext, Event, Reload, LoadScript, Click, ClearRects, RunBenchmarks, AnyStep, AppStep, Waiting,
        AtRest, Handle, SetUp, SetVMFlags, NextBenchmark, CreateFrom, Create, BeginInvoke,
        InvokeCrashes, Release, Inside, CreateThrows, InvokeReturns, InvokeThrows, allVars, CheckPath, SnapshotUnreadable, IsolateRefused,
        IsolateCreated, SetTagHandler, LoadCinderLib, LoadSource, ScriptLoaded, ScriptRejected,
        ImportThrows, FinalizeLoading, RunMain, CreateReturns, LeaveInvoke, InvokeAsserts, CallFunction,
        Unwind
  <2>3. UNCHANGED <<object, current>> /\ step' \in {step, "aborted"}
    BY <2>2 DEF NativeAsserts, InitializeVM, memoryVars, vmVars, vars
  <2> QED
    BY <1>1, <2>1, <2>3 DEF DeliveryInv, Shown
<1> QED
  BY <1>2, <1>3

LEMMA DeliveryTypesStep ==
  IInv /\ DeliveryTypes /\ [AppNext]_allVars => DeliveryTypes'
<1> SUFFICES ASSUME IInv, DeliveryTypes, [AppNext]_allVars PROVE DeliveryTypes'
  OBVIOUS
<1> USE DEF DeliveryTypes
<1>0. current \in Script \cup {NoScript}
  BY DEF IInv, TypeOK
<1>1. CASE CallNative
  BY <1>0, <1>1 DEF CallNative, Call
<1>2. CASE Convey
  BY <1>0, <1>2 DEF Convey, Convert, ConvertLogs, ConvertThrows
<1>3. CASE ~ CallNative /\ ~ Convey
  BY <1>3 DEF AppNext, Event, Reload, LoadScript, Click, ClearRects, RunBenchmarks, AnyStep, Handle, SetUp,
         NextBenchmark, Inside, CreateThrows, InvokeReturns, InvokeThrows, allVars, appVars
<1> QED
  BY <1>1, <1>2, <1>3

LEMMA DeliveryStep ==
  IInv /\ HandlerInv /\ DeliveryTypes /\ DeliveryInv /\ [AppNext]_allVars => DeliveryInv'
<1> SUFFICES ASSUME IInv, HandlerInv, DeliveryTypes, DeliveryInv, [AppNext]_allVars PROVE DeliveryInv'
  OBVIOUS
<1>1. CASE CallNative
  <2>1. object[current] # "freed"
    BY <1>1, CallerAlive
  <2>2. \E callback : WellFormed(callback) /\ Call(callback)
    BY <1>1, CallbacksWellFormed DEF CallNative
  <2> QED
    BY <2>1, <2>2, CallDelivery
<1>2. CASE Convey
  BY <1>2, ConveyDelivery
<1>3. CASE ~ CallNative /\ ~ Convey
  BY <1>3, OthersDelivery
<1> QED
  BY <1>1, <1>2, <1>3

LEMMA DeliveryInductive == AppSpec => []DeliveryInv
<1>1. AppInit => DeliveryInv /\ DeliveryTypes
  BY DEF AppInit, DeliveryInv, DeliveryTypes, OneEach, Shown
<1> QED
  BY <1>1, DeliveryTypesStep, DeliveryStep, AppInductive, HandlersInductive, PTL DEF AppSpec

\* Whatever fails on the way, no member of an application shows anything but the
\* last value sent for it, unless the script was told that it got lost, or the log
\* says so and the member shows a value of no script.
THEOREM SentArrives == AppSpec => []SubmittedArrives
<1>1. DeliveryInv => SubmittedArrives
  BY DEF DeliveryInv, Shown, SubmittedArrives
<1> QED
  BY <1>1, DeliveryInductive, PTL

\* No callback is made for a Script after its end.
THEOREM ScriptsOutliveCallbacks == AppSpec => []CallbacksMeetTheirScript
<1>1. DeliveryInv => CallbacksMeetTheirScript
  BY DEF DeliveryInv, CallbacksMeetTheirScript
<1> QED
  BY <1>1, DeliveryInductive, PTL

=============================================================================
