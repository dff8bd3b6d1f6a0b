----------------------------- MODULE SampleApps -----------------------------
(***************************************************************************)
(* The sample applications and the callback test on top of the lifecycle   *)
(* of their scripts: what their event handlers do, which natives their     *)
(* scripts call, and what the callbacks make of the arguments.             *)
(*                                                                         *)
(* A callback is the set of the conversions it makes, each with its place  *)
(* in their order and the member of the application its value goes to, or  *)
(* "local".  A conversion gives the value that was sent, or throws an       *)
(* exception into the script, which leaves those that come after it        *)
(* undone, or logs an error and gives a value that nobody sent.            *)
(* The scripts do have the functions that the event handlers invoke.       *)
(***************************************************************************)
EXTENDS ScriptLifecycle

CONSTANTS
  mScript,  \* the ScriptRef member each of the applications has
  sScript,  \* the static ScriptRef of CallbackTestApp::runBenchmarks
  DartKeys, \* the keys of the maps that scripts send, "number" for one that is no string
  MaxRects  \* bound on the rectangles of DartFieldsApp

\* The keys InfoMapApp::receiveMap asks for, in the order it asks for them.
ReceiveOrder == <<"radius", "segments", "color", "rotationRate", "fruit">>

ASSUME AppsAssumption ==
  /\ {mScript, sScript} \subseteq Slot /\ mScript # sScript
  /\ DartKeys \subseteq {ReceiveOrder[i] : i \in 1..5} \cup {"number"}
  /\ MaxRects \in Nat
  /\ {"told", "logged"} \cap (Script \cup {NoScript}) = {}

VARIABLES
  app,      \* which application this is; "Any" uses its ScriptRefs as it likes
  ready,    \* has setup run?
  running,  \* FALSE once an exception has left an event handler
  bench,    \* how far runBenchmarks has come
  asset,    \* the asset each script was made from
  field,    \* the script each member of the application has its value from, if any
  todo,     \* the conversions the callback in progress still has to make
  sent,     \* the script that sent a value for each member last or, where that value
            \* got lost, who learned of it: the script or the log (history)
  rects     \* how many rectangles DartFieldsApp draws

appVars == <<app, ready, running, bench, asset, field, todo, sent, rects>>
allVars == <<vars, appVars>>

\* The members that callbacks assign to.
Members == {"message", "center", "radius", "camera", "segments", "color", "rotationRate"}

AppTypeOK ==
  /\ app \in {"DartBasic", "DartFields", "ImportPackage", "InfoMap", "CallbackTest", "Any"}
  /\ ready \in BOOLEAN
  /\ running \in BOOLEAN
  /\ bench \in {"none", "load", "first", "second"}
  /\ asset \in [Script -> {"main", "benchmark"}]
  /\ field \in [Members -> Script \cup {NoScript}]
  /\ todo \in SUBSET [at : 1..5, to : Members \cup {"local", "fruit"}]
  /\ sent \in [Members -> Script \cup {NoScript, "told", "logged"}]
  /\ rects \in 0..MaxRects

AppInit ==
  /\ Init
  /\ app \in {"DartBasic", "DartFields", "ImportPackage", "InfoMap", "CallbackTest", "Any"}
  /\ ready = (app = "Any")
  /\ running = TRUE
  /\ bench = "none"
  /\ asset = [s \in Script |-> "main"]
  /\ field = [f \in Members |-> NoScript]
  /\ todo = {}
  /\ sent = [f \in Members |-> NoScript]
  /\ rects = 0

-----------------------------------------------------------------------------
(* Event handlers.  A handler runs to its end before the next event. *)

\* Neither a call of the library nor the constructor of the VM is in progress.
AtRest == step = "idle" /\ vm # "flagged"

Waiting == AtRest /\ ready /\ running /\ bench = "none" /\ app # "Any"

\* The next Script object; which one it is makes no difference.
NextScript == CHOOSE s \in Script : object[s] = "unallocated"

\* MUTANT: the benchmark is loaded from the asset of the other script.
CreateFromMain(v, source) ==
  /\ \E s \in Script : object[s] = "unallocated"
  /\ Create(v, NextScript)
  /\ asset' = [asset EXCEPT ![NextScript] = "main"]

CreateFrom(v, source) ==
  /\ \E s \in Script : object[s] = "unallocated"
  /\ Create(v, NextScript)
  /\ asset' = [asset EXCEPT ![NextScript] = source]

LoadScript == CreateFrom(mScript, "main")

\* setup: the setters of the resources start the VM, then the script is loaded.
\* An asset that is missing throws before Script::create, and is logged.
SetUp ==
  /\ AtRest
  /\ ~ ready /\ bench = "none"
  /\ \/ SetVMFlags /\ UNCHANGED <<ready, asset>>
     \/ vm = "started" /\ LoadScript /\ ready' = TRUE
     \/ vm = "started" /\ ready' = TRUE /\ UNCHANGED <<vars, asset>>
  /\ UNCHANGED <<app, running, bench, field, todo, sent, rects>>

\* 'r' is pressed.
Reload ==
  /\ Waiting
  /\ LoadScript
  /\ UNCHANGED <<app, ready, running, bench, field, todo, sent, rects>>

\* DartFieldsApp::mouseDown, and mouseDrag, whether there is a script, and an
\* isolate, or not.
Click ==
  /\ Waiting
  /\ app = "DartFields"
  /\ BeginInvoke(mScript)
  /\ UNCHANGED appVars

ClearRects ==
  /\ Waiting
  /\ app = "DartFields"
  /\ rects' = 0
  /\ UNCHANGED <<vars, app, ready, running, bench, asset, field, todo, sent>>

\* CallbackTestApp::runBenchmarks, on 'b': the first time it loads its script.  A
\* script from before may be there while no isolate is.
RunBenchmarks ==
  /\ Waiting
  /\ app = "CallbackTest"
  /\ \/ /\ slot[sScript] = NoScript
        /\ CreateFrom(sScript, "benchmark")
        /\ bench' = "load"
     \/ /\ slot[sScript] # NoScript
        /\ BeginInvoke(sScript)
        /\ bench' = "first"
        /\ UNCHANGED asset
  /\ UNCHANGED <<app, ready, running, field, todo, sent, rects>>

\* ... and goes on with the next of its two functions.
NextBenchmark ==
  /\ AtRest
  /\ bench \in {"load", "first"}
  /\ BeginInvoke(sScript)
  /\ bench' = IF bench = "load" THEN "first" ELSE "second"
  /\ UNCHANGED <<app, ready, running, asset, field, todo, sent, rects>>

-----------------------------------------------------------------------------
(* The natives that the scripts of the applications call *)

\* Is the function that Dart_Invoke is to call in the isolate that is current?
FunctionThere ==
  /\ library[current] \in {"loaded", "ran"}
  /\ bench # "none" => asset[current] = "benchmark"

InDart == step \in {"inMain", "inDart"} /\ FunctionThere

\* A key that is not a string is converted to the empty string.
KeyString(key) == IF key = "number" THEN "" ELSE key

\* MUTANT: toCinderHandler stops at a key that is not a string.
StopsAtNumber(keys) == IF "number" \in keys THEN {} ELSE keys

\* The keys of the InfoMap toCinderHandler makes of a Dart map.
InfoOf(keys) == {KeyString(key) : key \in keys}

\* MUTANT: receiveMap returns at the first key that is missing.
ReturnsAtMissing(info) ==
  {[at |-> i, to |-> ReceiveOrder[i]] :
     i \in {j \in 1..5 : \A k \in 1..j : ReceiveOrder[k] \in info}}

\* receiveMap converts the values of the keys it finds.
Receive(info) ==
  {[at |-> i, to |-> ReceiveOrder[i]] : i \in {j \in 1..5 : ReceiveOrder[j] \in info}}

\* The callbacks of the applications, and what the scripts send them.  The camera is
\* given two vectors when both are converted, which so are one conversion.
Message    == [reads |-> {[at |-> 1, to |-> "message"]}, sends |-> {"message"}]
Increment  == [reads |-> {[at |-> 1, to |-> "local"]}, sends |-> {}]
Sphere     == [reads |-> {[at |-> 1, to |-> "center"], [at |-> 2, to |-> "radius"]},
               sends |-> {"center", "radius"}]
LookAt     == [reads |-> {[at |-> 1, to |-> "camera"]}, sends |-> {"camera"}]
Info(keys) == [reads |-> Receive(InfoOf(keys)), sends |-> keys \cap Members]

Call(callback) ==
  /\ InDart
  /\ todo = {}
  /\ todo' = callback.reads
  /\ sent' = [f \in Members |-> IF f \in callback.sends THEN current ELSE sent[f]]
  /\ UNCHANGED <<vars, app, ready, running, bench, asset, field, rects>>

CallNative ==
  \/ app = "DartBasic" /\ Call(Message)
  \/ app = "CallbackTest" /\ InDart /\ asset[current] = "main" /\ Call(Message)
  \/ app = "CallbackTest" /\ InDart /\ asset[current] = "benchmark" /\ Call(Increment)
  \/ app = "ImportPackage" /\ (Call(Sphere) \/ Call(LookAt))
  \/ app = "InfoMap" /\ \E keys \in SUBSET DartKeys : Call(Info(keys))

\* The conversion that is next.
IsNext(r) == r \in todo /\ \A q \in todo : r.at <= q.at

\* It gives the value that was sent.
Convert ==
  /\ step # "aborted"
  /\ \E r \in todo :
       /\ IsNext(r)
       /\ field' = [f \in Members |-> IF f = r.to THEN current ELSE field[f]]
       /\ todo' = todo \ {r}
  /\ UNCHANGED <<vars, app, ready, running, bench, asset, sent, rects>>

\* Members whose conversion returns where there is no string, or a field is missing.
Lenient == {"message", "center", "camera", "color"}

\* It logs an error and gives what T's constructor made; in a Release build also an
\* integer beyond 64 bits only logs, and gives a number nobody set.  The callback
\* assigns it like any other value, and the script goes on.
ConvertLogs ==
  /\ step # "aborted"
  /\ \E r \in todo :
       /\ IsNext(r)
       /\ r.to \in Lenient \/ (r.to \in Members /\ ~ Asserts)
       /\ field' = [field EXCEPT ![r.to] = NoScript]
       /\ sent' = [sent EXCEPT ![r.to] = "logged"]
       /\ todo' = todo \ {r}
  /\ UNCHANGED <<vars, app, ready, running, bench, asset, rects>>

\* MUTANT: the callback swallows the exception and returns.
ConvertSwallows ==
  /\ step # "aborted"
  /\ \E r \in todo : IsNext(r) /\ r.to \notin {"message", "fruit"}
  /\ todo' = {}
  /\ UNCHANGED <<vars, app, ready, running, bench, asset, field, sent, rects>>

\* It throws into the script, which so is told that the values from here on did
\* not arrive: their members stay as they are.  A string never throws.
ConvertThrows ==
  /\ step # "aborted"
  /\ \E r \in todo : IsNext(r) /\ r.to \notin {"message", "fruit"}
  /\ todo' = {}
  /\ sent' = [f \in Members |-> IF \E q \in todo : q.to = f THEN "told" ELSE sent[f]]
  /\ UNCHANGED <<vars, app, ready, running, bench, asset, field, rects>>

-----------------------------------------------------------------------------
(* How the calls of the library end *)

Inside ==
  /\ \/ step = "createIsolate" /\ SetVMFlags
     \/ InitializeVM
     \/ CheckPath \/ SnapshotUnreadable \/ IsolateRefused \/ IsolateCreated \/ SetTagHandler
     \/ LoadCinderLib \/ LoadSource \/ ScriptLoaded \/ ScriptRejected \/ ImportThrows
     \/ FinalizeLoading
     \/ RunMain
     \/ todo = {} /\ (MainReturns \/ MainFails)
     \/ CreateReturns \/ LeaveInvoke
     \/ InvokeCrashes \/ InvokeAsserts \/ CallFunction
     \/ NativeAsserts /\ (app # "Any" => FunctionThere)
  /\ UNCHANGED appVars

\* MUTANT: the try block of runBenchmarks ends after the load.
CreateThrowsGoesOn ==
  /\ Unwind
  /\ UNCHANGED appVars

\* The exception of Script::create is caught, by runBenchmarks around its whole
\* body.
CreateThrows ==
  /\ Unwind
  /\ bench' = "none"
  /\ UNCHANGED <<app, ready, running, asset, field, todo, sent, rects>>

\* invoke returns; mouseDown converts the result and keeps the rectangle.
InvokeReturns ==
  /\ todo = {}
  /\ EndInvoke
  /\ app # "Any" => FunctionThere
  /\ bench' = IF bench = "second" THEN "none" ELSE bench
  /\ rects' = IF app = "DartFields" /\ rects < MaxRects THEN rects + 1 ELSE rects
  /\ UNCHANGED <<app, ready, running, asset, field, todo, sent>>

\* MUTANT: runBenchmarks calls a function that threw once more.
InvokeRetried ==
  /\ todo = {}
  /\ EndInvoke
  /\ bench' = IF bench = "second" THEN "first" ELSE IF bench = "first" THEN "load" ELSE "none"
  /\ running' = (app # "DartFields")
  /\ UNCHANGED <<app, ready, asset, field, todo, sent, rects>>

\* invoke throws: runBenchmarks catches the exception, mouseDown does not.
InvokeThrows ==
  /\ todo = {}
  /\ EndInvoke
  /\ bench' = "none"
  /\ running' = (app # "DartFields")
  /\ UNCHANGED <<app, ready, asset, field, todo, sent, rects>>

\* An application that uses its ScriptRefs in any way it likes.
AnyStep ==
  /\ app = "Any"
  /\ AppStep
  /\ UNCHANGED appVars

Event == Reload \/ Click \/ ClearRects \/ RunBenchmarks \/ AnyStep

Handle  == SetUp \/ NextBenchmark \/ Inside \/ CreateThrows \/ InvokeReturns \/ InvokeThrows
Convey  == Convert \/ ConvertLogs \/ ConvertThrows

AppNext == Event \/ Handle \/ CallNative \/ Convey

AppSpec == AppInit /\ [][AppNext]_allVars

\* What has begun goes on, and Dart code comes to an end: it may call natives
\* again and again, but not for ever.
FairAppSpec == AppSpec /\ SF_allVars(Handle) /\ WF_allVars(Convey)

-----------------------------------------------------------------------------
(* Properties *)

\* Between two events every member of the application shows what the last script
\* to send a value for it sent, reloads and failed reloads included.  A value may
\* get lost on the way, but not without a word: either the script was told by an
\* exception, and nothing is said of the member, so that a sphere may have its new
\* centre and its old radius; or the log says so, and the member shows a value of
\* no script rather than one of a script before.
SubmittedArrives ==
  todo = {} =>
    \A f \in Members :
      \/ field[f] = sent[f]
      \/ sent[f] = "told"
      \/ sent[f] = "logged" /\ field[f] = NoScript

\* The natives run inside a call that is in progress, with the isolate they were
\* called in still current, and never for a Script that was destroyed: although
\* the callbacks belong to the Script, and a Script is replaced while others are
\* still used, none is called back after its end.
CallbacksMeetTheirScript == todo # {} => object[current] # "freed"

\* An invoke does not find its function only where the script it was called on
\* is not the one that was created last: as long as its last load succeeded, a
\* click does not end DartFieldsApp, and a benchmark that was just loaded runs.
NewestScriptAnswers ==
  app # "Any" /\ step = "inDart" /\ ~ FunctionThere => self # newest

\* Every event is handled, the start of the application among them: whatever
\* fails on the way, the handler gets back to the event loop, or the process ends.
EventsAreHandled == []<>((AtRest /\ ready /\ bench = "none") \/ step = "aborted")

=============================================================================
