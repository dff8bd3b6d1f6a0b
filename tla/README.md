# A TLA+ model of Cinder-Dart

Cinder-Dart (`src/src/cidart`) embeds the Dart VM in a Cinder application: the
application creates a `cidart::Script` from a `.dart` file, calls functions of
that script, and lends the script C++ callbacks.  This directory models what can
be checked of it with TLA+: the modules, the TLC configurations, and proofs that
TLAPS checks.

There are no threads in this code.  The application, the library and the Dart VM
run on one thread and call each other, so the hard behaviours are *orders of
calls*, *exits* (C++ exceptions, Dart exceptions that unwind by `longjmp`, error
handles that are only logged, asserts that exist only in Debug builds) and
*hidden global state* (the current isolate, the open API scopes, the VM
singleton's paths and caches).

Contents: [Inventory](#inventory) · [Plan](#plan) · [Modules](#modules) ·
[Runs](#runs-and-bounds) · [Fairness](#fairness) · [Proofs](#proofs) ·
[Disagreements](#where-code-and-documentation-disagree) ·
[Assumptions](#assumptions-about-what-is-outside) · [Left out](#not-modelled)

## Inventory

| Part | Source | State | Operations | Correct when |
|---|---|---|---|---|
| Script lifecycle | `Script.h`, `Script.cpp` 35-151 | `mIsolate`, `mMainScriptPath`, the callback maps; in the VM: the current isolate, its root library, its API scopes | `Script::create`, `init`, `createIsolateCallback`, `invoke`, the implicit destructor | creating is all or nothing; scopes are closed on every exit; a held script has run `main` |
| Library loader | `Script.cpp` 153-279 | `mImportedLibraries`; in the VM: the library table | `libraryTagHandler`, `resolveRelativeImportPath`, `resolvePackageImportPath`, `loadSourceImpl` | each URL gets the right file; a failed import is never taken for success; cycles end |
| Native calls | `Script.cpp` 23-33, 54-72, 282-363; `Exception.cpp` | `mNativeCallbackMap`, `mFunctionCallbackMap`, `mReceiveMapCallback`; the call stack of handler, Dart and native frames, each with its API scopes | `resolveNameHandler`, `callNativeFunctionHandler`, `toCinderHandler`, `printNativeHandler`, `throwException`, `throwIfError` | scopes live as long as their frames; exceptions reach code that can handle them |
| Conversions | `Types.h`, `Types.cpp` | none, but for the variable converted into | `getValue`, `getField`, `getArg`, `getFieldOrDefault`, `toDart`, ... | numbers are right; structured values are never half converted |
| Dart library | `cinder.dart` | none | the value classes, `LogLevel` and the native declarations | it agrees with `Types.cpp` |
| InfoMap delivery | `Script.cpp` 328-363 | the `InfoMap` handed to the receiver | `toCinderHandler` | the receiver sees what the script sent |
| Import directories | `VM.cpp` 137-154 | `mImportSearchDirectories` | `addImportDirectory`, `removeImportDirectory` | each directory once, in the order of first addition |
| Resources | `VM.h` 22-24, `VM.cpp` 107-135 | `mSnapshotPath`, `mSnapshot`, `mCinderDartScriptDataSource` | the setters, `getSnapShot`, `getCinderDartScript` | a script is created from the resources that were set |
| Window and time getters | `Script.cpp` 365-417 | none | one native function each | they return or throw |
| VM start | `VM.cpp` 38-75 | the singleton | `VM::instance`, `VM::VM` | it is made once, flags first, before any isolate |
| File callbacks | `VM.cpp` 160-223 | the stream and buffer of one file | open, read, write, close | the length reported is what was read |
| Applications | `samples/`, `test/CallbackTest` | `mScript`, `sScript`, the members that callbacks assign | `setup`, key and mouse handlers, callbacks | each event ends; members show what was sent last |
| Dart VM | `dart-runtime/include` (headers only) | isolates, libraries, scopes, handles | the functions of `dart_api.h` the library calls | used in the order and states the header requires |

How they interact: an event handler of the application calls the lifecycle,
which creates an isolate with the resources, loads `cinder.dart` into it, and
gives the VM the script; while parsing it the VM calls the library loader back,
once per import and part, nested as deep as the imports are; the loader reads
the import directories.  Running `main`, or a later `invoke`, the VM calls
natives back, which call the application's callbacks, which convert values and
may throw.

Every hazard this code is exposed to is listed in `PROJECT.json` at its line,
with the properties that cover it or the reason why none does.

## Plan

Modelled in the order of importance: what creates, runs and frees scripts first,
then what runs inside of that, then what surrounds it.

| | Module | What it models | Composes |
|---|---|---|---|
| 1 | `ScriptLifecycle` | starting the VM; creating, invoking, replacing and releasing scripts | |
| 2 | `ScriptService` | abstract: what the application is promised of `Script::create` | implemented by 1 |
| 3 | `DartIsolates` | abstract: what `dart_api.h` requires of a caller | implemented by 1 |
| 4 | `LibraryLoader` | the tag handler and the nested loads | refines one step of 1, `ScriptLoaded` and its failures |
| 5 | `LibraryGraph` | abstract: what loading a script comes to, given its files | implemented by 4 |
| 6 | `NativeCalls` | calls between C++ and Dart, with scopes and exceptions | refines the steps `inMain` and `inDart` of 1 |
| 7 | `NestedCalls` | abstract: what C++ code may count on when it calls Dart | implemented by 6 |
| 8 | `DartValues` | Dart objects and the API functions that read and make them | |
| 9 | `Conversions` | the `getValue` family, and questions about objects | uses 8 |
| 10 | `VMResources` | setters, import directories, snapshot, `cinder.dart`, file callbacks | refines the exits `SnapshotUnreadable`, `LoadCinderLib` of 1 |
| 11 | `SampleApps` | the five applications, their handlers and callbacks | extends 1 |

"Refines" in the last column is how the parts fit: TLC and TLAPS check the
implementations of 2, 3, 5 and 7, and that 11 extends 1.  Each of the others has its
TLC instance and, but for 8, which 9 brings with it, its proofs.  Worth doing next: to
put `NativeCalls` and `LibraryLoader` in place of the steps of `ScriptLifecycle` that
stand for them; a receiver in `SampleApps` that is interrupted by an invoke of its own.

## Modules

### ScriptLifecycle

Follows the `Script` objects of one application.  `vm` tells how far the singleton
is: `SetVMFlags` and `InitializeVM` are the two halves of `VM::VM`, which runs in
whichever call uses `VM::instance` first, a setter or `createIsolateCallback`.
`object` is their memory,
`slot` the application's `ScriptRef` variables, `isolate`, `current` and `library`
what the VM knows, `scope` the number of API scopes open in each isolate.  A call
in progress is a program counter `step` with the `this` pointer `self`, the
variable `target` the result goes to, and `scoped`: is the `DartScope` object of
the C++ frame alive?

`Script::create` is one action per point where it can end otherwise: `CheckPath`
(51-52), `SnapshotUnreadable`, `IsolateRefused`, `IsolateCreated`, `SetTagHandler`
(74-81 and 130-151), `LoadCinderLib` (`VM.cpp` 77-119), `LoadSource` (115-123),
`ScriptLoaded`, `ScriptRejected` and `ImportThrows` (91-92 and the tag handler),
`FinalizeLoading` (94-97), `RunMain`, `MainReturns` and `MainFails` (98), `CreateReturns`, and
`Unwind` for all exceptions.  `CreateReturns` also destroys the script the
variable held, as the assignment does.  The destructor of `Script` is implicit and
frees memory only: no action ever shuts an isolate down or enters another one,
because no line of the code does.

An event handler's `invoke` is `BeginInvoke`, which opens the handler's `DartScope` in
whatever isolate is current, and ends the process where there is none; then
`CallFunction`, which calls `Dart_Invoke` on whatever root library there is, or
`InvokeAsserts`; `EndInvoke`, with an answer or an exception; and `LeaveInvoke`, where
the `DartScope` closes.  `InvokeCrashes` is an invoke through a null `ScriptRef`, which
may also go on like any other.  `FunctionRuns` tells whether Dart code runs, or the
library was not fit to run any.

`CIDART_CHECK` is `CheckedError`: it logs, and ends the process in a Debug build,
which `Asserts` tells.

### ScriptService

The abstract specification: a script is new, has run its `main`, is held, or is
gone; an assignment of `Script::create` happens in one step, or fails and changes
nothing the application holds.  `ScriptLifecycle` maps its variables onto it
(`Phase`) and implements it (`ImplementsService`).

### DartIsolates

The other abstract specification, of what the library stands on: the functions of
`dart_api.h` with a state, each guarded by what the header requires of the caller.
`ScriptLifecycle` implements it too (`KeepsDartContract`, with `Root` telling how far
each root script is): no exit of `init`, and no handler after it, leaves a scope where
it was not entered, runs a function before the script is finalized, or asks anything of
a VM that is not initialised.

The code makes three calls that the header rules out.  The abstract specification has
them by name, with what comes of them, so that the refinement says that among the
functions it has there are no others:

- `Dart_CreateIsolate` while an isolate is current: its action has no guard on that, and
  the run `IsolateReload` shows it;
- `Dart_EnterScope` with no isolate current (`EnterScopeWithoutIsolate`): a click or a
  benchmark after a load that was refused or failed before there was an isolate
  (`DartFieldsApp.cpp:67`, `CallbackTestApp.cpp:105`).  It ends the process, and `fatal`
  says that no call comes after it;
- `Dart_Invoke` on null or on a library that failed to load (`InvokeWithoutLibrary`,
  `Script.cpp:103-107`): it answers an error, and no Dart code runs.

### LibraryLoader

The inside of `Dart_LoadScript`.  `stack` is the loads in progress, each with the
directives still to be done; a directive at the top is what the VM calls
`libraryTagHandler` for.  An import of a library the VM does not have pushes a
load (`ImportPackage`, `ImportRelative`), and what the handler does after
`Dart_LoadLibrary` came back is an action of its own (`PackageLoaded`,
`RelativeLoaded`, `PackageFails`, `RelativeFails`), so that what was written before
and after the nested load shows: `mImportedLibraries` is written before it for a
package (213) and after it for a relative import (239).  Paths and URLs are sequences of
segments of any kind (`Segment`), and the file system is a function from paths to files, each with its
directives and whether it compiles.

### LibraryGraph

The abstract loader.  The files make a graph: which library imports which
(`ImportGraph`), and which libraries compile with all their parts (`WholeLibraries`),
where "file" means the one the handler's search finds (`TextOf`, `PartOf`).  Libraries
are found one by one, each because one that was found imports it (`Find`); the load
ends well when nothing is left to find and all of it is whole (`Succeed`), badly only
on account of a library that was found (`Fail`).  There is no nesting, no record of
imports and no way an error takes, which is what `LibraryLoader` adds and must hide
(`ImplementsGraph`).  Of the graph alone `OutcomeIsThatOfTheFiles` says that a script
loads if and only if everything it leads to is there and compiles.

### NativeCalls

One isolate's call stack: an event handler at the bottom, then Dart and C++ frames
in turn.  `scopes` names the frame each open API scope belongs to.  The four ways
out of a frame are `...Returns`, a Dart exception (`DartThrows`, `DartUncaught`,
`DartCatches`), a C++ exception (`InvokeFindsNothing`, `CxxCaught`,
`CxxLeavesHandler`, `CxxUncaught`) and `ThrowException`, the `longjmp` of
`Dart_ThrowException`, which drops frames and scopes without running destructors,
or fails when there is no Dart frame to go to.  `CallNative` is
`resolveNameHandler`, `DispatchKey` and `KeyUnknown` are
`callNativeFunctionHandler`, `ToCinder...` is `toCinderHandler`.

`Options` is `Script::Options`: which names and keys the application registers, and
whether it has a map receiver; `init` adds the library's own names to them.

### NestedCalls

The abstract specification of the calls: Dart code is not there, only the C++
functions at their levels.  Each begins inside the one that waits (`Begin`), may be
handed on to a callback (`Dispatch`), waits while what it invoked runs (`Invoke`), and
goes on from there (`ComeBack`) with a result or raised with a `DartException`, which it
catches (`Catch`) or leaves with, if it is the oldest (`Leave`); its handles are good
from the first to the last of these.  Every step is one of the innermost function, so
nothing is jumped over.  `NativeCalls` implements it (`ImplementsNesting`), with
`CallAt` to tell what the function in a frame is doing: the `longjmp` of
`Dart_ThrowException` is an ordinary `Leave` of the native that called it.

### DartValues and Conversions

`DartValues` has the Dart objects as records that say of what kind they are, and the
functions of `dart_api.h` on them; a function that returns through a pointer gives
the set of what it may put there, empty where it answers an error and leaves the
variable alone.

`Conversions` is one call of the `getValue` family.  `access` is the function called:
`getField`, `getFieldOrDefault`, `getMapValueForKey`, `getFloatForKey` and `getArg` find
the object first, each in its own way, and go on as `getValue`.  A type is the list
of its components in the order of the code; `pending` is those still to be converted,
and `result` what each holds: the constructor's value, nothing anyone set, the
caller's default, or a value that was converted.  First all fields are looked up
(`FieldsMissing`, `FieldsFound`), then each is converted (`ConvertNumber`, `TooLong`,
`ConvertBool`, `ConvertString`, `SwitchLevel`) or throws (`Throws`), in the build given
by `asserts` and with Dart code below or not (`inDart`).  `hasFunction`, `isCinderClass`,
`getTypeName` and `printNativeArgumentsToString` ask about an object in the same
variables: each of the API calls they chain may answer an error, which a Debug build
stops at and a Release build hands on to the next.  Casts are modelled at a
width given by `IntHalf` and `LongHalf`: they wrap, truncate, or, for a double that
does not fit, give anything.  The classes of `cinder.dart` are there as data, so that
the two files can be compared: `CinderObjectsConvert` says that an object of such a
class has every component converted, with one exception, `ivec3`, which has no `z` in
`cinder.dart` (52-56) and of which therefore nothing arrives.  `ErrorsGiveDefaults`, of
the run `FailedConversion`, is about `getValue` and `getFieldOrDefault`, the two that
`Types.h` promises a default for.

### VMResources

The static state of `VM`: `searchDirs`, `snapshotPath`, `snapshot` and `cinderSource`
are its members.  The setters run between two scripts; `BeginCreate`, `GetBuffer`,
`CreateIsolate`, `GetCinderDartScript` and `ReadCinder` are what a create asks of them;
`OpenFile` to `CloseFile` are the file callbacks, with reading in two steps
(`MeasureFile`, `FillBuffer`) as in the code.  Between any two steps other programs
may make, delete and redirect directories, and change files (`Relink`,
`ChangeCinder`, `ChangeSnapshotFile`, `ChangeSize`).  Where `ftell` fails, the length is -1
and `new` throws out of the call (`MeasureFails`).  Directories are compared by their
canonical path, of which a link is another name.  `listed` and `newer` are history: the
directories added and not removed, and which of them came later.

### SampleApps

`ScriptLifecycle` with the applications on top, `app` saying which: the four samples,
the callback test, and one that uses its `ScriptRef`s in any way.  `SetUp` is
`setup`, with the setters that start the VM and the first `loadScript`; `Reload`,
`Click`, `ClearRects` and `RunBenchmarks` are the event handlers, `NextBenchmark` the rest
of the last one.  The natives that the scripts call run inside the call in
progress: a callback is the set of its conversions, `todo`, taken in order by
`Convert` or ended by `ConvertThrows`; for InfoMap it is made of the keys that
arrive (`InfoOf`, `Receive`).  A third outcome is `ConvertLogs`: structured values and
strings (`Lenient`) that are not what was expected are logged, and the callback assigns
what the constructor made; in a Release build an integer beyond 64 bits does the same
with a number nobody set.  `sent` is history: the last script that sent a value for a
member or, where the value was lost, who was told: the script, by an exception, or only
the log.

## Runs and bounds

All properties are about states or steps that several calls lead to; each has a
mutant in the module, marked `MUTANT`, that is a plausible bug of the code and
breaks it.

| Run | What it asks | Bounds |
|---|---|---|
| `LifecycleDebug` | scopes balanced, held scripts ready, newest current, creating all or nothing (`ImplementsService`), the VM used as its header asks (`KeepsDartContract`) | a Debug build; 4 scripts, 2 variables (`mScript`, `sScript` of the callback test), symmetric |
| `Samples` | members show what was sent, no callback of a freed script, held scripts ready, the newest script answers, every event is handled, every construction ends | a Release build; 3 scripts, 2 variables, all applications, `MaxRects` 2, five `DartKeys` |
| `LoaderRelease` | which files are loaded, what is recorded, nothing failed is taken for loaded, the files alone decide the outcome (`ImplementsGraph`, `OutcomeIsThatOfTheFiles`), loads end | a Release build; all file systems of `MCDisks` |
| `Calls` | scopes match frames, exceptions find their code, `throwException` returns to handlers only, every invoke comes back to its caller (`ImplementsNesting`) | both builds; 7 frames, that is three invokes inside each other |
| `Conversions` | numbers right, no half-converted value, both files agree but for `ivec3`, no unset variable leaves a Debug build | both builds; 22 types, every kind of handle, 4 bits for `int`, 6 for `int64_t` |
| `Resources` | directories listed once and in order, `cinder.dart` from the newest, isolates start alike, read lengths | 2 directories and a link, a snapshot file with 2 contents, the bundled one, 2 data sources of which one is unreadable, a file of at most 1 byte, `MaxChanges` 2 changes by others |
| `InvokeReceiver`, `IsolateReload`, `LoadErrors`, `IsolateData`, `PartFallback`, `FailedConversion` | each refutes one sentence of the documentation, [below](#where-code-and-documentation-disagree) | as above |

Why the bounds are enough.  *Lifecycle*: the relations that matter are between
the script held by the variable assigned, one held by the other variable, the one
being created, and one that failed before; that is four scripts and two variables.
*Loader*: `a.dart` and `b.dart` may import each other and the package may lead
back, so loads are nested through a cycle; every file but the main script may be
missing, in two or three places at once, or broken; a part may be beside the
script, in an import directory, or beside the package.  *Calls*: an exception can
be caught, passed on or thrown again at a frame with Dart below it and Dart above
it, which takes two invokes; the third shows that it repeats (`MaxDepth` cuts off
deeper calls by the guards of `Invoke` and `CallNative`).  The theorems hold at any
depth.  *Conversions*: the integers lie on both sides of each bound of both widths;
the proofs hold at any width.  *Samples*: a script, its replacement, and the static
script of the benchmarks beside them are three; the lifecycle below was checked
with four.  `DartKeys` has keys of each kind: numbers, a colour, a string and one that
is no string; `rotationRate` is left out, as it is converted like `radius`.  *Resources*: order needs two directories, aliasing a link to one of them;
one change may hit the lookup, a second what follows from the first (a directory
that is deleted and made again, a file cut after it was measured).

`LifecycleDebug` and `Samples` share most of the lifecycle between the two builds: in
a Debug build an error that is checked ends the process, in a Release build `init`
goes on after it.  The theorems hold in both.

`CHECK_DEADLOCK FALSE` is set where the program may really stop: a process that
aborted, a load or a conversion that is over, an application that has used up its
scripts.  `Resources` never stops, and is checked for deadlock.

Symmetry is used for safety only; the runs with a liveness property have none.

## Fairness

`LibraryLoader` assumes weak fairness of `Next`, as a load is nothing but
straight-line code.  `SampleApps` assumes fairness of what is in progress
(`Handle`, the library and the handlers after their first step, and `Convey`, the
conversions of a callback), and none of `Event`, what the user does: once a call
has begun it is straight-line C++ that always goes on.  For `Handle` the fairness is
strong, because Dart code may call natives again and again, and while a callback
converts its arguments the call below cannot go on; it must not do so for ever, that
is, the Dart code is assumed to come to an end.  `ScriptLifecycle` states the same
for itself, as `WF_vars(LibraryStep)`.  The other modules are checked for safety
only.

## Proofs

All for every value of the constants that the named assumptions allow.

**`ScriptLifecycle_proofs`** (any number of scripts and variables, both builds):
`TypeCorrect`, `ScopesAreBalanced`, `HeldScriptsReady`, `NewestCurrent`.  None of
the properties is inductive.  Scopes are entered and left in *whichever* isolate
is current, so that balance needs to know that nothing moves `current` while a
`DartScope` lives; that `main` ran needs that the library belongs to the script
under construction; and both need that only `create` knows that script.  `IInv` is
the conjunction: `ScopeInv` (the only open scope is that of the living `DartScope`,
in the current isolate), `ScopedInv` (at which steps it lives), `CreateInv`,
`IsolateInv` and `SlotInv` (no two variables share a script).  `OnlyControl` collects
the steps that only decide how to go on.

**`ScriptService_proofs`**: `Refinement`, `Spec => ImplementsService`.  Above `IInv` it
needs `RanInv`: up to the return of `main` the library has not run, which makes every
failure of `create` happen before the abstract `RunMain`.  Each action that frees,
assigns or runs `main` is mapped to its abstract action, and all others by
`QuietStep` to a stutter or to `Crash`.

**`NativeCalls_proofs`** (any names and keys, any depth but 0): `TypeCorrect`,
`ScopesAreThoseOfFrames`, `ExceptionsFound`, `ThrowReturnsOutsideDart`.  The invariant is the shape of the stack: C++ and Dart
frames alternate, so the *k*-th scope belongs to frame 2*k* - 1; then a `longjmp` to
the innermost Dart frame drops at most the one frame and scope above it.
`NestingKept`, `Spec => ImplementsNesting`, follows from the same shape: it makes the
state of all calls a function of the depth and of what the topmost does
(`CallShape`), so that each step of `NativeCalls` is one of `NestedCalls` by what it
does to the depth (`DeeperStep`, `ShallowerStep`, `SameDepthStep`), and what happens
inside Dart code is a stutter (`DartGoesOn`).  Only the refinement needs `MaxDepth`,
and that it is not 0: the levels must have room for the handler.

**`Conversions_proofs`** (any widths, types and handles): `TypeCorrect`,
`NeverHalfConverted`, `NumbersReturnedAreRight`, `CinderObjectsAreConverted`,
`LevelsKeepTheirNames`, `DebugReturnsNoGuess`, and of the casts `IntSurvives`,
`IntRoundTrip`, `OutcomesAreRight` (what each cast makes of a number is what
`NumbersAreRight` asks of it: congruent, or truncated) and `Vec3RoundTrip` (what
`toDart` makes of a vector converts back to it).  All of these properties speak of
the end of a call only, so `Progress` in `IInv` carries them there: what is pending is
always the rest of the type's components from some *n* on, every component before *n*
has been dealt with (`Done`): it holds an outcome of its own source or, in a Release
build only, nothing anyone set.  That together with what a step that returns does (`CorrectStep`) gives `Correct`, the
conjunction of the five.  The assumptions: an `int` is no wider than an `int64_t`
(`WidthsAssumption`) and has room for the levels (`LevelsAssumption`); the types
are those of the code; Dart integers are integers, and a field holds an object, never
an error handle (`HandlesAssumption`).

**`DartIsolates_proofs`** (any number of scripts, both builds): `ContractKept`,
`Spec => KeepsDartContract`.  Above `IInv` it needs `OrderInv`: an isolate is created,
and its script loaded, once per script and in that order.  An invoke is mapped to
`Dart_Invoke` or to `InvokeWithoutLibrary` by how far the root script of the current
isolate is, and entering a scope to `Dart_EnterScope` or `EnterScopeWithoutIsolate`.

**`LibraryLoader_proofs`** (any file systems, search path, main script and nesting, by
`LoaderAssumption`): `TypeCorrect`, `NoLoadInsideItself`, `NearestFiles`,
`PartsBesidePackages`, `LoadedIsComplete`, `RecordedAsLoaded`.  What a finished load
promises cannot be seen from the end of it, so `IInv` follows the nested loads:
`StackInv` (they are loads of different libraries, the main script at the bottom),
`PathInv` (each library has the file the handler looks up) and, as long as nothing has
failed, `ProgressInv`: each library is loaded or on the stack (`LoadInv`), each of its
directives is handled or still to do (`DoneInv`), and a package is recorded since its
load began, any other library once it is over (`RecordInv`).  That the search of the
import directories keeps the last one that has the file needs that a non-empty set
of indices has a smallest and a greatest element (`Smallest`, by well-foundedness).

`Refinement`, `Spec => ImplementsGraph`: above `IInv` it needs `GraphInv`, that every
library has the text the graph says, that what is left of a load belongs to that text,
and that the parts loaded are those of the graph.  The files do not change during a
load, so neither does the graph (`SameGraph`).  A load that begins is a `Find`; the last
one that ends is the `Succeed`, where `ProgressInv` shows that everything was found and
is whole; each failure is a `Fail` for the library on top of the stack; the rest is a
stutter.  `LoadsIfComplete` then is a proof about the graph alone (`OutcomeInv`: what
was found is part of every set of libraries that is closed under imports), carried over
to the loader by the refinement.

**`VMResources_proofs`** (any directories, files and sources): `TypeCorrect`,
`IsolatesStartAlike`, as the snapshot once read is never changed (`InvOfSnapshot`), and
`LengthIsRead` (`InvOfBuffer`: an open stream has a file, and except while a file is
being read the length reported is the length filled, within what was allocated).
`OldestFirst` and `NewestWins` are about the list of directories.  `erase(remove(d))` is
written as a recursive function over the list, and `ErasesEvery` says what it leaves:
every other entry, once, in its order.  With no induction over data to cite, it is
proved by a least counterexample: the shortest prefix for which it would fail is one
longer than a prefix for which it holds.  `OrderInv` then is `ListedOldestFirst` with the
types: an entry that is added goes to the end unless it is there, so that the order of
the list is always the order of the history `newer`, and the last entry that has the
file is the newest (`TakenIsNewest`).

**`SampleApps_proofs`** (any number of scripts and rectangles): `AppsUseScripts`,
`AppSpec => Spec`: whatever the applications do are steps of `ScriptLifecycle`, so all
theorems about that hold of them too, `AppScriptsAreReady` for one.  `NewestAnswers` needs to know which assets the
scripts came from and which of them a handler invokes (`HandlerInv`); `SentArrives` and
`ScriptsOutliveCallbacks` follow from `DeliveryInv`: a member shows what was sent last,
or somebody was told that it was lost, or the conversion that will assign it is still to
come, in a script that is alive.

Every safety property of the runs that pass is stated by a theorem.  Only
model-checked is liveness, `ConstructionEnds`, `LoadEnds` and `EventsAreHandled`, as the
prover reaches neither fairness nor `ENABLED`; and a violation is shown by TLC's
counterexample alone.

## Where code and documentation disagree

Each is a run that TLC must find violated.

| Run | Documentation | Code |
|---|---|---|
| `InvokeReceiver` | `Script.h:56` "Invokes the function `functionName` within the script" | `Script.cpp:103` uses the root library of whatever isolate is current |
| `IsolateReload` | `dart_api.h:915` "Requires there to be no current isolate" | `Script.cpp:139` creates one while the last script's is current |
| `LoadErrors` | `Script.h:27` an error before a script is loaded throws a `DartException` | `Script.cpp:137`: the snapshot's `StreamExc` passes through; a Debug build aborts at an error that is checked |
| `IsolateData` | `dart_api.h:964` the embedder keeps the isolate's data consistent | `Script.cpp:77`: the data is a `Script` that may be gone |
| `PartFallback` | `Script.cpp:254` only parts of the main library are not found in `mImportedLibraries` | nor are those of a relative import, recorded too late (239) |
| `FailedConversion` | `Types.h:58`, `Types.h:81`: errors give the default value | an uninitialised number is returned where no Dart code is below |

## Assumptions about what is outside

- An exception thrown in a callback of the VM (the tag handler) passes through the
  VM to the C++ code below, or ends the process; both are modelled.
- `Dart_ThrowException` does not return when Dart frames are below, drops their API
  scopes, and answers an error otherwise; the comment on `throwException` says so.
- The VM opens an API scope for each native (`autoSetupScope` is left at its default).
- `Dart_SetVMFlags` and `Dart_Initialize` answer true: the flags are constants, and the
  singleton is made once.
- The scripts of the applications have the functions their handlers invoke, and Dart
  code comes to an end.
- A callback does not create a script or release the one it runs in.
- A `ScriptRef` is not copied; each script is held by one variable.
- The VM calls the tag handler for each directive in order, and not for a URL it
  knows.
- Doubles are multiples of one half; the rounding of large floats does not show.

## Not modelled

- `_printClosure` of `cinder.dart`.
- The numbers the window and time getters return, which are Cinder's, and the library
  lookup in `getWindowSize`.
- Drawing, timing, fonts and file watching of the applications.  Of the callback test
  also the counter that a callback captures by reference and outlives: no variable of
  the model has an address.
- The interrupt, exception and shutdown callbacks of the VM, which only log.
- The parts of the Dart headers the library does not use: the debugger, the mirrors,
  native ports, and most of `dart_api.h`.
- The Xcode and Visual Studio projects and the download scripts.
