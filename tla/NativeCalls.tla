----------------------------- MODULE NativeCalls -----------------------------
(***************************************************************************)
(* Calls between C++ and Dart inside one isolate.  An event handler of the *)
(* application enters a DartScope and invokes a function of the script;    *)
(* Dart code calls natives, which the Script resolves by name and some of *)
(* which it dispatches to the application's callbacks by key; callbacks   *)
(* convert values, throw into Dart, and may invoke Dart code again.        *)
(*                                                                         *)
(* Frames and API scopes come and go together, but along four different   *)
(* ways out: a return, a Dart exception, a C++ exception, and the longjmp *)
(* of Dart_ThrowException, which runs no C++ destructors.                  *)
(***************************************************************************)
EXTENDS Integers, Sequences

CONSTANTS
  Names,    \* the native names the application may register
  Keys,     \* the keys of callbacks it may register
  MaxDepth  \* bound on the number of frames, for TLC

NoKey == ""  \* what getArg<string> makes of a key that is not a string

ASSUME MaxDepthAssumption == MaxDepth \in Nat \ {0}

VARIABLES
  asserts,    \* is this a Debug build?
  natives,    \* mNativeCallbackMap: from a name to what it calls
  callbacks,  \* mFunctionCallbackMap: the keys that have a std::function
  receiver,   \* is mReceiveMapCallback set?
  stack,      \* the frames of the thread, the oldest first
  scopes,     \* the open API scopes, each named by the frame it was opened for
  exception,  \* the exception on its way up from the top frame, if any
  lost,       \* has throwException returned to a caller? (history)
  status      \* "running", or "aborted" when the process has ended

vars == <<asserts, natives, callbacks, receiver,
          stack, scopes, exception, lost, status>>

\* What the build and the options of the Script settle once and for all.
settings == <<asserts, natives, callbacks, receiver>>

\* The application's own code: an event handler, or a callback called from Dart.
UserCode == {"handler", "callback"}

\* A native starts out in code of the library, except that one the application
\* registered as a Dart_NativeFunction is its own code at once.
LibraryCode == {"print", "toCinder", "callNative", "getter"}

Frames == {"dart"} \cup UserCode \cup LibraryCode

\* The names Script::init registers; a name stands here for all of its kind.
CinderNatives ==
  [printNative |-> "print", toCinder |-> "toCinder",
   callNative  |-> "callNative", getWindowWidth |-> "getter"]

AllNames == Names \cup DOMAIN CinderNatives

\* MUTANT: the names of the options are registered, but not their functions.
NamesOnly(user) ==
  [name \in user \cup DOMAIN CinderNatives |->
     IF name \in DOMAIN CinderNatives THEN CinderNatives[name] ELSE "nullptr"]

\* init assigns its own functions over those of the application's options.
NativeMap(user) ==
  [name \in user \cup DOMAIN CinderNatives |->
     IF name \in DOMAIN CinderNatives THEN CinderNatives[name] ELSE "callback"]

Depth == Len(stack)
Top   == stack[Depth]

DartFrames == {i \in 1..Depth : stack[i] = "dart"}

\* MUTANT: the exception goes to the Dart code that was called first.
IsOutermostDart(i) == i \in DartFrames /\ \A j \in DartFrames : j >= i

\* The innermost frame of Dart code, to which an exception goes.
IsInnermostDart(i) == i \in DartFrames /\ \A j \in DartFrames : j <= i

TypeOK ==
  /\ asserts \in BOOLEAN
  /\ natives \in [DOMAIN natives -> LibraryCode \cup {"callback"}]
  /\ DOMAIN natives \subseteq AllNames
  /\ callbacks \subseteq Keys
  /\ receiver \in BOOLEAN
  /\ stack \in Seq(Frames)
  /\ scopes \in Seq(Nat)
  /\ exception \in {"none", "dart", "cxx"}
  /\ lost \in BOOLEAN
  /\ status \in {"running", "aborted"}

\* Script::Options: what the application wants called, by name and by key, and
\* whether it wants the maps of toCinder.
Options == [native : SUBSET AllNames, function : SUBSET Keys, mapReceiver : BOOLEAN]

\* A Script that was constructed with its options.
Init ==
  /\ asserts \in BOOLEAN
  /\ \E options \in Options :
       /\ natives = NativeMap(options.native)
       /\ callbacks = options.function
       /\ receiver = options.mapReceiver
  /\ stack = <<>>
  /\ scopes = <<>>
  /\ exception = "none"
  /\ lost = FALSE
  /\ status = "running"

-----------------------------------------------------------------------------
(* Frames and scopes *)

Running == status = "running" /\ exception = "none"

\* Is code of this kind executing?
Executes(kinds) == Running /\ Depth > 0 /\ Top \in kinds

Push(frame) == stack' = Append(stack, frame)
Pop         == stack' = SubSeq(stack, 1, Depth - 1)

EnterScope == scopes' = Append(scopes, Depth + 1)  \* for the frame being pushed
ExitScope  == scopes' = SubSeq(scopes, 1, Len(scopes) - 1)

\* A C++ frame and its scope end together, however the frame is left.
Leave == Pop /\ ExitScope

\* The native goes on as this.
Become(frame) == stack' = [stack EXCEPT ![Depth] = frame]

\* MUTANT: the scopes of the frames a longjmp skips stay open, as they would if
\* the VM relied on C++ destructors.
KeepScopes(i) == UNCHANGED scopes

\* Dart_ThrowException drops the API scopes down to those below the Dart frame it
\* goes to.
UnwindScopes(i) ==
  \E n \in 0..Len(scopes) :
    /\ \A k \in n+1..Len(scopes) : scopes[k] > i
    /\ n > 0 => scopes[n] < i
    /\ scopes' = SubSeq(scopes, 1, n)

\* throwException with Dart frames below: control goes to the innermost of them.
ThrowIntoDart ==
  \E i \in DartFrames :
    /\ IsInnermostDart(i)
    /\ stack' = SubSeq(stack, 1, i)
    /\ UnwindScopes(i)
    /\ exception' = "dart"
    /\ UNCHANGED <<lost, status>>

\* throwException with no Dart frames: Dart_ThrowException answers an error, which
\* CIDART_CHECK logs; unless that ends the process, the caller goes on, with the
\* DartScope of throwException left again.
ThrowFails ==
  /\ DartFrames = {}
  /\ IF asserts THEN status' = "aborted" /\ UNCHANGED lost
                ELSE lost' = TRUE /\ UNCHANGED status
  /\ UNCHANGED <<stack, scopes, exception>>

\* MUTANT: throwException throws a regular C++ exception, as its FIXME considers.
ThrowCxx ==
  /\ exception' = "cxx"
  /\ UNCHANGED <<stack, scopes, lost, status>>

\* MUTANT: throwException makes an error handle and throws nothing.
ThrowNothing ==
  /\ lost' = TRUE
  /\ UNCHANGED <<stack, scopes, exception, status>>

ThrowException == ThrowIntoDart \/ ThrowFails

\* An error handle that CIDART_CHECK sees ends a Debug process.
CheckFails == asserts /\ status' = "aborted"

-----------------------------------------------------------------------------
(* C++ calls Dart *)

\* An event handler enters a DartScope.
EventArrives ==
  /\ Running
  /\ Depth = 0
  /\ Push("handler")
  /\ EnterScope
  /\ UNCHANGED <<settings, exception, lost, status>>

\* Script::invoke of a function that exists; there is no scope for Dart frames.
Invoke ==
  /\ Executes(UserCode)
  /\ Depth < MaxDepth
  /\ Push("dart")
  /\ UNCHANGED <<settings, scopes, exception, lost, status>>

\* Dart_Invoke finds no such function: invoke throws a DartException.
InvokeFindsNothing ==
  /\ Executes(UserCode)
  /\ exception' = "cxx"
  /\ UNCHANGED <<settings, stack, scopes, lost, status>>

DartReturns ==
  /\ Executes({"dart"})
  /\ Pop
  /\ UNCHANGED <<settings, scopes, exception, lost, status>>

DartThrows ==
  /\ Executes({"dart"})
  /\ exception' = "dart"
  /\ UNCHANGED <<settings, stack, scopes, lost, status>>

DartCatches ==
  /\ status = "running"
  /\ exception = "dart"
  /\ exception' = "none"
  /\ UNCHANGED <<settings, stack, scopes, lost, status>>

\* Unhandled in Dart: Dart_Invoke answers an error handle, and invoke throws.
DartUncaught ==
  /\ status = "running"
  /\ exception = "dart"
  /\ Pop
  /\ exception' = "cxx"
  /\ UNCHANGED <<settings, scopes, lost, status>>

\* The application's code catches the DartException where its scope is still open.
CxxCaught ==
  /\ status = "running"
  /\ exception = "cxx"
  /\ exception' = "none"
  /\ UNCHANGED <<settings, stack, scopes, lost, status>>

\* The handler's catch block is outside its DartScope, as in CallbackTestApp.
CxxLeavesHandler ==
  /\ status = "running"
  /\ exception = "cxx"
  /\ Top = "handler"
  /\ Leave
  /\ exception' = "none"
  /\ UNCHANGED <<settings, lost, status>>

\* Nobody catches it in the handler, or it is about to leave a callback for the
\* Dart code that called it, which C++ cannot unwind.
CxxUncaught ==
  /\ status = "running"
  /\ exception = "cxx"
  /\ status' = "aborted"
  /\ UNCHANGED <<settings, stack, scopes, exception, lost>>

HandlerReturns ==
  /\ Executes({"handler"})
  /\ Leave
  /\ UNCHANGED <<settings, exception, lost, status>>

-----------------------------------------------------------------------------
(* Dart calls C++ *)

\* resolveNameHandler finds the name; the VM opens a scope for the native.
CallNative(name) ==
  /\ Executes({"dart"})
  /\ Depth < MaxDepth
  /\ name \in DOMAIN natives
  /\ Push(natives[name])
  /\ EnterScope
  /\ UNCHANGED <<settings, exception, lost, status>>

\* It answers nullptr, and the VM throws in the Dart code.  (The handler answers so
\* too where the isolate has no Script: this one has its own, since its creation.)
NativeUnresolved(name) ==
  /\ Executes({"dart"})
  /\ name \notin DOMAIN natives
  /\ exception' = "dart"
  /\ UNCHANGED <<settings, stack, scopes, lost, status>>

PrintReturns ==
  /\ Executes({"print"})
  /\ Leave
  /\ UNCHANGED <<settings, exception, lost, status>>

\* getWindowWidth and its like; making the value is under a CIDART_CHECK.
GetterReturns ==
  /\ Executes({"getter"})
  /\ \/ Leave /\ UNCHANGED status
     \/ CheckFails /\ UNCHANGED <<stack, scopes>>
  /\ UNCHANGED <<settings, exception, lost>>

\* callNativeFunctionHandler calls the std::function of the key.
DispatchKey(key) ==
  /\ Executes({"callNative"})
  /\ key \in callbacks
  /\ Become("callback")
  /\ UNCHANGED <<settings, scopes, exception, lost, status>>

\* "Unhandled native callback for function with key"
KeyUnknown(key) ==
  /\ Executes({"callNative"})
  /\ key \notin callbacks
  /\ ThrowException
  /\ UNCHANGED settings

\* Nobody to receive it, or not a map: logged, and that is all.
ToCinderIgnored ==
  /\ Executes({"toCinder"})
  /\ Leave
  /\ UNCHANGED <<settings, exception, lost, status>>

ToCinderReceived ==
  /\ Executes({"toCinder"})
  /\ receiver
  /\ Become("callback")
  /\ UNCHANGED <<settings, scopes, exception, lost, status>>

\* The keys of the map cannot be had: a Debug build ends, and a Release build goes
\* on with a number of keys that was never set, which ToCinderReceived covers if
\* the process lives.
ToCinderBroken ==
  /\ Executes({"toCinder"})
  /\ receiver
  /\ status' = "aborted"
  /\ UNCHANGED <<settings, stack, scopes, exception, lost>>

CallbackReturns ==
  /\ Executes({"callback"})
  /\ Leave
  /\ UNCHANGED <<settings, exception, lost, status>>

-----------------------------------------------------------------------------
(* The application's code throws *)

\* throwException called by the application's code, or by getValue when it is
\* asked for a number and given something else.
UserThrows ==
  /\ Executes(UserCode)
  /\ ThrowException
  /\ UNCHANGED settings

-----------------------------------------------------------------------------

CxxStep ==
  \/ EventArrives \/ Invoke \/ InvokeFindsNothing
  \/ CxxCaught \/ CxxLeavesHandler \/ CxxUncaught \/ HandlerReturns
  \/ UserThrows

DartStep ==
  \/ DartReturns \/ DartThrows \/ DartCatches \/ DartUncaught
  \/ \E name \in AllNames : CallNative(name) \/ NativeUnresolved(name)

NativeStep ==
  \/ PrintReturns \/ GetterReturns \/ CallbackReturns
  \/ \E key \in Keys \cup {NoKey} : DispatchKey(key) \/ KeyUnknown(key)
  \/ ToCinderIgnored \/ ToCinderReceived \/ ToCinderBroken

Next == CxxStep \/ DartStep \/ NativeStep

Spec == Init /\ [][Next]_vars

-----------------------------------------------------------------------------
(* Properties *)

\* Every C++ frame has its one API scope open and nothing else has, in the order
\* of the frames, however deep Dart and C++ call each other and whichever of the
\* four ways the frames above were left.  A handle therefore lives exactly as
\* long as the call it was made for.
ScopesMatchFrames ==
  /\ \A k \in 1..Len(scopes) : scopes[k] \in 1..Depth /\ stack[scopes[k]] # "dart"
  /\ \A i \in 1..Depth : stack[i] # "dart" => \E k \in 1..Len(scopes) : scopes[k] = i
  /\ \A j, k \in 1..Len(scopes) : j < k => scopes[j] < scopes[k]

\* An exception is always in code that can handle it: a Dart exception in Dart
\* code, a DartException in the application's code that called invoke, and never
\* in the middle of the library's own natives.
ExceptionsFindTheirCode ==
  /\ exception = "dart" => Depth > 0 /\ Top = "dart"
  /\ exception = "cxx"  => Depth > 0 /\ Top \in UserCode

\* throwException fails only where no Dart code is below; it never returns into a
\* callback or a native, which would carry on as if all was well.
ThrowReturnsToHandlersOnly == [][lost' # lost => Top = "handler"]_vars

\* What the C++ function in frame n is doing.
CallAt(n) ==
  IF n > Depth \/ stack[n] = "dart" THEN "none"
  ELSE IF n < Depth THEN "waiting"
  ELSE IF exception = "cxx" THEN "raised"
  ELSE IF stack[n] \in UserCode THEN "active"
  ELSE "library"

CallStates == [n \in 1..MaxDepth |-> CallAt(n)]
ScopedCalls == {scopes[k] : k \in 1..Len(scopes)}
IsAlive == status = "running"

Nesting ==
  INSTANCE NestedCalls WITH
    Level <- 1..MaxDepth, call <- CallStates, scoped <- ScopedCalls, alive <- IsAlive

\* To each C++ function the rest is one call: whatever it invokes comes back to it,
\* with a result or with a DartException, when all that ran inside is over and has
\* closed its scopes; and no longjmp, whoever throws, goes past it.
ImplementsNesting == Nesting!Spec

=============================================================================
