------------------------- MODULE NativeCalls_proofs -------------------------
(***************************************************************************)
(* Proofs of the safety properties of NativeCalls for any depth of calls. *)
(* The argument is the shape of the stack: C++ and Dart frames alternate,  *)
(* so that the k-th scope belongs to frame 2k - 1 and the innermost Dart  *)
(* frame is never more than one frame away.                                *)
(***************************************************************************)
EXTENDS NativeCalls, SequenceTheorems, TLAPS

\* C++ frames are at the odd places of a stack, Dart frames at the even ones, the
\* handler is the oldest, and only the application's code invokes.
WellShaped(st) ==
  \A i \in 1..Len(st) :
    /\ st[i] = "dart" <=> i % 2 = 0
    /\ st[i] = "handler" <=> i = 1
    /\ st[i] = "dart" => st[i-1] \in UserCode

\* The k-th scope was opened for the k-th C++ frame of a stack that deep.
ScopesOf(sc, depth) ==
  /\ depth = 2 * Len(sc) \/ depth = 2 * Len(sc) - 1
  /\ \A k \in 1..Len(sc) : sc[k] = 2 * k - 1

IInv ==
  /\ TypeOK
  /\ WellShaped(stack)
  /\ ScopesOf(scopes, Depth)
  /\ ExceptionsFindTheirCode

-----------------------------------------------------------------------------
(* Sequences *)

\* What a sequence is after an Append.
LEMMA Appended ==
  ASSUME NEW S, NEW s \in Seq(S), NEW e \in S
  PROVE  /\ Append(s, e) \in Seq(S)
         /\ Len(Append(s, e)) = Len(s) + 1
         /\ Append(s, e)[Len(s) + 1] = e
         /\ \A i \in 1..Len(s) : Append(s, e)[i] = s[i]
BY AppendProperties

\* What the first n elements of a sequence are.
LEMMA Prefix ==
  ASSUME NEW S, NEW s \in Seq(S), NEW n \in 0..Len(s)
  PROVE  /\ SubSeq(s, 1, n) \in Seq(S)
         /\ Len(SubSeq(s, 1, n)) = n
         /\ \A i \in 1..n : SubSeq(s, 1, n)[i] = s[i]
<1>1. Len(s) \in Nat /\ n \in Int /\ 1 \in Int /\ \A i \in 1..n : s[i] \in S
  BY ElementOfSeq, LenProperties
<1>2. /\ SubSeq(s, 1, n) \in Seq(S)
      /\ Len(SubSeq(s, 1, n)) = IF 1 <= n THEN n - 1 + 1 ELSE 0
      /\ \A i \in 1..n - 1 + 1 : SubSeq(s, 1, n)[i] = s[1 + i - 1]
  BY <1>1, SubSeqProperties
<1> QED
  BY <1>1, <1>2

-----------------------------------------------------------------------------
(* Shapes *)

\* A frame pushed where it belongs.
LEMMA PushShape ==
  ASSUME NEW st \in Seq(Frames), WellShaped(st), NEW f \in Frames,
         f = "dart" <=> Len(st) % 2 = 1,
         f = "handler" <=> Len(st) = 0,
         f = "dart" => st[Len(st)] \in UserCode
  PROVE  /\ Append(st, f) \in Seq(Frames)
         /\ Len(Append(st, f)) = Len(st) + 1
         /\ Append(st, f)[Len(st) + 1] = f
         /\ WellShaped(Append(st, f))
<1> DEFINE t == Append(st, f)
<1>1. /\ t \in Seq(Frames)
      /\ Len(t) = Len(st) + 1
      /\ t[Len(st) + 1] = f
      /\ \A i \in 1..Len(st) : t[i] = st[i]
  BY Appended
<1>2. Len(st) \in Nat
  BY LenProperties
<1> HIDE DEF t
<1>3. ASSUME NEW i \in 1..Len(t)
      PROVE  /\ t[i] = "dart" <=> i % 2 = 0
             /\ t[i] = "handler" <=> i = 1
             /\ t[i] = "dart" => t[i-1] \in UserCode
  <2>1. CASE i \in 1..Len(st)
    <3>1. t[i] = st[i] /\ (i # 1 => t[i-1] = st[i-1])
      BY <1>1, <1>2, <2>1
    <3>2. /\ st[i] = "dart" <=> i % 2 = 0
          /\ st[i] = "handler" <=> i = 1
          /\ st[i] = "dart" => st[i-1] \in UserCode
      BY <2>1 DEF WellShaped
    <3> QED
      BY <3>1, <3>2, <1>2
  <2>2. CASE i = Len(st) + 1
    <3>1. t[i] = f
      BY <1>1, <2>2
    <3>2. f = "dart" <=> i % 2 = 0
      BY <1>2, <2>2
    <3>3. f = "dart" => t[i-1] \in UserCode
      <4> SUFFICES ASSUME f = "dart" PROVE t[i-1] \in UserCode
        OBVIOUS
      <4>1. Len(st) \in 1..Len(st) /\ i - 1 = Len(st)
        BY <1>2, <2>2
      <4> QED
        BY <4>1, <1>1
    <3> QED
      BY <3>1, <3>2, <3>3, <2>2, <1>2
  <2> QED
    BY <1>1, <1>2, <2>1, <2>2
<1>4. WellShaped(t)
  BY <1>3 DEF WellShaped
<1> QED
  BY <1>1, <1>4 DEF t

\* The frames up to any of them.
LEMMA PrefixShape ==
  ASSUME NEW st \in Seq(Frames), WellShaped(st), NEW n \in 0..Len(st)
  PROVE  /\ SubSeq(st, 1, n) \in Seq(Frames)
         /\ Len(SubSeq(st, 1, n)) = n
         /\ n > 0 => SubSeq(st, 1, n)[n] = st[n]
         /\ WellShaped(SubSeq(st, 1, n))
<1> DEFINE t == SubSeq(st, 1, n)
<1>1. Len(st) \in Nat
  BY LenProperties
<1>2. /\ t \in Seq(Frames)
      /\ Len(t) = n
      /\ \A i \in 1..n : t[i] = st[i]
  BY Prefix
<1> HIDE DEF t
<1>3. ASSUME NEW i \in 1..n
      PROVE  /\ t[i] = "dart" <=> i % 2 = 0
             /\ t[i] = "handler" <=> i = 1
             /\ t[i] = "dart" => t[i-1] \in UserCode
  <2>1. /\ st[i] = "dart" <=> i % 2 = 0
        /\ st[i] = "handler" <=> i = 1
        /\ st[i] = "dart" => st[i-1] \in UserCode
    BY <1>1 DEF WellShaped
  <2>2. t[i] = st[i] /\ (i # 1 => t[i-1] = st[i-1])
    BY <1>1, <1>2
  <2> QED
    BY <2>1, <2>2
<1>4. WellShaped(t)
  BY <1>2, <1>3 DEF WellShaped
<1> QED
  BY <1>1, <1>2, <1>4 DEF t

\* A native of the library on top becomes a callback of the application.
LEMMA BecomeShape ==
  ASSUME NEW st \in Seq(Frames), WellShaped(st), Len(st) > 0,
         st[Len(st)] \in LibraryCode
  PROVE  /\ [st EXCEPT ![Len(st)] = "callback"] \in Seq(Frames)
         /\ Len([st EXCEPT ![Len(st)] = "callback"]) = Len(st)
         /\ [st EXCEPT ![Len(st)] = "callback"][Len(st)] = "callback"
         /\ WellShaped([st EXCEPT ![Len(st)] = "callback"])
<1> DEFINE t == [st EXCEPT ![Len(st)] = "callback"]
<1>1. Len(st) \in Nat /\ "callback" \in Frames
  BY LenProperties DEF Frames, UserCode
<1>2. /\ t \in Seq(Frames)
      /\ Len(t) = Len(st)
      /\ t[Len(st)] = "callback"
      /\ \A i \in 1..Len(st) : i # Len(st) => t[i] = st[i]
  BY <1>1
<1>3. st[Len(st)] # "dart" /\ st[Len(st)] # "handler"
  BY DEF LibraryCode
<1> HIDE DEF t
<1>4. ASSUME NEW i \in 1..Len(st)
      PROVE  /\ t[i] = "dart" <=> i % 2 = 0
             /\ t[i] = "handler" <=> i = 1
             /\ t[i] = "dart" => t[i-1] \in UserCode
  <2>1. /\ st[i] = "dart" <=> i % 2 = 0
        /\ st[i] = "handler" <=> i = 1
        /\ st[i] = "dart" => st[i-1] \in UserCode
    BY DEF WellShaped
  <2>2. CASE i = Len(st)
    BY <2>1, <2>2, <1>2, <1>3
  <2>3. CASE i # Len(st)
    <3>1. t[i] = st[i] /\ (i # 1 => t[i-1] = st[i-1])
      BY <1>1, <1>2, <2>3
    <3> QED
      BY <2>1, <3>1
  <2> QED
    BY <2>2, <2>3
<1>5. WellShaped(t)
  BY <1>2, <1>4 DEF WellShaped
<1> QED
  BY <1>2, <1>5 DEF t

-----------------------------------------------------------------------------
(* Scopes *)

\* A C++ frame pushed together with its scope.
LEMMA PushScope ==
  ASSUME NEW sc \in Seq(Nat), NEW d \in Nat, ScopesOf(sc, d), d % 2 = 0
  PROVE  Append(sc, d + 1) \in Seq(Nat) /\ ScopesOf(Append(sc, d + 1), d + 1)
<1> DEFINE t == Append(sc, d + 1)
<1>1. /\ t \in Seq(Nat)
      /\ Len(t) = Len(sc) + 1
      /\ t[Len(sc) + 1] = d + 1
      /\ \A k \in 1..Len(sc) : t[k] = sc[k]
  BY Appended
<1>2. Len(sc) \in Nat /\ d = 2 * Len(sc)
  BY LenProperties DEF ScopesOf
<1> HIDE DEF t
<1>3. ASSUME NEW k \in 1..Len(t) PROVE t[k] = 2 * k - 1
  <2>1. CASE k \in 1..Len(sc)
    BY <1>1, <2>1 DEF ScopesOf
  <2>2. CASE k = Len(sc) + 1
    BY <1>1, <1>2, <2>2
  <2> QED
    BY <1>1, <1>2, <2>1, <2>2
<1>4. ScopesOf(t, d + 1)
  BY <1>1, <1>2, <1>3 DEF ScopesOf
<1> QED
  BY <1>1, <1>4 DEF t

\* A Dart frame pushed or popped leaves the scopes as they are.
LEMMA DartScopes ==
  ASSUME NEW sc \in Seq(Nat), NEW d \in Nat, ScopesOf(sc, d)
  PROVE  /\ d % 2 = 1 => ScopesOf(sc, d + 1)
         /\ d % 2 = 0 /\ d > 0 => ScopesOf(sc, d - 1)
<1>1. Len(sc) \in Nat
  BY LenProperties
<1> QED
  BY <1>1 DEF ScopesOf

\* A C++ frame popped together with its scope.
LEMMA PopScope ==
  ASSUME NEW sc \in Seq(Nat), NEW d \in Nat, ScopesOf(sc, d), d % 2 = 1
  PROVE  /\ SubSeq(sc, 1, Len(sc) - 1) \in Seq(Nat)
         /\ ScopesOf(SubSeq(sc, 1, Len(sc) - 1), d - 1)
<1>1. Len(sc) \in Nat /\ d = 2 * Len(sc) - 1 /\ Len(sc) - 1 \in 0..Len(sc)
  BY LenProperties DEF ScopesOf
<1>2. /\ SubSeq(sc, 1, Len(sc) - 1) \in Seq(Nat)
      /\ Len(SubSeq(sc, 1, Len(sc) - 1)) = Len(sc) - 1
      /\ \A k \in 1..Len(sc) - 1 : SubSeq(sc, 1, Len(sc) - 1)[k] = sc[k]
  BY <1>1, Prefix
<1> QED
  BY <1>1, <1>2 DEF ScopesOf

\* Scopes unwound to a Dart frame at an even place.
LEMMA UnwoundScopes ==
  ASSUME NEW sc \in Seq(Nat), NEW d \in Nat, ScopesOf(sc, d),
         NEW i \in 1..d, i % 2 = 0,
         NEW n \in 0..Len(sc),
         \A k \in n+1..Len(sc) : sc[k] > i,
         n > 0 => sc[n] < i
  PROVE  SubSeq(sc, 1, n) \in Seq(Nat) /\ ScopesOf(SubSeq(sc, 1, n), i)
<1>1. Len(sc) \in Nat
  BY LenProperties
<1>2. PICK j \in Nat : i = 2 * j
  BY DEF ScopesOf
<1>3. j \in 1..Len(sc)
  BY <1>1, <1>2 DEF ScopesOf
<1>4. j <= n
  <2> SUFFICES ASSUME j > n PROVE FALSE
    BY <1>1, <1>2
  <2>1. j \in n+1..Len(sc)
    BY <1>3, <1>1
  <2> QED
    BY <1>2, <1>3, <2>1 DEF ScopesOf
<1>5. n <= j
  BY <1>1, <1>2, <1>3 DEF ScopesOf
<1>6. /\ SubSeq(sc, 1, n) \in Seq(Nat)
      /\ Len(SubSeq(sc, 1, n)) = n
      /\ \A k \in 1..n : SubSeq(sc, 1, n)[k] = sc[k]
  BY Prefix
<1>7. n = j
  BY <1>1, <1>4, <1>5
<1> QED
  BY <1>1, <1>2, <1>6, <1>7 DEF ScopesOf

-----------------------------------------------------------------------------
(* The invariant *)

\* The library registers its own natives, the application its callbacks.
LEMMA InitIInv == Init => IInv
<1> SUFFICES ASSUME Init PROVE IInv
  OBVIOUS
<1>1. TypeOK
  <2>0. PICK options \in Options :
          natives = NativeMap(options.native) /\ callbacks = options.function
          /\ receiver = options.mapReceiver
    BY DEF Init
  <2>1. /\ options.native \subseteq AllNames /\ options.function \subseteq Keys
        /\ options.mapReceiver \in BOOLEAN
        /\ natives = NativeMap(options.native)
    BY <2>0 DEF Options
  <2>2. natives \in [DOMAIN natives -> LibraryCode \cup {"callback"}]
    BY <2>1 DEF NativeMap, CinderNatives, LibraryCode
  <2>3. DOMAIN natives \subseteq AllNames
    BY <2>1 DEF NativeMap, AllNames
  <2>4. stack \in Seq(Frames) /\ scopes \in Seq(Nat)
    BY EmptySeq DEF Init
  <2> QED
    BY <2>0, <2>1, <2>2, <2>3, <2>4 DEF Init, TypeOK
<1>2. WellShaped(stack) /\ ScopesOf(scopes, Depth) /\ ExceptionsFindTheirCode
  BY DEF Init, WellShaped, ScopesOf, ExceptionsFindTheirCode, Depth
<1> QED
  BY <1>1, <1>2 DEF IInv

\* Where the parity of the depth says what is on top.
LEMMA OnTop ==
  ASSUME IInv
  PROVE  /\ stack \in Seq(Frames)
         /\ scopes \in Seq(Nat)
         /\ Depth \in Nat
         /\ Depth = 0 => Depth % 2 = 0
         /\ Depth > 0 => /\ Top \in Frames
                         /\ Top = "dart" <=> Depth % 2 = 0
                         /\ Top # "dart" <=> Depth % 2 = 1
                         /\ Top = "handler" <=> Depth = 1
                         /\ Top = "dart" => Depth > 1 /\ stack[Depth - 1] \in UserCode
<1>1. stack \in Seq(Frames) /\ scopes \in Seq(Nat) /\ Depth \in Nat
  BY LenProperties DEF IInv, TypeOK, Depth
<1>2. ASSUME Depth > 0
      PROVE  /\ Top \in Frames
             /\ Top = "dart" <=> Depth % 2 = 0
             /\ Top = "handler" <=> Depth = 1
             /\ Top = "dart" => stack[Depth - 1] \in UserCode
  <2>1. Depth \in 1..Len(stack)
    BY <1>1, <1>2 DEF Depth
  <2> QED
    BY <1>1, <2>1, ElementOfSeq DEF IInv, WellShaped, Depth, Top
<1> QED
  BY <1>1, <1>2

\* What a step has to establish.
LEMMA Rebuild ==
  ASSUME IInv, UNCHANGED settings,
         stack' \in Seq(Frames), WellShaped(stack'),
         scopes' \in Seq(Nat), ScopesOf(scopes', Len(stack')),
         exception' \in {"none", "dart", "cxx"},
         exception' = "dart" => Len(stack') > 0 /\ stack'[Len(stack')] = "dart",
         exception' = "cxx" => Len(stack') > 0 /\ stack'[Len(stack')] \in UserCode,
         lost' \in BOOLEAN,
         status' \in {"running", "aborted"}
  PROVE  IInv'
<1>1. TypeOK'
  BY DEF IInv, TypeOK, settings
<1>2. WellShaped(stack)' /\ ScopesOf(scopes, Depth)'
  BY DEF Depth, WellShaped, ScopesOf
<1>3. ExceptionsFindTheirCode'
  BY DEF ExceptionsFindTheirCode, Depth, Top
<1> QED
  BY <1>1, <1>2, <1>3 DEF IInv

\* Steps that leave the frames alone.
LEMMA SameFrames ==
  ASSUME IInv, UNCHANGED <<settings, stack, scopes>>,
         exception' \in {"none", "dart", "cxx"},
         exception' = "dart" => Depth > 0 /\ Top = "dart",
         exception' = "cxx" => Depth > 0 /\ Top \in UserCode,
         lost' \in BOOLEAN,
         status' \in {"running", "aborted"}
  PROVE  IInv'
<1>1. /\ stack \in Seq(Frames) /\ WellShaped(stack)
      /\ scopes \in Seq(Nat) /\ ScopesOf(scopes, Len(stack))
  BY DEF IInv, TypeOK, Depth
<1>2. stack' = stack /\ scopes' = scopes /\ UNCHANGED settings
  OBVIOUS
<1> QED
  BY <1>1, <1>2, Rebuild DEF Depth, Top

\* Steps that leave a C++ frame and its scope.
LEMMA LeaveFrame ==
  ASSUME IInv, Depth > 0, Top # "dart", Leave, UNCHANGED <<settings, lost, status>>,
         exception' = "none"
  PROVE  IInv'
<1>1. Depth % 2 = 1 /\ Depth \in Nat /\ Depth - 1 \in 0..Len(stack)
  BY OnTop DEF Depth
<1>2. stack' \in Seq(Frames) /\ WellShaped(stack') /\ Len(stack') = Depth - 1
  BY <1>1, OnTop, PrefixShape DEF IInv, Leave, Pop
<1>3. scopes' \in Seq(Nat) /\ ScopesOf(scopes', Depth - 1)
  BY <1>1, OnTop, PopScope DEF IInv, Leave, ExitScope
<1>4. lost' \in BOOLEAN /\ status' \in {"running", "aborted"}
  BY DEF IInv, TypeOK
<1> QED
  BY <1>2, <1>3, <1>4, Rebuild

\* Steps that leave a Dart frame, with or without an exception.
LEMMA LeaveDart ==
  ASSUME IInv, Depth > 0, Top = "dart", Pop,
         UNCHANGED <<settings, scopes, lost, status>>,
         exception' \in {"none", "cxx"}
  PROVE  IInv'
<1>1. /\ Depth % 2 = 0 /\ Depth \in Nat /\ Depth - 1 \in 0..Len(stack) /\ Depth - 1 > 0
      /\ stack[Depth - 1] \in UserCode
  BY OnTop DEF Depth
<1>2. /\ stack' \in Seq(Frames) /\ WellShaped(stack') /\ Len(stack') = Depth - 1
      /\ stack'[Len(stack')] \in UserCode
  BY <1>1, OnTop, PrefixShape DEF IInv, Pop
<1>3. scopes' \in Seq(Nat) /\ ScopesOf(scopes', Len(stack'))
  BY <1>1, <1>2, OnTop, DartScopes DEF IInv
<1>4. /\ lost' \in BOOLEAN /\ status' \in {"running", "aborted"}
  BY DEF IInv, TypeOK
<1>5. Len(stack') > 0
  BY <1>1, <1>2
<1> QED
  BY <1>2, <1>3, <1>4, <1>5, Rebuild

\* Steps that enter a C++ frame from the event loop or from Dart code.
LEMMA EnterCxx ==
  ASSUME IInv, NEW f \in Frames \ {"dart"}, Push(f), EnterScope,
         Depth > 0 => Top = "dart",
         f = "handler" <=> Depth = 0,
         UNCHANGED <<settings, lost, status>>,
         exception' = "none"
  PROVE  IInv'
<1>1. Depth % 2 = 0 /\ Depth \in Nat
  BY OnTop
<1>2. stack' \in Seq(Frames) /\ WellShaped(stack') /\ Len(stack') = Depth + 1
  BY <1>1, OnTop, PushShape DEF IInv, Push, Depth
<1>3. scopes' \in Seq(Nat) /\ ScopesOf(scopes', Depth + 1)
  BY <1>1, OnTop, PushScope DEF IInv, EnterScope
<1>4. /\ lost' \in BOOLEAN /\ status' \in {"running", "aborted"}
  BY DEF IInv, TypeOK
<1> QED
  BY <1>2, <1>3, <1>4, Rebuild

\* Steps that go on in a callback of the application.
LEMMA GoOn ==
  ASSUME IInv, Depth > 0, Top \in LibraryCode, Become("callback"),
         UNCHANGED <<settings, scopes, exception, lost, status>>,
         exception = "none"
  PROVE  IInv'
<1>1. stack' \in Seq(Frames) /\ WellShaped(stack') /\ Len(stack') = Depth
  BY OnTop, BecomeShape DEF IInv, Become, Depth, Top
<1>2. /\ lost' \in BOOLEAN /\ status' \in {"running", "aborted"}
      /\ exception' = "none"
  BY DEF IInv, TypeOK
<1>3. scopes' \in Seq(Nat) /\ ScopesOf(scopes', Depth)
  BY OnTop DEF IInv
<1> QED
  BY <1>1, <1>2, <1>3, Rebuild

\* throwException, from C++ code.
LEMMA Throwing ==
  ASSUME IInv, exception = "none", UNCHANGED settings, ThrowException
  PROVE  IInv'
<1>1. CASE ThrowIntoDart
  <2>1. PICK i \in DartFrames : /\ IsInnermostDart(i)
                                /\ stack' = SubSeq(stack, 1, i)
                                /\ UnwindScopes(i)
                                /\ exception' = "dart"
                                /\ UNCHANGED <<lost, status>>
    BY <1>1 DEF ThrowIntoDart
  <2>2. Depth \in Nat /\ i \in 1..Depth /\ stack[i] = "dart"
    BY <2>1, OnTop DEF DartFrames
  <2>3. i % 2 = 0
    BY <2>2 DEF IInv, WellShaped, Depth
  <2>4. /\ stack' \in Seq(Frames) /\ WellShaped(stack') /\ Len(stack') = i
        /\ stack'[Len(stack')] = "dart"
    <3>1. i \in 0..Len(stack) /\ i > 0
      BY <2>2 DEF Depth
    <3> QED
      BY <2>1, <2>2, <3>1, OnTop, PrefixShape DEF IInv
  <2>5. PICK n \in 0..Len(scopes) : /\ \A k \in n+1..Len(scopes) : scopes[k] > i
                                    /\ n > 0 => scopes[n] < i
                                    /\ scopes' = SubSeq(scopes, 1, n)
    BY <2>1 DEF UnwindScopes
  <2>6. scopes' \in Seq(Nat) /\ ScopesOf(scopes', i)
    BY <2>2, <2>3, <2>5, OnTop, UnwoundScopes DEF IInv
  <2>7. /\ lost' \in BOOLEAN /\ status' \in {"running", "aborted"}
    BY <2>1 DEF IInv, TypeOK
  <2>8. Len(stack') > 0
    BY <2>2, <2>4
  <2> QED
    BY <2>1, <2>4, <2>6, <2>7, <2>8, Rebuild
<1>2. CASE ThrowFails
  <2>1. /\ UNCHANGED <<settings, stack, scopes>>
        /\ exception' = "none"
        /\ lost' \in BOOLEAN /\ status' \in {"running", "aborted"}
    BY <1>2 DEF IInv, TypeOK, ThrowFails
  <2> QED
    BY <2>1, SameFrames
<1> QED
  BY <1>1, <1>2 DEF ThrowException

-----------------------------------------------------------------------------
(* Every step *)

\* Event handlers and callbacks: they invoke, convert, throw, catch and return.
LEMMA CxxStepIInv == IInv /\ CxxStep => IInv'
<1> SUFFICES ASSUME IInv, CxxStep PROVE IInv'
  OBVIOUS
<1> USE DEF Executes, Running
<1>0. /\ exception \in {"none", "dart", "cxx"}
      /\ lost \in BOOLEAN /\ status \in {"running", "aborted"}
      /\ ExceptionsFindTheirCode
  BY DEF IInv, TypeOK
<1>1. CASE EventArrives
  <2>1. "handler" \in Frames \ {"dart"} /\ Depth = 0 /\ ~ Depth > 0
    BY <1>1, OnTop DEF EventArrives, Frames, UserCode
  <2>2. exception' = "none"
    BY <1>1 DEF EventArrives
  <2> QED
    BY <1>1, <2>1, <2>2, EnterCxx DEF EventArrives
<1>2. CASE Invoke
  <2>1. Depth > 0 /\ Top \in UserCode /\ Top # "dart" /\ Depth % 2 = 1 /\ Depth \in Nat
    BY <1>2, OnTop DEF Invoke, UserCode
  <2>2. /\ stack' \in Seq(Frames) /\ WellShaped(stack') /\ Len(stack') = Depth + 1
        /\ stack'[Depth + 1] = "dart"
    <3>1. "dart" \in Frames
      BY DEF Frames
    <3> QED
      BY <1>2, <2>1, <3>1, OnTop, PushShape DEF Invoke, IInv, Push, Depth, Top
  <2>3. scopes' \in Seq(Nat) /\ ScopesOf(scopes', Depth + 1)
    BY <1>2, <2>1, OnTop, DartScopes DEF Invoke, IInv
  <2> QED
    BY <1>0, <1>2, <2>2, <2>3, Rebuild DEF Invoke
<1>3. CASE InvokeFindsNothing
  BY <1>0, <1>3, SameFrames DEF InvokeFindsNothing
<1>4. CASE CxxCaught
  BY <1>0, <1>4, SameFrames DEF CxxCaught
<1>5. CASE CxxLeavesHandler
  <2>1. Depth > 0 /\ Top # "dart"
    BY <1>0, <1>5 DEF CxxLeavesHandler, ExceptionsFindTheirCode
  <2> QED
    BY <1>5, <2>1, LeaveFrame DEF CxxLeavesHandler
<1>6. CASE CxxUncaught
  BY <1>0, <1>6, SameFrames DEF CxxUncaught, ExceptionsFindTheirCode
<1>7. CASE HandlerReturns
  BY <1>7, LeaveFrame DEF HandlerReturns
<1>8. CASE UserThrows
  BY <1>0, <1>8, Throwing DEF UserThrows
<1> QED
  BY <1>1, <1>2, <1>3, <1>4, <1>5, <1>6, <1>7, <1>8 DEF CxxStep

\* Dart code: it returns, throws, catches and calls natives.
LEMMA DartStepIInv == IInv /\ DartStep => IInv'
<1> SUFFICES ASSUME IInv, DartStep PROVE IInv'
  OBVIOUS
<1> USE DEF Executes, Running
<1>0. /\ exception \in {"none", "dart", "cxx"}
      /\ lost \in BOOLEAN /\ status \in {"running", "aborted"}
      /\ natives \in [DOMAIN natives -> LibraryCode \cup {"callback"}]
      /\ ExceptionsFindTheirCode
  BY DEF IInv, TypeOK
<1>1. CASE DartReturns
  BY <1>1, LeaveDart DEF DartReturns
<1>2. CASE DartThrows
  BY <1>0, <1>2, SameFrames DEF DartThrows
<1>3. CASE DartCatches
  BY <1>0, <1>3, SameFrames DEF DartCatches
<1>4. CASE DartUncaught
  <2>1. Depth > 0 /\ Top = "dart"
    BY <1>0, <1>4 DEF DartUncaught, ExceptionsFindTheirCode
  <2> QED
    BY <1>4, <2>1, LeaveDart DEF DartUncaught
<1>5. ASSUME NEW name \in AllNames, CallNative(name) PROVE IInv'
  <2>1. natives[name] \in LibraryCode \cup {"callback"}
    BY <1>0, <1>5 DEF CallNative
  <2>2. natives[name] \in Frames \ {"dart"} /\ natives[name] # "handler"
    BY <2>1 DEF Frames, UserCode, LibraryCode
  <2>3. Depth > 0 /\ Depth # 0 /\ Top = "dart" /\ exception' = "none"
    BY <1>5, OnTop DEF CallNative
  <2> QED
    BY <1>5, <2>2, <2>3, EnterCxx DEF CallNative
<1>6. ASSUME NEW name \in AllNames, NativeUnresolved(name) PROVE IInv'
  BY <1>0, <1>6, SameFrames DEF NativeUnresolved
<1> QED
  BY <1>1, <1>2, <1>3, <1>4, <1>5, <1>6 DEF DartStep

\* The library's natives and the callbacks they go on in.
LEMMA NativeStepIInv == IInv /\ NativeStep => IInv'
<1> SUFFICES ASSUME IInv, NativeStep PROVE IInv'
  OBVIOUS
<1> USE DEF Executes, Running
<1>0. /\ exception \in {"none", "dart", "cxx"}
      /\ lost \in BOOLEAN /\ status \in {"running", "aborted"}
      /\ ExceptionsFindTheirCode
  BY DEF IInv, TypeOK
<1>1. CASE PrintReturns
  BY <1>0, <1>1, LeaveFrame DEF PrintReturns
<1>2. CASE GetterReturns
  <2>1. CASE Leave /\ UNCHANGED status
    BY <1>0, <1>2, <2>1, LeaveFrame DEF GetterReturns
  <2>2. CASE CheckFails /\ UNCHANGED <<stack, scopes>>
    BY <1>0, <1>2, <2>2, SameFrames DEF GetterReturns, CheckFails
  <2> QED
    BY <1>2, <2>1, <2>2 DEF GetterReturns
<1>3. CASE CallbackReturns
  BY <1>0, <1>3, LeaveFrame DEF CallbackReturns
<1>4. ASSUME NEW key \in Keys \cup {NoKey}, DispatchKey(key) PROVE IInv'
  BY <1>4, GoOn DEF DispatchKey, LibraryCode
<1>5. ASSUME NEW key \in Keys \cup {NoKey}, KeyUnknown(key) PROVE IInv'
  BY <1>0, <1>5, Throwing DEF KeyUnknown
<1>6. CASE ToCinderIgnored
  BY <1>0, <1>6, LeaveFrame DEF ToCinderIgnored
<1>7. CASE ToCinderReceived
  BY <1>7, GoOn DEF ToCinderReceived, LibraryCode
<1>8. CASE ToCinderBroken
  BY <1>0, <1>8, SameFrames DEF ToCinderBroken
<1> QED
  BY <1>1, <1>2, <1>3, <1>4, <1>5, <1>6, <1>7, <1>8 DEF NativeStep

\* IInv is an invariant of the calls between C++ and Dart, however deep.
THEOREM Inductive == Spec => []IInv
<1>1. Init => IInv
  BY InitIInv
<1>2. IInv /\ [Next]_vars => IInv'
  <2> SUFFICES ASSUME IInv, [Next]_vars PROVE IInv'
    OBVIOUS
  <2>1. CASE Next
    BY <2>1, CxxStepIInv, DartStepIInv, NativeStepIInv DEF Next
  <2>2. CASE UNCHANGED vars
    <3>1. /\ UNCHANGED <<settings, stack, scopes, exception, lost, status>>
          /\ exception \in {"none", "dart", "cxx"}
          /\ lost \in BOOLEAN /\ status \in {"running", "aborted"}
          /\ ExceptionsFindTheirCode
      BY <2>2 DEF vars, settings, IInv, TypeOK
    <3> QED
      BY <3>1, SameFrames DEF ExceptionsFindTheirCode
  <2> QED
    BY <2>1, <2>2
<1> QED
  BY <1>1, <1>2, PTL DEF Spec

-----------------------------------------------------------------------------
(* The properties *)

\* The variables keep their types.
THEOREM TypeCorrect == Spec => []TypeOK
<1>1. IInv => TypeOK
  BY DEF IInv
<1> QED
  BY <1>1, Inductive, PTL

\* API scopes and C++ frames correspond one to one, in order: no return, Dart
\* exception, C++ exception or longjmp leaves a scope open or closes another's.
THEOREM ScopesAreThoseOfFrames == Spec => []ScopesMatchFrames
<1>1. IInv => ScopesMatchFrames
  <2> SUFFICES ASSUME IInv PROVE ScopesMatchFrames
    OBVIOUS
  <2>1. /\ Depth \in Nat /\ Len(scopes) \in Nat
        /\ Depth = 2 * Len(scopes) \/ Depth = 2 * Len(scopes) - 1
        /\ \A k \in 1..Len(scopes) : scopes[k] = 2 * k - 1
    BY OnTop, LenProperties DEF IInv, ScopesOf
  <2>2. \A i \in 1..Depth : stack[i] = "dart" <=> i % 2 = 0
    BY DEF IInv, WellShaped, Depth
  <2>3. ASSUME NEW k \in 1..Len(scopes)
        PROVE  scopes[k] \in 1..Depth /\ stack[scopes[k]] # "dart"
    <3>1. scopes[k] = 2 * k - 1 /\ 2 * k - 1 \in 1..Depth /\ (2 * k - 1) % 2 # 0
      BY <2>1
    <3> QED
      BY <3>1, <2>2
  <2>4. ASSUME NEW i \in 1..Depth, stack[i] # "dart"
        PROVE  \E k \in 1..Len(scopes) : scopes[k] = i
    <3>1. i % 2 # 0
      BY <2>2, <2>4
    <3>2. PICK k \in Nat : i = 2 * k - 1
      <4>1. (i + 1) \div 2 \in Nat /\ i = 2 * ((i + 1) \div 2) - 1
        BY <3>1
      <4> QED
        BY <4>1
    <3>3. k \in 1..Len(scopes)
      BY <3>2, <2>1
    <3> QED
      BY <3>2, <3>3, <2>1
  <2>5. \A j, k \in 1..Len(scopes) : j < k => scopes[j] < scopes[k]
    BY <2>1
  <2> QED
    BY <2>3, <2>4, <2>5 DEF ScopesMatchFrames
<1> QED
  BY <1>1, Inductive, PTL

\* An exception in flight is always in code that can catch it.
THEOREM ExceptionsFound == Spec => []ExceptionsFindTheirCode
<1>1. IInv => ExceptionsFindTheirCode
  BY DEF IInv
<1> QED
  BY <1>1, Inductive, PTL

\* throwException comes back only to an event handler, under which nothing runs.
THEOREM ThrowReturnsOutsideDart == Spec => ThrowReturnsToHandlersOnly
<1>1. IInv /\ [Next]_vars => [lost' # lost => Top = "handler"]_vars
  <2> SUFFICES ASSUME IInv, Next, lost' # lost PROVE Top = "handler"
    OBVIOUS
  <2> USE DEF Executes, Running
  <2>1. ASSUME Depth > 0, Top # "dart", ThrowException
        PROVE  Top = "handler"
    <3>1. DartFrames = {}
      BY <2>1 DEF ThrowException, ThrowIntoDart, ThrowFails
    <3>2. Depth \in Nat
      BY OnTop
    <3>3. Depth < 2
      <4> SUFFICES ASSUME Depth >= 2 PROVE FALSE
        BY <3>2
      <4>1. 2 \in 1..Depth
        BY <3>2
      <4>2. stack[2] = "dart"
        BY <4>1 DEF IInv, WellShaped, Depth
      <4> QED
        BY <3>1, <4>1, <4>2 DEF DartFrames
    <3>4. Depth = 1
      BY <2>1, <3>2, <3>3
    <3> QED
      BY <3>4, OnTop
  <2>2. Depth > 0 /\ Top # "dart" /\ ThrowException
    <3>1. CASE CxxStep
      BY <3>1 DEF CxxStep, EventArrives, Invoke, InvokeFindsNothing, CxxCaught,
                  CxxLeavesHandler, CxxUncaught, HandlerReturns, UserThrows, UserCode
    <3>2. CASE DartStep
      BY <3>2 DEF DartStep, DartReturns, DartThrows, DartCatches, DartUncaught,
                  CallNative, NativeUnresolved
    <3>3. CASE NativeStep
      BY <3>3 DEF NativeStep, PrintReturns, GetterReturns, CallbackReturns,
                  DispatchKey, KeyUnknown, ToCinderIgnored, ToCinderReceived,
                  ToCinderBroken
    <3> QED
      BY <3>1, <3>2, <3>3 DEF Next
  <2> QED
    BY <2>1, <2>2
<1> QED
  BY <1>1, Inductive, PTL DEF Spec, ThrowReturnsToHandlersOnly

-----------------------------------------------------------------------------
(* The calls implement NestedCalls *)

\* What the C++ function on top is doing, and from this what all of them do.
Doing ==
  IF exception = "cxx" THEN "raised" ELSE IF Top \in UserCode THEN "active" ELSE "library"

CallsOfDepth(d, doing) ==
  [n \in 1..MaxDepth |->
     IF n > d \/ n % 2 = 0 THEN "none" ELSE IF n < d THEN "waiting" ELSE doing]

LEMMA CallShape ==
  IInv => /\ CallStates = CallsOfDepth(Depth, Doing)
          /\ ScopedCalls = {n \in 1..Depth : n % 2 = 1}
          /\ Depth \in Nat
<1> SUFFICES ASSUME IInv
             PROVE  /\ CallStates = CallsOfDepth(Depth, Doing)
                    /\ ScopedCalls = {n \in 1..Depth : n % 2 = 1}
                    /\ Depth \in Nat
  OBVIOUS
<1>1. Depth \in Nat /\ Len(scopes) \in Nat
  BY OnTop, LenProperties
<1>2. ASSUME NEW n \in 1..MaxDepth
      PROVE  CallAt(n) = CallsOfDepth(Depth, Doing)[n]
  <2>1. n \in Nat
    BY MaxDepthAssumption
  <2>2. CASE n > Depth
    BY <2>2 DEF CallAt, CallsOfDepth
  <2>3. CASE n <= Depth
    <3>1. stack[n] = "dart" <=> n % 2 = 0
      BY <1>1, <2>1, <2>3 DEF IInv, WellShaped, Depth
    <3> QED
      BY <1>1, <2>1, <2>3, <3>1 DEF CallAt, CallsOfDepth, Doing, Top
  <2> QED
    BY <1>1, <2>1, <2>2, <2>3
<1>3. CallStates = CallsOfDepth(Depth, Doing)
  BY <1>2 DEF CallStates, CallsOfDepth
<1>4. ScopedCalls = {n \in 1..Depth : n % 2 = 1}
  <2>1. /\ Depth = 2 * Len(scopes) \/ Depth = 2 * Len(scopes) - 1
        /\ \A k \in 1..Len(scopes) : scopes[k] = 2 * k - 1
    BY DEF IInv, ScopesOf
  <2>2. ASSUME NEW k \in 1..Len(scopes)
        PROVE  scopes[k] \in 1..Depth /\ scopes[k] % 2 = 1
    BY <1>1, <2>1
  <2>3. ASSUME NEW n \in 1..Depth, n % 2 = 1
        PROVE  \E k \in 1..Len(scopes) : scopes[k] = n
    <3>1. (n + 1) \div 2 \in Nat /\ n = 2 * ((n + 1) \div 2) - 1
      BY <1>1, <2>3
    <3>2. PICK k \in Nat : n = 2 * k - 1
      BY <3>1
    <3>3. k \in 1..Len(scopes)
      BY <1>1, <2>1, <3>2
    <3> QED
      BY <2>1, <3>2, <3>3
  <2> QED
    BY <2>2, <2>3 DEF ScopedCalls
<1> QED
  BY <1>1, <1>3, <1>4

\* What changes when one of the calls goes on, waits, comes back, or ends.
LEMMA CallGoesOn ==
  ASSUME NEW d \in Nat, NEW e, NEW f, d % 2 = 1
  PROVE  CallsOfDepth(d, f) = [CallsOfDepth(d, e) EXCEPT ![d] = f]
<1> USE MaxDepthAssumption
<1>1. ASSUME NEW n \in 1..MaxDepth
      PROVE  CallsOfDepth(d, f)[n] = IF n = d THEN f ELSE CallsOfDepth(d, e)[n]
  <2>1. n \in Nat /\ (d + 1) % 2 = 0
    OBVIOUS
  <2>2. CASE n = d
    BY <2>1, <2>2 DEF CallsOfDepth
  <2>3. CASE n = d + 1
    BY <2>1, <2>3 DEF CallsOfDepth
  <2>4. CASE n < d
    BY <2>1, <2>4 DEF CallsOfDepth
  <2>5. CASE n > d + 1
    BY <2>1, <2>5 DEF CallsOfDepth
  <2> QED
    BY <2>1, <2>2, <2>3, <2>4, <2>5
<1> QED
  BY <1>1 DEF CallsOfDepth

LEMMA CallWaits ==
  ASSUME NEW d \in Nat, NEW e, NEW f, d % 2 = 1
  PROVE  CallsOfDepth(d + 1, f) = [CallsOfDepth(d, e) EXCEPT ![d] = "waiting"]
<1> USE MaxDepthAssumption
<1>1. ASSUME NEW n \in 1..MaxDepth
      PROVE  CallsOfDepth(d + 1, f)[n] = IF n = d THEN "waiting" ELSE CallsOfDepth(d, e)[n]
  <2>1. n \in Nat /\ (d + 1) % 2 = 0
    OBVIOUS
  <2>2. CASE n = d
    BY <2>1, <2>2 DEF CallsOfDepth
  <2>3. CASE n = d + 1
    BY <2>1, <2>3 DEF CallsOfDepth
  <2>4. CASE n < d
    BY <2>1, <2>4 DEF CallsOfDepth
  <2>5. CASE n > d + 1
    BY <2>1, <2>5 DEF CallsOfDepth
  <2> QED
    BY <2>1, <2>2, <2>3, <2>4, <2>5
<1> QED
  BY <1>1 DEF CallsOfDepth

LEMMA CallComesBack ==
  ASSUME NEW d \in Nat, NEW e, NEW f, d % 2 = 1
  PROVE  CallsOfDepth(d, f) = [CallsOfDepth(d + 1, e) EXCEPT ![d] = f]
<1> USE MaxDepthAssumption
<1>1. ASSUME NEW n \in 1..MaxDepth
      PROVE  CallsOfDepth(d, f)[n] = IF n = d THEN f ELSE CallsOfDepth(d + 1, e)[n]
  <2>1. n \in Nat /\ (d + 1) % 2 = 0
    OBVIOUS
  <2>2. CASE n = d
    BY <2>1, <2>2 DEF CallsOfDepth
  <2>3. CASE n = d + 1
    BY <2>1, <2>3 DEF CallsOfDepth
  <2>4. CASE n < d
    BY <2>1, <2>4 DEF CallsOfDepth
  <2>5. CASE n > d + 1
    BY <2>1, <2>5 DEF CallsOfDepth
  <2> QED
    BY <2>1, <2>2, <2>3, <2>4, <2>5
<1> QED
  BY <1>1 DEF CallsOfDepth

LEMMA CallEnds ==
  ASSUME NEW d \in Nat, NEW e, NEW f, d % 2 = 0
  PROVE  CallsOfDepth(d, f) = [CallsOfDepth(d + 1, e) EXCEPT ![d + 1] = "none"]
<1> USE MaxDepthAssumption
<1>1. ASSUME NEW n \in 1..MaxDepth
      PROVE  CallsOfDepth(d, f)[n] = IF n = d + 1 THEN "none" ELSE CallsOfDepth(d + 1, e)[n]
  <2>1. n \in Nat /\ (d + 1) % 2 = 1
    OBVIOUS
  <2>2. CASE n = d
    BY <2>1, <2>2 DEF CallsOfDepth
  <2>3. CASE n = d + 1
    BY <2>1, <2>3 DEF CallsOfDepth
  <2>4. CASE n < d
    BY <2>1, <2>4 DEF CallsOfDepth
  <2>5. CASE n > d + 1
    BY <2>1, <2>5 DEF CallsOfDepth
  <2> QED
    BY <2>1, <2>2, <2>3, <2>4, <2>5
<1> QED
  BY <1>1 DEF CallsOfDepth

\* A C++ function that begins or ends, an invoke that begins or ends, and what a
\* function does in between, each as a step of NestedCalls.
LEMMA DeeperStep ==
  ASSUME NEW d \in Nat, NEW e, NEW f, d + 1 <= MaxDepth,
         CallStates = CallsOfDepth(d, e), CallStates' = CallsOfDepth(d + 1, f),
         ScopedCalls = {n \in 1..d : n % 2 = 1},
         ScopedCalls' = {n \in 1..d + 1 : n % 2 = 1},
         IsAlive, IsAlive'
  PROVE  /\ d % 2 = 0 /\ f \in {"library", "active"} => Nesting!Begin(d + 1)
         /\ d % 2 = 1 /\ e = "active" => Nesting!Invoke(d)
<1> USE MaxDepthAssumption
<1>1. ASSUME d % 2 = 0, f \in {"library", "active"}
      PROVE  Nesting!Begin(d + 1)
  <2>1. \A m \in 1..MaxDepth : m < d + 1 => CallStates[m] \in {"none", "waiting"}
    BY <1>1 DEF CallsOfDepth
  <2>2. /\ CallStates[d + 1] = "none"
        /\ \A m \in 1..MaxDepth : m > d + 1 => CallStates[m] = "none"
    BY <1>1 DEF CallsOfDepth
  <2>3. CallStates' = [CallStates EXCEPT ![d + 1] = f]
    BY <1>1 DEF CallsOfDepth
  <2>4. ScopedCalls' = ScopedCalls \cup {d + 1}
    BY <1>1
  <2>5. CASE f = "library"
    BY <2>1, <2>2, <2>3, <2>4, <2>5 DEF Nesting!Begin, Nesting!Step
  <2>6. CASE f = "active"
    BY <2>1, <2>2, <2>3, <2>4, <2>6 DEF Nesting!Begin, Nesting!Step
  <2> QED
    BY <1>1, <2>5, <2>6
<1>2. ASSUME d % 2 = 1, e = "active"
      PROVE  Nesting!Invoke(d)
  <2>1. /\ CallStates[d] = "active"
        /\ \A m \in 1..MaxDepth : m > d => CallStates[m] = "none"
    BY <1>2 DEF CallsOfDepth
  <2>2. CallStates' = [CallStates EXCEPT ![d] = "waiting"]
    BY <1>2, CallWaits
  <2>3. ScopedCalls' = ScopedCalls
    BY <1>2
  <2> QED
    BY <2>1, <2>2, <2>3 DEF Nesting!Invoke, Nesting!Step
<1> QED
  BY <1>1, <1>2

LEMMA ShallowerStep ==
  ASSUME NEW d \in Nat, NEW e, NEW f, d + 1 <= MaxDepth,
         CallStates = CallsOfDepth(d + 1, e), CallStates' = CallsOfDepth(d, f),
         ScopedCalls = {n \in 1..d + 1 : n % 2 = 1},
         ScopedCalls' = {n \in 1..d : n % 2 = 1},
         IsAlive, IsAlive'
  PROVE  /\ d % 2 = 0 /\ (e \in {"library", "active"} \/ (e = "raised" /\ d = 0)) =>
              Nesting!Leave(d + 1)
         /\ d % 2 = 1 /\ f \in {"active", "raised"} => Nesting!ComeBack(d)
<1> USE MaxDepthAssumption
<1>1. ASSUME d % 2 = 0, e \in {"library", "active"} \/ (e = "raised" /\ d = 0)
      PROVE  Nesting!Leave(d + 1)
  <2>1. /\ CallStates[d + 1] = e
        /\ \A m \in 1..MaxDepth : m > d + 1 => CallStates[m] = "none"
    BY <1>1 DEF CallsOfDepth
  <2>2. CallStates' = [CallStates EXCEPT ![d + 1] = "none"]
    <3>1. CallsOfDepth(d, f) = [CallsOfDepth(d + 1, e) EXCEPT ![d + 1] = "none"]
      BY <1>1, CallEnds
    <3> QED
      BY <3>1
  <2>3. ScopedCalls' = ScopedCalls \ {d + 1}
    BY <1>1
  <2>4. d = 0 => \A m \in 1..MaxDepth : m < d + 1 => CallStates[m] = "none"
    OBVIOUS
  <2> QED
    BY <1>1, <2>1, <2>2, <2>3, <2>4 DEF Nesting!Leave, Nesting!Step
<1>2. ASSUME d % 2 = 1, f \in {"active", "raised"}
      PROVE  Nesting!ComeBack(d)
  <2>1. /\ CallStates[d] = "waiting"
        /\ \A m \in 1..MaxDepth : m > d => CallStates[m] = "none"
    BY <1>2 DEF CallsOfDepth
  <2>2. CallStates' = [CallStates EXCEPT ![d] = f]
    <3>1. CallsOfDepth(d, f) = [CallsOfDepth(d + 1, e) EXCEPT ![d] = f]
      BY <1>2, CallComesBack
    <3> QED
      BY <3>1
  <2>3. ScopedCalls' = ScopedCalls
    BY <1>2
  <2> QED
    BY <1>2, <2>1, <2>2, <2>3 DEF Nesting!ComeBack, Nesting!Step
<1> QED
  BY <1>1, <1>2

LEMMA SameDepthStep ==
  ASSUME NEW d \in Nat, NEW e, NEW f, d <= MaxDepth, d % 2 = 1,
         CallStates = CallsOfDepth(d, e), CallStates' = CallsOfDepth(d, f),
         ScopedCalls' = ScopedCalls, IsAlive, IsAlive'
  PROVE  /\ e = "library" /\ f = "active" => Nesting!Dispatch(d)
         /\ e = "active" /\ f = "raised" => Nesting!Raise(d)
         /\ e = "raised" /\ f = "active" => Nesting!Catch(d)
<1> USE MaxDepthAssumption
<1>1. /\ CallStates[d] = e
      /\ \A m \in 1..MaxDepth : m > d => CallStates[m] = "none"
  BY DEF CallsOfDepth
<1>2. CallStates' = [CallStates EXCEPT ![d] = f]
  <2>1. CallsOfDepth(d, f) = [CallsOfDepth(d, e) EXCEPT ![d] = f]
    BY CallGoesOn
  <2> QED
    BY <2>1
<1> QED
  BY <1>1, <1>2 DEF Nesting!Dispatch, Nesting!Raise, Nesting!Catch, Nesting!Step

\* What CallShape says of the next state.
LEMMA CallShapeAfter ==
  IInv' => /\ CallStates' = CallsOfDepth(Depth', Doing')
           /\ ScopedCalls' = {n \in 1..Depth' : n % 2 = 1}
           /\ Depth' \in Nat
<1>1. IInv' => (/\ CallStates = CallsOfDepth(Depth, Doing)
                /\ ScopedCalls = {n \in 1..Depth : n % 2 = 1}
                /\ Depth \in Nat)'
  BY CallShape, PTL
<1> QED
  BY <1>1 DEF CallsOfDepth

\* The steps of NativeCalls by what they do to the depth.
LEMMA CxxBegins ==
  ASSUME IInv, IInv', IsAlive, IsAlive', Depth % 2 = 0,
         Depth < MaxDepth, Depth' = Depth + 1, exception' = "none"
  PROVE  Nesting!Begin(Depth + 1)
<1>1. Doing' \in {"library", "active"}
  BY DEF Doing
<1> QED
  BY <1>1, CallShape, CallShapeAfter, DeeperStep, MaxDepthAssumption

LEMMA CxxInvokes ==
  ASSUME IInv, IInv', IsAlive, IsAlive', Depth % 2 = 1, Top \in UserCode,
         Depth < MaxDepth, Depth' = Depth + 1, exception = "none"
  PROVE  Nesting!Invoke(Depth)
<1>1. Doing = "active"
  BY DEF Doing
<1>2. {n \in 1..Depth + 1 : n % 2 = 1} = ScopedCalls'
  BY CallShapeAfter
<1> QED
  BY <1>1, <1>2, CallShape, CallShapeAfter, DeeperStep, MaxDepthAssumption

LEMMA CxxLeaves ==
  ASSUME IInv, IInv', IsAlive, IsAlive', Depth % 2 = 1, Depth <= MaxDepth,
         Depth' = Depth - 1, exception = "none" \/ Depth = 1
  PROVE  Nesting!Leave(Depth)
<1>1. Doing \in {"library", "active"} \/ (Doing = "raised" /\ Depth = 1)
  <2>1. exception = "none" => Doing \in {"library", "active"}
    BY DEF Doing
  <2>2. Doing \in {"library", "active", "raised"}
    BY DEF Doing
  <2> QED
    BY <2>1, <2>2
<1>2. PICK d \in Nat : Depth = d + 1 /\ Depth' = d /\ d % 2 = 0
  <2>1. Depth \in Nat /\ Depth - 1 \in Nat /\ (Depth - 1) % 2 = 0
    BY CallShape
  <2> QED
    BY <2>1
<1>3. /\ CallStates = CallsOfDepth(d + 1, Doing) /\ CallStates' = CallsOfDepth(d, Doing')
      /\ ScopedCalls = {n \in 1..d + 1 : n % 2 = 1}
      /\ ScopedCalls' = {n \in 1..d : n % 2 = 1}
  BY <1>2, CallShape, CallShapeAfter
<1> QED
  BY <1>1, <1>2, <1>3, ShallowerStep

LEMMA DartComesBack ==
  ASSUME IInv, IInv', IsAlive, IsAlive', Depth % 2 = 0, Depth > 0, Depth <= MaxDepth,
         Depth' = Depth - 1, Top' \in UserCode
  PROVE  Nesting!ComeBack(Depth - 1)
<1>1. Doing' \in {"active", "raised"}
  BY DEF Doing
<1>2. PICK d \in Nat : Depth = d + 1 /\ Depth' = d /\ d % 2 = 1
  <2>1. Depth \in Nat /\ Depth - 1 \in Nat /\ (Depth - 1) % 2 = 1
    BY CallShape
  <2> QED
    BY <2>1
<1>3. /\ CallStates = CallsOfDepth(d + 1, Doing) /\ CallStates' = CallsOfDepth(d, Doing')
      /\ ScopedCalls = {n \in 1..d + 1 : n % 2 = 1}
      /\ ScopedCalls' = {n \in 1..d : n % 2 = 1}
  BY <1>2, CallShape, CallShapeAfter
<1>4. Depth - 1 = d
  BY <1>2
<1> QED
  BY <1>1, <1>2, <1>3, <1>4, ShallowerStep

LEMMA CxxGoesOn ==
  ASSUME IInv, IInv', IsAlive, IsAlive', Depth % 2 = 1, Depth <= MaxDepth,
         Depth' = Depth
  PROVE  /\ Doing = "library" /\ Doing' = "active" => Nesting!Dispatch(Depth)
         /\ Doing = "active" /\ Doing' = "raised" => Nesting!Raise(Depth)
         /\ Doing = "raised" /\ Doing' = "active" => Nesting!Catch(Depth)
<1>1. /\ CallStates = CallsOfDepth(Depth, Doing) /\ CallStates' = CallsOfDepth(Depth, Doing')
      /\ ScopedCalls' = ScopedCalls /\ Depth \in Nat
  BY CallShape, CallShapeAfter
<1> QED
  BY <1>1, SameDepthStep

\* What happens inside Dart code is nothing to the C++ functions.
LEMMA DartGoesOn ==
  ASSUME IInv, IInv', UNCHANGED <<stack, scopes, status>>, Depth % 2 = 0
  PROVE  UNCHANGED <<CallStates, ScopedCalls, IsAlive>>
<1>1. Depth' = Depth /\ ScopedCalls' = ScopedCalls /\ IsAlive' = IsAlive
  BY DEF Depth, ScopedCalls, IsAlive
<1>2. CallsOfDepth(Depth, Doing) = CallsOfDepth(Depth, Doing')
  <2>1. Depth \in Nat
    BY CallShape
  <2>2. ASSUME NEW n \in 1..MaxDepth
        PROVE  n > Depth \/ n % 2 = 0 \/ n < Depth
    BY <2>1, MaxDepthAssumption
  <2> QED
    BY <2>2 DEF CallsOfDepth
<1> QED
  BY <1>1, <1>2, CallShape, CallShapeAfter

\* What the steps do to the depth of the stack.
LEMMA PushDepth == ASSUME IInv, NEW f \in Frames, Push(f) PROVE Depth' = Depth + 1
<1>1. stack \in Seq(Frames)
  BY OnTop
<1> QED
  BY <1>1, Appended DEF Push, Depth

LEMMA PopDepth ==
  ASSUME IInv, Depth > 0, Pop
  PROVE  Depth' = Depth - 1 /\ (Depth > 1 => Top' = stack[Depth - 1])
<1>1. stack \in Seq(Frames) /\ Depth \in Nat /\ Depth - 1 \in 0..Len(stack)
  BY OnTop DEF Depth
<1>2. Len(SubSeq(stack, 1, Depth - 1)) = Depth - 1
  BY <1>1, Prefix
<1>3. Depth > 1 => SubSeq(stack, 1, Depth - 1)[Depth - 1] = stack[Depth - 1]
  BY <1>1, Prefix
<1>4. Depth' = Depth - 1
  BY <1>2 DEF Pop, Depth
<1> QED
  BY <1>3, <1>4 DEF Pop, Top

LEMMA BecomeDepth ==
  ASSUME IInv, Depth > 0, Become("callback")
  PROVE  Depth' = Depth /\ Top' = "callback"
<1>1. stack \in Seq(Frames) /\ Depth \in 1..Len(stack) /\ Depth = Len(stack)
  BY OnTop DEF Depth
<1>2. Len(stack') = Len(stack) /\ stack'[Depth] = "callback"
  BY <1>1 DEF Become, Frames, UserCode
<1> QED
  BY <1>1, <1>2 DEF Depth, Top

\* The longjmp drops the one C++ frame above the innermost Dart frame.
LEMMA ThrowDepth ==
  ASSUME IInv, Depth % 2 = 1, ThrowIntoDart
  PROVE  Depth' = Depth - 1
<1>1. PICK i \in DartFrames : IsInnermostDart(i) /\ stack' = SubSeq(stack, 1, i)
  BY DEF ThrowIntoDart
<1>2. Depth \in Nat /\ stack \in Seq(Frames) /\ i \in 1..Depth /\ stack[i] = "dart"
  BY <1>1, OnTop DEF DartFrames
<1>3. i % 2 = 0 /\ i <= Depth - 1 /\ Depth - 1 \in 1..Depth /\ (Depth - 1) % 2 = 0
  <2>1. i % 2 = 0
    BY <1>2 DEF IInv, WellShaped, Depth
  <2> QED
    BY <1>2, <2>1
<1>4. Depth - 1 \in DartFrames
  BY <1>3 DEF DartFrames, IInv, WellShaped, Depth
<1>5. i = Depth - 1
  BY <1>1, <1>2, <1>3, <1>4 DEF IsInnermostDart
<1>6. i \in 0..Len(stack)
  BY <1>2 DEF Depth
<1>7. Len(stack') = i
  BY <1>1, <1>2, <1>6, Prefix
<1> QED
  BY <1>5, <1>7 DEF Depth

\* The bound on frames, which TLC needs, is also that of the levels.
DepthBound == Depth <= MaxDepth

\* What each step of NativeCalls is to NestedCalls.
NestingStep == Nesting!Next \/ UNCHANGED <<CallStates, ScopedCalls, IsAlive>>

LEMMA LeavingNests ==
  ASSUME IInv, IInv', DepthBound, status = "running", UNCHANGED status, Depth > 0,
         Top # "dart", Leave, exception = "none" \/ Top = "handler"
  PROVE  DepthBound' /\ NestingStep
<1>1. Depth % 2 = 1 /\ Depth \in Nat /\ (Top = "handler" => Depth = 1)
  BY OnTop
<1>2. Depth' = Depth - 1
  BY PopDepth DEF Leave
<1>3. Nesting!Leave(Depth) /\ Depth \in 1..MaxDepth
  BY <1>1, <1>2, CxxLeaves, MaxDepthAssumption DEF DepthBound, IsAlive
<1> QED
  BY <1>1, <1>2, <1>3, MaxDepthAssumption DEF NestingStep, Nesting!Next, DepthBound

LEMMA CrashNests ==
  ASSUME IInv, DepthBound, status = "running", status' = "aborted",
         UNCHANGED <<stack, scopes, exception>>
  PROVE  DepthBound' /\ NestingStep
<1>1. /\ Depth' = Depth /\ Doing' = Doing /\ ScopedCalls' = ScopedCalls
      /\ CallStates' = CallStates
  BY DEF Depth, Doing, Top, ScopedCalls, CallStates, CallAt
<1>2. Nesting!Crash
  BY <1>1 DEF Nesting!Crash, IsAlive
<1> QED
  BY <1>1, <1>2 DEF NestingStep, Nesting!Next, DepthBound

LEMMA StutterNests ==
  ASSUME DepthBound, UNCHANGED <<stack, scopes, exception, status>>
  PROVE  DepthBound' /\ NestingStep
<1>1. Depth' = Depth /\ ScopedCalls' = ScopedCalls /\ CallStates' = CallStates
  BY DEF Depth, ScopedCalls, CallStates, CallAt
<1> QED
  BY <1>1 DEF NestingStep, DepthBound, IsAlive

LEMMA InDartNests ==
  ASSUME IInv, IInv', DepthBound, UNCHANGED <<stack, scopes, status>>, Depth > 0,
         Top = "dart"
  PROVE  DepthBound' /\ NestingStep
<1>1. Depth % 2 = 0
  BY OnTop
<1> QED
  BY <1>1, DartGoesOn DEF NestingStep, DepthBound, Depth

LEMMA ThrowNests ==
  ASSUME IInv, IInv', DepthBound, Running, Depth > 0, Top # "dart", ThrowException
  PROVE  DepthBound' /\ NestingStep
<1>1. Depth % 2 = 1 /\ Depth \in Nat
  BY OnTop
<1>2. CASE ThrowIntoDart
  <2>1. Depth' = Depth - 1
    BY <1>1, <1>2, ThrowDepth
  <2>2. IsAlive /\ IsAlive' /\ exception = "none"
    BY <1>2 DEF ThrowIntoDart, Running, IsAlive
  <2>3. Nesting!Leave(Depth) /\ Depth \in 1..MaxDepth
    BY <1>1, <2>1, <2>2, CxxLeaves, MaxDepthAssumption DEF DepthBound
  <2> QED
    BY <1>1, <2>1, <2>3, MaxDepthAssumption DEF NestingStep, Nesting!Next, DepthBound
<1>3. CASE ThrowFails
  <2>1. UNCHANGED <<stack, scopes, exception>>
    BY <1>3 DEF ThrowFails
  <2>2. status' = "aborted" \/ UNCHANGED status
    BY <1>3 DEF ThrowFails
  <2> QED
    BY <2>1, <2>2, CrashNests, StutterNests DEF Running
<1> QED
  BY <1>2, <1>3 DEF ThrowException

\* A C++ function goes on, without a frame more or less.
LEMMA GoingOnNests ==
  ASSUME IInv, IInv', DepthBound, status = "running", UNCHANGED status, Depth > 0,
         Top # "dart", Depth' = Depth,
         \/ Doing = "library" /\ Doing' = "active"
         \/ Doing = "active" /\ Doing' = "raised"
         \/ Doing = "raised" /\ Doing' = "active"
  PROVE  DepthBound' /\ NestingStep
<1>1. Depth % 2 = 1 /\ Depth \in 1..MaxDepth
  BY OnTop, MaxDepthAssumption DEF DepthBound
<1>2. Nesting!Dispatch(Depth) \/ Nesting!Raise(Depth) \/ Nesting!Catch(Depth)
  BY <1>1, CxxGoesOn DEF IsAlive, DepthBound
<1> QED
  BY <1>1, <1>2 DEF NestingStep, Nesting!Next, DepthBound

LEMMA CxxNests ==
  IInv /\ IInv' /\ DepthBound /\ CxxStep => DepthBound' /\ NestingStep
<1> SUFFICES ASSUME IInv, IInv', DepthBound, CxxStep PROVE DepthBound' /\ NestingStep
  OBVIOUS
<1> USE DEF Executes, Running
<1>0. /\ Depth \in Nat
      /\ Depth > 0 /\ Top \in UserCode => Top # "dart" /\ Depth % 2 = 1
      /\ exception = "cxx" => Depth > 0 /\ Top \in UserCode
  BY OnTop DEF UserCode, IInv, ExceptionsFindTheirCode
<1>1. CASE EventArrives
  <2>1. Depth' = Depth + 1 /\ Depth = 0 /\ Depth < MaxDepth /\ exception' = "none"
    BY <1>1, PushDepth, MaxDepthAssumption DEF EventArrives, Frames, UserCode
  <2>2. Nesting!Begin(Depth + 1) /\ Depth + 1 \in 1..MaxDepth
    BY <1>1, <2>1, CxxBegins, MaxDepthAssumption DEF EventArrives, IsAlive
  <2> QED
    BY <2>1, <2>2, MaxDepthAssumption DEF NestingStep, Nesting!Next, DepthBound
<1>2. CASE Invoke
  <2>1. Depth' = Depth + 1 /\ Depth % 2 = 1 /\ Depth < MaxDepth
    BY <1>0, <1>2, PushDepth DEF Invoke, Frames
  <2>2. Nesting!Invoke(Depth) /\ Depth \in 1..MaxDepth
    BY <1>0, <1>2, <2>1, CxxInvokes, MaxDepthAssumption DEF Invoke, IsAlive
  <2> QED
    BY <1>0, <2>1, <2>2, MaxDepthAssumption DEF NestingStep, Nesting!Next, DepthBound
<1>3. CASE InvokeFindsNothing
  <2>1. Depth' = Depth /\ Doing = "active" /\ Doing' = "raised"
    BY <1>3 DEF InvokeFindsNothing, Depth, Doing
  <2> QED
    BY <1>0, <1>3, <2>1, GoingOnNests DEF InvokeFindsNothing
<1>4. CASE CxxCaught
  <2>1. Depth' = Depth /\ Doing = "raised" /\ Doing' = "active"
    BY <1>0, <1>4 DEF CxxCaught, Depth, Doing, Top
  <2> QED
    BY <1>0, <1>4, <2>1, GoingOnNests DEF CxxCaught
<1>5. CASE CxxLeavesHandler
  BY <1>0, <1>5, LeavingNests DEF CxxLeavesHandler
<1>6. CASE CxxUncaught
  BY <1>6, CrashNests DEF CxxUncaught
<1>7. CASE HandlerReturns
  BY <1>7, LeavingNests DEF HandlerReturns
<1>8. CASE UserThrows
  BY <1>0, <1>8, ThrowNests DEF UserThrows
<1> QED
  BY <1>1, <1>2, <1>3, <1>4, <1>5, <1>6, <1>7, <1>8 DEF CxxStep

LEMMA DartNests ==
  IInv /\ IInv' /\ DepthBound /\ DartStep => DepthBound' /\ NestingStep
<1> SUFFICES ASSUME IInv, IInv', DepthBound, DartStep PROVE DepthBound' /\ NestingStep
  OBVIOUS
<1> USE DEF Executes, Running
<1>0. /\ Depth \in Nat
      /\ Depth > 0 /\ Top = "dart" =>
           Depth % 2 = 0 /\ Depth > 1 /\ stack[Depth - 1] \in UserCode
      /\ exception = "dart" => Depth > 0 /\ Top = "dart"
  BY OnTop DEF IInv, ExceptionsFindTheirCode
<1>1. ASSUME Depth > 0, Top = "dart", Pop, status = "running", UNCHANGED status
      PROVE  DepthBound' /\ NestingStep
  <2>1. Depth' = Depth - 1 /\ Top' \in UserCode /\ Depth > 1 /\ Depth % 2 = 0
    BY <1>0, <1>1, PopDepth
  <2>2. Nesting!ComeBack(Depth - 1) /\ Depth - 1 \in 1..MaxDepth
    BY <1>0, <1>1, <2>1, DartComesBack, MaxDepthAssumption DEF IsAlive, DepthBound
  <2> QED
    BY <1>0, <2>1, <2>2, MaxDepthAssumption DEF NestingStep, Nesting!Next, DepthBound
<1>2. CASE DartReturns
  BY <1>1, <1>2 DEF DartReturns
<1>3. CASE DartUncaught
  BY <1>0, <1>1, <1>3 DEF DartUncaught
<1>4. CASE DartThrows
  BY <1>4, InDartNests DEF DartThrows
<1>5. CASE DartCatches
  BY <1>0, <1>5, InDartNests DEF DartCatches
<1>6. ASSUME NEW name \in AllNames, CallNative(name)
      PROVE  DepthBound' /\ NestingStep
  <2>1. natives[name] \in Frames
    BY <1>6 DEF CallNative, IInv, TypeOK, Frames, UserCode
  <2>2. Depth' = Depth + 1 /\ Depth % 2 = 0 /\ Depth < MaxDepth /\ exception' = "none"
    BY <1>0, <1>6, <2>1, PushDepth DEF CallNative
  <2>3. Nesting!Begin(Depth + 1) /\ Depth + 1 \in 1..MaxDepth
    BY <1>0, <1>6, <2>2, CxxBegins, MaxDepthAssumption DEF CallNative, IsAlive
  <2> QED
    BY <1>0, <2>2, <2>3, MaxDepthAssumption DEF NestingStep, Nesting!Next, DepthBound
<1>7. ASSUME NEW name \in AllNames, NativeUnresolved(name)
      PROVE  DepthBound' /\ NestingStep
  BY <1>7, InDartNests DEF NativeUnresolved
<1> QED
  BY <1>2, <1>3, <1>4, <1>5, <1>6, <1>7 DEF DartStep

LEMMA NativeNests ==
  IInv /\ IInv' /\ DepthBound /\ NativeStep => DepthBound' /\ NestingStep
<1> SUFFICES ASSUME IInv, IInv', DepthBound, NativeStep PROVE DepthBound' /\ NestingStep
  OBVIOUS
<1> USE DEF Executes, Running
<1>1. CASE PrintReturns
  BY <1>1, LeavingNests DEF PrintReturns
<1>2. CASE GetterReturns
  BY <1>2, LeavingNests, CrashNests DEF GetterReturns, CheckFails
<1>3. CASE CallbackReturns
  BY <1>3, LeavingNests DEF CallbackReturns
<1>4. CASE ToCinderIgnored
  BY <1>4, LeavingNests DEF ToCinderIgnored
<1>5. CASE ToCinderBroken
  BY <1>5, CrashNests DEF ToCinderBroken
<1>6. ASSUME Depth > 0, Top \in LibraryCode, Become("callback"),
             status = "running", exception = "none", UNCHANGED <<exception, status>>
      PROVE  DepthBound' /\ NestingStep
  <2>1. Depth' = Depth /\ Top' = "callback" /\ Top # "dart" /\ Top \notin UserCode
    BY <1>6, BecomeDepth DEF LibraryCode, UserCode
  <2>2. Doing = "library" /\ Doing' = "active"
    BY <1>6, <2>1 DEF Doing, UserCode
  <2> QED
    BY <1>6, <2>1, <2>2, GoingOnNests
<1>7. CASE ToCinderReceived
  BY <1>6, <1>7 DEF ToCinderReceived, LibraryCode
<1>8. ASSUME NEW key \in Keys \cup {NoKey}, DispatchKey(key)
      PROVE  DepthBound' /\ NestingStep
  BY <1>6, <1>8 DEF DispatchKey, LibraryCode
<1>9. ASSUME NEW key \in Keys \cup {NoKey}, KeyUnknown(key)
      PROVE  DepthBound' /\ NestingStep
  BY <1>9, ThrowNests DEF KeyUnknown
<1> QED
  BY <1>1, <1>2, <1>3, <1>4, <1>5, <1>6, <1>7, <1>8, <1>9 DEF NativeStep

\* However deep Dart and C++ call each other, and however those calls end, each
\* C++ function sees one call of its own at a time, which comes back to it, with its
\* handles still good, or the process ends.
THEOREM NestingKept == Spec => ImplementsNesting
<1>1. Init => Nesting!Init /\ DepthBound
  <2> SUFFICES ASSUME Init PROVE Nesting!Init /\ DepthBound
    OBVIOUS
  <2>1. Depth = 0 /\ Len(scopes) = 0 /\ status = "running"
    BY DEF Init, Depth
  <2>2. \A n \in 1..MaxDepth : n > Depth
    BY <2>1, MaxDepthAssumption
  <2>3. CallStates = [n \in 1..MaxDepth |-> "none"]
    BY <2>2 DEF CallStates, CallAt
  <2>4. ScopedCalls = {} /\ IsAlive /\ DepthBound
    BY <2>1, MaxDepthAssumption DEF ScopedCalls, IsAlive, DepthBound
  <2> QED
    BY <2>3, <2>4 DEF Nesting!Init
<1>2. IInv /\ IInv' /\ DepthBound /\ [Next]_vars
      => DepthBound' /\ [Nesting!Next]_(Nesting!vars)
  <2> SUFFICES ASSUME IInv, IInv', DepthBound, [Next]_vars
               PROVE  DepthBound' /\ [Nesting!Next]_(Nesting!vars)
    OBVIOUS
  <2>1. DepthBound' /\ NestingStep
    <3>1. CASE Next
      BY <3>1, CxxNests, DartNests, NativeNests DEF Next
    <3>2. CASE UNCHANGED vars
      BY <3>2, StutterNests DEF vars
    <3> QED
      BY <3>1, <3>2
  <2> QED
    BY <2>1 DEF NestingStep, Nesting!vars
<1> QED
  BY <1>1, <1>2, Inductive, PTL DEF Spec, ImplementsNesting, Nesting!Spec

=============================================================================
