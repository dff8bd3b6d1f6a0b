------------------------ MODULE LibraryLoader_proofs ------------------------
(***************************************************************************)
(* Proofs about LibraryLoader, for every file system, search path and main *)
(* script: which file each library and part comes from, that no load is    *)
(* begun inside itself, what mImportedLibraries holds at the end, and that *)
(* a script that loads is complete.                                        *)
(*                                                                         *)
(* The loads in progress are those of different libraries, with that of    *)
(* the main script at the bottom.  As long as nothing has failed, every    *)
(* library either is loaded or has its load in progress, and each of its   *)
(* directives was handled or is still to do.                               *)
(***************************************************************************)
EXTENDS LibraryLoader, SequenceTheorems, WellFoundedInduction, TLAPS

Frame == [lib : DOMAIN source, rest : Seq(Directive)]

KnownInv ==
  /\ disk \in Disks
  /\ MainUrl \in DOMAIN source
  /\ CinderUrl \in DOMAIN library

\* The main script is at the bottom of the stack.
StackInv ==
  /\ NoReentry
  /\ status \in {"loading", "raising"} => stack # <<>> /\ stack[1].lib = MainUrl
  /\ status = "loaded" => stack = <<>>

\* Each library but the main script has the file the handler looks up.
PathInv ==
  \A lib \in DOMAIN source \ {MainUrl} :
    IF IsPackage(lib) THEN source[lib] = PackagePath(lib)
    ELSE Resolve(lib) # Nowhere /\ source[lib] = Resolve(lib)

LoadInv ==
  /\ \A lib \in DOMAIN source :
       library[lib] = "loaded" \/ \E i \in 1..Len(stack) : stack[i].lib = lib
  /\ \A i \in 1..Len(stack) : library[stack[i].lib] = "loading"

Handled(lib, d) ==
  IF d.tag = "import" THEN d.url \in DOMAIN library
  ELSE \E p \in parts : p.lib = lib /\ p.url = d.url

DoneInv ==
  /\ \A lib \in DOMAIN source : library[lib] = "loaded" =>
       disk[source[lib]].valid /\ \A d \in Directives(lib) : Handled(lib, d)
  /\ \A i \in 1..Len(stack) : \A d \in Directives(stack[i].lib) :
       Handled(stack[i].lib, d) \/ d \in ToSet(stack[i].rest)

\* A package is recorded since its load began, another library once it is over.
RecordInv ==
  /\ imported = [url \in DOMAIN imported |-> source[url]]
  /\ \A url \in DOMAIN source \ {MainUrl} :
       url \in DOMAIN imported <=> IsPackage(url) \/ library[url] = "loaded"
  /\ DOMAIN imported \subseteq DOMAIN source \ {MainUrl}

NativeInv ==
  natives = {CinderUrl} \cup
    {url \in DOMAIN source : library[url] = "loaded" /\ (url = MainUrl \/ ~ IsPackage(url))}

ProgressInv == LoadInv /\ DoneInv /\ RecordInv /\ NativeInv

IInv ==
  /\ TypeOK
  /\ KnownInv
  /\ StackInv
  /\ PathInv
  /\ PackagePartsBesideLibrary
  /\ status \in {"loading", "loaded"} => ProgressInv

-----------------------------------------------------------------------------
(* The search of the import directories *)

\* A set of natural numbers has a smallest element,
LEMMA Smallest ==
  ASSUME NEW T \in SUBSET Nat, T # {}
  PROVE  \E m \in T : \A k \in T : m <= k
<1> DEFINE R == OpToRel(<, Nat)
<1>1. IsWellFoundedOn(R, Nat)
  BY NatLessThanWellFounded
<1>2. PICK m \in T : \A k \in T : ~ (<<k, m>> \in R)
  <2> HIDE DEF R
  <2> QED BY <1>1, WFMin
<1>3. \A k \in T : ~ (k < m)
  BY <1>2 DEF OpToRel
<1>4. m \in T /\ T \in SUBSET Nat
  BY <1>2
<1> HIDE DEF R
<1>5. \A k \in T : m <= k
  BY <1>3, <1>4
<1> QED BY <1>4, <1>5

\* and one that is bounded a greatest, which is the Max of the community modules.
LEMMA Greatest ==
  ASSUME NEW n \in Nat, NEW S \in SUBSET (1..n), S # {}
  PROVE  /\ Max(S) \in S
         /\ \A k \in S : k <= Max(S)
<1> DEFINE T == {n - i : i \in S}
<1>0. T \in SUBSET Nat /\ T # {}
  <2>1. \A i \in S : i \in 1..n
    OBVIOUS
  <2>2. \A i \in S : n - i \in Nat
    BY <2>1
  <2> QED BY <2>2
<1>1. PICK t \in T : \A k \in T : t <= k
  <2> HIDE DEF T
  <2> QED BY <1>0, Smallest
<1>2. PICK m \in S : t = n - m
  BY <1>1
<1>3. \A k \in S : k <= m
  BY <1>1, <1>2
<1> QED
  BY <1>2, <1>3 DEF Max

\* What resolveRelativeImportPath finds is what NearestFileWins says of a library.
LEMMA ResolveIsNearest ==
  ASSUME NEW url, importDirs \in Seq(Path), Resolve(url) # Nowhere
  PROVE  /\ Resolve(url) \in DOMAIN disk
         /\ \/ Resolve(url) = MainDir \o url
            \/ /\ MainDir \o url \notin DOMAIN disk
               /\ \E i \in 1..Len(importDirs) :
                    /\ Resolve(url) = importDirs[i] \o url
                    /\ \A j \in i+1..Len(importDirs) : importDirs[j] \o url \notin DOMAIN disk
<1>1. CASE MainDir \o url \in DOMAIN disk
  BY <1>1 DEF Resolve
<1>2. CASE MainDir \o url \notin DOMAIN disk
  <2> DEFINE I == {i \in 1..Len(importDirs) : importDirs[i] \o url \in DOMAIN disk}
  <2>1. Len(importDirs) \in Nat
    OBVIOUS
  <2>2. Resolve(url) = IF (IF I # {} THEN Max(I) ELSE 0) = 0 THEN Nowhere
                       ELSE importDirs[IF I # {} THEN Max(I) ELSE 0] \o url
    BY <1>2 DEF Resolve, SelectLastInSeq
  <2>3. I # {}
    BY <2>2
  <2>4. Max(I) \in I /\ \A k \in I : k <= Max(I)
    BY <2>1, <2>3, Greatest
  <2>5. Resolve(url) = importDirs[Max(I)] \o url
    BY <2>2, <2>3, <2>4
  <2>6. \A j \in Max(I)+1..Len(importDirs) : importDirs[j] \o url \notin DOMAIN disk
    BY <2>1, <2>4
  <2> QED BY <1>2, <2>4, <2>5, <2>6
<1> QED BY <1>1, <1>2

\* The files and directories stay as they are, and what is found in them too.
LEMMA SameSearch ==
  ASSUME UNCHANGED fileVars, NEW url PROVE Resolve(url)' = Resolve(url)
BY DEF fileVars, Resolve, SelectLastInSeq

-----------------------------------------------------------------------------
(* The stack *)

\* What the first n elements of a sequence are.
LEMMA Prefix ==
  ASSUME NEW S, NEW s \in Seq(S), NEW n \in 0..Len(s)
  PROVE  /\ SubSeq(s, 1, n) \in Seq(S)
         /\ Len(SubSeq(s, 1, n)) = n
         /\ \A i \in 1..n : SubSeq(s, 1, n)[i] = s[i]
<1>1. Len(s) \in Nat /\ n \in Int /\ 1 \in Int /\ \A i \in 1..n : s[i] \in S
  BY ElementOfSeq, LenProperties
<1>2. /\ SubSeq(s, 1, n) \in Seq(S)
      /\ Len(SubSeq(s, 1, n)) = IF 1 <= n THEN n - 1 + 1 ELSE 0
      /\ \A i \in 1..n - 1 + 1 : SubSeq(s, 1, n)[i] = s[1 + i - 1]
  BY <1>1, SubSeqProperties
<1> QED
  BY <1>1, <1>2

\* The load on top, and the one that is left when it is over.
LEMMA TopFrame ==
  ASSUME TypeOK, stack # <<>>
  PROVE  /\ Len(stack) \in Nat \ {0}
         /\ Len(stack) \in 1..Len(stack)
         /\ Top = stack[Len(stack)]
         /\ Top \in Frame
         /\ Top.lib \in DOMAIN source
         /\ Top.lib \in DOMAIN library
         /\ Top.rest \in Seq(Directive)
<1>1. stack \in Seq(Frame)
  BY DEF TypeOK, Frame
<1>2. Len(stack) \in Nat \ {0}
  BY <1>1, EmptySeq
<1>3. stack[Len(stack)] \in Frame
  BY <1>1, <1>2
<1> QED
  BY <1>2, <1>3 DEF Top, Last, Frame, TypeOK

LEMMA PopFrame ==
  ASSUME TypeOK, stack # <<>>
  PROVE  /\ Front(stack) \in Seq(Frame)
         /\ Len(Front(stack)) = Len(stack) - 1
         /\ \A i \in 1..Len(stack) - 1 : Front(stack)[i] = stack[i]
<1>1. stack \in Seq(Frame) /\ Len(stack) \in Nat \ {0}
  BY TopFrame DEF TypeOK, Frame
<1>2. Len(stack) - 1 \in 0..Len(stack)
  BY <1>1
<1> QED
  BY <1>1, <1>2, Prefix DEF Front

\* The stack with the directive at hand done.
LEMMA ProceedFrame ==
  ASSUME TypeOK, stack # <<>>, Top.rest # <<>>
  PROVE  /\ Proceed(stack) \in Seq(Frame)
         /\ Len(Proceed(stack)) = Len(stack)
         /\ \A i \in 1..Len(stack) :
              /\ Proceed(stack)[i].lib = stack[i].lib
              /\ i # Len(stack) => Proceed(stack)[i] = stack[i]
         /\ Proceed(stack)[Len(stack)].rest = Tail(Top.rest)
         /\ Here \in Directive
         /\ \A d \in ToSet(Top.rest) : d = Here \/ d \in ToSet(Tail(Top.rest))
<1>1. stack \in Seq(Frame) /\ Len(stack) \in Nat \ {0} /\ Top.rest \in Seq(Directive)
  BY TopFrame DEF TypeOK, Frame
<1>2. /\ Here \in Directive
      /\ Tail(Top.rest) \in Seq(Directive)
      /\ Len(Tail(Top.rest)) = Len(Top.rest) - 1
      /\ \A i \in 1..Len(Tail(Top.rest)) : Tail(Top.rest)[i] = Top.rest[i + 1]
  BY <1>1, HeadTailProperties DEF Here
<1> DEFINE e == [lib |-> Top.lib, rest |-> Tail(Top.rest)]
<1>3. e \in Frame
  BY <1>2, TopFrame DEF Frame
<1>4. Proceed(stack) = [stack EXCEPT ![Len(stack)] = e]
  BY DEF Proceed, Top, Last
<1>5. /\ Proceed(stack) \in Seq(Frame)
      /\ Len(Proceed(stack)) = Len(stack)
      /\ \A i \in 1..Len(stack) : Proceed(stack)[i] = IF i = Len(stack) THEN e ELSE stack[i]
  <2> HIDE DEF e
  <2> QED BY <1>1, <1>3, <1>4, ExceptSeq
<1>6. e.lib = Top.lib /\ e.rest = Tail(Top.rest) /\ Top = stack[Len(stack)]
  BY TopFrame
<1>7. ASSUME NEW d \in ToSet(Top.rest) PROVE d = Here \/ d \in ToSet(Tail(Top.rest))
  <2>1. PICK i \in 1..Len(Top.rest) : d = Top.rest[i]
    BY <1>1, <1>7 DEF ToSet
  <2>2. CASE i = 1
    BY <1>1, <2>1, <2>2 DEF Here
  <2>3. CASE i # 1
    <3>1. i - 1 \in 1..Len(Tail(Top.rest)) /\ d = Tail(Top.rest)[i - 1]
      BY <1>1, <1>2, <2>1, <2>3
    <3>2. i - 1 \in DOMAIN Tail(Top.rest)
      BY <1>2, <3>1
    <3> QED BY <3>1, <3>2 DEF ToSet
  <2> QED BY <2>2, <2>3
<1> HIDE DEF e
<1> QED
  BY <1>1, <1>2, <1>5, <1>6, <1>7

-----------------------------------------------------------------------------
(* Steps *)

LEMMA Initially == Init => IInv
<1> SUFFICES ASSUME Init PROVE IInv
  OBVIOUS
<1> USE DEF Init
<1>1. /\ MainScript \in DOMAIN disk
      /\ \A path \in DOMAIN disk : disk[path] \in SourceFile
      /\ MainUrl # CinderUrl
  BY LoaderAssumption DEF MainUrl
<1>2. /\ Load(MainUrl, MainScript) = [lib |-> MainUrl, rest |-> disk[MainScript].directives]
      /\ disk[MainScript].directives \in Seq(Directive)
  BY <1>1 DEF Load, SourceFile
<1>3. Load(MainUrl, MainScript) \in Frame /\ Load(MainUrl, MainScript).lib = MainUrl
  BY <1>2 DEF Frame
<1>4. stack \in Seq(Frame) /\ Len(stack) = 1 /\ stack[1] = Load(MainUrl, MainScript)
  BY <1>3
<1>5. stack # <<>>
  BY <1>4
<1>6. TypeOK
  BY <1>1, <1>4 DEF TypeOK, Frame, MainUrl
<1>7. KnownInv
  BY DEF KnownInv
<1>8. StackInv
  BY <1>3, <1>4, <1>5 DEF StackInv, NoReentry
<1>9. PathInv /\ PackagePartsBesideLibrary
  BY DEF PathInv, PackagePartsBesideLibrary
<1>10. ProgressInv
  <2>1. library[MainUrl] = "loading" /\ library[CinderUrl] = "loaded"
    BY <1>1
  <2>2. LoadInv
    BY <1>3, <1>4, <2>1 DEF LoadInv
  <2>3. DoneInv
    BY <1>2, <1>3, <1>4, <2>1 DEF DoneInv, Directives
  <2>4. RecordInv
    BY DEF RecordInv
  <2>5. NativeInv
    BY <2>1 DEF NativeInv
  <2> QED BY <2>2, <2>3, <2>4, <2>5 DEF ProgressInv
<1> QED
  BY <1>6, <1>7, <1>8, <1>9, <1>10 DEF IInv

\* Nothing but mImportedLibraries changes when the load stops to go on well.
LEMMA StopIInv ==
  ASSUME IInv, status \in {"loading", "raising"},
         status' \in {"raising", "DartException", "aborted"},
         UNCHANGED <<fileVars, library, source, parts, natives, stack>>
  PROVE  IInv'
<1>1. TypeOK'
  BY DEF IInv, TypeOK, fileVars
<1>2. KnownInv' /\ StackInv'
  BY DEF IInv, KnownInv, StackInv, NoReentry, fileVars
<1>3. PathInv'
  BY SameSearch DEF IInv, PathInv, PackagePath, IsPackage, fileVars
<1>4. PackagePartsBesideLibrary'
  BY DEF IInv, PackagePartsBesideLibrary, IsPackage
<1> QED
  BY <1>1, <1>2, <1>3, <1>4 DEF IInv

\* The directive at hand was handled without a load.
LEMMA ProceedIInv ==
  ASSUME IInv, status = "loading", Top.rest # <<>>, stack' = Proceed(stack),
         UNCHANGED <<fileVars, imported, library, source, natives, status>>,
         parts \subseteq parts', NEW top, NEW here, top = Top.lib, here = Here,
         Handled(top, here)',
         \A p \in parts' : p.lib \in DOMAIN source /\ p.path \in DOMAIN disk,
         PackagePartsBesideLibrary'
  PROVE  IInv'
<1>1. stack # <<>> /\ TypeOK /\ ProgressInv
  BY DEF IInv, StackInv
<1>2. /\ stack' \in Seq(Frame)
      /\ Len(stack') = Len(stack)
      /\ Len(stack) \in Nat \ {0}
      /\ \A i \in 1..Len(stack) :
           /\ stack'[i].lib = stack[i].lib
           /\ i # Len(stack) => stack'[i] = stack[i]
      /\ stack'[Len(stack)].rest = Tail(Top.rest)
      /\ \A d \in ToSet(Top.rest) : d = Here \/ d \in ToSet(Tail(Top.rest))
  BY <1>1, ProceedFrame, TopFrame
<1>3. TypeOK'
  BY <1>1, <1>2 DEF TypeOK, Frame, fileVars
<1>4. KnownInv'
  BY DEF IInv, KnownInv, fileVars
<1>5. StackInv'
  <2>1. NoReentry'
    BY <1>2 DEF IInv, StackInv, NoReentry
  <2>2. stack' # <<>> /\ stack'[1].lib = MainUrl
    BY <1>2, EmptySeq DEF IInv, StackInv
  <2> QED BY <2>1, <2>2 DEF StackInv
<1>6. PathInv'
  BY SameSearch DEF IInv, PathInv, PackagePath, IsPackage, fileVars
<1>7. LoadInv'
  BY <1>1, <1>2 DEF ProgressInv, LoadInv
<1>8. DoneInv'
  <2>1. \A lib, d : Handled(lib, d) => Handled(lib, d)'
    BY DEF Handled
  <2>2. \A lib : Directives(lib)' = Directives(lib)
    BY DEF Directives, fileVars
  <2>3. ASSUME NEW lib \in DOMAIN source', library'[lib] = "loaded"
        PROVE  disk'[source'[lib]].valid /\ \A d \in Directives(lib)' : Handled(lib, d)'
    BY <1>1, <2>1, <2>2, <2>3 DEF ProgressInv, DoneInv, fileVars
  <2>4. ASSUME NEW i \in 1..Len(stack'), NEW d, NEW lib, lib = stack'[i].lib,
               d \in Directives(lib)'
        PROVE  Handled(lib, d)' \/ d \in ToSet(stack'[i].rest)
    <3>1. i \in 1..Len(stack) /\ lib = stack[i].lib /\ d \in Directives(lib)
      BY <1>2, <2>2, <2>4
    <3>2. Handled(lib, d) \/ d \in ToSet(stack[i].rest)
      BY <1>1, <3>1 DEF ProgressInv, DoneInv
    <3>3. CASE i # Len(stack) /\ d \in ToSet(stack[i].rest)
      BY <1>2, <3>1, <3>3
    <3>4. CASE i = Len(stack) /\ d \in ToSet(stack[i].rest)
      <4>1. stack[i] = Top /\ lib = Top.lib
        BY <1>1, <3>1, <3>4, TopFrame
      <4>2. d = Here \/ d \in ToSet(stack'[i].rest)
        BY <1>2, <3>4, <4>1
      <4>3. d = Here => Handled(lib, d)'
        BY <4>1
      <4> QED BY <4>2, <4>3
    <3> QED BY <2>1, <3>2, <3>3, <3>4
  <2> QED BY <2>3, <2>4 DEF DoneInv
<1>9. RecordInv' /\ NativeInv'
  BY <1>1 DEF ProgressInv, RecordInv, NativeInv, IsPackage
<1> QED
  BY <1>3, <1>4, <1>5, <1>6, <1>7, <1>8, <1>9 DEF IInv, ProgressInv

\* The load of a library begins.
LEMMA PushIInv ==
  ASSUME IInv, status = "loading", Top.rest # <<>>, Here.tag = "import",
         NEW url, url = Here.url, url \notin DOMAIN library,
         NEW path \in DOMAIN disk, BeginLoad(url, path),
         UNCHANGED <<fileVars, parts, natives>>,
         IF IsPackage(url)
           THEN path = PackagePath(url) /\ imported' = Put(imported, url, path)
           ELSE Resolve(url) # Nowhere /\ path = Resolve(url) /\ imported' = imported
  PROVE  IInv'
<1>1. stack # <<>> /\ TypeOK /\ ProgressInv
  BY DEF IInv, StackInv
<1>2. /\ Len(stack) \in Nat \ {0}
      /\ Proceed(stack) \in Seq(Frame)
      /\ Len(Proceed(stack)) = Len(stack)
      /\ \A i \in 1..Len(stack) :
           /\ Proceed(stack)[i].lib = stack[i].lib
           /\ i # Len(stack) => Proceed(stack)[i] = stack[i]
      /\ Proceed(stack)[Len(stack)].rest = Tail(Top.rest)
      /\ \A d \in ToSet(Top.rest) : d = Here \/ d \in ToSet(Tail(Top.rest))
      /\ Here \in Directive
  BY <1>1, ProceedFrame, TopFrame
<1>3. /\ library' = Put(library, url, "loading") /\ source' = Put(source, url, path)
      /\ stack' = Append(Proceed(stack), Load(url, path))
      /\ status' = "loading"
      /\ url # CinderUrl /\ url # MainUrl /\ url \notin DOMAIN source
  BY <1>1 DEF BeginLoad, IInv, KnownInv, TypeOK
<1>4. /\ DOMAIN library' = DOMAIN library \cup {url}
      /\ library'[url] = "loading"
      /\ \A u \in DOMAIN library : library'[u] = library[u]
      /\ DOMAIN source' = DOMAIN source \cup {url}
      /\ source'[url] = path
      /\ \A u \in DOMAIN source : source'[u] = source[u]
  BY <1>3 DEF Put
<1>5. /\ Load(url, path) = [lib |-> url, rest |-> disk[path].directives]
      /\ disk[path].directives \in Seq(Directive)
      /\ disk[path] \in SourceFile
  BY <1>1 DEF Load, TypeOK, SourceFile
<1>6. /\ Load(url, path) \in Frame'
      /\ Load(url, path).lib = url
      /\ Load(url, path).rest = disk[path].directives
  BY <1>4, <1>5 DEF Frame
<1>7. Proceed(stack) \in Seq(Frame')
  <2>1. Frame \subseteq Frame'
    BY <1>4 DEF Frame
  <2> QED BY <1>2, <2>1, SeqMonotonic
<1>8. /\ stack' \in Seq(Frame')
      /\ Len(stack') = Len(stack) + 1
      /\ stack'[Len(stack) + 1] = Load(url, path)
      /\ \A i \in 1..Len(stack) :
           /\ stack'[i].lib = stack[i].lib
           /\ i # Len(stack) => stack'[i] = stack[i]
      /\ stack'[Len(stack)].rest = Tail(Top.rest)
  BY <1>2, <1>3, <1>6, <1>7, AppendProperties
<1>9. stack # <<>> /\ \A i \in 1..Len(stack) : stack[i].lib \in DOMAIN source
  <2>1. stack \in Seq(Frame)
    BY <1>1 DEF TypeOK, Frame
  <2>2. \A i \in 1..Len(stack) : stack[i] \in Frame
    BY <2>1, ElementOfSeq
  <2> QED BY <1>1, <2>2 DEF Frame
<1>10. TypeOK'
  <2>1. stack' \in Seq([lib : DOMAIN source', rest : Seq(Directive)])
    BY <1>8 DEF Frame
  <2>2. \A u \in DOMAIN library' : library'[u] \in {"loading", "loaded", "failed"}
    BY <1>1, <1>4 DEF TypeOK
  <2>3. DOMAIN source' = DOMAIN library' \ {CinderUrl}
    BY <1>1, <1>3, <1>4 DEF TypeOK
  <2>4. \A u \in DOMAIN source' : source'[u] \in DOMAIN disk'
    BY <1>1, <1>4 DEF TypeOK, fileVars
  <2>5. /\ MainScript \in DOMAIN disk'
        /\ \A q \in DOMAIN disk' : disk'[q] \in SourceFile
        /\ importDirs' \in SearchPaths
        /\ natives' \subseteq DOMAIN library'
        /\ \A p \in parts' : p.lib \in DOMAIN source' /\ p.path \in DOMAIN disk'
    BY <1>1, <1>4 DEF TypeOK, fileVars
  <2> QED BY <1>3, <2>1, <2>2, <2>3, <2>4, <2>5 DEF TypeOK
<1>11. KnownInv'
  BY <1>4 DEF IInv, KnownInv, fileVars
<1>12. StackInv'
  <2>1. NoReentry'
    <3> SUFFICES ASSUME NEW i \in 1..Len(stack) + 1, NEW j \in 1..Len(stack) + 1,
                        stack'[i].lib = stack'[j].lib
                 PROVE  i = j
      BY <1>8 DEF NoReentry
    <3>1. CASE i # Len(stack) + 1 /\ j # Len(stack) + 1
      <4>1. i \in 1..Len(stack) /\ j \in 1..Len(stack)
        BY <1>2, <3>1
      <4> QED BY <1>8, <4>1 DEF IInv, StackInv, NoReentry
    <3>2. \A k \in 1..Len(stack) : stack'[k].lib # url
      BY <1>3, <1>8, <1>9
    <3>3. stack'[Len(stack) + 1].lib = url
      BY <1>6, <1>8
    <3> QED BY <1>2, <3>1, <3>2, <3>3
  <2>2. stack' # <<>> /\ stack'[1].lib = MainUrl
    <3>1. stack' # <<>>
      BY <1>2, <1>8, EmptySeq
    <3>2. 1 \in 1..Len(stack)
      BY <1>2
    <3> QED BY <1>8, <3>1, <3>2 DEF IInv, StackInv
  <2> QED BY <1>3, <2>1, <2>2 DEF StackInv
<1>13. PathInv'
  <2>1. \A u : Resolve(u)' = Resolve(u)
    BY SameSearch
  <2>2. PathInv
    BY DEF IInv
  <2> QED BY <1>3, <1>4, <2>1, <2>2 DEF PathInv, PackagePath, IsPackage
<1>14. PackagePartsBesideLibrary'
  <2>1. \A p \in parts : p.lib \in DOMAIN source
    BY <1>1 DEF TypeOK
  <2> QED BY <1>4, <2>1 DEF IInv, PackagePartsBesideLibrary, IsPackage
<1>15. LoadInv'
  <2>1. ASSUME NEW lib \in DOMAIN source'
        PROVE  library'[lib] = "loaded" \/ \E i \in 1..Len(stack') : stack'[i].lib = lib
    <3>1. CASE lib = url
      <4>1. Len(stack) + 1 \in 1..Len(stack')
        BY <1>2, <1>8
      <4> QED BY <1>6, <1>8, <3>1, <4>1
    <3>2. CASE lib \in DOMAIN source
      <4>1. lib \in DOMAIN library /\ 1..Len(stack) \subseteq 1..Len(stack')
        BY <1>1, <1>2, <1>8, <3>2 DEF TypeOK
      <4>2. library[lib] = "loaded" \/ \E i \in 1..Len(stack) : stack[i].lib = lib
        BY <1>1, <3>2 DEF ProgressInv, LoadInv
      <4> QED BY <1>4, <1>8, <4>1, <4>2
    <3> QED BY <1>4, <3>1, <3>2
  <2>2. ASSUME NEW i \in 1..Len(stack') PROVE library'[stack'[i].lib] = "loading"
    <3>1. CASE i = Len(stack) + 1
      BY <1>4, <1>6, <1>8, <3>1
    <3>2. CASE i # Len(stack) + 1
      <4>1. i \in 1..Len(stack)
        BY <1>2, <1>8, <3>2
      <4>2. stack[i].lib \in DOMAIN library /\ library[stack[i].lib] = "loading"
        BY <1>1, <1>9, <4>1 DEF TypeOK, ProgressInv, LoadInv
      <4> QED BY <1>4, <1>8, <4>1, <4>2
    <3> QED BY <3>1, <3>2
  <2> QED BY <2>1, <2>2 DEF LoadInv
<1>16. DoneInv'
  <2>1. \A lib, d : Handled(lib, d) => Handled(lib, d)'
    BY <1>4 DEF Handled
  <2>2. \A lib \in DOMAIN source : Directives(lib)' = Directives(lib)
    BY <1>4 DEF Directives, fileVars
  <2>3. ASSUME NEW lib \in DOMAIN source', library'[lib] = "loaded"
        PROVE  disk'[source'[lib]].valid /\ \A d \in Directives(lib)' : Handled(lib, d)'
    <3>1. lib \in DOMAIN source /\ library[lib] = "loaded" /\ source'[lib] = source[lib]
      BY <1>1, <1>4, <2>3 DEF TypeOK
    <3> QED BY <1>1, <2>1, <2>2, <3>1 DEF ProgressInv, DoneInv, fileVars
  <2>4. ASSUME NEW i \in 1..Len(stack'), NEW d, NEW lib, lib = stack'[i].lib,
               d \in Directives(lib)'
        PROVE  Handled(lib, d)' \/ d \in ToSet(stack'[i].rest)
    <3>1. CASE i = Len(stack) + 1
      <4>1. lib = url /\ stack'[i].rest = disk[path].directives
        BY <1>6, <1>8, <2>4, <3>1
      <4>2. Directives(lib)' = ToSet(disk[path].directives)
        BY <1>4, <4>1 DEF Directives, fileVars
      <4> QED BY <2>4, <4>1, <4>2
    <3>2. CASE i # Len(stack) + 1
      <4>1. i \in 1..Len(stack) /\ lib = stack[i].lib /\ lib \in DOMAIN source
        BY <1>2, <1>8, <1>9, <2>4, <3>2
      <4>2. d \in Directives(lib)
        BY <2>2, <2>4, <4>1
      <4>3. Handled(lib, d) \/ d \in ToSet(stack[i].rest)
        BY <1>1, <4>1, <4>2 DEF ProgressInv, DoneInv
      <4>4. CASE i # Len(stack) /\ d \in ToSet(stack[i].rest)
        BY <1>8, <4>1, <4>4
      <4>5. CASE i = Len(stack) /\ d \in ToSet(stack[i].rest)
        <5>1. stack[i] = Top
          BY <1>1, <4>5, TopFrame
        <5>2. d = Here \/ d \in ToSet(stack'[i].rest)
          BY <1>2, <1>8, <4>5, <5>1
        <5>3. d = Here => Handled(lib, d)'
          BY <1>4 DEF Handled
        <5> QED BY <5>2, <5>3
      <4> QED BY <2>1, <4>3, <4>4, <4>5
    <3> QED BY <3>1, <3>2
  <2> QED BY <2>3, <2>4 DEF DoneInv
<1>17. RecordInv'
  <2>1. /\ imported = [u \in DOMAIN imported |-> source[u]]
        /\ DOMAIN imported \subseteq DOMAIN source \ {MainUrl}
        /\ \A u \in DOMAIN source \ {MainUrl} :
             u \in DOMAIN imported <=> IsPackage(u) \/ library[u] = "loaded"
    BY <1>1 DEF ProgressInv, RecordInv
  <2>2. \A u \in DOMAIN source : library'[u] = library[u]
    BY <1>1, <1>4 DEF TypeOK
  <2>3. CASE IsPackage(url)
    <3>1. imported' = [z \in DOMAIN imported \cup {url} |-> IF z = url THEN path ELSE imported[z]]
      BY <2>3 DEF Put
    <3>2. \A z \in DOMAIN imported \cup {url} :
            (IF z = url THEN path ELSE imported[z]) = source'[z]
      BY <1>4, <2>1
    <3>3. imported' = [z \in DOMAIN imported' |-> source'[z]] /\ DOMAIN imported' = DOMAIN imported \cup {url}
      BY <3>1, <3>2
    <3> QED BY <1>3, <1>4, <2>1, <2>2, <2>3, <3>3 DEF RecordInv, IsPackage
  <2>4. CASE ~ IsPackage(url)
    <3>1. imported' = imported
      BY <2>4
    <3>2. imported' = [z \in DOMAIN imported' |-> source'[z]]
      BY <1>4, <2>1, <3>1
    <3>3. library'[url] # "loaded" /\ url \notin DOMAIN imported
      BY <1>3, <1>4, <2>1
    <3> QED BY <1>3, <1>4, <2>1, <2>2, <2>4, <3>1, <3>2, <3>3 DEF RecordInv, IsPackage
  <2> QED BY <2>3, <2>4
<1>18. NativeInv'
  <2>1. natives = {CinderUrl} \cup
          {u \in DOMAIN source : library[u] = "loaded" /\ (u = MainUrl \/ ~ IsPackage(u))}
    BY <1>1 DEF ProgressInv, NativeInv
  <2>2. \A u \in DOMAIN source : library'[u] = library[u]
    BY <1>1, <1>4 DEF TypeOK
  <2> QED BY <1>4, <2>1, <2>2 DEF NativeInv, IsPackage
<1> QED
  BY <1>10, <1>11, <1>12, <1>13, <1>14, <1>15, <1>16, <1>17, <1>18 DEF IInv, ProgressInv

\* A load is over, and the stack is left to the loads below it.
LEMMA PopStack ==
  ASSUME IInv, stack # <<>>, stack' = Front(stack), UNCHANGED <<fileVars, source, parts>>,
         DOMAIN library' = DOMAIN library,
         \A url \in DOMAIN library' : library'[url] \in {"loading", "loaded", "failed"},
         natives' \subseteq DOMAIN library,
         status' \in {"loading", "raising", "loaded", "error", "DartException", "aborted"}
  PROVE  /\ TypeOK' /\ KnownInv' /\ NoReentry' /\ PathInv' /\ PackagePartsBesideLibrary'
         /\ Len(stack) \in Nat \ {0}
         /\ Len(stack') = Len(stack) - 1
         /\ \A i \in 1..Len(stack') : i \in 1..Len(stack) /\ stack'[i] = stack[i]
         /\ \A i \in 1..Len(stack') : stack'[i].lib # Top.lib
<1>1. TypeOK /\ NoReentry
  BY DEF IInv, StackInv
<1>2. /\ stack' \in Seq(Frame)
      /\ Len(stack') = Len(stack) - 1
      /\ \A i \in 1..Len(stack) - 1 : stack'[i] = stack[i]
      /\ Len(stack) \in Nat \ {0}
      /\ Top = stack[Len(stack)]
  BY <1>1, PopFrame, TopFrame
<1>3. \A i \in 1..Len(stack') : i \in 1..Len(stack) /\ i # Len(stack) /\ stack'[i] = stack[i]
  BY <1>2
<1>4. TypeOK'
  BY <1>1, <1>2 DEF TypeOK, Frame, fileVars
<1>5. KnownInv'
  BY DEF IInv, KnownInv, fileVars
<1>6. NoReentry'
  BY <1>1, <1>3 DEF NoReentry
<1>7. PathInv'
  BY SameSearch DEF IInv, PathInv, PackagePath, IsPackage, fileVars
<1>8. PackagePartsBesideLibrary'
  BY DEF IInv, PackagePartsBesideLibrary, IsPackage
<1>9. \A i \in 1..Len(stack') : stack'[i].lib # Top.lib
  <2>1. Len(stack) \in 1..Len(stack)
    BY <1>2
  <2> QED BY <1>1, <1>2, <1>3, <2>1 DEF NoReentry
<1> QED
  BY <1>2, <1>3, <1>4, <1>5, <1>6, <1>7, <1>8, <1>9

\* The load of the library on top failed.
LEMMA GiveUpIInv ==
  ASSUME IInv, GiveUp,
         \/ Top.lib = MainUrl /\ status' = "error"
         \/ Top.lib # MainUrl /\ status' \in {"raising", "DartException", "aborted"}
  PROVE  IInv'
<1>1. stack # <<>> /\ stack[1].lib = MainUrl /\ TypeOK
  BY DEF IInv, StackInv, GiveUp
<1>2. /\ DOMAIN library' = DOMAIN library
      /\ \A url \in DOMAIN library' : library'[url] \in {"loading", "loaded", "failed"}
  BY <1>1 DEF GiveUp, TypeOK
<1>3. /\ TypeOK' /\ KnownInv' /\ NoReentry' /\ PathInv' /\ PackagePartsBesideLibrary'
      /\ Len(stack) \in Nat \ {0}
      /\ Len(stack') = Len(stack) - 1
      /\ \A i \in 1..Len(stack') : i \in 1..Len(stack) /\ stack'[i] = stack[i]
  BY <1>1, <1>2, PopStack DEF GiveUp, TypeOK
<1>4. status' = "raising" => stack' # <<>> /\ stack'[1].lib = MainUrl
  <2> SUFFICES ASSUME status' = "raising" PROVE stack' # <<>> /\ stack'[1].lib = MainUrl
    OBVIOUS
  <2>1. Top.lib # MainUrl /\ Top = stack[Len(stack)]
    BY <1>1, TopFrame
  <2>2. Len(stack) # 1
    BY <1>1, <2>1
  <2>3. 1 \in 1..Len(stack') /\ Len(stack') # 0
    BY <1>3, <2>2
  <2> QED BY <1>1, <1>3, <2>3, EmptySeq
<1> QED
  BY <1>3, <1>4 DEF IInv, StackInv

\* The library on top is loaded, and recorded if its URL is relative.
LEMMA LoadedIInv ==
  ASSUME IInv, Loaded, stack' = Front(stack),
         library' = [library EXCEPT ![Top.lib] = "loaded"],
         UNCHANGED <<fileVars, source, parts>>,
         IF Top.lib = MainUrl THEN status' = "loaded" ELSE status' = "loading",
         natives' = IF Top.lib = MainUrl \/ ~ IsPackage(Top.lib)
                    THEN natives \cup {Top.lib} ELSE natives,
         imported' = IF Top.lib = MainUrl \/ IsPackage(Top.lib)
                     THEN imported ELSE Put(imported, Top.lib, source[Top.lib])
  PROVE  IInv'
<1>1. /\ stack # <<>> /\ stack[1].lib = MainUrl /\ TypeOK /\ ProgressInv /\ StackInv
      /\ Top.rest = <<>> /\ disk[source[Top.lib]].valid /\ status = "loading"
  BY DEF IInv, StackInv, Loaded, AtEnd
<1>2. /\ DOMAIN library' = DOMAIN library
      /\ \A url \in DOMAIN library : library'[url] = IF url = Top.lib THEN "loaded" ELSE library[url]
      /\ \A url \in DOMAIN library' : library'[url] \in {"loading", "loaded", "failed"}
      /\ Top.lib \in DOMAIN source /\ Top.lib \in DOMAIN library
      /\ Top = stack[Len(stack)] /\ Len(stack) \in 1..Len(stack)
  BY <1>1, TopFrame DEF TypeOK
<1>3. /\ TypeOK' /\ KnownInv' /\ NoReentry' /\ PathInv' /\ PackagePartsBesideLibrary'
      /\ Len(stack) \in Nat \ {0}
      /\ Len(stack') = Len(stack) - 1
      /\ \A i \in 1..Len(stack') : i \in 1..Len(stack) /\ stack'[i] = stack[i]
      /\ \A i \in 1..Len(stack') : stack'[i].lib # Top.lib
  <2>1. natives' \subseteq DOMAIN library
    BY <1>1, <1>2 DEF TypeOK
  <2> QED BY <1>1, <1>2, <2>1, PopStack
<1>4. StackInv'
  <2>1. CASE Top.lib = MainUrl
    <3>1. Len(stack) = 1
      <4>1. 1 \in 1..Len(stack)
        BY <1>3
      <4> QED BY <1>1, <1>2, <2>1, <4>1 DEF StackInv, NoReentry
    <3>2. stack' = <<>>
      BY <1>3, <3>1, EmptySeq DEF TypeOK
    <3> QED BY <1>3, <2>1, <3>2 DEF StackInv
  <2>2. CASE Top.lib # MainUrl
    <3>1. Len(stack) # 1
      BY <1>1, <1>2, <2>2
    <3>2. 1 \in 1..Len(stack') /\ Len(stack') # 0
      BY <1>3, <3>1
    <3>3. stack' # <<>> /\ stack'[1].lib = MainUrl
      BY <1>1, <1>3, <3>2, EmptySeq
    <3> QED BY <1>3, <2>2, <3>3 DEF StackInv
  <2> QED BY <2>1, <2>2
<1>5. DOMAIN source \subseteq DOMAIN library
  BY <1>1 DEF TypeOK
<1>6. LoadInv'
  <2>1. ASSUME NEW lib \in DOMAIN source'
        PROVE  library'[lib] = "loaded" \/ \E i \in 1..Len(stack') : stack'[i].lib = lib
    <3>1. CASE lib = Top.lib
      BY <1>2, <3>1
    <3>2. CASE lib # Top.lib
      <4>1. library[lib] = "loaded" \/ \E i \in 1..Len(stack) : stack[i].lib = lib
        BY <1>1 DEF ProgressInv, LoadInv
      <4>2. \A i \in 1..Len(stack) : stack[i].lib = lib => i \in 1..Len(stack') /\ stack'[i] = stack[i]
        BY <1>2, <1>3, <3>2
      <4> QED BY <1>2, <1>5, <3>2, <4>1, <4>2
    <3> QED BY <3>1, <3>2
  <2>2. ASSUME NEW i \in 1..Len(stack') PROVE library'[stack'[i].lib] = "loading"
    <3>1. /\ stack'[i] = stack[i] /\ stack[i].lib # Top.lib /\ i \in 1..Len(stack)
          /\ library[stack[i].lib] = "loading"
      BY <1>1, <1>3 DEF ProgressInv, LoadInv
    <3>2. stack'[i].lib \in DOMAIN source
      <4>1. stack \in Seq(Frame)
        BY <1>1 DEF TypeOK, Frame
      <4>2. stack[i] \in Frame
        BY <3>1, <4>1, ElementOfSeq
      <4> QED BY <3>1, <4>2 DEF Frame
    <3> QED BY <1>2, <1>5, <3>1, <3>2
  <2> QED BY <2>1, <2>2 DEF LoadInv
<1>7. DoneInv'
  <2>1. \A lib, d : Handled(lib, d)' = Handled(lib, d)
    BY <1>2 DEF Handled
  <2>2. \A lib : Directives(lib)' = Directives(lib)
    BY DEF Directives, fileVars
  <2>3. \A d \in Directives(Top.lib) : Handled(Top.lib, d)
    <3>1. ToSet(Top.rest) = {}
      BY <1>1, EmptySeq DEF ToSet
    <3> QED BY <1>1, <1>2, <3>1 DEF ProgressInv, DoneInv
  <2>4. ASSUME NEW lib \in DOMAIN source', library'[lib] = "loaded"
        PROVE  disk'[source'[lib]].valid /\ \A d \in Directives(lib)' : Handled(lib, d)'
    <3>1. CASE lib = Top.lib
      BY <1>1, <2>1, <2>2, <2>3, <3>1 DEF fileVars
    <3>2. CASE lib # Top.lib
      <4>1. library[lib] = "loaded"
        BY <1>2, <1>5, <2>4, <3>2
      <4> QED BY <1>1, <2>1, <2>2, <4>1 DEF ProgressInv, DoneInv, fileVars
    <3> QED BY <3>1, <3>2
  <2>5. ASSUME NEW i \in 1..Len(stack'), NEW d, NEW lib, lib = stack'[i].lib,
               d \in Directives(lib)'
        PROVE  Handled(lib, d)' \/ d \in ToSet(stack'[i].rest)
    <3>1. i \in 1..Len(stack) /\ stack'[i] = stack[i] /\ d \in Directives(lib)
      BY <1>3, <2>2, <2>5
    <3> QED BY <1>1, <2>1, <2>5, <3>1 DEF ProgressInv, DoneInv
  <2> QED BY <2>4, <2>5 DEF DoneInv
<1>8. RecordInv'
  <2>1. /\ imported = [u \in DOMAIN imported |-> source[u]]
        /\ DOMAIN imported \subseteq DOMAIN source \ {MainUrl}
        /\ \A u \in DOMAIN source \ {MainUrl} :
             u \in DOMAIN imported <=> IsPackage(u) \/ library[u] = "loaded"
    BY <1>1 DEF ProgressInv, RecordInv
  <2>2. \A u \in DOMAIN source : library'[u] = IF u = Top.lib THEN "loaded" ELSE library[u]
    BY <1>2, <1>5
  <2>3. CASE Top.lib = MainUrl \/ IsPackage(Top.lib)
    BY <2>1, <2>2, <2>3 DEF RecordInv, IsPackage
  <2>4. CASE ~ (Top.lib = MainUrl \/ IsPackage(Top.lib))
    <3>1. imported' = [z \in DOMAIN imported \cup {Top.lib} |->
                         IF z = Top.lib THEN source[Top.lib] ELSE imported[z]]
      BY <2>4 DEF Put
    <3>2. \A z \in DOMAIN imported \cup {Top.lib} :
            (IF z = Top.lib THEN source[Top.lib] ELSE imported[z]) = source'[z]
      BY <2>1
    <3>3. /\ imported' = [z \in DOMAIN imported' |-> source'[z]]
          /\ DOMAIN imported' = DOMAIN imported \cup {Top.lib}
      BY <3>1, <3>2
    <3> QED BY <1>2, <2>1, <2>2, <2>4, <3>3 DEF RecordInv, IsPackage
  <2> QED BY <2>3, <2>4
<1>9. NativeInv'
  <2>1. natives = {CinderUrl} \cup
          {u \in DOMAIN source : library[u] = "loaded" /\ (u = MainUrl \/ ~ IsPackage(u))}
    BY <1>1 DEF ProgressInv, NativeInv
  <2>2. \A u \in DOMAIN source : library'[u] = IF u = Top.lib THEN "loaded" ELSE library[u]
    BY <1>2, <1>5
  <2> QED BY <1>2, <2>1, <2>2 DEF NativeInv, IsPackage
<1> QED
  BY <1>3, <1>4, <1>6, <1>7, <1>8, <1>9 DEF IInv, ProgressInv

\* What a directive names, and where an import leads.
LEMMA DirectiveAtHand ==
  ASSUME IInv, NEW tag, AtDirective(tag)
  PROVE  /\ status = "loading" /\ Top.rest # <<>> /\ Here.tag = tag
         /\ Top.lib \in DOMAIN source
         /\ importDirs \in Seq(Path)
BY TopFrame, LoaderAssumption DEF AtDirective, IInv, StackInv, TypeOK

LEMMA ImportIInv ==
  ASSUME IInv, ImportRegistered \/ ImportPackage \/ ImportRelative \/ ImportUnresolved
  PROVE  IInv'
<1>1. CASE ImportRegistered
  <2>1. PICK top, here : top = Top.lib /\ here = Here
    OBVIOUS
  <2>2. here.tag = "import" /\ here.url \in DOMAIN library'
    BY <1>1, <2>1 DEF ImportRegistered, AtDirective, Registered
  <2>3. Handled(top, here)'
    BY <2>2 DEF Handled
  <2>4. /\ \A p \in parts' : p.lib \in DOMAIN source /\ p.path \in DOMAIN disk
        /\ PackagePartsBesideLibrary'
    BY <1>1 DEF ImportRegistered, IInv, TypeOK, PackagePartsBesideLibrary, IsPackage
  <2> QED
    BY <1>1, <2>1, <2>3, <2>4, ProceedIInv, DirectiveAtHand DEF ImportRegistered
<1>2. CASE ImportPackage
  <2>1. PICK url : url = Here.url
    OBVIOUS
  <2>2. CASE PackagePath(url) \in DOMAIN disk
    <3>1. /\ url \notin DOMAIN library /\ IsPackage(url)
          /\ BeginLoad(url, PackagePath(url))
          /\ imported' = Put(imported, url, PackagePath(url))
      BY <1>2, <2>1, <2>2 DEF ImportPackage, Registered
    <3>2. status = "loading" /\ Top.rest # <<>> /\ Here.tag = "import"
      BY <1>2, DirectiveAtHand DEF ImportPackage
    <3>3. UNCHANGED <<fileVars, parts, natives>>
      BY <1>2 DEF ImportPackage
    <3>4. PICK path \in DOMAIN disk : path = PackagePath(url)
      BY <2>2
    <3> QED BY <2>1, <3>1, <3>2, <3>3, <3>4, PushIInv
  <2>3. CASE PackagePath(url) \notin DOMAIN disk
    <3>1. /\ status = "loading" /\ status' \in {"raising", "DartException", "aborted"}
          /\ UNCHANGED <<fileVars, library, source, parts, natives, stack>>
      BY <1>2, <2>1, <2>3 DEF ImportPackage, AtDirective, ThrowThroughVM
    <3> QED BY <3>1, StopIInv
  <2> QED BY <2>2, <2>3
<1>3. CASE ImportRelative
  <2>1. PICK url : url = Here.url
    OBVIOUS
  <2>2. /\ url \notin DOMAIN library /\ ~ IsPackage(url) /\ Resolve(url) # Nowhere
        /\ BeginLoad(url, Resolve(url))
        /\ imported' = imported
    BY <1>3, <2>1 DEF ImportRelative, Registered
  <2>3. status = "loading" /\ Top.rest # <<>> /\ Here.tag = "import"
    BY <1>3, DirectiveAtHand DEF ImportRelative
  <2>4. UNCHANGED <<fileVars, parts, natives>>
    BY <1>3 DEF ImportRelative
  <2>5. importDirs \in Seq(Path)
    BY <1>3, DirectiveAtHand DEF ImportRelative
  <2>6. PICK path \in DOMAIN disk : path = Resolve(url)
    BY <2>2, <2>5, ResolveIsNearest
  <2> QED BY <2>1, <2>2, <2>3, <2>4, <2>6, PushIInv
<1>4. CASE ImportUnresolved
  <2>1. /\ status = "loading" /\ status' = "raising"
        /\ UNCHANGED <<fileVars, library, source, parts, natives, stack>>
    BY <1>4 DEF ImportUnresolved, AtDirective
  <2> QED BY <2>1, StopIInv
<1> QED
  BY <1>1, <1>2, <1>3, <1>4

LEMMA PartIInv ==
  ASSUME IInv, PartLoaded \/ PartMissing \/ PartInvalid
  PROVE  IInv'
<1>1. CASE PartLoaded
  <2>1. PICK top, here, path : top = Top.lib /\ here = Here /\ path = PartPath(Top.lib, Here.url)
    OBVIOUS
  <2>2. /\ path \in DOMAIN disk
        /\ parts' = parts \cup {[lib |-> top, url |-> here.url, path |-> path]}
        /\ here.tag = "part"
    BY <1>1, <2>1 DEF PartLoaded, LoadSource, AtDirective
  <2>3. [lib |-> top, url |-> here.url, path |-> path].lib = top
        /\ [lib |-> top, url |-> here.url, path |-> path].url = here.url
        /\ [lib |-> top, url |-> here.url, path |-> path].path = path
    OBVIOUS
  <2>4. Handled(top, here)'
    BY <2>2, <2>3 DEF Handled
  <2>5. /\ status = "loading" /\ Top.rest # <<>> /\ top \in DOMAIN source
        /\ UNCHANGED <<fileVars, imported, library, source, natives, status>>
        /\ stack' = Proceed(stack)
    BY <1>1, <2>1, DirectiveAtHand DEF PartLoaded
  <2>6. \A p \in parts' : p.lib \in DOMAIN source /\ p.path \in DOMAIN disk
    BY <2>2, <2>3, <2>5 DEF IInv, TypeOK
  <2>7. PackagePartsBesideLibrary'
    <3>1. ASSUME top # MainUrl, IsPackage(top) PROVE path = Front(source[top]) \o here.url
      <4>1. top \in DOMAIN imported /\ imported[top] = source[top]
        BY <2>5, <3>1 DEF IInv, ProgressInv, RecordInv
      <4> QED BY <2>1, <4>1 DEF PartPath
    <3>2. PackagePartsBesideLibrary
      BY DEF IInv
    <3> QED
      BY <2>2, <2>3, <2>5, <3>1, <3>2 DEF PackagePartsBesideLibrary, IsPackage
  <2> QED
    BY <2>1, <2>2, <2>4, <2>5, <2>6, <2>7, ProceedIInv
<1>2. CASE PartMissing \/ PartInvalid
  <2>1. /\ status = "loading" /\ status' \in {"raising", "DartException", "aborted"}
        /\ UNCHANGED <<fileVars, library, source, parts, natives, stack>>
    BY <1>2 DEF PartMissing, PartInvalid, AtDirective, ThrowThroughVM
  <2> QED BY <2>1, StopIInv
<1> QED
  BY <1>1, <1>2

LEMMA EndIInv ==
  ASSUME IInv, \/ BodyInvalid \/ ScriptLoaded \/ PackageLoaded \/ RelativeLoaded
               \/ ScriptFails \/ RelativeFails \/ PackageFails
  PROVE  IInv'
<1>1. CASE BodyInvalid
  <2>1. /\ status = "loading" /\ status' = "raising"
        /\ UNCHANGED <<fileVars, library, source, parts, natives, stack>>
    BY <1>1 DEF BodyInvalid, AtEnd
  <2> QED BY <2>1, StopIInv
<1>2. CASE ScriptLoaded
  <2>1. /\ Loaded /\ Top.lib = MainUrl /\ stack' = Front(stack) /\ status' = "loaded"
        /\ library' = [library EXCEPT ![Top.lib] = "loaded"]
        /\ natives' = natives \cup {Top.lib}
        /\ imported' = imported
        /\ UNCHANGED <<fileVars, source, parts>>
    BY <1>2 DEF ScriptLoaded, SetNativeResolver
  <2> QED BY <2>1, LoadedIInv
<1>3. CASE PackageLoaded
  <2>1. /\ Loaded /\ Top.lib # MainUrl /\ IsPackage(Top.lib)
        /\ stack' = Front(stack) /\ status' = "loading"
        /\ library' = [library EXCEPT ![Top.lib] = "loaded"]
        /\ natives' = natives /\ imported' = imported
        /\ UNCHANGED <<fileVars, source, parts>>
    BY <1>3 DEF PackageLoaded, Loaded, AtEnd
  <2> QED BY <2>1, LoadedIInv
<1>4. CASE RelativeLoaded
  <2>1. /\ Loaded /\ Top.lib # MainUrl /\ ~ IsPackage(Top.lib)
        /\ stack' = Front(stack) /\ status' = "loading"
        /\ library' = [library EXCEPT ![Top.lib] = "loaded"]
        /\ natives' = natives \cup {Top.lib}
        /\ imported' = Put(imported, Top.lib, source[Top.lib])
        /\ UNCHANGED <<fileVars, source, parts>>
    BY <1>4 DEF RelativeLoaded, SetNativeResolver, Loaded, AtEnd
  <2> QED BY <2>1, LoadedIInv
<1>5. CASE ScriptFails \/ RelativeFails \/ PackageFails
  <2>1. /\ GiveUp
        /\ \/ Top.lib = MainUrl /\ status' = "error"
           \/ Top.lib # MainUrl /\ status' \in {"raising", "DartException", "aborted"}
    BY <1>5 DEF ScriptFails, RelativeFails, PackageFails
  <2> QED BY <2>1, GiveUpIInv
<1> QED
  BY <1>1, <1>2, <1>3, <1>4, <1>5

LEMMA NextIInv == IInv /\ [Next]_vars => IInv'
<1> SUFFICES ASSUME IInv, [Next]_vars PROVE IInv'
  OBVIOUS
<1>1. CASE Next
  BY <1>1, ImportIInv, PartIInv, EndIInv DEF Next
<1>2. CASE UNCHANGED vars
  <2>1. TypeOK' /\ KnownInv' /\ StackInv'
    BY <1>2 DEF vars, IInv, TypeOK, KnownInv, StackInv, NoReentry
  <2>2. PathInv'
    BY <1>2, SameSearch DEF vars, fileVars, IInv, PathInv, PackagePath, IsPackage
  <2>3. PackagePartsBesideLibrary'
    BY <1>2 DEF vars, IInv, PackagePartsBesideLibrary, IsPackage
  <2>4. LoadInv' = LoadInv /\ DoneInv' = DoneInv
    BY <1>2 DEF vars, LoadInv, DoneInv, Handled, Directives
  <2>5. RecordInv' = RecordInv /\ NativeInv' = NativeInv
    BY <1>2 DEF vars, RecordInv, NativeInv, IsPackage
  <2>6. status' = status
    BY <1>2 DEF vars
  <2> QED BY <2>1, <2>2, <2>3, <2>4, <2>5, <2>6 DEF IInv, ProgressInv
<1> QED
  BY <1>1, <1>2

THEOREM Inductive == Spec => []IInv
BY Initially, NextIInv, PTL DEF Spec

-----------------------------------------------------------------------------
(* What follows from the invariant *)

\* The variables keep their types, and what the VM knows of a library and where
\* its text came from are always about the same libraries.
THEOREM TypeCorrect == Spec => []TypeOK
<1>1. IInv => TypeOK
  BY DEF IInv
<1> QED BY <1>1, Inductive, PTL

\* However the libraries import each other, none is loaded inside itself.
THEOREM NoLoadInsideItself == Spec => []NoReentry
<1>1. IInv => NoReentry
  BY DEF IInv, StackInv
<1> QED BY <1>1, Inductive, PTL

\* In every file system, a relative import gets the file that the search prefers.
THEOREM NearestFiles == Spec => []NearestFileWins
<1>1. IInv => NearestFileWins
  <2> SUFFICES ASSUME IInv, NEW lib \in DOMAIN source \ {MainUrl}, ~ IsPackage(lib)
               PROVE  \/ source[lib] = MainDir \o lib
                      \/ /\ MainDir \o lib \notin DOMAIN disk
                         /\ \E i \in 1..Len(importDirs) :
                              /\ source[lib] = importDirs[i] \o lib
                              /\ \A j \in i+1..Len(importDirs) : importDirs[j] \o lib \notin DOMAIN disk
    BY DEF NearestFileWins
  <2>1. Resolve(lib) # Nowhere /\ source[lib] = Resolve(lib)
    BY DEF IInv, PathInv
  <2>2. importDirs \in Seq(Path)
    BY LoaderAssumption DEF IInv, TypeOK
  <2> QED BY <2>1, <2>2, ResolveIsNearest
<1> QED BY <1>1, Inductive, PTL

\* The parts of a package are those in its own folder.
THEOREM PartsBesidePackages == Spec => []PackagePartsBesideLibrary
<1>1. IInv => PackagePartsBesideLibrary
  BY DEF IInv
<1> QED BY <1>1, Inductive, PTL

\* Once nothing is left to load, every library is loaded.
LEMMA AllLoaded ==
  ASSUME IInv, status = "loaded"
  PROVE  /\ TypeOK /\ KnownInv /\ ProgressInv
         /\ \A lib \in DOMAIN source : library[lib] = "loaded"
<1>1. stack = <<>> /\ ProgressInv
  BY DEF IInv, StackInv
<1>2. Len(stack) = 0
  BY <1>1, EmptySeq
<1> QED
  BY <1>1, <1>2 DEF IInv, ProgressInv, LoadInv

\* A script that loads has all its libraries, with all their imports and parts.
THEOREM LoadedIsComplete == Spec => []SuccessIsComplete
<1>1. IInv => SuccessIsComplete
  BY AllLoaded DEF SuccessIsComplete, ProgressInv, DoneInv, Handled
<1> QED BY <1>1, Inductive, PTL

\* When the script has loaded, mImportedLibraries holds exactly its imports.
THEOREM RecordedAsLoaded == Spec => []ImportedMatchesLoaded
<1>1. ASSUME IInv, status = "loaded"
      PROVE  /\ imported = [url \in Imports |-> source[url]]
             /\ natives = {url \in DOMAIN library :
                             url \in {MainUrl, CinderUrl} \/ ~ IsPackage(url)}
  <2>1. /\ \A lib \in DOMAIN source : library[lib] = "loaded"
        /\ DOMAIN source = DOMAIN library \ {CinderUrl}
        /\ MainUrl \in DOMAIN source /\ CinderUrl \in DOMAIN library
        /\ RecordInv /\ NativeInv
    BY <1>1, AllLoaded DEF TypeOK, KnownInv, ProgressInv
  <2>2. DOMAIN imported = Imports
    BY <2>1 DEF RecordInv, Imports
  <2>3. imported = [url \in Imports |-> source[url]]
    BY <2>1, <2>2 DEF RecordInv
  <2> QED BY <2>1, <2>3 DEF NativeInv
<1>2. IInv => ImportedMatchesLoaded
  BY <1>1 DEF ImportedMatchesLoaded
<1> QED BY <1>2, Inductive, PTL

-----------------------------------------------------------------------------
(* The loader implements LibraryGraph *)

\* Each library has the text the graph says, what is left of it to do is part of
\* it, and the parts that were loaded are those the handler looks up.
GraphInv ==
  /\ source[MainUrl] = MainScript
  /\ DOMAIN source \subseteq Findable
  /\ \A i \in 1..Len(stack) : ToSet(stack[i].rest) \subseteq Directives(stack[i].lib)
  /\ \A p \in parts : p.path = PartOf(p.lib, p.url) /\ disk[p.path].valid

\* As long as the files stay as they are, so does all that the graph is made of.
LEMMA SameGraph ==
  ASSUME UNCHANGED fileVars
  PROVE  /\ Findable' = Findable
         /\ ImportGraph' = ImportGraph
         /\ WholeLibraries' = WholeLibraries
         /\ \A url : TextOf(url)' = TextOf(url)
         /\ \A lib, url : PartOf(lib, url)' = PartOf(lib, url)
<1>1. disk' = disk
  BY DEF fileVars
<1>2. \A url : Resolve(url)' = Resolve(url)
  BY SameSearch
<1>3. \A url : TextOf(url)' = TextOf(url)
  BY <1>2 DEF TextOf, IsPackage, PackagePath
<1>4. \A lib, url : PartOf(lib, url)' = PartOf(lib, url)
  BY <1>2, <1>3 DEF PartOf, IsPackage
<1>5. Findable' = Findable
  BY <1>1, <1>3 DEF Findable
<1>6. \A lib : ImportsOf(lib)' = ImportsOf(lib)
  BY <1>1, <1>3 DEF ImportsOf
<1>7. \A lib : IsWhole(lib)' = IsWhole(lib)
  BY <1>1, <1>3, <1>4 DEF IsWhole, Compiles
<1> QED
  BY <1>3, <1>4, <1>5, <1>6, <1>7 DEF ImportGraph, WholeLibraries

\* The text of a library is the one the graph has it by.
LEMMA SourceIsText ==
  ASSUME IInv, GraphInv, NEW lib \in DOMAIN source
  PROVE  /\ source[lib] = TextOf(lib)
         /\ TextOf(lib) \in DOMAIN disk
         /\ Directives(lib) = ToSet(disk[TextOf(lib)].directives)
         /\ lib \in Findable
         /\ lib # CinderUrl
<1>1. source[lib] = TextOf(lib)
  <2>1. CASE lib = MainUrl
    BY <2>1 DEF GraphInv, TextOf
  <2>2. CASE lib # MainUrl
    BY <2>2 DEF IInv, PathInv, TextOf
  <2> QED BY <2>1, <2>2
<1>2. source[lib] \in DOMAIN disk /\ lib # CinderUrl
  BY DEF IInv, TypeOK
<1> QED
  BY <1>1, <1>2 DEF GraphInv, Directives

\* A library that some text names is in the graph if it has a text itself.
LEMMA NamedIsFindable ==
  ASSUME NEW path \in DOMAIN disk, NEW d \in ToSet(disk[path].directives),
         d.url # CinderUrl, TextOf(d.url) \in DOMAIN disk
  PROVE  d.url \in Findable
<1>1. d.url \in UNION {{e.url : e \in ToSet(disk[p].directives)} : p \in DOMAIN disk}
  OBVIOUS
<1> QED
  BY <1>1 DEF Findable

\* The directive at hand is one of the text on top of the stack.
LEMMA HereIsThere ==
  ASSUME IInv, GraphInv, NEW tag, AtDirective(tag)
  PROVE  /\ Top.lib \in DOMAIN source
         /\ Here \in Directives(Top.lib)
         /\ Here.tag = tag
         /\ status = "loading"
<1>1. /\ stack # <<>> /\ TypeOK /\ Top.rest # <<>> /\ status = "loading" /\ Here.tag = tag
  BY DEF AtDirective, IInv, StackInv
<1>2. /\ Len(stack) \in 1..Len(stack) /\ Top = stack[Len(stack)]
      /\ Top.rest \in Seq(Directive) /\ Top.lib \in DOMAIN source
  BY <1>1, TopFrame
<1>3. Here \in ToSet(Top.rest)
  <2>1. Len(Top.rest) \in Nat \ {0}
    BY <1>1, <1>2, EmptySeq
  <2>2. 1 \in DOMAIN Top.rest /\ Here = Top.rest[1]
    BY <1>2, <2>1 DEF Here
  <2> QED BY <2>2 DEF ToSet
<1> QED
  BY <1>1, <1>2, <1>3 DEF GraphInv

\* Where the handler looks for a part is where the graph has it.
LEMMA PartIsThere ==
  ASSUME IInv, NEW lib \in DOMAIN source, lib = Top.lib, status = "loading", stack # <<>>,
         NEW url, source[lib] = TextOf(lib)
  PROVE  PartPath(lib, url) = PartOf(lib, url)
<1>1. /\ RecordInv /\ LoadInv /\ TypeOK
  BY DEF IInv, ProgressInv
<1>2. library[lib] = "loading"
  <2>1. Len(stack) \in 1..Len(stack) /\ Top = stack[Len(stack)]
    BY <1>1, TopFrame
  <2> QED BY <1>1, <2>1 DEF LoadInv
<1>3. CASE lib # MainUrl /\ IsPackage(lib)
  <2>1. lib \in DOMAIN imported /\ imported[lib] = source[lib]
    BY <1>1, <1>3 DEF RecordInv
  <2> QED BY <1>3, <2>1 DEF PartPath, PartOf
<1>4. CASE ~ (lib # MainUrl /\ IsPackage(lib))
  <2>1. lib \notin DOMAIN imported
    BY <1>1, <1>2, <1>4 DEF RecordInv
  <2> QED BY <1>4, <2>1 DEF PartPath, PartOf
<1> QED
  BY <1>3, <1>4

LEMMA InitiallyGraph == Init => GraphInv
<1> SUFFICES ASSUME Init PROVE GraphInv
  OBVIOUS
<1>1. MainUrl # CinderUrl /\ MainScript \in DOMAIN disk
  BY LoaderAssumption DEF Init, MainUrl
<1>2. source[MainUrl] = MainScript /\ DOMAIN source = {MainUrl}
  BY DEF Init
<1>3. MainUrl \in Findable
  BY <1>1 DEF Findable, TextOf
<1>4. /\ Len(stack) = 1
      /\ stack[1].lib = MainUrl
      /\ stack[1].rest = disk[MainScript].directives
  BY DEF Init, Load
<1>5. \A i \in 1..Len(stack) : ToSet(stack[i].rest) \subseteq Directives(stack[i].lib)
  BY <1>2, <1>4 DEF Directives
<1> QED
  BY <1>2, <1>3, <1>5 DEF GraphInv, Init

\* Nothing was put on the stack, and the parts that are new are where they should be.
LEMMA ShrinkGraph ==
  ASSUME GraphInv, UNCHANGED <<fileVars, source>>,
         \A i \in 1..Len(stack') :
           /\ i \in 1..Len(stack)
           /\ stack'[i].lib = stack[i].lib
           /\ ToSet(stack'[i].rest) \subseteq ToSet(stack[i].rest),
         \A p \in parts' : p \in parts \/ (p.path = PartOf(p.lib, p.url) /\ disk[p.path].valid)
  PROVE  GraphInv'
<1>1. \A lib : Directives(lib)' = Directives(lib)
  BY DEF Directives, fileVars
<1>2. /\ Findable' = Findable
      /\ \A lib, url : PartOf(lib, url)' = PartOf(lib, url)
  BY SameGraph
<1>3. disk' = disk
  BY DEF fileVars
<1>4. (source[MainUrl] = MainScript)' /\ (DOMAIN source \subseteq Findable)'
  BY <1>2 DEF GraphInv
<1>5. ASSUME NEW i \in 1..Len(stack'), NEW lib, lib = stack'[i].lib
      PROVE  ToSet(stack'[i].rest) \subseteq Directives(lib)'
  BY <1>1, <1>5 DEF GraphInv
<1>6. \A p \in parts' : p.path = PartOf(p.lib, p.url)' /\ disk'[p.path].valid
  BY <1>2, <1>3 DEF GraphInv
<1> QED
  BY <1>4, <1>5, <1>6 DEF GraphInv

LEMMA TailIsPart ==
  ASSUME NEW S, NEW s \in Seq(S), s # <<>>
  PROVE  ToSet(Tail(s)) \subseteq ToSet(s)
<1>1. /\ Len(s) \in Nat
      /\ Tail(s) \in Seq(S)
      /\ Len(Tail(s)) = Len(s) - 1
      /\ \A i \in 1..Len(Tail(s)) : Tail(s)[i] = s[i + 1]
  BY HeadTailProperties
<1>2. ASSUME NEW i \in 1..Len(Tail(s))
      PROVE  i + 1 \in 1..Len(s) /\ Tail(s)[i] = s[i + 1]
  BY <1>1
<1>3. DOMAIN s = 1..Len(s) /\ DOMAIN Tail(s) = 1..Len(Tail(s))
  BY <1>1, LenProperties
<1> QED
  BY <1>2, <1>3 DEF ToSet

LEMMA ProceedShrinks ==
  ASSUME IInv, status = "loading", Top.rest # <<>>, stack' = Proceed(stack)
  PROVE  \A i \in 1..Len(stack') :
           /\ i \in 1..Len(stack)
           /\ stack'[i].lib = stack[i].lib
           /\ ToSet(stack'[i].rest) \subseteq ToSet(stack[i].rest)
<1>1. stack # <<>> /\ TypeOK
  BY DEF IInv, StackInv
<1>2. /\ Len(stack') = Len(stack)
      /\ \A i \in 1..Len(stack) :
           /\ stack'[i].lib = stack[i].lib
           /\ i # Len(stack) => stack'[i] = stack[i]
      /\ stack'[Len(stack)].rest = Tail(Top.rest)
  BY <1>1, ProceedFrame
<1>3. Top = stack[Len(stack)] /\ Top.rest \in Seq(Directive)
  BY <1>1, TopFrame
<1>4. ToSet(Tail(Top.rest)) \subseteq ToSet(Top.rest)
  BY <1>3, TailIsPart
<1> QED
  BY <1>2, <1>3, <1>4

\* The load that begins is that of a library of the graph.
LEMMA PushGraph ==
  ASSUME IInv, GraphInv, AtDirective("import"), NEW url, url = Here.url,
         url \notin DOMAIN library, NEW path \in DOMAIN disk, path = TextOf(url),
         BeginLoad(url, path), UNCHANGED <<fileVars, parts>>
  PROVE  /\ GraphInv'
         /\ url \in Findable \ DOMAIN source
         /\ DOMAIN source' = DOMAIN source \cup {url}
         /\ Outcome = "loading" /\ Outcome' = Outcome
         /\ \E importer \in DOMAIN source : url \in ImportGraph[importer]
<1>1. /\ stack # <<>> /\ TypeOK /\ KnownInv
      /\ Top.rest # <<>> /\ status = "loading" /\ Here.tag = "import"
  BY DEF IInv, StackInv, AtDirective
<1>2. Top.lib \in DOMAIN source /\ Here \in Directives(Top.lib)
  BY HereIsThere
<1>3. /\ TextOf(Top.lib) \in DOMAIN disk
      /\ Directives(Top.lib) = ToSet(disk[TextOf(Top.lib)].directives)
      /\ Top.lib \in Findable
  BY <1>2, SourceIsText
<1>4. url # CinderUrl /\ url # MainUrl /\ url \notin DOMAIN source
  BY <1>1 DEF KnownInv, TypeOK
<1>5. url \in Findable
  BY <1>2, <1>3, <1>4, NamedIsFindable
<1>6. url \in ImportGraph[Top.lib]
  BY <1>1, <1>2, <1>3, <1>4 DEF ImportGraph, ImportsOf
<1>7. /\ source' = Put(source, url, path)
      /\ stack' = Append(Proceed(stack), Load(url, path))
      /\ status' = status
  BY DEF BeginLoad
<1>8. /\ DOMAIN source' = DOMAIN source \cup {url}
      /\ source'[url] = path
      /\ \A u \in DOMAIN source : source'[u] = source[u]
  BY <1>4, <1>7 DEF Put
<1>9. /\ Load(url, path).lib = url
      /\ Load(url, path).rest = disk[path].directives
  BY DEF Load
<1>10. GraphInv'
  <2> DEFINE s == Proceed(stack)
  <2>1. /\ s \in Seq(Frame) /\ Len(s) = Len(stack) /\ Len(stack) \in Nat
        /\ \A i \in 1..Len(stack) : s[i].lib = stack[i].lib
    BY <1>1, ProceedFrame, TopFrame
  <2>2. \A i \in 1..Len(s) : ToSet(s[i].rest) \subseteq ToSet(stack[i].rest)
    <3>1. /\ \A i \in 1..Len(stack) : i # Len(stack) => s[i] = stack[i]
          /\ s[Len(stack)].rest = Tail(Top.rest)
          /\ Top = stack[Len(stack)]
      BY <1>1, ProceedFrame, TopFrame
    <3>2. ToSet(Tail(Top.rest)) \subseteq ToSet(Top.rest)
      BY <1>1, TailIsPart, TopFrame
    <3> QED BY <2>1, <3>1, <3>2
  <2>3. /\ Len(stack') = Len(s) + 1
        /\ stack'[Len(s) + 1] = Load(url, path)
        /\ \A i \in 1..Len(s) : stack'[i] = s[i]
    BY <1>7, <2>1, AppendProperties
  <2>4. \A lib \in DOMAIN source : Directives(lib)' = Directives(lib)
    BY <1>8 DEF Directives, fileVars
  <2>5. Directives(url)' = ToSet(disk[path].directives)
    BY <1>8 DEF Directives, fileVars
  <2>6. \A i \in 1..Len(stack) : stack[i].lib \in DOMAIN source
    <3>1. \A i \in 1..Len(stack) : stack[i] \in Frame
      BY <1>1, ElementOfSeq DEF TypeOK, Frame
    <3> QED BY <3>1 DEF Frame
  <2> HIDE DEF s
  <2>7. ASSUME NEW i \in 1..Len(stack'), NEW lib, lib = stack'[i].lib
        PROVE  ToSet(stack'[i].rest) \subseteq Directives(lib)'
    <3>1. CASE i = Len(s) + 1
      BY <1>9, <2>3, <2>5, <2>7, <3>1
    <3>2. CASE i # Len(s) + 1
      <4>1. i \in 1..Len(s) /\ i \in 1..Len(stack)
        BY <2>1, <2>3, <3>2
      <4>2. stack'[i].lib = stack[i].lib /\ ToSet(stack'[i].rest) \subseteq ToSet(stack[i].rest)
        BY <2>1, <2>2, <2>3, <4>1
      <4>3. ToSet(stack[i].rest) \subseteq Directives(stack[i].lib)
        BY <4>1 DEF GraphInv
      <4> QED BY <2>4, <2>6, <2>7, <4>1, <4>2, <4>3
    <3> QED BY <3>1, <3>2
  <2>8. source'[MainUrl] = MainScript /\ DOMAIN source' \subseteq Findable'
    BY <1>1, <1>5, <1>8, SameGraph DEF GraphInv, KnownInv
  <2>9. \A p \in parts' : p.path = PartOf(p.lib, p.url)' /\ disk'[p.path].valid
    BY SameGraph DEF GraphInv, fileVars
  <2> QED BY <2>7, <2>8, <2>9 DEF GraphInv
<1> QED
  BY <1>1, <1>2, <1>4, <1>5, <1>6, <1>7, <1>8, <1>10 DEF Outcome

\* The load that stops does so on account of a library that was found.
LEMMA StopGraph ==
  ASSUME IInv, GraphInv, status = "loading", status' \in {"raising", "DartException", "aborted"},
         UNCHANGED <<fileVars, source, parts, stack>>,
         NEW lib \in DOMAIN source,
         \/ ~ IsWhole(lib)
         \/ \E url \in ImportsOf(lib) : url \notin Findable
  PROVE  GraphInv' /\ Graph!Fail
<1>1. GraphInv'
  <2>1. \A i \in 1..Len(stack') :
          /\ i \in 1..Len(stack)
          /\ stack'[i].lib = stack[i].lib
          /\ ToSet(stack'[i].rest) \subseteq ToSet(stack[i].rest)
    OBVIOUS
  <2> QED BY <2>1, ShrinkGraph
<1>2. lib \in Findable
  BY SourceIsText
<1>3. lib \in Graph!Broken
  <2>1. IsWhole(lib) => ~ (ImportGraph[lib] \subseteq DOMAIN ImportGraph)
    BY <1>2 DEF ImportGraph
  <2>2. DOMAIN ImportGraph = Findable
    BY DEF ImportGraph
  <2> QED BY <1>2, <2>1, <2>2 DEF Graph!Broken, WholeLibraries
<1>4. Outcome = "loading" /\ Outcome' = "failed"
  BY DEF Outcome
<1> QED
  BY <1>1, <1>3, <1>4, SameGraph DEF Graph!Fail

\* The load on top is over, well or badly, without a new outcome.
LEMMA PopGraph ==
  ASSUME IInv, GraphInv, stack # <<>>, stack' = Front(stack),
         UNCHANGED <<fileVars, source, parts>>
  PROVE  GraphInv'
<1>1. /\ Len(stack') = Len(stack) - 1 /\ Len(stack) \in Nat
      /\ \A i \in 1..Len(stack) - 1 : stack'[i] = stack[i]
  BY PopFrame, TopFrame DEF IInv
<1>2. \A i \in 1..Len(stack') : i \in 1..Len(stack) /\ stack'[i] = stack[i]
  BY <1>1
<1> QED
  BY <1>2, ShrinkGraph

\* A script that has loaded is complete, in terms of the graph.
LEMMA LoadedIsWhole ==
  IInv /\ GraphInv /\ status = "loaded" =>
    /\ DOMAIN source \subseteq WholeLibraries
    /\ \A lib \in DOMAIN source : ImportGraph[lib] \subseteq DOMAIN source
<1> SUFFICES ASSUME IInv, GraphInv, status = "loaded", NEW lib \in DOMAIN source
             PROVE  lib \in WholeLibraries /\ ImportGraph[lib] \subseteq DOMAIN source
  OBVIOUS
<1>1. /\ source[lib] = TextOf(lib)
      /\ TextOf(lib) \in DOMAIN disk
      /\ Directives(lib) = ToSet(disk[TextOf(lib)].directives)
      /\ lib \in Findable
  BY SourceIsText
<1>2. disk[source[lib]].valid /\ \A d \in Directives(lib) : Handled(lib, d)
  BY AllLoaded DEF ProgressInv, DoneInv
<1>3. ASSUME NEW d \in Directives(lib), d.tag = "part"
      PROVE  Compiles(PartOf(lib, d.url))
  <2>1. PICK p \in parts : p.lib = lib /\ p.url = d.url
    BY <1>2, <1>3 DEF Handled
  <2>2. p.path = PartOf(lib, d.url) /\ disk[p.path].valid /\ p.path \in DOMAIN disk
    BY <2>1 DEF GraphInv, IInv, TypeOK
  <2> QED BY <2>2 DEF Compiles
<1>4. ASSUME NEW d \in Directives(lib), d.tag = "import", d.url # CinderUrl
      PROVE  d.url \in DOMAIN source
  BY <1>2, <1>4 DEF Handled, IInv, TypeOK
<1>5. lib \in WholeLibraries
  BY <1>1, <1>2, <1>3 DEF WholeLibraries, IsWhole, Compiles
<1>6. ImportGraph[lib] \subseteq DOMAIN source
  BY <1>1, <1>4 DEF ImportGraph, ImportsOf
<1> QED
  BY <1>5, <1>6

LEMMA ImportGraphStep ==
  ASSUME IInv, GraphInv, ImportRegistered \/ ImportPackage \/ ImportRelative \/ ImportUnresolved
  PROVE  GraphInv' /\ [Graph!Next]_(Graph!vars)
<1> DEFINE url == Here.url
<1>1. /\ AtDirective("import") /\ UNCHANGED <<fileVars, parts>>
  BY DEF ImportRegistered, ImportPackage, ImportRelative, ImportUnresolved
<1>2. /\ Top.lib \in DOMAIN source /\ Here \in Directives(Top.lib) /\ Here.tag = "import"
      /\ status = "loading" /\ Top.rest # <<>>
  BY <1>1, HereIsThere DEF AtDirective
<1>3. url \notin DOMAIN library => url # MainUrl /\ url # CinderUrl
  BY DEF IInv, KnownInv, TypeOK
<1>4. url # CinderUrl => url \in ImportsOf(Top.lib)
  BY <1>2, SourceIsText DEF ImportsOf
<1>5. ASSUME NEW path \in DOMAIN disk, path = TextOf(url), url \notin DOMAIN library,
             BeginLoad(url, path)
      PROVE  GraphInv' /\ [Graph!Next]_(Graph!vars)
  <2> HIDE DEF url
  <2>0. url = Here.url
    BY DEF url
  <2>1. /\ GraphInv'
        /\ url \in Findable \ DOMAIN source
        /\ DOMAIN source' = DOMAIN source \cup {url}
        /\ Outcome = "loading" /\ Outcome' = Outcome
        /\ \E importer \in DOMAIN source : url \in ImportGraph[importer]
    BY <1>1, <1>5, <2>0, PushGraph
  <2>2. DOMAIN ImportGraph = Findable
    BY DEF ImportGraph
  <2>3. Graph!Find(url)
    BY <1>1, <2>1, <2>2, SameGraph DEF Graph!Find
  <2> QED BY <2>1, <2>2, <2>3 DEF Graph!Next
<1>6. ASSUME url \notin DOMAIN library, TextOf(url) \notin DOMAIN disk,
             status' \in {"raising", "DartException", "aborted"},
             UNCHANGED <<source, stack>>
      PROVE  GraphInv' /\ [Graph!Next]_(Graph!vars)
  <2>1. url \in ImportsOf(Top.lib) /\ url \notin Findable
    BY <1>3, <1>4, <1>6 DEF Findable
  <2>2. GraphInv' /\ Graph!Fail
    BY <1>1, <1>2, <1>6, <2>1, StopGraph
  <2> QED BY <2>2 DEF Graph!Next
<1>7. CASE ImportRegistered
  <2>1. stack' = Proceed(stack) /\ UNCHANGED <<source, status>>
    BY <1>7 DEF ImportRegistered
  <2>2. GraphInv'
    BY <1>1, <1>2, <2>1, ProceedShrinks, ShrinkGraph
  <2>3. UNCHANGED Graph!vars
    BY <1>1, <2>1, SameGraph DEF Graph!vars, Outcome
  <2> QED BY <2>2, <2>3
<1>8. CASE ImportPackage
  <2>1. url \notin DOMAIN library /\ IsPackage(url)
    BY <1>8 DEF ImportPackage, Registered
  <2>2. TextOf(url) = PackagePath(url)
    BY <1>3, <2>1 DEF TextOf
  <2>3. CASE PackagePath(url) \in DOMAIN disk
    <3>1. BeginLoad(url, PackagePath(url))
      BY <1>8, <2>3 DEF ImportPackage
    <3> QED BY <1>5, <2>1, <2>2, <2>3, <3>1
  <2>4. CASE PackagePath(url) \notin DOMAIN disk
    <3>1. status' \in {"raising", "DartException", "aborted"} /\ UNCHANGED <<source, stack>>
      BY <1>8, <2>4 DEF ImportPackage, ThrowThroughVM
    <3> QED BY <1>6, <2>1, <2>2, <2>4, <3>1
  <2> QED BY <2>3, <2>4
<1>9. CASE ImportRelative
  <2>1. /\ url \notin DOMAIN library /\ ~ IsPackage(url) /\ Resolve(url) # Nowhere
        /\ BeginLoad(url, Resolve(url))
    BY <1>9 DEF ImportRelative, Registered
  <2>2. TextOf(url) = Resolve(url)
    BY <1>3, <2>1 DEF TextOf
  <2>3. Resolve(url) \in DOMAIN disk
    BY <1>1, <2>1, DirectiveAtHand, ResolveIsNearest
  <2> QED BY <1>5, <2>1, <2>2, <2>3
<1>10. CASE ImportUnresolved
  <2>1. /\ url \notin DOMAIN library /\ ~ IsPackage(url) /\ Resolve(url) = Nowhere
        /\ status' = "raising" /\ UNCHANGED <<source, stack>>
    BY <1>10 DEF ImportUnresolved, Registered
  <2>2. TextOf(url) = Nowhere
    BY <1>3, <2>1 DEF TextOf
  <2>3. Nowhere \notin DOMAIN disk
    BY LoaderAssumption DEF IInv, KnownInv
  <2> QED BY <1>6, <2>1, <2>2, <2>3
<1> QED
  BY <1>7, <1>8, <1>9, <1>10

LEMMA PartGraphStep ==
  ASSUME IInv, GraphInv, PartLoaded \/ PartMissing \/ PartInvalid
  PROVE  GraphInv' /\ [Graph!Next]_(Graph!vars)
<1> DEFINE url == Here.url
<1>1. AtDirective("part") /\ UNCHANGED <<fileVars, source>>
  BY DEF PartLoaded, PartMissing, PartInvalid, ThrowThroughVM
<1>2. PICK lib \in DOMAIN source :
        /\ lib = Top.lib /\ Here \in Directives(lib) /\ Here.tag = "part"
        /\ status = "loading" /\ Top.rest # <<>> /\ stack # <<>>
  BY <1>1, HereIsThere DEF AtDirective, IInv, StackInv
<1>3. /\ source[lib] = TextOf(lib)
      /\ Directives(lib) = ToSet(disk[TextOf(lib)].directives)
  BY SourceIsText
<1>4. PartPath(lib, url) = PartOf(lib, url)
  BY <1>2, <1>3, PartIsThere
<1>5. CASE PartLoaded
  <2>1. /\ stack' = Proceed(stack) /\ UNCHANGED <<fileVars, source, status>>
        /\ disk[PartPath(lib, url)].valid
        /\ parts' = parts \cup {[lib |-> lib, url |-> url, path |-> PartPath(lib, url)]}
    BY <1>2, <1>5 DEF PartLoaded, LoadSource
  <2>2. \A p \in parts' : p \in parts \/ (p.path = PartOf(p.lib, p.url) /\ disk[p.path].valid)
    <3> SUFFICES ASSUME NEW p, p = [lib |-> lib, url |-> url, path |-> PartPath(lib, url)]
                 PROVE  p.path = PartOf(p.lib, p.url) /\ disk[p.path].valid
      BY <2>1
    <3>1. p.lib = lib /\ p.url = url /\ p.path = PartPath(lib, url)
      OBVIOUS
    <3> QED BY <1>4, <2>1, <3>1
  <2>3. GraphInv'
    BY <1>2, <2>1, <2>2, ProceedShrinks, ShrinkGraph
  <2>4. UNCHANGED Graph!vars
    BY <2>1, SameGraph DEF Graph!vars, Outcome
  <2> QED BY <2>3, <2>4
<1>6. CASE PartMissing \/ PartInvalid
  <2>1. /\ status' \in {"raising", "DartException", "aborted"}
        /\ UNCHANGED <<fileVars, source, parts, stack>>
        /\ PartPath(lib, url) \in DOMAIN disk => ~ disk[PartPath(lib, url)].valid
    BY <1>2, <1>6 DEF PartMissing, PartInvalid, ThrowThroughVM
  <2>2. ~ IsWhole(lib)
    BY <1>2, <1>3, <1>4, <2>1 DEF IsWhole, Compiles
  <2>3. GraphInv' /\ Graph!Fail
    BY <1>2, <2>1, <2>2, StopGraph
  <2> QED BY <2>3 DEF Graph!Next
<1> QED
  BY <1>5, <1>6

LEMMA EndGraphStep ==
  ASSUME IInv, GraphInv, \/ BodyInvalid \/ PackageLoaded \/ RelativeLoaded
                         \/ ScriptFails \/ RelativeFails \/ PackageFails
  PROVE  GraphInv' /\ [Graph!Next]_(Graph!vars)
<1>1. status \in {"loading", "raising"} /\ stack # <<>> /\ Top.lib \in DOMAIN source
  <2>1. status \in {"loading", "raising"}
    BY DEF BodyInvalid, PackageLoaded, RelativeLoaded, Loaded, AtEnd,
           ScriptFails, RelativeFails, PackageFails, GiveUp
  <2> QED BY <2>1, TopFrame DEF IInv, StackInv
<1>2. CASE BodyInvalid
  <2>1. /\ status = "loading" /\ status' = "raising" /\ ~ disk[source[Top.lib]].valid
        /\ UNCHANGED <<fileVars, source, parts, stack>>
    BY <1>2 DEF BodyInvalid, AtEnd
  <2>2. ~ IsWhole(Top.lib)
    BY <1>1, <2>1, SourceIsText DEF IsWhole, Compiles
  <2>3. GraphInv' /\ Graph!Fail
    BY <1>1, <2>1, <2>2, StopGraph
  <2> QED BY <2>3 DEF Graph!Next
<1>3. CASE PackageLoaded \/ RelativeLoaded
  <2>1. stack' = Front(stack) /\ UNCHANGED <<fileVars, source, parts, status>>
    BY <1>3 DEF PackageLoaded, RelativeLoaded
  <2>2. UNCHANGED Graph!vars
    BY <2>1, SameGraph DEF Graph!vars, Outcome
  <2> QED BY <1>1, <2>1, <2>2, PopGraph
<1>4. CASE ScriptFails \/ RelativeFails \/ PackageFails
  <2>1. /\ stack' = Front(stack) /\ UNCHANGED <<fileVars, source, parts>>
        /\ status = "raising" /\ status' \notin {"loading", "loaded"}
    BY <1>4 DEF ScriptFails, RelativeFails, PackageFails, GiveUp
  <2>2. UNCHANGED Graph!vars
    BY <2>1, SameGraph DEF Graph!vars, Outcome
  <2> QED BY <1>1, <2>1, <2>2, PopGraph
<1> QED
  BY <1>2, <1>3, <1>4

\* Every step of the loader is one of the graph, or changes nothing in it.
LEMMA GraphStep ==
  IInv /\ GraphInv /\ [Next]_vars => GraphInv' /\ [Graph!Next]_(Graph!vars)
<1> SUFFICES ASSUME IInv, GraphInv, [Next]_vars
             PROVE  GraphInv' /\ [Graph!Next]_(Graph!vars)
  OBVIOUS
<1>1. CASE ScriptLoaded
  <2>1. /\ Loaded /\ stack' = Front(stack) /\ status' = "loaded"
        /\ UNCHANGED <<fileVars, source, parts>>
    BY <1>1 DEF ScriptLoaded
  <2>2. status = "loading" /\ stack # <<>>
    BY <2>1 DEF Loaded, AtEnd, IInv, StackInv
  <2>3. GraphInv'
    BY <2>1, <2>2, PopGraph
  <2>4. IInv'
    BY <1>1, EndIInv
  <2>5. /\ DOMAIN source' \subseteq WholeLibraries'
        /\ \A lib \in DOMAIN source' : ImportGraph'[lib] \subseteq DOMAIN source'
    <3>1. (IInv /\ GraphInv /\ status = "loaded" =>
             /\ DOMAIN source \subseteq WholeLibraries
             /\ \A lib \in DOMAIN source : ImportGraph[lib] \subseteq DOMAIN source)'
      BY LoadedIsWhole, PTL
    <3> QED BY <2>1, <2>3, <2>4, <3>1
  <2>6. Graph!Succeed
    BY <2>1, <2>2, <2>5, SameGraph DEF Graph!Succeed, Outcome
  <2> QED BY <2>3, <2>6 DEF Graph!Next
<1>2. CASE UNCHANGED vars
  <2>1. UNCHANGED <<fileVars, source, parts, stack, status>>
    BY <1>2 DEF vars, fileVars
  <2>2. \A i \in 1..Len(stack') :
          /\ i \in 1..Len(stack)
          /\ stack'[i].lib = stack[i].lib
          /\ ToSet(stack'[i].rest) \subseteq ToSet(stack[i].rest)
    BY <2>1
  <2>3. GraphInv'
    BY <2>1, <2>2, ShrinkGraph
  <2>4. UNCHANGED Graph!vars
    BY <2>1, SameGraph DEF Graph!vars, Outcome
  <2> QED BY <2>3, <2>4
<1> QED
  BY <1>1, <1>2, ImportGraphStep, PartGraphStep, EndGraphStep DEF Next

\* For every file system, search path and script, the nested loads come to what
\* LibraryGraph says: each library is found because another one imports it, and
\* the load ends well with all of them whole, or on account of one that is not.
THEOREM Refinement == Spec => ImplementsGraph
<1>1. Init => Graph!Init
  <2> SUFFICES ASSUME Init PROVE Graph!Init
    OBVIOUS
  <2>1. DOMAIN ImportGraph = Findable /\ WholeLibraries \subseteq Findable
    BY DEF ImportGraph, WholeLibraries
  <2>2. MainUrl \in Findable
    BY InitiallyGraph DEF GraphInv, Init
  <2>3. DOMAIN source = {MainUrl} /\ Outcome = "loading"
    BY DEF Init, Outcome
  <2>4. ImportGraph = [lib \in DOMAIN ImportGraph |-> ImportGraph[lib]]
    BY DEF ImportGraph
  <2> QED BY <2>1, <2>2, <2>3, <2>4 DEF Graph!Init
<1> QED
  BY <1>1, InitiallyGraph, Inductive, GraphStep, PTL DEF Spec, ImplementsGraph, Graph!Spec

-----------------------------------------------------------------------------
(* What follows for the outcome, from LibraryGraph alone *)

\* Only what every set of libraries that has the main script and all its imports
\* must have is found.
Reached ==
  \A libs \in SUBSET DOMAIN ImportGraph :
    MainUrl \in libs /\ (\A lib \in libs : ImportGraph[lib] \subseteq libs) =>
      DOMAIN source \subseteq libs

OutcomeInv ==
  /\ MainUrl \in DOMAIN source
  /\ DOMAIN source \subseteq DOMAIN ImportGraph
  /\ Reached
  /\ Outcome \in {"loading", "loaded", "failed"}
  /\ Outcome = "loaded" => Graph!Complete(DOMAIN source)
  /\ Outcome = "failed" => DOMAIN source \cap Graph!Broken # {}

LEMMA OutcomeStep == OutcomeInv /\ [Graph!Next]_(Graph!vars) => OutcomeInv'
<1> SUFFICES ASSUME OutcomeInv, [Graph!Next]_(Graph!vars) PROVE OutcomeInv'
  OBVIOUS
<1> USE DEF OutcomeInv
<1>1. CASE \E lib \in DOMAIN ImportGraph : Graph!Find(lib)
  <2>1. PICK lib \in DOMAIN ImportGraph : Graph!Find(lib)
    BY <1>1
  <2>2. PICK importer \in DOMAIN source : lib \in ImportGraph[importer]
    BY <2>1 DEF Graph!Find
  <2>3. /\ DOMAIN source' = DOMAIN source \cup {lib}
        /\ ImportGraph' = ImportGraph
        /\ Outcome = "loading" /\ Outcome' = "loading"
    BY <2>1 DEF Graph!Find
  <2>4. Reached'
    <3> SUFFICES ASSUME NEW libs \in SUBSET DOMAIN ImportGraph, MainUrl \in libs,
                        \A l \in libs : ImportGraph[l] \subseteq libs
                 PROVE  DOMAIN source \cup {lib} \subseteq libs
      BY <2>3 DEF Reached
    <3>1. DOMAIN source \subseteq libs
      BY DEF Reached
    <3> QED BY <2>2, <3>1
  <2> QED BY <2>3, <2>4
<1>2. CASE Graph!Succeed
  <2>1. /\ UNCHANGED <<ImportGraph, WholeLibraries, DOMAIN source>> /\ Outcome' = "loaded"
        /\ DOMAIN source \subseteq WholeLibraries
        /\ \A lib \in DOMAIN source : ImportGraph[lib] \subseteq DOMAIN source
    BY <1>2 DEF Graph!Succeed
  <2>2. Graph!Complete(DOMAIN source)'
    BY <2>1 DEF Graph!Complete
  <2> QED BY <2>1, <2>2 DEF Reached
<1>3. CASE Graph!Fail
  <2>1. /\ UNCHANGED <<ImportGraph, WholeLibraries, DOMAIN source>> /\ Outcome' = "failed"
        /\ DOMAIN source \cap Graph!Broken # {}
    BY <1>3 DEF Graph!Fail
  <2>2. Graph!Broken' = Graph!Broken
    BY <2>1 DEF Graph!Broken
  <2> QED BY <2>1, <2>2 DEF Reached
<1>4. CASE UNCHANGED Graph!vars
  <2>1. UNCHANGED <<ImportGraph, WholeLibraries, DOMAIN source, Outcome>>
    BY <1>4 DEF Graph!vars
  <2> QED BY <2>1 DEF Reached, Graph!Complete, Graph!Broken
<1> QED
  BY <1>1, <1>2, <1>3, <1>4 DEF Graph!Next

LEMMA OutcomeInitially == Graph!Init => OutcomeInv
BY DEF Graph!Init, OutcomeInv, Reached

\* If everything the main script needs were there, nothing broken could have been
\* found; and what was found when the load ends well is all it needs.
LEMMA OutcomeIsRight == OutcomeInv => OutcomeIsThatOfTheFiles
<1> SUFFICES ASSUME OutcomeInv PROVE Outcome # "loading" => (Outcome = "loaded" <=> Graph!Loads)
  BY DEF OutcomeIsThatOfTheFiles, Graph!OutcomeIsThatOfTheFiles
<1> USE DEF OutcomeInv
<1>1. CASE Outcome = "loaded"
  <2>1. Graph!Complete(DOMAIN source) /\ DOMAIN source \in SUBSET DOMAIN ImportGraph
    BY <1>1
  <2> QED BY <1>1, <2>1 DEF Graph!Loads
<1>2. CASE Outcome = "failed"
  <2>1. PICK broken \in DOMAIN source :
          broken \notin WholeLibraries \/ ~ (ImportGraph[broken] \subseteq DOMAIN ImportGraph)
    BY <1>2 DEF Graph!Broken
  <2>2. ASSUME NEW libs \in SUBSET DOMAIN ImportGraph, MainUrl \in libs, Graph!Complete(libs)
        PROVE  FALSE
    <3>1. \A lib \in libs : lib \in WholeLibraries /\ ImportGraph[lib] \subseteq libs
      BY <2>2 DEF Graph!Complete
    <3>2. broken \in libs
      BY <2>2, <3>1 DEF Reached
    <3> QED BY <2>1, <3>1, <3>2
  <2> QED BY <1>2, <2>2 DEF Graph!Loads
<1> QED
  BY <1>1, <1>2

\* In every file system, a script loads if and only if it is complete.
THEOREM LoadsIfComplete == Spec => []OutcomeIsThatOfTheFiles
BY Refinement, OutcomeInitially, OutcomeStep, OutcomeIsRight, PTL
   DEF ImplementsGraph, Graph!Spec

=============================================================================
