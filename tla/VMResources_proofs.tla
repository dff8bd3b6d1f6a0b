-------------------------- MODULE VMResources_proofs --------------------------
(***************************************************************************)
(* Proofs about VMResources: the snapshot that isolates start from, the    *)
(* length that readFileCallback reports, the list of import directories    *)
(* and the directory cinder.dart is taken from, whatever other programs do *)
(* to files and directories meanwhile.                                     *)
(***************************************************************************)
EXTENDS VMResources, SequenceTheorems, WellFoundedInduction, TLAPS

\* Once an isolate was started, what mSnapshot has read is what it was started
\* from, and getSnapShot, which keeps what there is, never lets go of it.
InvOfSnapshot ==
  /\ snapshot = [from |-> snapshot.from, bytes |-> snapshot.bytes]
  /\ image # None => image = snapshot.bytes

\* A stream that is open has a file, and the buffer holds no more than was
\* allocated for it.
InvOfBuffer ==
  /\ size \in Nat \cup {None}
  /\ stream \in {"read", "write"} => size \in Nat
  /\ buffer = [allocated |-> buffer.allocated, filled |-> buffer.filled,
               reported |-> buffer.reported]
  /\ buffer.allocated \in Nat
  /\ step = "reading" => stream \in {"read", "write"}
  /\ step # "reading" => /\ buffer.reported = buffer.filled
                         /\ buffer.reported <= buffer.allocated

-----------------------------------------------------------------------------

\* What getSnapShot answers is the data source there was, where there was one.
LEMMA SnapshotKept ==
  ASSUME InvOfSnapshot
  PROVE  /\ GetSnapShot = [from |-> GetSnapShot.from, bytes |-> GetSnapShot.bytes]
         /\ snapshot.bytes # None => GetSnapShot = snapshot
         /\ snapshot.bytes = None => GetSnapShot.bytes = None
BY DEF GetSnapShot, InvOfSnapshot, NoData

LEMMA SnapshotInit == Init => InvOfSnapshot
BY DEF Init, InvOfSnapshot, NoData

LEMMA SnapshotStep == InvOfSnapshot /\ [Next]_vars => InvOfSnapshot'
<1> SUFFICES ASSUME InvOfSnapshot, [Next]_vars
             PROVE  InvOfSnapshot'
  OBVIOUS
<1> USE DEF InvOfSnapshot
<1>1. ASSUME NEW s, SetSnapshotBinDataSource(s)
      PROVE  InvOfSnapshot'
  BY <1>1 DEF SetSnapshotBinDataSource
<1>2. ASSUME UNCHANGED <<snapshot, image>>
      PROVE  InvOfSnapshot'
  BY <1>2
<1>3. ASSUME Setter
      PROVE  InvOfSnapshot'
  BY <1>1, <1>2, <1>3 DEF Setter, SetCinderDartScriptDataSource, SetSnapshotBinPath,
       AddImportDirectory, RemoveImportDirectory, call
<1>4. CASE BeginCreate
  BY <1>4, SnapshotKept DEF BeginCreate
<1>5. CASE GetBuffer
  BY <1>5 DEF GetBuffer, Readable
<1>6. CASE CreateIsolate
  BY <1>6 DEF CreateIsolate, settings
<1>7. CASE GetCinderDartScript \/ ReadCinder \/ Return
  BY <1>2, <1>7 DEF GetCinderDartScript, ReadCinder, Return, settings
<1>8. CASE FileCallback
  BY <1>2, <1>8 DEF FileCallback, OpenFile, ReadNothing, MeasureFile, MeasureFails,
       FillBuffer, WriteFile, CloseFile, settings, call
<1>9. CASE OtherProgram
  BY <1>2, <1>9 DEF OtherProgram, Relink, ChangeCinder, ChangeSnapshotFile, ChangeSize, Change,
       settings, call
<1>10. CASE UNCHANGED vars
  BY <1>2, <1>10 DEF vars, settings, call
<1> QED
  BY <1>3, <1>4, <1>5, <1>6, <1>7, <1>8, <1>9, <1>10 DEF Next, Create

\* Whatever happens to the snapshot file or to the path that is set, two isolates
\* between which no data source was set start from the same bytes.
THEOREM IsolatesStartAlike == Spec => SameSnapshot
<1>1. InvOfSnapshot /\ [Next]_vars
      => [ step = "createIsolate" /\ step' = "loadCinder" /\ image # None => image' = image ]_vars
  <2> SUFFICES ASSUME InvOfSnapshot, [Next]_vars, ~ UNCHANGED vars,
                      step = "createIsolate", step' = "loadCinder", image # None
               PROVE  image' = image
    OBVIOUS
  <2>1. CASE CreateIsolate
    BY <2>1 DEF CreateIsolate, InvOfSnapshot
  <2>2. CASE ~ CreateIsolate
    BY <2>2 DEF Next, Setter, SetCinderDartScriptDataSource, SetSnapshotBinPath,
         SetSnapshotBinDataSource, AddImportDirectory, RemoveImportDirectory, Create, BeginCreate,
         GetBuffer, GetCinderDartScript, ReadCinder, Return, FileCallback, OpenFile, ReadNothing,
         MeasureFile, MeasureFails, FillBuffer, WriteFile, CloseFile, OtherProgram, Relink, ChangeCinder,
         ChangeSnapshotFile, ChangeSize, Change, call
  <2> QED
    BY <2>1, <2>2
<1> QED
  BY SnapshotInit, SnapshotStep, <1>1, PTL DEF Spec, SameSnapshot

-----------------------------------------------------------------------------

LEMMA BufferInit == Init => InvOfBuffer
BY DEF Init, InvOfBuffer, NoBuffer

LEMMA BufferStep == InvOfBuffer /\ [Next]_vars => InvOfBuffer'
<1> SUFFICES ASSUME InvOfBuffer, [Next]_vars
             PROVE  InvOfBuffer'
  OBVIOUS
<1> USE ConstantsAssumption DEF InvOfBuffer
<1>1. ASSUME UNCHANGED <<size, stream, buffer>>, step # "reading", step' # "reading"
      PROVE  InvOfBuffer'
  BY <1>1
<1>2. CASE Setter
  BY <1>1, <1>2 DEF Setter, SetCinderDartScriptDataSource, SetSnapshotBinPath,
       SetSnapshotBinDataSource, AddImportDirectory, RemoveImportDirectory, disk, call, fileVars
<1>3. CASE BeginCreate
  BY <1>1, <1>3 DEF BeginCreate, disk, fileVars
<1>4. CASE GetBuffer \/ CreateIsolate
  BY <1>1, <1>4 DEF GetBuffer, CreateIsolate, disk, fileVars
<1>5. CASE GetCinderDartScript \/ ReadCinder \/ Return
  BY <1>1, <1>5 DEF GetCinderDartScript, ReadCinder, Return, disk, fileVars
<1>6. ASSUME NEW write \in BOOLEAN, OpenFile(write)
      PROVE  InvOfBuffer'
  BY <1>6 DEF OpenFile, call
<1>7. CASE ReadNothing \/ CloseFile
  BY <1>7 DEF ReadNothing, CloseFile, NoBuffer, disk, call
<1>8. CASE MeasureFile \/ MeasureFails
  BY <1>8 DEF MeasureFile, MeasureFails, NoBuffer, disk
<1>9. CASE FillBuffer
  BY <1>9 DEF FillBuffer, disk
<1>10. CASE WriteFile
  BY <1>10 DEF WriteFile, call, fileVars
<1>11. CASE Relink \/ ChangeCinder \/ ChangeSnapshotFile
  BY <1>11 DEF Relink, ChangeCinder, ChangeSnapshotFile, Change, call, fileVars
<1>12. CASE ChangeSize
  BY <1>12 DEF ChangeSize, Change, call, fileVars
<1>13. CASE UNCHANGED vars
  BY <1>13 DEF vars, disk, call, fileVars
<1> QED
  BY <1>2, <1>3, <1>4, <1>5, <1>6, <1>7, <1>8, <1>9, <1>10, <1>11, <1>12, <1>13
     DEF Next, Create, FileCallback, OtherProgram

\* However the file changes between ftell and fread, the Dart VM is told the
\* length of what was read, and never more than what was allocated.
THEOREM LengthIsRead == Spec => []ReportedIsRead
<1>1. InvOfBuffer => ReportedIsRead
  BY DEF InvOfBuffer, ReportedIsRead
<1> QED
  BY BufferInit, BufferStep, <1>1, PTL DEF Spec

-----------------------------------------------------------------------------
(* Erasing from the list *)

\* A set of natural numbers has a smallest element,
LEMMA Smallest ==
  ASSUME NEW T \in SUBSET Nat, T # {}
  PROVE  \E m \in T : \A k \in T : m <= k
<1> DEFINE R == OpToRel(<, Nat)
<1>1. IsWellFoundedOn(R, Nat)
  BY NatLessThanWellFounded
<1>2. PICK m \in T : \A k \in T : ~ (<<k, m>> \in R)
  <2> HIDE DEF R
  <2> QED BY <1>1, WFMin
<1>3. \A k \in T : ~ (k < m)
  BY <1>2 DEF OpToRel
<1>4. m \in T /\ T \in SUBSET Nat
  BY <1>2
<1> HIDE DEF R
<1>5. \A k \in T : m <= k
  BY <1>3, <1>4
<1> QED BY <1>4, <1>5

\* and one that is bounded a greatest.
LEMMA Greatest ==
  ASSUME NEW n \in Nat, NEW S \in SUBSET (1 .. n), S # {}
  PROVE  \E m \in S : \A k \in S : k <= m
<1> DEFINE T == {n - i : i \in S}
<1>1. T \in SUBSET Nat /\ T # {}
  <2>1. \A i \in S : i \in 1 .. n
    OBVIOUS
  <2>2. \A i \in S : n - i \in Nat
    BY <2>1
  <2> QED BY <2>2
<1>2. PICK t \in T : \A k \in T : t <= k
  <2> HIDE DEF T
  <2> QED BY <1>1, Smallest
<1>3. PICK m \in S : t = n - m
  BY <1>2
<1>4. \A k \in S : k <= m
  BY <1>2, <1>3
<1> QED
  BY <1>3, <1>4

\* The recursion over the list is well-defined: for each prefix there is a function
\* that keeps to it.
LEMMA KeptUpToDefined ==
  ASSUME NEW list, NEW d, Len(list) \in Nat, NEW k \in 0 .. Len(list)
  PROVE  KeptUpTo(list, d)[k] =
           IF k = 0 THEN <<>>
           ELSE IF list[k] = d THEN KeptUpTo(list, d)[k - 1]
           ELSE Append(KeptUpTo(list, d)[k - 1], list[k])
<1> DEFINE n == Len(list)
           Body(f, i) == IF i = 0 THEN <<>>
                         ELSE IF list[i] = d THEN f[i - 1] ELSE Append(f[i - 1], list[i])
           Recursive(f, m) == f = [i \in 0 .. m |-> Body(f, i)]
           Undefined == {m \in 0 .. n : ~ \E f : Recursive(f, m)}
<1>1. Recursive([i \in 0 .. 0 |-> <<>>], 0)
  OBVIOUS
<1>2. ASSUME NEW m \in 1 .. n, NEW g, Recursive(g, m - 1)
      PROVE  \E f : Recursive(f, m)
  <2> DEFINE f == [i \in 0 .. m |-> IF i < m THEN g[i] ELSE Body(g, m)]
  <2>1. m \in Nat /\ m # 0 /\ m - 1 \in 0 .. m
    OBVIOUS
  <2>2. ASSUME NEW i \in 0 .. m PROVE f[i] = Body(f, i)
    <3>1. CASE i = 0
      BY <1>2, <2>1, <3>1
    <3>2. CASE i # 0 /\ i < m
      <4>1. i \in 0 .. m - 1 /\ i - 1 \in 0 .. m /\ i - 1 < m
        BY <2>1, <3>2
      <4>2. f[i] = g[i] /\ f[i - 1] = g[i - 1]
        BY <3>2, <4>1
      <4>3. g[i] = Body(g, i)
        BY <1>2, <4>1
      <4> QED
        BY <4>2, <4>3
    <3>3. CASE i = m
      <4>1. m - 1 < m /\ f[m - 1] = g[m - 1] /\ f[m] = Body(g, m)
        BY <2>1
      <4> QED
        BY <3>3, <4>1
    <3> QED
      BY <2>1, <3>1, <3>2, <3>3
  <2>3. f = [i \in 0 .. m |-> Body(f, i)]
    <3> HIDE DEF Body
    <3> QED
      BY <2>2
  <2> QED
    BY <2>3
<1>3. Undefined = {}
  <2> SUFFICES ASSUME Undefined # {} PROVE FALSE
    OBVIOUS
  <2>1. Undefined \in SUBSET Nat
    OBVIOUS
  <2>2. PICK m \in Undefined : \A l \in Undefined : m <= l
    <3> HIDE DEF Undefined
    <3> QED BY <2>1, Smallest
  <2>3. m \in 0 .. n /\ ~ \E f : Recursive(f, m)
    BY <2>2
  <2> HIDE DEF Recursive
  <2>4. m # 0
    BY <1>1, <2>3
  <2>5. m - 1 \in 0 .. n /\ m - 1 \notin Undefined /\ m \in 1 .. n
    <3> HIDE DEF Undefined
    <3> QED BY <2>1, <2>2, <2>3, <2>4
  <2>6. \E g : Recursive(g, m - 1)
    BY <2>5
  <2> QED
    BY <1>2, <2>3, <2>5, <2>6
<1>4. KeptUpTo(list, d) = CHOOSE f : Recursive(f, n)
  BY DEF KeptUpTo
<1>5. Recursive(KeptUpTo(list, d), n)
  <2>1. n \in 0 .. n
    OBVIOUS
  <2>2. \E f : Recursive(f, n)
    <3> HIDE DEF Recursive
    <3> QED BY <1>3, <2>1
  <2> HIDE DEF Recursive
  <2> QED BY <1>4, <2>2
<1> QED
  BY <1>5

\* What is kept of the first k elements: all that are not d, each after those that
\* were before it.
KeepsOrder(list, d, k, t) ==
  /\ \A i \in 1 .. k : list[i] # d => \E j \in 1 .. Len(t) : t[j] = list[i]
  /\ \A j \in 1 .. Len(t) : \E i \in 1 .. k : t[j] = list[i] /\ list[i] # d
  /\ \A j, l \in 1 .. Len(t) : j < l =>
       \E a, b \in 1 .. k : a < b /\ t[j] = list[a] /\ t[l] = list[b]

\* One more element is dropped,
LEMMA Dropped ==
  ASSUME NEW D, NEW list \in Seq(D), NEW d, NEW k \in 1 .. Len(list), NEW t \in Seq(D),
         KeepsOrder(list, d, k - 1, t), list[k] = d
  PROVE  KeepsOrder(list, d, k, t)
<1>1. k \in Nat /\ 1 .. k = (1 .. k - 1) \cup {k}
  BY LenProperties
<1> HIDE DEF KeepsOrder
<1>2. /\ \A i \in 1 .. k - 1 : list[i] # d => \E j \in 1 .. Len(t) : t[j] = list[i]
      /\ \A j \in 1 .. Len(t) : \E i \in 1 .. k - 1 : t[j] = list[i] /\ list[i] # d
      /\ \A j, l \in 1 .. Len(t) : j < l =>
           \E a, b \in 1 .. k - 1 : a < b /\ t[j] = list[a] /\ t[l] = list[b]
  BY DEF KeepsOrder
<1> QED
  BY <1>1, <1>2 DEF KeepsOrder

\* or appended.
LEMMA Kept ==
  ASSUME NEW D, NEW list \in Seq(D), NEW d, NEW k \in 1 .. Len(list), NEW t \in Seq(D),
         KeepsOrder(list, d, k - 1, t), list[k] # d
  PROVE  KeepsOrder(list, d, k, Append(t, list[k]))
<1> DEFINE u == Append(t, list[k])
<1>1. k \in Nat /\ 1 .. k = (1 .. k - 1) \cup {k} /\ list[k] \in D
  BY LenProperties, ElementOfSeq
<1>2. /\ Len(t) \in Nat /\ Len(u) = Len(t) + 1
      /\ u[Len(t) + 1] = list[k]
      /\ \A j \in 1 .. Len(t) : u[j] = t[j]
  BY <1>1, AppendProperties, LenProperties
<1>3. 1 .. Len(u) = (1 .. Len(t)) \cup {Len(t) + 1}
  BY <1>2
<1> HIDE DEF u
<1>4. ASSUME NEW i \in 1 .. k, list[i] # d
      PROVE  \E j \in 1 .. Len(u) : u[j] = list[i]
  BY <1>1, <1>2, <1>3, <1>4 DEF KeepsOrder
<1>5. ASSUME NEW j \in 1 .. Len(u)
      PROVE  \E i \in 1 .. k : u[j] = list[i] /\ list[i] # d
  <2>1. CASE j \in 1 .. Len(t)
    <3>1. PICK i \in 1 .. k - 1 : t[j] = list[i] /\ list[i] # d
      BY <2>1 DEF KeepsOrder
    <3> QED
      BY <1>1, <1>2, <2>1, <3>1
  <2>2. CASE j = Len(t) + 1
    BY <1>1, <1>2, <2>2
  <2> QED
    BY <1>3, <1>5, <2>1, <2>2
<1>6. ASSUME NEW j \in 1 .. Len(u), NEW l \in 1 .. Len(u), j < l
      PROVE  \E a, b \in 1 .. k : a < b /\ u[j] = list[a] /\ u[l] = list[b]
  <2>1. j \in 1 .. Len(t)
    BY <1>2, <1>3, <1>6
  <2>2. CASE l \in 1 .. Len(t)
    <3>1. PICK a \in 1 .. k - 1, b \in 1 .. k - 1 : a < b /\ t[j] = list[a] /\ t[l] = list[b]
      BY <1>6, <2>1, <2>2 DEF KeepsOrder
    <3> QED
      BY <1>1, <1>2, <2>1, <2>2, <3>1
  <2>3. CASE l = Len(t) + 1
    <3>1. PICK a \in 1 .. k - 1 : t[j] = list[a]
      BY <2>1 DEF KeepsOrder
    <3>2. a \in 1 .. k /\ k \in 1 .. k /\ a < k /\ u[j] = list[a] /\ u[l] = list[k]
      BY <1>1, <1>2, <2>1, <2>3, <3>1
    <3> QED
      BY <3>2
  <2> QED
    BY <1>3, <2>2, <2>3
<1>7. KeepsOrder(list, d, k, u)
  BY <1>4, <1>5, <1>6 DEF KeepsOrder
<1> QED
  BY <1>7 DEF u

\* erase(remove(d)) takes every d from the list, and leaves the others in their order.
THEOREM ErasesEvery ==
  ASSUME NEW D, NEW list \in Seq(D), NEW d
  PROVE  /\ Without(list, d) \in Seq(D)
         /\ KeepsOrder(list, d, Len(list), Without(list, d))
<1> DEFINE kept == KeptUpTo(list, d)
           Right(k) == kept[k] \in Seq(D) /\ KeepsOrder(list, d, k, kept[k])
           Wrong == {k \in 0 .. Len(list) : ~ Right(k)}
<1>1. Len(list) \in Nat
  BY LenProperties
<1>2. \A k \in 0 .. Len(list) :
        kept[k] = IF k = 0 THEN <<>>
                  ELSE IF list[k] = d THEN kept[k - 1] ELSE Append(kept[k - 1], list[k])
  BY <1>1, KeptUpToDefined
<1> HIDE DEF kept
<1>3. Right(0)
  <2>1. kept[0] = <<>>
    BY <1>1, <1>2
  <2>2. kept[0] \in Seq(D) /\ Len(kept[0]) = 0
    BY <2>1
  <2> QED
    BY <2>2 DEF KeepsOrder
<1>4. ASSUME NEW k \in 1 .. Len(list), Right(k - 1)
      PROVE  Right(k)
  <2>1. k \in 0 .. Len(list) /\ k # 0 /\ list[k] \in D
    BY <1>1, ElementOfSeq
  <2>2. CASE list[k] = d
    <3>1. kept[k] = kept[k - 1]
      BY <1>2, <2>1, <2>2
    <3>2. KeepsOrder(list, d, k, kept[k - 1])
      BY <1>4, <2>2, Dropped
    <3> QED
      BY <1>4, <3>1, <3>2
  <2>3. CASE list[k] # d
    <3>1. kept[k] = Append(kept[k - 1], list[k])
      BY <1>2, <2>1, <2>3
    <3>2. KeepsOrder(list, d, k, Append(kept[k - 1], list[k]))
      BY <1>4, <2>3, Kept
    <3>3. Append(kept[k - 1], list[k]) \in Seq(D)
      BY <1>4, <2>1, AppendProperties
    <3> QED
      BY <3>1, <3>2, <3>3
  <2> QED
    BY <2>2, <2>3
<1>5. Wrong = {}
  <2> SUFFICES ASSUME Wrong # {} PROVE FALSE
    OBVIOUS
  <2>1. Wrong \in SUBSET Nat
    BY <1>1
  <2>2. PICK k \in Wrong : \A l \in Wrong : k <= l
    <3> HIDE DEF Wrong
    <3> QED BY <2>1, Smallest
  <2>3. k \in 0 .. Len(list) /\ ~ Right(k)
    BY <2>2
  <2> HIDE DEF Right
  <2>4. k # 0
    BY <1>3, <2>3
  <2>5. k \in 1 .. Len(list) /\ k - 1 \in 0 .. Len(list) /\ k - 1 \notin Wrong
    <3> HIDE DEF Wrong
    <3> QED BY <1>1, <2>1, <2>2, <2>3, <2>4
  <2>6. Right(k - 1)
    BY <2>5
  <2> QED
    BY <1>4, <2>3, <2>5, <2>6
<1>6. Right(Len(list))
  <2>1. Len(list) \in 0 .. Len(list)
    BY <1>1
  <2> HIDE DEF Right
  <2> QED
    BY <1>5, <2>1
<1>7. Without(list, d) = kept[Len(list)]
  BY DEF Without, kept
<1> QED
  BY <1>6, <1>7

-----------------------------------------------------------------------------
(* Types *)

\* The VM has read nothing from no snapshot, and asks no such for its buffer.
SourceInv ==
  /\ snapshot.from = None => snapshot.bytes = None
  /\ step = "getBuffer" => snapshot.from # None

TypeInv == TypeOK /\ SourceInv /\ InvOfBuffer

LEMMA TypeInit == Init => TypeInv
<1> SUFFICES ASSUME Init PROVE TypeOK /\ SourceInv
  BY BufferInit DEF TypeInv
<1>1. searchDirs \in Seq(Dir)
  BY DEF Init
<1> QED
  BY <1>1, ConstantsAssumption DEF Init, TypeOK, SourceInv, NoData, NoBuffer, Image, Name

\* The setters.
LEMMA TypeSetter ==
  ASSUME TypeInv, Setter
  PROVE  TypeOK' /\ SourceInv'
<1> USE ConstantsAssumption DEF TypeInv, SourceInv
<1>1. started' \in {0, 1}
  BY DEF Setter, SetCinderDartScriptDataSource, SetSnapshotBinPath, SetSnapshotBinDataSource,
         AddImportDirectory, RemoveImportDirectory, Instance, TypeOK
<1>2. ASSUME NEW s \in Source \cup {None},
             SetCinderDartScriptDataSource(s) \/ SetSnapshotBinDataSource(s)
      PROVE  TypeOK' /\ SourceInv'
  BY <1>1, <1>2 DEF SetCinderDartScriptDataSource, SetSnapshotBinDataSource, TypeOK, Image, Name,
         disk, call, history, fileVars
<1>3. ASSUME NEW p \in File \cup {None}, SetSnapshotBinPath(p)
      PROVE  TypeOK' /\ SourceInv'
  BY <1>1, <1>3 DEF SetSnapshotBinPath, TypeOK, disk, call, history, fileVars
<1>4. ASSUME NEW n \in Name, AddImportDirectory(n) \/ RemoveImportDirectory(n)
      PROVE  TypeOK' /\ SourceInv'
  <2>1. target[n] \in Dir \cup {None} /\ searchDirs \in Seq(Dir)
    BY DEF TypeOK
  <2>2. UNCHANGED <<snapshotPath, snapshot, cinderSource, disk, call, fileVars>>
    BY <1>4 DEF AddImportDirectory, RemoveImportDirectory
  <2>3. CASE target[n] = None
    BY <1>1, <1>4, <2>2, <2>3
       DEF AddImportDirectory, RemoveImportDirectory, TypeOK, disk, call, history, fileVars
  <2>4. CASE target[n] # None
    <3>1. target[n] \in Dir
      BY <2>1, <2>4
    <3>2. Added(target[n]) \in Seq(Dir) /\ Without(searchDirs, target[n]) \in Seq(Dir)
      <4>1. Append(searchDirs, target[n]) \in Seq(Dir)
        BY <2>1, <3>1, AppendProperties
      <4> QED
        BY <2>1, <4>1, ErasesEvery DEF Added
    <3>3. searchDirs' \in Seq(Dir)
      BY <1>4, <2>4, <3>2 DEF AddImportDirectory, RemoveImportDirectory
    <3>4. listed' \in SUBSET Dir /\ newer' \in SUBSET (Dir \X Dir)
      BY <1>4, <2>4, <3>1 DEF AddImportDirectory, RemoveImportDirectory, TypeOK
    <3> QED
      BY <1>1, <2>2, <3>3, <3>4 DEF TypeOK, disk, call, fileVars
  <2> QED
    BY <2>3, <2>4
<1> QED
  BY <1>2, <1>3, <1>4 DEF Setter

\* The directory that is taken is one of the list, the last that has the file.
LEMMA LastHasCinder ==
  ASSUME TypeOK, \E i \in DOMAIN searchDirs : HasCinder(searchDirs[i])
  PROVE  \E i \in DOMAIN searchDirs :
           /\ LastWithCinder = searchDirs[i]
           /\ searchDirs[i] \in Dir
           /\ HasCinder(searchDirs[i])
           /\ \A j \in DOMAIN searchDirs : HasCinder(searchDirs[j]) => j <= i
<1> DEFINE has == {i \in DOMAIN searchDirs : HasCinder(searchDirs[i])}
<1>1. /\ searchDirs \in Seq(Dir) /\ Len(searchDirs) \in Nat
      /\ DOMAIN searchDirs = 1 .. Len(searchDirs)
  BY LenProperties DEF TypeOK
<1>2. has # {} /\ has \in SUBSET (1 .. Len(searchDirs))
  BY <1>1
<1>3. \E m \in has : \A j \in has : j <= m
  <2> HIDE DEF has
  <2> QED BY <1>1, <1>2, Greatest
<1> DEFINE last == CHOOSE i \in has : \A j \in has : j <= i
<1>4. last \in has /\ \A j \in has : j <= last
  <2> HIDE DEF has
  <2> QED BY <1>3
<1>5. LastWithCinder = searchDirs[last]
  BY DEF LastWithCinder
<1> HIDE DEF last
<1> QED
  BY <1>1, <1>4, <1>5, ElementOfSeq

\* A create.
LEMMA TypeCreate ==
  ASSUME TypeInv, Create
  PROVE  TypeOK' /\ SourceInv'
<1> USE ConstantsAssumption DEF TypeInv, SourceInv
<1>1. CASE BeginCreate
  <2>1. /\ GetSnapShot \in [from : File \cup Source \cup {Bundled, None}, bytes : Image]
        /\ GetSnapShot.from = None => GetSnapShot.bytes = None
        /\ GetSnapShot # NoData => GetSnapShot.from # None
    BY DEF GetSnapShot, NoData, TypeOK, Image
  <2>2. started' \in {0, 1}
    BY <1>1 DEF BeginCreate, Instance, TypeOK
  <2> QED
    BY <1>1, <2>1, <2>2 DEF BeginCreate, TypeOK, disk, history, fileVars
<1>2. CASE GetBuffer
  <2>1. snapshot.from # None
    BY <1>2 DEF GetBuffer
  <2>2. Readable \in Image
    BY <2>1 DEF Readable, TypeOK, Image
  <2> QED
    BY <1>2, <2>1, <2>2 DEF GetBuffer, TypeOK, disk, history, fileVars
<1>3. CASE CreateIsolate
  BY <1>3 DEF CreateIsolate, TypeOK, settings, disk, history, fileVars
<1>4. CASE GetCinderDartScript
  <2>1. (\E i \in DOMAIN searchDirs : HasCinder(searchDirs[i])) => LastWithCinder \in Dir
    BY LastHasCinder
  <2> QED
    BY <1>4, <2>1 DEF GetCinderDartScript, TypeOK, settings, disk, history, fileVars
<1>5. CASE ReadCinder \/ Return
  BY <1>5 DEF ReadCinder, Return, TypeOK, settings, disk, history, fileVars
<1> QED
  BY <1>1, <1>2, <1>3, <1>4, <1>5 DEF Create

\* The file callbacks.
LEMMA TypeFileCallback ==
  ASSUME TypeInv, FileCallback
  PROVE  TypeOK' /\ SourceInv'
<1> USE ConstantsAssumption DEF TypeInv, SourceInv
<1>1. ASSUME NEW write \in BOOLEAN, OpenFile(write)
      PROVE  TypeOK' /\ SourceInv'
  BY <1>1 DEF OpenFile, TypeOK, settings, call, history
<1>2. CASE ReadNothing \/ CloseFile
  BY <1>2 DEF ReadNothing, CloseFile, NoBuffer, TypeOK, settings, disk, call, history
<1>3. CASE MeasureFile \/ MeasureFails
  BY <1>3 DEF MeasureFile, MeasureFails, NoBuffer, InvOfBuffer, TypeOK, settings, disk, history
<1>4. CASE FillBuffer
  BY <1>4 DEF FillBuffer, InvOfBuffer, TypeOK, settings, disk, history
<1>5. CASE WriteFile
  <2>1. size \in Nat
    BY <1>5 DEF WriteFile, InvOfBuffer
  <2>2. size' \in 0 .. MaxSize
    BY <1>5, <2>1 DEF WriteFile
  <2> QED
    BY <1>5, <2>2 DEF WriteFile, TypeOK, settings, call, history, fileVars
<1> QED
  BY <1>1, <1>2, <1>3, <1>4, <1>5 DEF FileCallback

\* Other programs.
LEMMA TypeOtherProgram ==
  ASSUME TypeInv, OtherProgram
  PROVE  TypeOK' /\ SourceInv'
<1> USE ConstantsAssumption DEF TypeInv, SourceInv
<1>1. changes' \in 0 .. MaxChanges
  BY DEF OtherProgram, Relink, ChangeCinder, ChangeSnapshotFile, ChangeSize, Change, TypeOK
<1>2. UNCHANGED <<started, settings, call, history, fileVars>>
  BY DEF OtherProgram, Relink, ChangeCinder, ChangeSnapshotFile, ChangeSize, Change
<1>3. target' \in [Name -> Dir \cup {None}]
  BY DEF OtherProgram, Relink, ChangeCinder, ChangeSnapshotFile, ChangeSize, TypeOK
<1>4. holds' \in SUBSET Dir
  BY DEF OtherProgram, Relink, ChangeCinder, ChangeSnapshotFile, ChangeSize, TypeOK
<1>5. content' \in [File \cup {Bundled} -> Bytes \cup {None}]
  BY DEF OtherProgram, Relink, ChangeCinder, ChangeSnapshotFile, ChangeSize, TypeOK
<1>6. size' \in 0 .. MaxSize \cup {None}
  BY DEF OtherProgram, Relink, ChangeCinder, ChangeSnapshotFile, ChangeSize, TypeOK
<1> QED
  BY <1>1, <1>2, <1>3, <1>4, <1>5, <1>6 DEF TypeOK, settings, call, history, fileVars

LEMMA TypeStep == TypeInv /\ [Next]_vars => TypeInv'
<1>1. TypeInv /\ [Next]_vars => InvOfBuffer'
  BY BufferStep DEF TypeInv
<1>2. TypeInv /\ UNCHANGED vars => TypeOK' /\ SourceInv'
  BY DEF TypeInv, TypeOK, SourceInv, vars, settings, disk, call, history, fileVars
<1> QED
  BY <1>1, <1>2, TypeSetter, TypeCreate, TypeFileCallback, TypeOtherProgram DEF Next, TypeInv

\* The variables keep their types, for any directories, files and sources.
THEOREM TypeCorrect == Spec => []TypeOK
<1>1. TypeInv => TypeOK
  BY DEF TypeInv
<1> QED
  BY TypeInit, TypeStep, <1>1, PTL DEF Spec

-----------------------------------------------------------------------------
(* The list of directories *)

OrderInv == TypeInv /\ ListedOldestFirst

\* A directory that is listed already keeps its place, one that is not is newer than
\* all that are.
LEMMA OrderAdd ==
  ASSUME OrderInv, NEW n \in Name, AddImportDirectory(n), target[n] # None
  PROVE  ListedOldestFirst'
<1> DEFINE d == target[n]
<1>1. /\ searchDirs \in Seq(Dir) /\ Len(searchDirs) \in Nat
      /\ DOMAIN searchDirs = 1 .. Len(searchDirs)
      /\ {searchDirs[i] : i \in 1 .. Len(searchDirs)} = listed
      /\ \A i, j \in 1 .. Len(searchDirs) : i < j => <<searchDirs[j], searchDirs[i]>> \in newer
  BY LenProperties DEF OrderInv, TypeInv, TypeOK, ListedOldestFirst
<1>2. d \in Dir
  BY DEF OrderInv, TypeInv, TypeOK
<1>3. /\ searchDirs' = IF d \in listed THEN searchDirs ELSE Append(searchDirs, d)
      /\ listed' = listed \cup {d}
      /\ newer' = IF d \in listed THEN newer ELSE newer \cup {<<d, e>> : e \in listed}
  BY <1>1 DEF AddImportDirectory, Added, Contains
<1> HIDE DEF d
<1>4. CASE d \in listed
  <2>1. searchDirs' = searchDirs /\ listed' = listed /\ newer' = newer
    BY <1>3, <1>4
  <2> QED
    BY <2>1 DEF OrderInv, ListedOldestFirst
<1>5. CASE d \notin listed
  <2> DEFINE t == Append(searchDirs, d)
             k == Len(searchDirs)
  <2>1. /\ t \in Seq(Dir) /\ Len(t) = k + 1 /\ DOMAIN t = 1 .. k + 1
        /\ \A i \in 1 .. k : t[i] = searchDirs[i]
        /\ t[k + 1] = d
    BY <1>1, <1>2, AppendProperties, LenProperties
  <2>2. searchDirs' = t /\ newer' = newer \cup {<<d, e>> : e \in listed}
    BY <1>3, <1>5
  <2>3. 1 .. k + 1 = (1 .. k) \cup {k + 1} /\ k \in Nat
    BY <1>1
  <2> HIDE DEF t
  <2>4. {t[i] : i \in DOMAIN t} = listed \cup {d}
    BY <1>1, <2>1, <2>3
  <2>5. ASSUME NEW i \in DOMAIN t, NEW j \in DOMAIN t, i < j
        PROVE  <<t[j], t[i]>> \in newer'
    <3>1. i \in 1 .. k /\ t[i] = searchDirs[i] /\ t[i] \in listed
      BY <1>1, <2>1, <2>3, <2>5
    <3>2. CASE j \in 1 .. k
      BY <1>1, <2>1, <2>2, <2>5, <3>1, <3>2
    <3>3. CASE j = k + 1
      BY <2>1, <2>2, <3>1, <3>3
    <3> QED
      BY <2>1, <2>3, <3>2, <3>3
  <2>6. \A i, j \in DOMAIN t : i < j => <<t[j], t[i]>> \in newer'
    BY <2>5
  <2> QED
    BY <1>3, <2>2, <2>4, <2>6 DEF ListedOldestFirst
<1> QED
  BY <1>4, <1>5

\* A removal takes the directory from the list, and disturbs no other entry.
LEMMA OrderRemove ==
  ASSUME OrderInv, NEW n \in Name, RemoveImportDirectory(n), target[n] # None
  PROVE  ListedOldestFirst'
<1> DEFINE d == target[n]
           t == Without(searchDirs, d)
           k == Len(searchDirs)
<1>1. /\ searchDirs \in Seq(Dir) /\ k \in Nat /\ DOMAIN searchDirs = 1 .. k
      /\ {searchDirs[i] : i \in 1 .. k} = listed
      /\ \A i, j \in 1 .. k : i < j => <<searchDirs[j], searchDirs[i]>> \in newer
  BY LenProperties DEF OrderInv, TypeInv, TypeOK, ListedOldestFirst
<1>2. /\ searchDirs' = t
      /\ listed' = listed \ {d}
      /\ newer' = {p \in newer : d \notin {p[1], p[2]}}
  BY DEF RemoveImportDirectory
<1>3. t \in Seq(Dir) /\ KeepsOrder(searchDirs, d, k, t)
  BY <1>1, ErasesEvery
<1>4. DOMAIN t = 1 .. Len(t) /\ Len(t) \in Nat
  BY <1>3, LenProperties
<1> HIDE DEF d, t, k
<1>5. /\ \A i \in 1 .. k : searchDirs[i] # d => \E j \in 1 .. Len(t) : t[j] = searchDirs[i]
      /\ \A j \in 1 .. Len(t) : \E i \in 1 .. k : t[j] = searchDirs[i] /\ searchDirs[i] # d
      /\ \A j, l \in 1 .. Len(t) : j < l =>
           \E a, b \in 1 .. k : a < b /\ t[j] = searchDirs[a] /\ t[l] = searchDirs[b]
  BY <1>3 DEF KeepsOrder, k
<1>6. {t[j] : j \in 1 .. Len(t)} = listed \ {d}
  <2>1. \A j \in 1 .. Len(t) : t[j] \in listed \ {d}
    BY <1>1, <1>5
  <2>2. ASSUME NEW e \in listed \ {d} PROVE \E j \in 1 .. Len(t) : t[j] = e
    <3>1. PICK i \in 1 .. k : searchDirs[i] = e
      BY <1>1
    <3> QED
      BY <1>5, <3>1
  <2> QED
    BY <2>1, <2>2
<1>7. ASSUME NEW j \in 1 .. Len(t), NEW l \in 1 .. Len(t), j < l
      PROVE  <<t[l], t[j]>> \in newer'
  <2>1. PICK a \in 1 .. k, b \in 1 .. k : a < b /\ t[j] = searchDirs[a] /\ t[l] = searchDirs[b]
    BY <1>5, <1>7
  <2>2. <<t[l], t[j]>> \in newer
    BY <1>1, <2>1
  <2>3. t[j] # d /\ t[l] # d
    BY <1>5
  <2> QED
    BY <1>2, <2>2, <2>3
<1>8. \A j, l \in DOMAIN t : j < l => <<t[l], t[j]>> \in newer'
  BY <1>4, <1>7
<1> QED
  BY <1>2, <1>4, <1>6, <1>8 DEF ListedOldestFirst

LEMMA OrderStep == OrderInv /\ [Next]_vars => OrderInv'
<1> SUFFICES ASSUME OrderInv, [Next]_vars PROVE ListedOldestFirst'
  BY TypeStep DEF OrderInv
<1>1. ASSUME UNCHANGED <<searchDirs, history>> PROVE ListedOldestFirst'
  BY <1>1 DEF OrderInv, ListedOldestFirst, history
<1>2. ASSUME NEW s \in Source \cup {None},
             SetCinderDartScriptDataSource(s) \/ SetSnapshotBinDataSource(s)
      PROVE  ListedOldestFirst'
  BY <1>1, <1>2 DEF SetCinderDartScriptDataSource, SetSnapshotBinDataSource
<1>3. ASSUME NEW p \in File \cup {None}, SetSnapshotBinPath(p) PROVE ListedOldestFirst'
  BY <1>1, <1>3 DEF SetSnapshotBinPath
<1>4. ASSUME NEW n \in Name, AddImportDirectory(n) \/ RemoveImportDirectory(n)
      PROVE  ListedOldestFirst'
  <2>1. CASE target[n] = None
    BY <1>1, <1>4, <2>1 DEF AddImportDirectory, RemoveImportDirectory
  <2>2. CASE target[n] # None
    BY <1>4, <2>2, OrderAdd, OrderRemove
  <2> QED
    BY <2>1, <2>2
<1>5. CASE Create
  BY <1>1, <1>5 DEF Create, BeginCreate, GetBuffer, CreateIsolate, GetCinderDartScript, ReadCinder,
       Return, settings
<1>6. CASE FileCallback
  BY <1>1, <1>6 DEF FileCallback, OpenFile, ReadNothing, MeasureFile, MeasureFails,
       FillBuffer, WriteFile, CloseFile, settings
<1>7. CASE OtherProgram
  BY <1>1, <1>7 DEF OtherProgram, Relink, ChangeCinder, ChangeSnapshotFile, ChangeSize, Change,
       settings
<1>8. CASE UNCHANGED vars
  BY <1>1, <1>8 DEF vars, settings
<1> QED
  BY <1>2, <1>3, <1>4, <1>5, <1>6, <1>7, <1>8 DEF Next, Setter

LEMMA OrderInit == Init => OrderInv
<1> SUFFICES ASSUME Init PROVE ListedOldestFirst
  BY TypeInit DEF OrderInv
<1>1. searchDirs = <<>> /\ listed = {}
  BY DEF Init
<1>2. DOMAIN searchDirs = {}
  BY <1>1
<1> QED
  BY <1>1, <1>2 DEF ListedOldestFirst

\* For any number of directories, however they are linked, added and removed: the
\* list is the set of those that were added and not removed since, oldest first.
THEOREM OldestFirst == Spec => []ListedOldestFirst
<1>1. OrderInv => ListedOldestFirst
  BY DEF OrderInv
<1> QED
  BY OrderInit, OrderStep, <1>1, PTL DEF Spec

\* cinder.dart is taken from the newest directory that has one, or not at all.
LEMMA TakenIsNewest ==
  ASSUME OrderInv, GetCinderDartScript, cinderSource = None
  PROVE  LET having == {d \in listed : HasCinder(d)} IN
         IF having = {} THEN step' = "idle"
         ELSE cinder' \in having /\ \A d \in having \ {cinder'} : <<cinder', d>> \in newer
<1> DEFINE having == {d \in listed : HasCinder(d)}
<1>1. /\ searchDirs \in Seq(Dir) /\ Len(searchDirs) \in Nat
      /\ DOMAIN searchDirs = 1 .. Len(searchDirs)
      /\ {searchDirs[i] : i \in DOMAIN searchDirs} = listed
      /\ \A i, j \in DOMAIN searchDirs : i < j => <<searchDirs[j], searchDirs[i]>> \in newer
  BY LenProperties DEF OrderInv, TypeInv, TypeOK, ListedOldestFirst
<1>2. having = {} <=> ~ \E i \in DOMAIN searchDirs : HasCinder(searchDirs[i])
  BY <1>1
<1>3. CASE having = {}
  BY <1>2, <1>3 DEF GetCinderDartScript
<1>4. CASE having # {}
  <2>1. cinder' = LastWithCinder
    BY <1>2, <1>4 DEF GetCinderDartScript
  <2>2. PICK i \in DOMAIN searchDirs :
          /\ LastWithCinder = searchDirs[i]
          /\ HasCinder(searchDirs[i])
          /\ \A j \in DOMAIN searchDirs : HasCinder(searchDirs[j]) => j <= i
    BY <1>2, <1>4, LastHasCinder DEF OrderInv, TypeInv
  <2>3. cinder' \in having
    BY <1>1, <2>1, <2>2
  <2>4. ASSUME NEW d \in having \ {cinder'} PROVE <<cinder', d>> \in newer
    <3>1. PICK j \in DOMAIN searchDirs : searchDirs[j] = d
      BY <1>1
    <3>2. j <= i /\ j # i
      BY <2>1, <2>2, <3>1
    <3>3. j < i
      BY <1>1, <3>2
    <3> QED
      BY <1>1, <2>1, <2>2, <3>1, <3>3
  <2> QED
    BY <1>4, <2>3, <2>4
<1> QED
  BY <1>3, <1>4

\* Whatever the list holds and whatever became of its directories, cinder.dart comes
\* from the one added last of those that have it.
THEOREM NewestWins == Spec => NewestDirectoryWins
<1> DEFINE Taken == LET having == {d \in listed : HasCinder(d)} IN
                    IF having = {} THEN step' = "idle"
                    ELSE cinder' \in having /\ \A d \in having \ {cinder'} : <<cinder', d>> \in newer
<1>1. OrderInv /\ [Next]_vars
      => [ step = "loadCinder" /\ step' # "loadCinder" /\ cinderSource = None => Taken ]_vars
  <2> SUFFICES ASSUME OrderInv, [Next]_vars, ~ UNCHANGED vars,
                      step = "loadCinder", step' # "loadCinder", cinderSource = None
               PROVE  Taken
    OBVIOUS
  <2>1. GetCinderDartScript
    BY DEF Next, Setter, SetCinderDartScriptDataSource, SetSnapshotBinPath,
         SetSnapshotBinDataSource, AddImportDirectory, RemoveImportDirectory, Create, BeginCreate,
         GetBuffer, CreateIsolate, ReadCinder, Return, FileCallback, OpenFile, ReadNothing,
         MeasureFile, MeasureFails, FillBuffer, WriteFile, CloseFile, OtherProgram, Relink, ChangeCinder,
         ChangeSnapshotFile, ChangeSize, Change, call
  <2> QED
    BY <2>1, TakenIsNewest
<1> QED
  BY OrderInit, OrderStep, <1>1, PTL DEF Spec, NewestDirectoryWins

=============================================================================
