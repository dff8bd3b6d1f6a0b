----------------------------- MODULE VMResources -----------------------------
(***************************************************************************)
(* What the singleton cidart::VM keeps for the scripts: the directories    *)
(* searched for imports and for cinder.dart, the snapshot isolates start   *)
(* from, and the data source cinder.dart may come from instead; and the    *)
(* file callbacks it hands to the Dart VM.  The application calls the      *)
(* setters between two scripts, in any order; other programs change files  *)
(* and directories at any time, in the middle of a call too.  An exception *)
(* that ends a call leaves it at "idle".                                   *)
(***************************************************************************)
EXTENDS Naturals, SequencesExt

CONSTANTS
  Dir,         \* canonical paths of directories
  Link,        \* further names an application may give a directory by
  File,        \* paths of snapshot files
  Bundled,     \* the resource snapshot_gen.bin of a Cocoa application bundle
  Source,      \* data sources of the application; each is its own contents
  Unreadable,  \* those of them that throw when their buffer is asked for
  Bytes,       \* what may be in a snapshot file
  None,        \* no file, no contents, a null DataSourceRef, an empty path
  Cocoa,       \* is CINDER_COCOA defined?
  MaxSize,     \* bound on the length of the file of the file callbacks
  MaxChanges   \* bound on the changes other programs make

ASSUME ConstantsAssumption ==
  /\ None \notin Dir \cup Link \cup File \cup Source \cup Bytes \cup {Bundled}
  /\ Unreadable \subseteq Source
  /\ Cocoa \in BOOLEAN
  /\ MaxSize \in Nat
  /\ MaxChanges \in Nat

VARIABLES
  started,       \* how often a VM object was constructed
  searchDirs,    \* mImportSearchDirectories
  snapshotPath,  \* mSnapshotPath
  snapshot,      \* mSnapshot: where it reads from, and the bytes it has read
  cinderSource,  \* mCinderDartScriptDataSource
  target,        \* the directory a path leads to
  holds,         \* the directories with a file cinder.dart in them
  content,       \* the contents of each snapshot file
  size,          \* length of the file the Dart VM reads or writes
  changes,       \* how many changes other programs have made
  step,          \* where the call in progress stands
  cinder,        \* where the call in progress found cinder.dart
  image,         \* what the last isolate was started from, unless a data
                 \* source was set since (history)
  listed,        \* the directories added and not removed since (history)
  newer,         \* pairs of them, the first added after the second (history)
  stream,        \* the FILE of the file callbacks
  buffer         \* their buffer: allocated, filled, and the length reported

settings == <<searchDirs, snapshotPath, snapshot, cinderSource>>
disk     == <<target, holds, content, size, changes>>
call     == <<step, cinder, image>>
history  == <<listed, newer>>
fileVars == <<stream, buffer>>
vars     == <<started, settings, disk, call, history, fileVars>>

Name   == Dir \cup Link
Image  == Bytes \cup Source \cup {None}

TypeOK ==
  /\ started \in {0, 1}
  /\ searchDirs \in Seq(Dir)
  /\ snapshotPath \in File \cup {None}
  /\ snapshot \in [from : File \cup Source \cup {Bundled, None}, bytes : Image]
  /\ cinderSource \in Source \cup {None}
  /\ target \in [Name -> Dir \cup {None}]
  /\ holds \in SUBSET Dir
  /\ content \in [File \cup {Bundled} -> Bytes \cup {None}]
  /\ size \in 0..MaxSize \cup {None}
  /\ changes \in 0..MaxChanges
  /\ step \in {"idle", "getBuffer", "createIsolate", "loadCinder", "readCinder",
               "dart", "reading"}
  /\ cinder \in Dir \cup Source \cup {None}
  /\ image \in Image
  /\ listed \in SUBSET Dir
  /\ newer \in SUBSET (Dir \X Dir)
  /\ stream \in {"closed", "null", "read", "write"}
  /\ buffer \in [allocated : Nat, filled : Nat, reported : Nat]

NoData   == [from |-> None, bytes |-> None]
NoBuffer == [allocated |-> 0, filled |-> 0, reported |-> 0]

\* A path leads to a directory by way of that directory's canonical path.
Canonical(t) == \A n \in Name : t[n] # None => t[t[n]] = t[n]

Init ==
  /\ started = 0
  /\ searchDirs = <<>>
  /\ snapshotPath = None
  /\ snapshot = NoData
  /\ cinderSource = None
  /\ target \in [Name -> Dir] /\ \A d \in Dir : target[d] = d
  /\ holds \in SUBSET Dir
  /\ content \in [File \cup {Bundled} -> Bytes]
  /\ size = None
  /\ changes = 0
  /\ step = "idle"
  /\ cinder = None
  /\ image = None
  /\ listed = {}
  /\ newer = {}
  /\ stream = "closed"
  /\ buffer = NoBuffer

-----------------------------------------------------------------------------
(* VM::instance and the static setters *)

\* MUTANT: an instance() that does not look whether there is a VM already.
InstanceAgain == started' = started + 1

\* The first use of the VM constructs it: flags, then Dart_Initialize.
Instance == started' = IF started = 0 THEN 1 ELSE started

SetCinderDartScriptDataSource(s) ==
  /\ step = "idle"
  /\ Instance
  /\ cinderSource' = s
  /\ UNCHANGED <<searchDirs, snapshotPath, snapshot, disk, call, history, fileVars>>

SetSnapshotBinPath(p) ==
  /\ step = "idle"
  /\ Instance
  /\ snapshotPath' = p
  /\ UNCHANGED <<searchDirs, snapshot, cinderSource, disk, call, history, fileVars>>

SetSnapshotBinDataSource(s) ==
  /\ step = "idle"
  /\ Instance
  /\ snapshot' = [from |-> s, bytes |-> None]
  /\ image' = None
  /\ UNCHANGED <<searchDirs, snapshotPath, cinderSource, disk, step, cinder, history, fileVars>>

\* std::remove and erase: the elements but d in their order, from the first i, for
\* any i and so for all of them.
KeptUpTo(list, d) ==
  LET kept[i \in 0 .. Len(list)] ==
        IF i = 0 THEN <<>>
        ELSE IF list[i] = d THEN kept[i - 1] ELSE Append(kept[i - 1], list[i])
  IN  kept

Without(list, d) == KeptUpTo(list, d)[Len(list)]

\* MUTANT: a directory that is added again becomes the newest.
AddedAgain(d) == Append(Without(searchDirs, d), d)

\* The list after a directory was added: one that is listed keeps its place.
Added(d) == IF Contains(searchDirs, d) THEN searchDirs ELSE Append(searchDirs, d)

\* What is not a directory is logged; what is, is listed by its canonical path.
AddImportDirectory(n) ==
  /\ step = "idle"
  /\ Instance
  /\ IF target[n] = None THEN UNCHANGED <<searchDirs, history>>
     ELSE LET d == target[n] IN
       /\ searchDirs' = Added(d)
       /\ listed' = listed \cup {d}
       /\ newer' = IF d \in listed THEN newer ELSE newer \cup {<<d, e>> : e \in listed}
  /\ UNCHANGED <<snapshotPath, snapshot, cinderSource, disk, call, fileVars>>

\* A path that leads nowhere has no canonical path: fs::canonical throws, and the
\* list stays as it is.  Otherwise every entry that equals it is erased.
RemoveImportDirectory(n) ==
  /\ step = "idle"
  /\ Instance
  /\ IF target[n] = None THEN UNCHANGED <<searchDirs, history>>
     ELSE LET d == target[n] IN
       /\ searchDirs' = Without(searchDirs, d)
       /\ listed' = listed \ {d}
       /\ newer' = {p \in newer : d \notin {p[1], p[2]}}
  /\ UNCHANGED <<snapshotPath, snapshot, cinderSource, disk, call, fileVars>>

-----------------------------------------------------------------------------
(* Script::init, as far as it asks the VM for its resources *)

\* MUTANT: a snapshot path that was set is always read again.
SnapShotReread ==
  IF snapshotPath # None THEN [from |-> snapshotPath, bytes |-> None]
  ELSE IF snapshot # NoData THEN snapshot
  ELSE IF Cocoa THEN [from |-> Bundled, bytes |-> None] ELSE NoData

\* getSnapShot: what there is already, else the path, else the resource.
GetSnapShot ==
  IF snapshot # NoData THEN snapshot
  ELSE IF snapshotPath # None THEN [from |-> snapshotPath, bytes |-> None]
  ELSE IF Cocoa THEN [from |-> Bundled, bytes |-> None] ELSE NoData

\* createIsolateCallback.  loadFile does not read yet; loadResource throws at
\* once when the bundle has no such resource.
BeginCreate ==
  /\ step = "idle"
  /\ Instance
  /\ IF GetSnapShot.from = Bundled /\ snapshot = NoData /\ content[Bundled] = None
     THEN UNCHANGED <<snapshot, step>>
     ELSE /\ snapshot' = GetSnapShot
          /\ step' = IF GetSnapShot = NoData THEN "createIsolate" ELSE "getBuffer"
  /\ UNCHANGED <<searchDirs, snapshotPath, cinderSource, disk, cinder, image, history, fileVars>>

\* The bytes behind the data source the VM holds, None if it cannot be read.
Readable ==
  IF snapshot.from \in Source
  THEN IF snapshot.from \in Unreadable THEN None ELSE snapshot.from
  ELSE content[snapshot.from]

\* getBuffer reads once and keeps what it read; where it cannot, a StreamExc
\* leaves createIsolateCallback, and mSnapshot stays what it was.
GetBuffer ==
  /\ step = "getBuffer"
  /\ IF snapshot.bytes # None THEN UNCHANGED snapshot /\ step' = "createIsolate"
     ELSE IF Readable = None THEN UNCHANGED snapshot /\ step' = "idle"
     ELSE snapshot' = [from |-> snapshot.from, bytes |-> Readable] /\ step' = "createIsolate"
  /\ UNCHANGED <<started, searchDirs, snapshotPath, cinderSource, disk,
                 cinder, image, history, fileVars>>

CreateIsolate ==
  /\ step = "createIsolate"
  /\ \/ image' = snapshot.bytes /\ step' = "loadCinder"
     \/ UNCHANGED image /\ step' = "idle"
  /\ UNCHANGED <<started, settings, disk, cinder, history, fileVars>>

\* fs::exists( directory / "cinder.dart" )
HasCinder(d) == target[d] # None /\ target[d] \in holds

\* MUTANT: the directories are searched from the first to the last.
FirstWithCinder ==
  LET has == {i \in DOMAIN searchDirs : HasCinder(searchDirs[i])}
  IN  searchDirs[CHOOSE i \in has : \A j \in has : i <= j]

\* The directory added last of those that have the file.
LastWithCinder ==
  LET has == {i \in DOMAIN searchDirs : HasCinder(searchDirs[i])}
  IN  searchDirs[CHOOSE i \in has : \A j \in has : j <= i]

\* getCinderDartScript: the data source, else the newest directory that has a
\* cinder.dart, else a DartException.
GetCinderDartScript ==
  /\ step = "loadCinder"
  /\ IF cinderSource # None THEN cinder' = cinderSource /\ step' = "readCinder"
     ELSE IF \E i \in DOMAIN searchDirs : HasCinder(searchDirs[i])
     THEN cinder' = LastWithCinder /\ step' = "readCinder"
     ELSE UNCHANGED cinder /\ step' = "idle"
  /\ UNCHANGED <<started, settings, disk, image, history, fileVars>>

\* loadString throws where the source is unreadable, or the file gone by now.
ReadCinder ==
  /\ step = "readCinder"
  /\ IF cinder \in Unreadable \/ (cinder \in Dir /\ ~ HasCinder(cinder))
     THEN cinder' = None /\ step' = "idle"
     ELSE UNCHANGED cinder /\ step' = "dart"
  /\ UNCHANGED <<started, settings, disk, image, history, fileVars>>

\* The script has run; between two calls nothing of this one is left.
Return ==
  /\ step = "dart"
  /\ stream = "closed"
  /\ step' = "idle"
  /\ cinder' = None
  /\ UNCHANGED <<started, settings, disk, image, history, fileVars>>

-----------------------------------------------------------------------------
(* The file callbacks, used by the Dart VM while an isolate runs *)

\* openFileCallback: "r" needs the file, "w" makes it or cuts it to nothing.
OpenFile(write) ==
  /\ step = "dart"
  /\ stream = "closed"
  /\ \/ stream' = "null" /\ UNCHANGED size
     \/ write /\ stream' = "write" /\ size' = 0
     \/ ~ write /\ size # None /\ stream' = "read" /\ UNCHANGED size
  /\ UNCHANGED <<started, settings, target, holds, content, changes, call, history, buffer>>

\* readFileCallback without a stream answers no data and length 0.
ReadNothing ==
  /\ step = "dart"
  /\ stream = "null"
  /\ buffer' = NoBuffer
  /\ stream' = "closed"
  /\ UNCHANGED <<started, settings, disk, call, history>>

\* readFileCallback asks for the length, and allocates that much.
MeasureFile ==
  /\ step = "dart"
  /\ stream \in {"read", "write"}
  /\ buffer' = [allocated |-> size, filled |-> 0, reported |-> size]
  /\ step' = "reading"
  /\ UNCHANGED <<started, settings, disk, cinder, image, history, stream>>

\* ftell answers -1: an array of that length cannot be had, and new throws through
\* the Dart VM and out of the call, or ends the process, which then does no more.
\* The FILE stays open, and nobody has it any longer.
MeasureFails ==
  /\ step = "dart"
  /\ stream \in {"read", "write"}
  /\ step' = "idle"
  /\ cinder' = None
  /\ stream' = "closed"
  /\ buffer' = NoBuffer
  /\ UNCHANGED <<started, settings, disk, image, history>>

\* MUTANT: the length that was measured is reported, whatever was read.
FillUnchecked ==
  /\ step = "reading"
  /\ \E n \in 0..buffer.allocated :
       /\ stream = "write" => n = 0
       /\ n <= size
       /\ buffer' = [buffer EXCEPT !.filled = n]
  /\ step' = "dart"
  /\ UNCHANGED <<started, settings, disk, cinder, image, history, stream>>

\* fread gets what there is by now, at most what was asked for; a stream opened
\* for writing gives nothing.
FillBuffer ==
  /\ step = "reading"
  /\ \E n \in 0..buffer.allocated :
       /\ stream = "write" => n = 0
       /\ n <= size
       /\ buffer' = [allocated |-> buffer.allocated, filled |-> n, reported |-> n]
  /\ step' = "dart"
  /\ UNCHANGED <<started, settings, disk, cinder, image, history, stream>>

\* writeFileCallback; a disk that is full takes less than it is given.
WriteFile ==
  /\ step = "dart"
  /\ stream = "write"
  /\ \E n \in size..MaxSize : size' = n
  /\ UNCHANGED <<started, settings, target, holds, content, changes, call, history, fileVars>>

CloseFile ==
  /\ step = "dart"
  /\ stream \in {"read", "write"}
  /\ stream' = "closed"
  /\ buffer' = NoBuffer
  /\ UNCHANGED <<started, settings, disk, call, history>>

-----------------------------------------------------------------------------
(* Other programs *)

Change ==
  /\ changes < MaxChanges
  /\ changes' = changes + 1
  /\ UNCHANGED <<started, settings, call, history, fileVars>>

\* A directory or link is made, deleted, or made to lead somewhere else.
Relink ==
  /\ \E n \in Name, d \in Dir \cup {None} : target' = [target EXCEPT ![n] = d]
  /\ Canonical(target')
  /\ Change
  /\ UNCHANGED <<holds, content, size>>

ChangeCinder ==
  /\ \E d \in Dir : holds' \in {holds \cup {d}, holds \ {d}}
  /\ Change
  /\ UNCHANGED <<target, content, size>>

ChangeSnapshotFile ==
  /\ \E p \in DOMAIN content, b \in Bytes \cup {None} : content' = [content EXCEPT ![p] = b]
  /\ Change
  /\ UNCHANGED <<target, holds, size>>

\* A file that is open can be cut or grow; deleting it leaves the stream its file.
ChangeSize ==
  /\ size' \in 0..MaxSize
  /\ Change
  /\ UNCHANGED <<target, holds, content>>

-----------------------------------------------------------------------------

Setter ==
  \/ \E s \in Source \cup {None} : SetCinderDartScriptDataSource(s) \/ SetSnapshotBinDataSource(s)
  \/ \E p \in File \cup {None} : SetSnapshotBinPath(p)
  \/ \E n \in Name : AddImportDirectory(n) \/ RemoveImportDirectory(n)

Create == BeginCreate \/ GetBuffer \/ CreateIsolate \/ GetCinderDartScript \/ ReadCinder \/ Return

FileCallback ==
  \/ \E write \in BOOLEAN : OpenFile(write)
  \/ ReadNothing \/ MeasureFile \/ MeasureFails \/ FillBuffer \/ WriteFile \/ CloseFile

OtherProgram == Relink \/ ChangeCinder \/ ChangeSnapshotFile \/ ChangeSize

Next == Setter \/ Create \/ FileCallback \/ OtherProgram

Spec == Init /\ [][Next]_vars

-----------------------------------------------------------------------------
(* Properties *)

\* The list holds the canonical paths that were added and not removed since, each
\* once, oldest first: a path that is added again, through another name of the
\* directory perhaps, keeps its place, and a removal disturbs no other entry.
ListedOldestFirst ==
  /\ {searchDirs[i] : i \in DOMAIN searchDirs} = listed
  /\ \A i, j \in DOMAIN searchDirs : i < j => <<searchDirs[j], searchDirs[i]>> \in newer

\* cinder.dart is taken from the directory added last of those that have one at
\* that moment, whatever became of the others: one that was deleted, and that
\* can no longer be removed from the list, is passed over.
NewestDirectoryWins ==
  [][ step = "loadCinder" /\ step' # "loadCinder" /\ cinderSource = None =>
        LET having == {d \in listed : HasCinder(d)} IN
        IF having = {} THEN step' = "idle"
        ELSE cinder' \in having /\ \A d \in having \ {cinder'} : <<cinder', d>> \in newer ]_vars

\* Unless a data source was set in between, every isolate starts from the bytes
\* the one before it started from: whatever happened meanwhile to the snapshot
\* file or to the path, a reloaded script meets the same core libraries.
SameSnapshot ==
  [][ step = "createIsolate" /\ step' = "loadCinder" /\ image # None => image' = image ]_vars

\* The length readFileCallback reports is the number of bytes it read, within the
\* buffer it allocated, also when the file changed after it was measured.
ReportedIsRead ==
  step = "dart" => /\ buffer.reported = buffer.filled
                   /\ buffer.reported <= buffer.allocated

=============================================================================
