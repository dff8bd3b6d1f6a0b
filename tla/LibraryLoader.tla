---------------------------- MODULE LibraryLoader ----------------------------
(***************************************************************************)
(* What happens inside Dart_LoadScript: the VM parses the main script and *)
(* calls Script::libraryTagHandler back for each of its imports and parts; *)
(* the handler finds the file, gives its text to the VM, and the VM parses *)
(* that in turn before the handler goes on.  Loads are nested as deep as  *)
(* the imports are, and the rest of each handler, which records the        *)
(* library or looks at the error, runs when the nested load is over.       *)
(*                                                                         *)
(* A path is the sequence of its segments, so that parent_path() is Front  *)
(* and the operator / is \o.  So is a URL; one of a package begins with    *)
(* the segment Package.  The handler canonicalises a URL to itself, so     *)
(* that the VM knows a library by its URL exactly as it was written.       *)
(***************************************************************************)
EXTENDS Integers, SequencesExt

CONSTANTS
  Segment,     \* what paths and URLs are made of
  Disks,       \* file systems: each a function from paths to files
  SearchPaths, \* values of the VM's mImportSearchDirectories
  MainScript,  \* mMainScriptPath
  Package,     \* the scheme "package:"
  CinderUrl,   \* the URL VM::loadCinderDartLib registered cinder.dart under
  Asserts      \* TRUE in a Debug build

Path == Seq(Segment)

\* A file has the import and part directives it begins with, and declarations
\* that compile or do not.
Directive  == [tag : {"import", "part"}, url : Path]
SourceFile == [directives : Seq(Directive), valid : BOOLEAN]

Nowhere == <<>>   \* the empty path, which no file has

ASSUME LoaderAssumption ==
  /\ \A d \in Disks :
       /\ MainScript \in DOMAIN d
       /\ DOMAIN d \subseteq Path \ {Nowhere}
       /\ \A path \in DOMAIN d : d[path] \in SourceFile
  /\ SearchPaths \subseteq Seq(Path)
  /\ {MainScript, CinderUrl} \subseteq Path
  /\ MainScript # CinderUrl
  /\ Asserts \in BOOLEAN

VARIABLES
  disk,       \* the files there are
  importDirs, \* mImportSearchDirectories
  imported,   \* mImportedLibraries: from the URL of a library to its path
  library,    \* the VM's libraries: from a URL to how far it is loaded
  source,     \* the path the text of each library came from (history)
  parts,      \* the parts loaded, with the library each went to (history)
  natives,    \* the libraries whose native resolver is set
  stack,      \* the loads in progress, each with the directives still to do
  status      \* how the load goes on or ended

vars == <<disk, importDirs, imported, library, source, parts, natives, stack, status>>
fileVars == <<disk, importDirs>>

MainUrl == MainScript
MainDir == Front(MainScript)

Top  == Last(stack)
Here == Head(Top.rest)

Load(url, path) == [lib |-> url, rest |-> disk[path].directives]

\* The directive at hand is done with.
Proceed(s) == [s EXCEPT ![Len(s)] = [lib |-> @.lib, rest |-> Tail(@.rest)]]

\* The map f with x mapped to y.
Put(f, x, y) == [z \in DOMAIN f \cup {x} |-> IF z = x THEN y ELSE f[z]]

TypeOK ==
  /\ MainScript \in DOMAIN disk
  /\ \A path \in DOMAIN disk : disk[path] \in SourceFile
  /\ importDirs \in SearchPaths
  /\ \A url \in DOMAIN library : library[url] \in {"loading", "loaded", "failed"}
  /\ natives \subseteq DOMAIN library
  /\ DOMAIN source = DOMAIN library \ {CinderUrl}
  /\ \A url \in DOMAIN source : source[url] \in DOMAIN disk
  /\ stack \in Seq([lib : DOMAIN source, rest : Seq(Directive)])
  /\ \A p \in parts : p.lib \in DOMAIN source /\ p.path \in DOMAIN disk
  /\ status \in {"loading", "raising", "loaded", "error", "DartException", "aborted"}

\* Dart_LoadScript has been called on the text of the main script.
Init ==
  /\ disk \in Disks
  /\ importDirs \in SearchPaths
  /\ imported = [url \in {} |-> Nowhere]
  /\ library = [url \in {MainUrl, CinderUrl} |-> IF url = MainUrl THEN "loading" ELSE "loaded"]
  /\ source = [url \in {MainUrl} |-> MainScript]
  /\ parts = {}
  /\ natives = {CinderUrl}
  /\ stack = <<Load(MainUrl, MainScript)>>
  /\ status = "loading"

-----------------------------------------------------------------------------
(* Finding files *)

IsPackage(url) == Head(url) = Package

PackagePath(url) == MainDir \o <<"packages">> \o Tail(url)

\* MUTANT: the import directories tried in the order they were added.
OldestDirectoryFirst(url) ==
  LET first == SelectInSeq(importDirs, LAMBDA dir : dir \o url \in DOMAIN disk)
  IN CASE MainDir \o url \in DOMAIN disk -> MainDir \o url
       [] first # 0 -> importDirs[first] \o url
       [] OTHER -> Nowhere

\* Script::resolveRelativeImportPath: beside the main script, then in the import
\* directories from the last one added to the first.
Resolve(url) ==
  IF MainDir \o url \in DOMAIN disk THEN MainDir \o url
  ELSE LET last == SelectLastInSeq(importDirs, LAMBDA dir : dir \o url \in DOMAIN disk)
       IN IF last = 0 THEN Nowhere ELSE importDirs[last] \o url

\* Where the handler looks for a part.  A library that is not in
\* mImportedLibraries is taken for the main script.
PartPath(lib, url) ==
  IF lib \in DOMAIN imported THEN Front(imported[lib]) \o url ELSE Resolve(url)

-----------------------------------------------------------------------------
(* How a load goes on *)

\* A DartException thrown by the handler crosses the frames of the VM, which is
\* not built for exceptions: it reaches Script::create, or ends the process.
ThrowThroughVM ==
  /\ status' \in {"DartException", "aborted"}
  /\ UNCHANGED <<library, source, stack>>

\* The text found for the directive at hand is parsed before the handler goes on.
BeginLoad(url, path) ==
  /\ library' = Put(library, url, "loading")
  /\ source' = Put(source, url, path)
  /\ stack' = Append(Proceed(stack), Load(url, path))
  /\ UNCHANGED status

\* MUTANT: only a library that is completely loaded counts.
RegisteredOnceLoaded(url) == url \in DOMAIN library /\ library[url] = "loaded"

\* The VM registers a library under its URL before it asks for its text.
Registered(url) == url \in DOMAIN library

\* The part becomes part of the library that has the directive.
LoadSource(url, path) ==
  parts' = parts \cup {[lib |-> Top.lib, url |-> url, path |-> path]}

\* The natives of the library are looked up with Script::resolveNameHandler.
SetNativeResolver(lib) == natives' = natives \cup {lib}

-----------------------------------------------------------------------------
(* libraryTagHandler, called with the directive at hand *)

AtDirective(tag) == status = "loading" /\ Top.rest # <<>> /\ Here.tag = tag

\* The library is there already, cinder.dart for one, or its load is under way
\* further down the stack: the VM does not call the handler.
ImportRegistered ==
  /\ AtDirective("import")
  /\ Registered(Here.url)
  /\ stack' = Proceed(stack)
  /\ UNCHANGED <<fileVars, imported, library, source, parts, natives, status>>

\* MUTANT: the package is recorded when its load is over, as relative imports are.
PackageRecordedLater ==
  /\ AtDirective("import")
  /\ ~ Registered(Here.url)
  /\ IsPackage(Here.url)
  /\ LET path == PackagePath(Here.url)
     IN IF path \in DOMAIN disk THEN BeginLoad(Here.url, path) ELSE ThrowThroughVM
  /\ UNCHANGED <<fileVars, imported, parts, natives>>

\* The package is recorded before its text is read and before it is parsed.
ImportPackage ==
  /\ AtDirective("import")
  /\ ~ Registered(Here.url)
  /\ IsPackage(Here.url)
  /\ LET path == PackagePath(Here.url)
     IN /\ imported' = Put(imported, Here.url, path)
        /\ IF path \in DOMAIN disk THEN BeginLoad(Here.url, path) ELSE ThrowThroughVM
  /\ UNCHANGED <<fileVars, parts, natives>>

ImportRelative ==
  /\ AtDirective("import")
  /\ ~ Registered(Here.url)
  /\ ~ IsPackage(Here.url)
  /\ Resolve(Here.url) # Nowhere
  /\ BeginLoad(Here.url, Resolve(Here.url))
  /\ UNCHANGED <<fileVars, imported, parts, natives>>

\* "could not resolve library with url": an error handle, which the VM raises in
\* the library that has the directive.
ImportUnresolved ==
  /\ AtDirective("import")
  /\ ~ Registered(Here.url)
  /\ ~ IsPackage(Here.url)
  /\ Resolve(Here.url) = Nowhere
  /\ status' = "raising"
  /\ UNCHANGED <<fileVars, imported, library, source, parts, natives, stack>>

PartMissing ==
  /\ AtDirective("part")
  /\ PartPath(Top.lib, Here.url) \notin DOMAIN disk
  /\ ThrowThroughVM
  /\ UNCHANGED <<fileVars, imported, parts, natives>>

\* Dart_LoadSource parses the part at once.
PartLoaded ==
  /\ AtDirective("part")
  /\ LET path == PartPath(Top.lib, Here.url)
     IN /\ path \in DOMAIN disk
        /\ disk[path].valid
        /\ LoadSource(Here.url, path)
  /\ stack' = Proceed(stack)
  /\ UNCHANGED <<fileVars, imported, library, source, natives, status>>

\* MUTANT: the error is only logged, and the handler goes on.
PartErrorDropped ==
  /\ AtDirective("part")
  /\ LET path == PartPath(Top.lib, Here.url)
     IN path \in DOMAIN disk /\ ~ disk[path].valid
  /\ status' = IF Asserts THEN "aborted" ELSE "loading"
  /\ stack' = Proceed(stack)
  /\ UNCHANGED <<fileVars, imported, library, source, parts, natives>>

\* The error of Dart_LoadSource meets a CIDART_CHECK and, if the process
\* survives that, is returned to the VM.
PartInvalid ==
  /\ AtDirective("part")
  /\ LET path == PartPath(Top.lib, Here.url)
     IN path \in DOMAIN disk /\ ~ disk[path].valid
  /\ status' = IF Asserts THEN "aborted" ELSE "raising"
  /\ UNCHANGED <<fileVars, imported, library, source, parts, natives, stack>>

-----------------------------------------------------------------------------
(* The end of a nested load, and what the handler that began it does then *)

AtEnd == status = "loading" /\ Top.rest = <<>>

\* The declarations do not compile.
BodyInvalid ==
  /\ AtEnd
  /\ ~ disk[source[Top.lib]].valid
  /\ status' = "raising"
  /\ UNCHANGED <<fileVars, imported, library, source, parts, natives, stack>>

Loaded == AtEnd /\ disk[source[Top.lib]].valid

\* Script::init goes on after Dart_LoadScript and sets the native resolver.
ScriptLoaded ==
  /\ Loaded
  /\ Top.lib = MainUrl
  /\ library' = [library EXCEPT ![MainUrl] = "loaded"]
  /\ SetNativeResolver(MainUrl)
  /\ stack' = Front(stack)
  /\ status' = "loaded"
  /\ UNCHANGED <<fileVars, imported, source, parts>>

PackageLoaded ==
  /\ Loaded
  /\ Top.lib # MainUrl
  /\ IsPackage(Top.lib)
  /\ library' = [library EXCEPT ![Top.lib] = "loaded"]
  /\ stack' = Front(stack)
  /\ UNCHANGED <<fileVars, imported, source, parts, natives, status>>

\* MUTANT: the handler returns without recording the library.
RelativeNotRecorded ==
  /\ Loaded
  /\ Top.lib # MainUrl
  /\ ~ IsPackage(Top.lib)
  /\ library' = [library EXCEPT ![Top.lib] = "loaded"]
  /\ SetNativeResolver(Top.lib)
  /\ stack' = Front(stack)
  /\ UNCHANGED <<fileVars, imported, source, parts, status>>

\* A library found relative to a directory gets its native resolver and is
\* recorded only now, after its imports and parts.
RelativeLoaded ==
  /\ Loaded
  /\ Top.lib # MainUrl
  /\ ~ IsPackage(Top.lib)
  /\ library' = [library EXCEPT ![Top.lib] = "loaded"]
  /\ SetNativeResolver(Top.lib)
  /\ imported' = Put(imported, Top.lib, source[Top.lib])
  /\ stack' = Front(stack)
  /\ UNCHANGED <<fileVars, source, parts, status>>

\* MUTANT: the VM forgets a library it could not load.
GiveUpForgets ==
  /\ status = "raising"
  /\ library' = RestrictDomain(library, LAMBDA url : url # Top.lib)
  /\ stack' = Front(stack)
  /\ UNCHANGED <<fileVars, imported, source, parts, natives>>

\* The VM gives up the library it raises an error in.
GiveUp ==
  /\ status = "raising"
  /\ library' = [library EXCEPT ![Top.lib] = "failed"]
  /\ stack' = Front(stack)
  /\ UNCHANGED <<fileVars, imported, source, parts, natives>>

\* Dart_LoadScript answers the error.
ScriptFails == GiveUp /\ Top.lib = MainUrl /\ status' = "error"

\* The handler throws the error of Dart_LoadLibrary as a DartException.
RelativeFails ==
  /\ GiveUp
  /\ Top.lib # MainUrl
  /\ ~ IsPackage(Top.lib)
  /\ status' \in {"DartException", "aborted"}

\* MUTANT: the handler logs the error and answers the VM as if all was well.
PackageErrorDropped ==
  /\ GiveUp
  /\ Top.lib # MainUrl
  /\ IsPackage(Top.lib)
  /\ status' = IF Asserts THEN "aborted" ELSE "loading"

\* MUTANT: the handler meets an error by loading the package again.
PackageRetried ==
  /\ status = "raising"
  /\ Top.lib # MainUrl
  /\ IsPackage(Top.lib)
  /\ stack' = Append(Front(stack), Load(Top.lib, source[Top.lib]))
  /\ status' = IF Asserts THEN "aborted" ELSE "loading"
  /\ UNCHANGED <<fileVars, imported, library, source, parts, natives>>

\* The handler logs the error under CIDART_CHECK and, if the process survives
\* that, returns it to the VM, which raises it in the importing library.
PackageFails ==
  /\ GiveUp
  /\ Top.lib # MainUrl
  /\ IsPackage(Top.lib)
  /\ status' = IF Asserts THEN "aborted" ELSE "raising"

-----------------------------------------------------------------------------

Next ==
  \/ ImportRegistered \/ ImportPackage \/ ImportRelative \/ ImportUnresolved
  \/ PartLoaded \/ PartMissing \/ PartInvalid
  \/ BodyInvalid \/ ScriptLoaded \/ PackageLoaded \/ RelativeLoaded
  \/ ScriptFails \/ RelativeFails \/ PackageFails

Spec == Init /\ [][Next]_vars

\* Parsing and the handler are straight-line code: a step that can be taken is.
FairSpec == Spec /\ WF_vars(Next)

-----------------------------------------------------------------------------
(* Properties *)

\* The libraries the script imported, as opposed to itself and cinder.dart.
Imports == DOMAIN library \ {MainUrl, CinderUrl}

Directives(lib) == ToSet(disk[source[lib]].directives)

\* A script that loads is complete.  However deep an import failed, by an error
\* handle that some handlers throw and others only log, the script that needs it
\* is not taken for loaded: each library has all its imports and parts.
SuccessIsComplete ==
  status = "loaded" =>
    \A lib \in DOMAIN source :
      /\ library[lib] = "loaded"
      /\ disk[source[lib]].valid
      /\ \A d \in Directives(lib) :
           IF d.tag = "import" THEN d.url \in DOMAIN library
           ELSE \E p \in parts : p.lib = lib /\ p.url = d.url

\* getImportedLibraries, "a map of libraries this Script imported", is exactly
\* that when the script has loaded, although its entries are written at
\* different times; and the libraries that can have natives are the main script,
\* cinder.dart and those that were imported by a relative URL.
ImportedMatchesLoaded ==
  status = "loaded" =>
    /\ imported = [url \in Imports |-> source[url]]
    /\ natives = {url \in DOMAIN library : url \in {MainUrl, CinderUrl} \/ ~ IsPackage(url)}

\* The parts of a package come from the folder of the library they belong to,
\* never from a file of the same name beside the script or in an import
\* directory.
PackagePartsBesideLibrary ==
  \A p \in parts : p.lib # MainUrl /\ IsPackage(p.lib) =>
    p.path = Front(source[p.lib]) \o p.url

\* A relative import takes the file beside the main script if there is one, and
\* else the one in the import directory added last: directory i is used only if
\* no directory the search prefers has the file.
NearestFileWins ==
  \A lib \in DOMAIN source \ {MainUrl} : ~ IsPackage(lib) =>
    \/ source[lib] = MainDir \o lib
    \/ /\ MainDir \o lib \notin DOMAIN disk
       /\ \E i \in 1..Len(importDirs) :
            /\ source[lib] = importDirs[i] \o lib
            /\ \A j \in i+1..Len(importDirs) : importDirs[j] \o lib \notin DOMAIN disk

\* With libraries that import each other, no load is begun inside itself.
NoReentry == \A i, j \in 1..Len(stack) : stack[i].lib = stack[j].lib => i = j

\* What the handler finds for a library, and for a part of one.
TextOf(url) ==
  IF url = MainUrl THEN MainScript ELSE IF IsPackage(url) THEN PackagePath(url) ELSE Resolve(url)

PartOf(lib, url) ==
  IF lib # MainUrl /\ IsPackage(lib) THEN Front(TextOf(lib)) \o url ELSE Resolve(url)

\* The libraries there is a text of, among those that some file names.
Findable ==
  LET named == UNION {{d.url : d \in ToSet(disk[path].directives)} : path \in DOMAIN disk}
  IN {url \in ({MainUrl} \cup named) \ {CinderUrl} : TextOf(url) \in DOMAIN disk}

Compiles(path) == path \in DOMAIN disk /\ disk[path].valid

ImportsOf(lib) ==
  {d.url : d \in {e \in ToSet(disk[TextOf(lib)].directives) : e.tag = "import"}} \ {CinderUrl}

IsWhole(lib) ==
  /\ Compiles(TextOf(lib))
  /\ \A d \in ToSet(disk[TextOf(lib)].directives) :
       d.tag = "part" => Compiles(PartOf(lib, d.url))

\* What the files come to, and what becomes of the load.
ImportGraph    == [lib \in Findable |-> ImportsOf(lib)]
WholeLibraries == {lib \in Findable : IsWhole(lib)}
Outcome        == IF status \in {"loading", "loaded"} THEN status ELSE "failed"

\* The nested loads, seen from outside: that of a library succeeds or fails as
\* the files have it, and the handlers that run around it change nothing.
Graph ==
  INSTANCE LibraryGraph WITH
    Main    <- MainUrl,
    imports <- ImportGraph,
    whole   <- WholeLibraries,
    found   <- DOMAIN source,
    outcome <- Outcome

\* The handler and the VM together find libraries only along imports, and end the
\* load well only with all of them whole, badly only on account of one they found.
ImplementsGraph == Graph!Spec

\* A script loads if and only if all it needs is there, where the handler looks for
\* it, and compiles: whatever imports form a cycle, are met twice, or fail deep
\* inside a load whose handlers each treat the error in another way, no script
\* fails that is complete, and none passes that is not.
OutcomeIsThatOfTheFiles == Graph!OutcomeIsThatOfTheFiles

\* Every load comes to an end, whatever libraries import each other.
LoadEnds == <>(status \in {"loaded", "error", "DartException", "aborted"})

(* A claim of a comment that the code does not keep. *)

\* Script.cpp, where the path of a part is made: "to handle 'part of' sources for
\* the current main library, need to load the main libs path into
\* mImportedLibaries", and the assertion written there that, but for the main
\* library, pathIt is found.
PartFallbackOnlyForMain ==
  AtDirective("part") /\ Top.lib # MainUrl => Top.lib \in DOMAIN imported

=============================================================================
