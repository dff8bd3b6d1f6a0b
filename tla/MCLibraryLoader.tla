-------------------------- MODULE MCLibraryLoader --------------------------
(***************************************************************************)
(* File systems for LibraryLoader: two libraries a.dart and b.dart that    *)
(* may import each other, a package, and a part that any of them may have. *)
(* Every file but the main script may be missing, may be in more than one *)
(* directory, and may not compile.                                         *)
(***************************************************************************)
EXTENDS LibraryLoader

Import(url) == [tag |-> "import", url |-> url]
Part(url)   == [tag |-> "part", url |-> url]
File(directives, valid) == [directives |-> directives, valid |-> valid]

Main   == <<"app", "main.dart">>
A      == <<"a.dart">>
B      == <<"b.dart">>
P      == <<"package:", "p", "p.dart">>
Cinder == <<"cinder.dart">>
X      == <<"x.dart">>

MCSegments == {"app", "main.dart", "a.dart", "b.dart", "package:", "p", "p.dart", "cinder.dart",
               "x.dart", "old", "new", "packages"}

Old == <<"old">>
New == <<"new">>

In(dirs, url) == {dir \o url : dir \in dirs}
At(paths, file) == [path \in paths |-> file]
App == <<"app">>
PackageDir == <<"app", "packages", "p">>

\* The main script imports one of them or several, or has a part.
MainFiles == {File(l, TRUE) : l \in {<<Import(A), Import(B)>>, <<Import(Cinder), Import(A)>>,
                                     <<Import(P)>>, <<Import(P), Part(X)>>}}
\* a.dart leads on to b.dart or the package, or has the part.
AFiles == {File(l, TRUE) : l \in {<<Import(B)>>, <<Import(P)>>, <<Part(X)>>}}
\* b.dart and the package lead back to a.dart or have the part; they may be
\* wrong.  The package may import the main script, under another URL than its own.
BFiles == {File(l, v) : l \in {<<Import(A)>>, <<Part(X)>>}, v \in BOOLEAN}
PFiles == BFiles \cup {File(<<Import(Tail(Main))>>, TRUE)}
XFiles == {File(<<>>, v) : v \in BOOLEAN}

MCDisks ==
  {At({Main}, m) @@ At(as, a) @@ At(bs, b) @@ At(ps, p) @@ At(xs, x) :
     m \in MainFiles,
     a \in AFiles, as \in SUBSET In({App, Old, New}, A),
     b \in BFiles, bs \in SUBSET In({New}, B),
     p \in PFiles, ps \in SUBSET {PackageDir \o <<"p.dart">>},
     x \in XFiles, xs \in SUBSET In({App, New, PackageDir}, X)}

MCSearchPaths == {<<>>, <<Old, New>>}
=============================================================================
