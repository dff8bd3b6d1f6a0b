---------------------------- MODULE LibraryGraph ----------------------------
(***************************************************************************)
(* What loading a script comes to, whatever the VM and the tag handler do  *)
(* one inside the other: libraries are found one after another, in some    *)
(* order, each because one that was found imports it.  The script loads    *)
(* once all that they import was found and every one of them is whole; it  *)
(* fails on account of one that is not, or that imports what there is not. *)
(***************************************************************************)
CONSTANT Main   \* the main script

VARIABLES
  imports,  \* from each library there is a text of to the libraries it imports
  whole,    \* the libraries that compile, with all their parts
  found,    \* the libraries whose text the VM was given
  outcome   \* how the load goes on or ended

vars == <<imports, whole, found, outcome>>

Init ==
  /\ imports = [lib \in DOMAIN imports |-> imports[lib]]
  /\ whole \subseteq DOMAIN imports
  /\ Main \in DOMAIN imports
  /\ found = {Main}
  /\ outcome = "loading"

Find(lib) ==
  /\ outcome = "loading"
  /\ lib \in DOMAIN imports \ found
  /\ \E importer \in found : lib \in imports[importer]
  /\ found' = found \cup {lib}
  /\ UNCHANGED <<imports, whole, outcome>>

\* The libraries that cannot be loaded, whatever else there is.
Broken == {lib \in DOMAIN imports : lib \notin whole \/ ~ (imports[lib] \subseteq DOMAIN imports)}

Succeed ==
  /\ outcome = "loading"
  /\ found \subseteq whole
  /\ \A lib \in found : imports[lib] \subseteq found
  /\ outcome' = "loaded"
  /\ UNCHANGED <<imports, whole, found>>

Fail ==
  /\ outcome = "loading"
  /\ found \cap Broken # {}
  /\ outcome' = "failed"
  /\ UNCHANGED <<imports, whole, found>>

Next == (\E lib \in DOMAIN imports : Find(lib)) \/ Succeed \/ Fail

Spec == Init /\ [][Next]_vars

\* Whether there is all that the main script needs: it is whole, and so are the
\* libraries it imports, and those they import.  No order comes into this.
Complete(libs) == \A lib \in libs : lib \in whole /\ imports[lib] \subseteq libs
Loads == \E libs \in SUBSET DOMAIN imports : Main \in libs /\ Complete(libs)

\* The outcome is that of the files alone: neither the order of the imports nor
\* which load runs inside which changes it.
OutcomeIsThatOfTheFiles == outcome # "loading" => (outcome = "loaded" <=> Loads)

=============================================================================
