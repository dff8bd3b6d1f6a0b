--------------------------- MODULE MCConversions ---------------------------
(***************************************************************************)
(* The C++ types, and Dart objects for each of their cases: integers and   *)
(* doubles on both sides of every bound, what is no number at all, objects *)
(* of the classes of cinder.dart, and objects with a field missing or of   *)
(* the wrong kind.                                                         *)
(***************************************************************************)
EXTENDS Conversions

MCTypes == Structured \cup Scalars \cup {"Level"}

Integer(n) == Dart_NewInteger(n)
Double(h)  == Dart_NewDouble(h)
String     == Dart_NewStringFromCString("a")

Numerals ==
  {Integer(n) : n \in {-LongHalf - 1, -IntHalf - 1, -IntHalf, -1, 0, IntHalf - 1, IntHalf, LongHalf}}
    \cup {Double(h) : h \in {-2 * IntHalf - 2, -3, 3, 2 * IntHalf - 1, 2 * IntHalf}}
Plain == Numerals \cup {[kind |-> "bool", b |-> TRUE], String, Dart_Null}

\* Objects of cinder.dart with numbers in all fields, or something else in one.
CinderObjects ==
  UNION {{Object([f \in CinderClass[c] |-> Double(3)]),
          Object([f \in CinderClass[c] |-> Integer(IntHalf)])} : c \in DOMAIN CinderClass}
Spoilt ==
  UNION {{Object([f \in CinderClass[c] |-> IF f = g THEN h ELSE Double(5)]) :
            g \in CinderClass[c], h \in {String, Dart_Null, Integer(LongHalf)}}
         : c \in DOMAIN CinderClass}
Partial == {Object([f \in fs |-> Double(3)]) : fs \in SUBSET {"x", "y", "z", "w"}}
LogLevels == {Object([f \in {"index"} |-> h]) : h \in {Integer(i) : i \in 0..5} \cup {String}}

MCHandles == Plain \cup CinderObjects \cup Spoilt \cup Partial \cup LogLevels
=============================================================================
