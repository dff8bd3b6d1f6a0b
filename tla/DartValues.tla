------------------------------ MODULE DartValues ------------------------------
(***************************************************************************)
(* Handles of Dart objects and the functions of dart_api.h that the        *)
(* library reads and makes them with.  A handle is a record that says what *)
(* kind of object it refers to, or that it is an error handle.  A function *)
(* that returns through a pointer gives the set of what it may put there,  *)
(* which is empty where it answers an error and leaves the variable alone. *)
(*                                                                         *)
(* Doubles are given in halves, see Conversions.                           *)
(***************************************************************************)
EXTENDS Integers, Sequences

CONSTANT
  LongHalf  \* an int64_t ranges over -LongHalf .. LongHalf - 1, that is 2^63

LongRange == -LongHalf .. LongHalf - 1

Error     == [kind |-> "error"]
Dart_Null == [kind |-> "null"]

Object(fields)  == [kind |-> "object", fields |-> fields]
Map(entries)    == [kind |-> "map", entries |-> entries]
Arguments(list) == [kind |-> "arguments", list |-> list]
List(elements)  == [kind |-> "list", elements |-> elements]
Type(name)      == [kind |-> "type", name |-> name]
Function        == [kind |-> "function"]

\* A library or a class, with the names of its functions.
Library(functions) == [kind |-> "library", functions |-> functions]

Dart_IsError(h)   == h.kind = "error"
Dart_IsNull(h)    == h.kind = "null"
Dart_IsInteger(h) == h.kind = "int"
Dart_IsDouble(h)  == h.kind = "double"
Dart_IsString(h)  == h.kind = "string"
Dart_IsMap(h)     == h.kind = "map"

Dart_NewInteger(n)              == [kind |-> "int", n |-> n]
Dart_NewDouble(halves)          == [kind |-> "double", halves |-> halves]
Dart_NewStringFromCString(text) == [kind |-> "string", text |-> text]

\* "The integer must fit into a 64-bit signed integer, otherwise an error occurs."
Dart_IntegerToInt64(h)  == IF Dart_IsInteger(h) /\ h.n \in LongRange THEN {h.n} ELSE {}
Dart_DoubleValue(h)     == IF Dart_IsDouble(h) THEN {h.halves} ELSE {}
Dart_BooleanValue(h)    == IF h.kind = "bool" THEN {h.b} ELSE {}
Dart_StringToCString(h) == IF Dart_IsString(h) THEN {h.text} ELSE {}

\* What has no such field, null and the numbers among it, answers an error.
Dart_GetField(container, name) ==
  IF container.kind = "object" /\ name \in DOMAIN container.fields
    THEN container.fields[name] ELSE Error

\* "The value in the map at the specified key, null if the map does not contain
\* the key, or an error handle."
Dart_MapGetAt(map, key) ==
  IF ~ Dart_IsMap(map) THEN Error
  ELSE IF key \in DOMAIN map.entries THEN map.entries[key] ELSE Dart_Null

\* Dart_Invoke of the operator [] with a string, which of the kinds of objects
\* here a map has.
Dart_InvokeIndex(target, key) == Dart_MapGetAt(target, key)

\* A list is asked for its length, which is put into a variable, and for the
\* object at an index; out of bounds, or of what is no list, is an error.
Dart_ListLength(list) == IF list.kind = "list" THEN {Len(list.elements)} ELSE {}

Dart_ListGetAt(list, index) ==
  IF list.kind = "list" /\ index + 1 \in DOMAIN list.elements
    THEN list.elements[index + 1] ELSE Error

Dart_GetNativeArgumentCount(args) == Len(args.list)

\* The behavior of an access out of bounds is not specified.
IsArgument(args, index) == args.kind = "arguments" /\ index + 1 \in DOMAIN args.list

Dart_GetNativeArgument(args, index) ==
  IF IsArgument(args, index) THEN args.list[index + 1] ELSE Error

\* Libraries, classes and types are handles, but no Dart language objects: of
\* those only does Dart_InstanceGetType know the type.
IsInstance(h) == h.kind \notin {"error", "library", "type", "function", "arguments"}

\* A type bears the name of the kind of its objects here.
Dart_InstanceGetType(h) == IF IsInstance(h) THEN Type(h.kind) ELSE Error
Dart_TypeName(t) == IF t.kind = "type" THEN Dart_NewStringFromCString(t.name) ELSE Error

\* Null where the library or class has no such function.
Dart_LookupFunction(target, name) ==
  IF target.kind # "library" THEN Error ELSE IF name \in target.functions THEN Function ELSE Dart_Null

\* The names of the functions of a class: some list of strings.
Dart_GetFunctionNames(target) ==
  IF target.kind = "type" THEN {List(<<Dart_NewStringFromCString("toString")>>), Error} ELSE {Error}

\* cinder.dart is there under that URL, and any other library if the script imports it.
Dart_LookupLibrary(url) == IF url = "cinder.dart" THEN {Library({})} ELSE {Library({}), Error}

Dart_GetClass(library, name) == IF library.kind = "library" THEN {Type(name), Error} ELSE {Error}

\* Whether an object is an instance of a type is not modelled: either may be.
Dart_ObjectIsType(h, class) == IF class.kind = "type" /\ IsInstance(h) THEN BOOLEAN ELSE {}

\* Dart_New of vector_math's Vector3, whose fields are named as in a vec3.
Dart_NewVector3(x, y, z) ==
  Object([f \in {"x", "y", "z"} |-> IF f = "x" THEN x ELSE IF f = "y" THEN y ELSE z])

=============================================================================
