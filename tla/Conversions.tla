----------------------------- MODULE Conversions -----------------------------
(***************************************************************************)
(* The getValue family: what a C++ variable holds after it was asked for   *)
(* from a Dart object, and where control goes when the object is not what  *)
(* was expected.  A structured value is converted in two passes, first all *)
(* fields are looked up and then all are converted, and each conversion   *)
(* may end the whole of it.  Beside them are the functions that ask for    *)
(* what an object is: its type, its functions, its class.                  *)
(*                                                                         *)
(* Doubles and floats are multiples of one half here: truncation shows,    *)
(* the rounding of large floats does not.                                  *)
(***************************************************************************)
EXTENDS DartValues

CONSTANTS
  IntHalf,   \* an int ranges over -IntHalf .. IntHalf - 1, that is 2^31
  Types,     \* the C++ types asked for
  Handles    \* the Dart objects they are asked from

ASSUME WidthsAssumption ==
  /\ IntHalf \in Nat \ {0}
  /\ LongHalf \in Nat \ {0}
  /\ IntHalf <= LongHalf

VARIABLES
  asserts,  \* is this a Debug build?
  inDart,   \* is there Dart code below the code that converts?
  type,     \* the C++ type
  access,   \* the function called, "getValue" once it has found the object
  handle,   \* the Dart object, before that what it is to be found in
  pending,  \* the components still to be converted, in the order of the code
  result,   \* each component of the C++ variable
  status    \* "asked", "looking up", "converting", or how it ended

vars == <<asserts, inDart, type, access, handle, pending, result, status>>
call == <<asserts, inDart, type, access, handle>>

-----------------------------------------------------------------------------
(* What the C++ types are made of: the Dart fields, and the type of each. *)

Fields(names, scalar) == [i \in 1..Len(names) |-> [name |-> names[i], scalar |-> scalar]]

XY   == <<"x", "y">>
XYZ  == <<"x", "y", "z">>
XYZW == <<"x", "y", "z", "w">>

Colors ==
  [Color  |-> Fields(<<"r", "g", "b">>, "float"),
   ColorA |-> Fields(<<"r", "g", "b", "a">>, "float")]

Vectors2 ==
  [ivec2 |-> Fields(XY, "int"), vec2 |-> Fields(XY, "float"), dvec2 |-> Fields(XY, "double")]

Vectors3 ==
  [ivec3 |-> Fields(XYZ, "int"), vec3 |-> Fields(XYZ, "float"), dvec3 |-> Fields(XYZ, "double")]

Vectors4 ==
  [ivec4 |-> Fields(XYZW, "int"), vec4 |-> Fields(XYZW, "float"), dvec4 |-> Fields(XYZW, "double")]

Matrix ==
  [mat4 |-> Fields(<<"r1x", "r2x", "r3x", "r4x", "r1y", "r2y", "r3y", "r4y",
                     "r1z", "r2z", "r3z", "r4z", "r1w", "r2w", "r3w", "r4w">>, "float")]

Quaternions == [quat |-> Fields(XYZW, "float"), dquat |-> Fields(XYZW, "double")]

\* MUTANT: a rectangle is taken for a position and a size.
PositionAndSize == [Rectf |-> Fields(<<"x", "y", "width", "height">>, "float")]

Rectangle == [Rectf |-> Fields(<<"x1", "x2", "y1", "y2">>, "float")]

Groups == {Colors, Vectors2, Vectors3, Vectors4, Matrix, Quaternions, Rectangle}

Structured == UNION {DOMAIN group : group \in Groups}

\* MUTANT: the cases of the switch follow the severity downwards.
LevelsReversed == <<"FATAL", "ERROR", "WARNING", "INFO", "VERBOSE">>

\* The cases of the switch over the index of a LogLevel, from 0.
Levels == <<"VERBOSE", "INFO", "WARNING", "ERROR", "FATAL">>

ASSUME LevelsAssumption == Len(Levels) <= IntHalf

\* What cinder.dart declares: the enum, and the fields of its classes.
LogLevel == <<"VERBOSE", "INFO", "WARNING", "ERROR", "FATAL">>

CinderClass ==
  [vec2 |-> {"x", "y"}, ivec2 |-> {"x", "y"},
   vec3 |-> {"x", "y", "z"}, ivec3 |-> {"x", "y"},
   vec4 |-> {"x", "y", "z", "w"},
   Color |-> {"r", "g", "b", "a"},
   Rect |-> {"x1", "x2", "y1", "y2"},
   mat4 |-> {"r1x", "r2x", "r3x", "r4x", "r1y", "r2y", "r3y", "r4y",
             "r1z", "r2z", "r3z", "r4z", "r1w", "r2w", "r3w", "r4w"}]

\* The class of cinder.dart that a C++ type is meant for.
CinderType ==
  [vec2 |-> "vec2", dvec2 |-> "vec2", ivec2 |-> "ivec2",
   vec3 |-> "vec3", dvec3 |-> "vec3", ivec3 |-> "ivec3",
   vec4 |-> "vec4", dvec4 |-> "vec4", Color |-> "Color", ColorA |-> "Color",
   Rectf |-> "Rect", mat4 |-> "mat4"]

-----------------------------------------------------------------------------
(* Numbers *)

IntRange  == -IntHalf .. IntHalf - 1
SizeRange == 0 .. 2 * LongHalf - 1

\* MUTANT: a number too large becomes the largest.
SaturateInt(n) == IF n > IntHalf - 1 THEN IntHalf - 1 ELSE IF n < -IntHalf THEN -IntHalf ELSE n

\* Conversions of an int64_t: to a narrower type, and to an unsigned one.
WrapInt(n)  == ((n + IntHalf) % (2 * IntHalf)) - IntHalf
WrapSize(n) == n % (2 * LongHalf)

\* Conversion of a double, given in halves, to an integer: towards zero.
Truncate(halves) == IF halves >= 0 THEN halves \div 2 ELSE -((-halves) \div 2)

\* A double that does not fit is undefined behaviour: any value may result.
FromDouble(halves, range) ==
  IF Truncate(halves) \in range THEN {Truncate(halves)} ELSE range

IsNumber(h) == Dart_IsDouble(h) \/ Dart_IsInteger(h)

FromInt64(scalar, n) ==
  IF scalar = "int" THEN WrapInt(n) ELSE IF scalar = "size_t" THEN WrapSize(n) ELSE 2 * n

\* What a number may be made into.
Outcomes(scalar, h) ==
  IF Dart_IsInteger(h) THEN {FromInt64(scalar, n) : n \in Dart_IntegerToInt64(h)}
  ELSE UNION {IF scalar = "int" THEN FromDouble(d, IntRange)
              ELSE IF scalar = "size_t" THEN FromDouble(d, SizeRange) ELSE {d}
                : d \in Dart_DoubleValue(h)}

\* toDart of a number or of a string.
ToDart(scalar, v) ==
  IF scalar = "int" THEN Dart_NewInteger(v)
  ELSE IF scalar \in {"float", "double"} THEN Dart_NewDouble(v)
  ELSE Dart_NewStringFromCString(v)

\* toDart of a vec3.
Vec3ToDart(x, y, z) ==
  Dart_NewVector3(ToDart("float", x), ToDart("float", y), ToDart("float", z))

-----------------------------------------------------------------------------
(* The call *)

\* A component holds what the constructor of the C++ type put there, what was
\* there when a number was declared without a value, the default value that
\* the caller gave, or what was converted.
Constructed == <<"constructed">>
Default     == <<"default">>
Garbage     == <<"garbage">>
Got(v)      == <<"got", v>>

Numbers == {"int", "size_t", "float", "double"}
Scalars == Numbers \cup {"bool", "string"}

ASSUME TypesAssumption == Types \subseteq Structured \cup Scalars \cup {"Level"}

\* What getValue converts for a type; a scalar is its own only component.
Components(t) ==
  IF t \in Structured THEN (CHOOSE group \in Groups : t \in DOMAIN group)[t]
  ELSE IF t = "Level" THEN Fields(<<"index">>, "int")
  ELSE Fields(<<"self">>, t)

\* The object a component is converted from.
Source(c) == IF c.name = "self" THEN handle ELSE Dart_GetField(handle, c.name)

Missing == {i \in DOMAIN Components(type) : Dart_IsError(Source(Components(type)[i]))}

\* "T result;" of getValue<T>.
Declared(t) ==
  [name \in {Components(t)[i].name : i \in DOMAIN Components(t)} |->
     IF t \in Structured \cup {"string"} THEN Constructed ELSE Garbage]

FirstStep == IF type \in Structured THEN "looking up" ELSE "converting"

\* What the Dart VM keeps of its objects: an integer is an integer, of whatever
\* size, and what a field holds is an object, never an error handle.
WellFormed(h) ==
  /\ Dart_IsInteger(h) => h.n \in Int
  /\ Dart_IsDouble(h) => h.halves \in Int

ASSUME HandlesAssumption ==
  \A h \in Handles :
    /\ WellFormed(h)
    /\ h.kind = "object" =>
         \A f \in DOMAIN h.fields : WellFormed(h.fields[f]) /\ ~ Dart_IsError(h.fields[f])

\* The name, the key or the index under which the object is to be found.
Key == "value"
Index == 0

Keyed == {[k \in {Key} |-> h] : h \in Handles}
None  == [k \in {} |-> Error]

\* What the functions look in: something that holds the object, something that
\* does not, and what is no such thing at all.
Containers(a) ==
  IF a \in {"getField", "getFieldOrDefault"}
    THEN {Object(fields) : fields \in Keyed \cup {None}} \cup {Dart_Null, Error}
  ELSE IF a \in {"getMapValueForKey", "getFloatForKey"}
    THEN {Map(entries) : entries \in Keyed \cup {None}} \cup {Dart_Null, Error, Object(None)}
  ELSE IF a = "hasFunction" THEN {Library({Key}), Library({}), Dart_Null, Error}
  ELSE IF a \in {"isCinderClass", "getTypeName"} THEN Handles \cup {Library({}), Dart_Null, Error}
  ELSE {Arguments(<<h>>) : h \in Handles} \cup {Arguments(<<>>)}

\* Names of types, which getTypeName gives to getValue.
TypeNames == {Dart_TypeName(Dart_InstanceGetType(h)) : h \in Handles \cup {Dart_Null}}

\* The functions that find an object for getValue, those that ask about one, and
\* what the latter return.
Finding == {"getField", "getFieldOrDefault", "getMapValueForKey", "getFloatForKey", "getArg"}

Queries ==
  [hasFunction |-> "bool", isCinderClass |-> "bool",
   getTypeName |-> "string", printNativeArgumentsToString |-> "string"]

TypeOK ==
  /\ asserts \in BOOLEAN
  /\ inDart \in BOOLEAN
  /\ type \in Types
  /\ access \in Finding \cup DOMAIN Queries \cup {"getValue"}
  /\ handle \in IF access = "getValue" THEN Handles \cup TypeNames \cup {Dart_Null, Error}
                ELSE Containers(access)
  /\ \E n \in 1..Len(Components(type)) + 1 :
       pending = SubSeq(Components(type), n, Len(Components(type)))
  /\ DOMAIN result = DOMAIN Declared(type)
  /\ status \in {"asked", "looking up", "converting", "returned", "thrown", "aborted"}

Init ==
  /\ asserts \in BOOLEAN
  /\ inDart \in BOOLEAN
  /\ type \in Types
  /\ pending = Components(type)
  /\ result = Declared(type)
  /\ \/ access = "getValue" /\ handle \in Handles /\ status = FirstStep
     \/ /\ \/ access \in Finding /\ (access = "getFloatForKey" => type = "float")
           \/ access \in DOMAIN Queries /\ type = Queries[access]
        /\ handle \in Containers(access)
        /\ status = "asked"

-----------------------------------------------------------------------------
(* Finding the object *)

\* What was found is given to getValue, an error handle too.
Found(h) ==
  /\ access' = "getValue"
  /\ handle' = h
  /\ status' = FirstStep
  /\ UNCHANGED <<asserts, inDart, type, pending, result>>

Abort == status' = "aborted" /\ UNCHANGED <<call, pending, result>>

Asked(a) == status = "asked" /\ access = a

GetField ==
  /\ Asked("getField")
  /\ Found(Dart_GetField(handle, Key))

\* getFieldOrDefault looks for null, and for nothing else.
DefaultTaken ==
  /\ Asked("getFieldOrDefault")
  /\ Dart_IsNull(Dart_GetField(handle, Key))
  /\ result' = [name \in DOMAIN result |-> Default]
  /\ status' = "returned"
  /\ UNCHANGED <<call, pending>>

DefaultNotTaken ==
  /\ Asked("getFieldOrDefault")
  /\ ~ Dart_IsNull(Dart_GetField(handle, Key))
  /\ Found(Dart_GetField(handle, Key))

\* What is no map is asserted against in a Debug build only.
GetMapValueForKey ==
  /\ Asked("getMapValueForKey")
  /\ IF asserts /\ ~ Dart_IsMap(handle) THEN Abort ELSE Found(Dart_MapGetAt(handle, Key))

\* ... and so is an error of the operator.
GetFloatForKey ==
  /\ Asked("getFloatForKey")
  /\ IF asserts /\ (~ Dart_IsMap(handle) \/ Dart_IsError(Dart_InvokeIndex(handle, Key)))
       THEN Abort ELSE Found(Dart_InvokeIndex(handle, Key))

GetArg ==
  /\ Asked("getArg")
  /\ \/ Found(Dart_GetNativeArgument(handle, Index))
     \/ ~ IsArgument(handle, Index) /\ Abort

-----------------------------------------------------------------------------
(* Asking about an object *)

\* A query returns, with this in the variable of its result.
Answer(v) ==
  /\ result' = [self |-> v]
  /\ pending' = <<>>
  /\ status' = "returned"
  /\ UNCHANGED call

\* Whatever is not null is a function: in a Release build an error handle too.
HasFunction ==
  /\ Asked("hasFunction")
  /\ LET found == Dart_LookupFunction(handle, Key) IN
     IF asserts /\ Dart_IsError(found) THEN Abort ELSE Answer(Got(~ Dart_IsNull(found)))

\* The library is looked up as "cinder".  Each error is checked, and passed on to
\* the next function; the last leaves the result as it was declared.
IsCinderClass ==
  /\ Asked("isCinderClass")
  /\ \E library \in Dart_LookupLibrary("cinder") :
     \E class \in Dart_GetClass(library, "vec2") :
       LET answers == Dart_ObjectIsType(handle, class) IN
       IF answers # {} THEN \E b \in answers : Answer(Got(b))
       ELSE IF asserts THEN Abort ELSE Answer(Garbage)

\* getTypeName gives the name to getValue<string>.
GetTypeName ==
  /\ Asked("getTypeName")
  /\ LET name == Dart_TypeName(Dart_InstanceGetType(handle)) IN
     IF asserts /\ Dart_IsError(name) THEN Abort ELSE Found(name)

\* Each CIDART_CHECK on the way through the names of the functions of a type.
NamesFail(names) ==
  \/ Dart_ListLength(names) = {}
  \/ \E length \in Dart_ListLength(names) :
       \E i \in 0 .. length - 1 : Dart_IsError(Dart_ListGetAt(names, i))

\* The text is made argument by argument, with the functions of each where they
\* were asked for; in a Debug build it ends at the first error.
PrintNativeArguments ==
  /\ Asked("printNativeArgumentsToString")
  /\ LET indices   == 0 .. Dart_GetNativeArgumentCount(handle) - 1
         TypeOf(i) == Dart_InstanceGetType(Dart_GetNativeArgument(handle, i))
     IN  \/ /\ asserts => \A i \in indices : ~ Dart_IsError(TypeOf(i))
            /\ Answer(Got("text"))
         \/ /\ asserts
            /\ \E i \in indices : \/ Dart_IsError(TypeOf(i))
                                   \/ \E names \in Dart_GetFunctionNames(TypeOf(i)) : NamesFail(names)
            /\ Abort

-----------------------------------------------------------------------------
(* getValue *)

\* MUTANT: the fields that are there are converted.
SkipMissing ==
  /\ status = "looking up"
  /\ Missing # {}
  /\ pending' = SelectSeq(pending, LAMBDA c : ~ Dart_IsError(Source(c)))
  /\ status' = "converting"
  /\ UNCHANGED <<call, result>>

\* "expected handle to have fields ..." is logged.
FieldsMissing ==
  /\ status = "looking up"
  /\ Missing # {}
  /\ status' = "returned"
  /\ UNCHANGED <<call, pending, result>>

FieldsFound ==
  /\ status = "looking up"
  /\ Missing = {}
  /\ status' = "converting"
  /\ UNCHANGED <<call, pending, result>>

Current == Head(pending)

\* The head of pending gets this value.
Assign(v) ==
  /\ result' = [result EXCEPT ![Current.name] = v]
  /\ pending' = Tail(pending)

Converting(scalars) ==
  /\ status = "converting"
  /\ pending # <<>>
  /\ Current.scalar \in scalars

\* MUTANT: the error is only logged, in any build.
CheckedByLog == Assign(Garbage) /\ UNCHANGED status

\* An error of the VM under a CIDART_CHECK, on the way to a value.
Checked == IF asserts THEN status' = "aborted" /\ UNCHANGED <<pending, result>>
                      ELSE Assign(Garbage) /\ UNCHANGED status

ConvertNumber ==
  /\ Converting(Numbers)
  /\ IsNumber(Source(Current))
  /\ \E v \in Outcomes(Current.scalar, Source(Current)) : Assign(Got(v))
  /\ UNCHANGED <<call, status>>

\* Dart_IntegerToInt64 fails and leaves its result alone.
TooLong ==
  /\ Converting(Numbers)
  /\ Dart_IsInteger(Source(Current))
  /\ Dart_IntegerToInt64(Source(Current)) = {}
  /\ Checked
  /\ UNCHANGED call

ConvertBool ==
  /\ Converting({"bool"})
  /\ \E b \in Dart_BooleanValue(Source(Current)) : Assign(Got(b))
  /\ UNCHANGED <<call, status>>

\* throwException: it leaves for the Dart code below; without any it returns, and
\* so does getValue.
Throws ==
  /\ \/ Converting(Numbers) /\ ~ IsNumber(Source(Current))
     \/ Converting({"bool"}) /\ Dart_BooleanValue(Source(Current)) = {}
  /\ IF inDart THEN status' = "thrown" /\ UNCHANGED <<pending, result>> ELSE Checked
  /\ UNCHANGED call

ConvertString ==
  /\ Converting({"string"})
  /\ IF Dart_IsString(Source(Current))
       THEN \E text \in Dart_StringToCString(Source(Current)) : Assign(Got(text))
       ELSE pending' = Tail(pending) /\ UNCHANGED result
  /\ UNCHANGED <<call, status>>

\* The index, or whatever an int nobody set happens to be, goes into the switch.
SwitchLevel ==
  /\ status = "converting"
  /\ pending = <<>>
  /\ type = "Level"
  /\ \E i \in IF result.index = Garbage THEN IntRange ELSE {result.index[2]} :
       IF i + 1 \in DOMAIN Levels
         THEN result' = [index |-> Got(Levels[i + 1])] /\ status' = "returned"
         ELSE IF asserts
           THEN status' = "aborted" /\ UNCHANGED result
           ELSE result' = [index |-> Garbage] /\ status' = "returned"
  /\ UNCHANGED <<call, pending>>

Return ==
  /\ status = "converting"
  /\ pending = <<>>
  /\ type # "Level"
  /\ status' = "returned"
  /\ UNCHANGED <<call, pending, result>>

Next ==
  \/ GetField \/ DefaultTaken \/ DefaultNotTaken
  \/ GetMapValueForKey \/ GetFloatForKey \/ GetArg
  \/ HasFunction \/ IsCinderClass \/ GetTypeName \/ PrintNativeArguments
  \/ FieldsMissing \/ FieldsFound
  \/ ConvertNumber \/ TooLong \/ ConvertBool \/ Throws \/ ConvertString
  \/ SwitchLevel \/ Return

Spec == Init /\ [][Next]_vars

-----------------------------------------------------------------------------
(* Properties *)

\* Code that goes on after a conversion never has a value that is half the
\* constructor's and half the script's, whichever field was missing and whichever
\* conversion on the way threw: all components were assigned, or none was.
AllOrNothing ==
  status = "returned" =>
    \/ \A c \in DOMAIN result : result[c] = Constructed
    \/ \A c \in DOMAIN result : result[c] # Constructed

Abs(n) == IF n >= 0 THEN n ELSE -n

\* What a conversion should give, said without the casts that make it: the same
\* number, the one congruent to it that fits, or its integral part.
IsRight(scalar, h, v) ==
  CASE scalar = "int" /\ h.kind = "int" ->
         v \in IntRange /\ (v - h.n) % (2 * IntHalf) = 0
    [] scalar = "size_t" /\ h.kind = "int" ->
         v \in SizeRange /\ (v - h.n) % (2 * LongHalf) = 0
    [] scalar \in {"int", "size_t"} /\ h.kind = "double" ->
         \/ Truncate(h.halves) \notin (IF scalar = "int" THEN IntRange ELSE SizeRange)
         \/ /\ 2 * Abs(v) <= Abs(h.halves) /\ Abs(h.halves) < 2 * Abs(v) + 2
            /\ (v > 0 => h.halves > 0) /\ (v < 0 => h.halves < 0)
    [] scalar \in {"float", "double"} ->
         v = IF h.kind = "int" THEN 2 * h.n ELSE h.halves

IsLong(h) == Dart_IsInteger(h) /\ h.n \notin LongRange

\* In a Debug build, and in a callback of Dart code in any build, a number that
\* getValue returns is the right one: what is no number never looks like one.
\* (Integers beyond 64 bits are caught in a Debug build only.)
NumbersAreRight ==
  status = "returned" /\ access = "getValue" =>
    \A i \in DOMAIN Components(type) :
      LET c == Components(type)[i]
          h == Source(c)
      IN  \/ c.scalar \notin Numbers \/ type = "Level"
          \/ ~ asserts /\ (~ inDart \/ IsLong(h))
          \/ result[c.name] = Constructed
          \/ IsNumber(h) /\ IsRight(c.scalar, h, result[c.name][2])

\* An object of a class of cinder.dart comes back in the C++ type it is meant for,
\* and never quietly as the constructed value, with one exception: the class ivec3
\* declares no z, which getValue asks for, so that nothing of an ivec3 ever arrives.
CinderObjectsConvert ==
  /\ status = "returned" /\ access = "getValue" /\ type \in DOMAIN CinderType
  /\ handle.kind = "object" /\ DOMAIN handle.fields = CinderClass[CinderType[type]]
  => \A c \in DOMAIN result : result[c] = Constructed <=> type = "ivec3"

\* A LogLevel of cinder.dart becomes the level of the same name: the enum and the
\* switch, in two files and two languages, agree on the order.
LevelsAgree ==
  status = "returned" /\ type = "Level" =>
    \A i \in DOMAIN LogLevel :
      Dart_GetField(handle, "index") = [kind |-> "int", n |-> i - 1] =>
        result.index = Got(LogLevel[i])

\* In a Debug build nothing that returns hands out a variable nobody set, whatever
\* fails on the way, and in particular an error is never taken for a function.
DebugNeverGuesses ==
  asserts /\ status = "returned" =>
    /\ \A c \in DOMAIN result : result[c] # Garbage
    /\ access = "hasFunction" =>
         (result.self = Got(TRUE) <=> handle.kind = "library" /\ Key \in handle.functions)

(* A claim of the documentation that the code does not keep. *)

\* Types.h on getValue: "If an error occurs, the value returned is default
\* constructed", and on getFieldOrDefault "or defaultValue if the field was null or
\* an error occurs".
ErrorsGiveDefaults ==
  status = "returned" /\ access \in {"getValue", "getFieldOrDefault"} =>
    \A c \in DOMAIN result : result[c] # Garbage

=============================================================================
