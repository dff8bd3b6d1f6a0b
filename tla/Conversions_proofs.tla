------------------------- MODULE Conversions_proofs -------------------------
(***************************************************************************)
(* Proofs about the conversions, for integers of any width: what the casts *)
(* of getValue do to a number, and that no structured value is returned    *)
(* half converted.                                                         *)
(***************************************************************************)
EXTENDS Conversions, SequenceTheorems, TLAPS

-----------------------------------------------------------------------------
(* Casts *)

\* The cast of an int64_t to int gives an int.
LEMMA WrapIntFits ==
  ASSUME NEW n \in Int
  PROVE  WrapInt(n) \in IntRange
<1>1. 2 * IntHalf \in Nat \ {0} /\ n + IntHalf \in Int
  BY WidthsAssumption
<1>2. (n + IntHalf) % (2 * IntHalf) \in 0 .. 2 * IntHalf - 1
  BY <1>1
<1> QED
  BY <1>2, WidthsAssumption DEF WrapInt, IntRange

\* An integer that fits comes through the cast as it is.
THEOREM IntSurvives ==
  ASSUME NEW n \in IntRange
  PROVE  WrapInt(n) = n
<1>1. n + IntHalf \in 0 .. 2 * IntHalf - 1 /\ IntHalf \in Nat /\ 2 * IntHalf \in Nat \ {0}
  BY WidthsAssumption DEF IntRange
<1>2. (n + IntHalf) % (2 * IntHalf) = n + IntHalf
  BY <1>1
<1> QED
  BY <1>1, <1>2 DEF WrapInt, IntRange

\* The integral part of a double: towards zero, and less than one away.
LEMMA TruncateIsRight ==
  ASSUME NEW h \in Int
  PROVE  /\ Truncate(h) \in Int
         /\ 2 * Abs(Truncate(h)) <= Abs(h)
         /\ Abs(h) < 2 * Abs(Truncate(h)) + 2
         /\ Truncate(h) > 0 => h > 0
         /\ Truncate(h) < 0 => h < 0
BY DEF Truncate, Abs

\* Quotient and remainder.
LEMMA Division ==
  ASSUME NEW m \in Nat \ {0}, NEW a \in Int
  PROVE  \E q \in Int : a = m * q + (a % m)
<1>1. a \div m \in Int
  OBVIOUS
<1>2. a = m * (a \div m) + (a % m)
  OBVIOUS
<1> QED
  BY <1>1, <1>2, Zenon

\* The cast of an int64_t to int keeps the number up to multiples of 2 * IntHalf.
LEMMA WrapIntCongruent ==
  ASSUME NEW n \in Int
  PROVE  \E k \in Int : WrapInt(n) - n = 2 * IntHalf * k
<1> DEFINE M == 2 * IntHalf
<1>1. M \in Nat \ {0} /\ n + IntHalf \in Int /\ IntHalf \in Nat
  BY WidthsAssumption
<1>2. WrapInt(n) = ((n + IntHalf) % M) - IntHalf
  BY DEF WrapInt
<1> SUFFICES \E k \in Int : WrapInt(n) - n = M * k
  OBVIOUS
<1> HIDE DEF M
<1>3. PICK q \in Int : n + IntHalf = M * q + ((n + IntHalf) % M)
  BY <1>1, Division
<1>4. (n + IntHalf) % M \in Int
  BY <1>1
<1> DEFINE rest == (n + IntHalf) % M
           multiple == M * q
<1>5. WrapInt(n) - n = -multiple
  <2>1. rest \in Int /\ multiple \in Int
    BY <1>1, <1>4
  <2>2. WrapInt(n) = rest - IntHalf /\ n + IntHalf = multiple + rest
    BY <1>2, <1>3
  <2> HIDE DEF rest, multiple
  <2> QED
    BY <1>1, <2>1, <2>2
<1>6. -(M * q) = M * (-q) /\ -q \in Int
  BY <1>1
<1> QED
  BY <1>5, <1>6

\* An int sent to Dart and asked for again is the same int.
THEOREM IntRoundTrip ==
  ASSUME NEW n \in IntRange
  PROVE  Outcomes("int", ToDart("int", n)) = {n}
<1> DEFINE h == Dart_NewInteger(n)
<1>1. ToDart("int", n) = h /\ Dart_IsInteger(h) /\ h.n = n
  BY DEF ToDart, Dart_NewInteger, Dart_IsInteger
<1>2. n \in LongRange
  BY WidthsAssumption DEF IntRange, LongRange
<1>3. Dart_IntegerToInt64(h) = {n}
  BY <1>1, <1>2 DEF Dart_IntegerToInt64
<1> HIDE DEF h
<1>4. FromInt64("int", n) = n
  BY IntSurvives DEF FromInt64
<1> QED
  BY <1>1, <1>3, <1>4 DEF Outcomes

\* So is a float or a double.
LEMMA RealRoundTrip ==
  ASSUME NEW scalar \in {"float", "double"}, NEW d \in Int
  PROVE  /\ Outcomes(scalar, ToDart(scalar, d)) = {d}
         /\ IsNumber(ToDart(scalar, d)) /\ ~ Dart_IsError(ToDart(scalar, d))
<1> DEFINE h == Dart_NewDouble(d)
<1>1. ToDart(scalar, d) = h /\ Dart_IsDouble(h) /\ ~ Dart_IsInteger(h) /\ ~ Dart_IsError(h) /\ h.halves = d
  BY DEF ToDart, Dart_NewDouble, Dart_IsDouble, Dart_IsInteger, Dart_IsError
<1>2. Dart_DoubleValue(h) = {d}
  BY <1>1 DEF Dart_DoubleValue
<1> HIDE DEF h
<1>3. Outcomes(scalar, h) = {d}
  BY <1>1, <1>2 DEF Outcomes
<1> QED
  BY <1>1, <1>3 DEF IsNumber

\* A vec3 sent to Dart has every field that getValue<vec3> looks up there, each
\* with its own coordinate as the only outcome: toDart and getValue agree.
THEOREM Vec3RoundTrip ==
  ASSUME NEW x \in Int, NEW y \in Int, NEW z \in Int
  PROVE  \A i \in 1..3 :
           LET c == Vectors3.vec3[i]
               h == Dart_GetField(Vec3ToDart(x, y, z), c.name)
           IN  ~ Dart_IsError(h) /\ Outcomes(c.scalar, h) = {<<x, y, z>>[i]}
<1> DEFINE X == ToDart("float", x)
           Y == ToDart("float", y)
           Z == ToDart("float", z)
           v == Dart_NewVector3(X, Y, Z)
<1>1. /\ Dart_GetField(v, "x") = X /\ Dart_GetField(v, "y") = Y /\ Dart_GetField(v, "z") = Z
  BY DEF Dart_NewVector3, Dart_GetField, Object
<1>2. /\ ~ Dart_IsError(X) /\ Outcomes("float", X) = {x}
      /\ ~ Dart_IsError(Y) /\ Outcomes("float", Y) = {y}
      /\ ~ Dart_IsError(Z) /\ Outcomes("float", Z) = {z}
  BY RealRoundTrip
<1>3. /\ Vectors3.vec3[1] = [name |-> "x", scalar |-> "float"]
      /\ Vectors3.vec3[2] = [name |-> "y", scalar |-> "float"]
      /\ Vectors3.vec3[3] = [name |-> "z", scalar |-> "float"]
  BY DEF Vectors3, Fields, XYZ
<1>4. Vec3ToDart(x, y, z) = v
  BY DEF Vec3ToDart
<1> HIDE DEF X, Y, Z, v
<1>5. \A i \in 1..3 : i = 1 \/ i = 2 \/ i = 3
  OBVIOUS
<1> QED
  BY <1>1, <1>2, <1>3, <1>4, <1>5

-----------------------------------------------------------------------------
(* Structured values *)

\* The names there are.
FieldNames ==
  {"self", "index", "r", "g", "b", "a", "x", "y", "z", "w", "x1", "x2", "y1", "y2",
   "r1x", "r2x", "r3x", "r4x", "r1y", "r2y", "r3y", "r4y",
   "r1z", "r2z", "r3z", "r4z", "r1w", "r2w", "r3w", "r4w"}

Component(scalars) == [name : FieldNames, scalar : scalars]

\* The fields of a list of names, all of one type.
LEMMA FieldsAreComponents ==
  ASSUME NEW names \in Seq(FieldNames), NEW scalars, NEW scalar \in scalars
  PROVE  Fields(names, scalar) \in Seq(Component(scalars))
<1>1. Len(names) \in Nat /\ \A i \in 1..Len(names) : names[i] \in FieldNames
  BY LenProperties, ElementOfSeq
<1>2. Fields(names, scalar) \in [1..Len(names) -> Component(scalars)]
  BY <1>1 DEF Fields, Component
<1> QED
  BY <1>1, <1>2

\* Every type that is listed is made of a sequence of numbers.
LEMMA GroupsHoldComponents ==
  \A group \in Groups : \A t \in DOMAIN group : group[t] \in Seq(Component(Numbers))
<1>1. "int" \in Numbers /\ "float" \in Numbers /\ "double" \in Numbers
  BY DEF Numbers
<1>2. \A t \in DOMAIN Colors : Colors[t] \in Seq(Component(Numbers))
  <2>1. <<"r", "g", "b">> \in Seq(FieldNames) /\ <<"r", "g", "b", "a">> \in Seq(FieldNames)
    BY DEF FieldNames
  <2>2. /\ Fields(<<"r", "g", "b">>, "float") \in Seq(Component(Numbers))
        /\ Fields(<<"r", "g", "b", "a">>, "float") \in Seq(Component(Numbers))
    BY <1>1, <2>1, FieldsAreComponents
  <2> QED
    BY <2>2 DEF Colors
<1>3. \A s \in {"int", "float", "double"} :
        /\ Fields(XY, s) \in Seq(Component(Numbers))
        /\ Fields(XYZ, s) \in Seq(Component(Numbers))
        /\ Fields(XYZW, s) \in Seq(Component(Numbers))
  <2>1. XY \in Seq(FieldNames) /\ XYZ \in Seq(FieldNames) /\ XYZW \in Seq(FieldNames)
    BY DEF XY, XYZ, XYZW, FieldNames
  <2> QED
    BY <1>1, <2>1, FieldsAreComponents
<1>4. \A t \in DOMAIN Vectors2 : Vectors2[t] \in Seq(Component(Numbers))
  BY <1>3 DEF Vectors2
<1>5. \A t \in DOMAIN Vectors3 : Vectors3[t] \in Seq(Component(Numbers))
  BY <1>3 DEF Vectors3
<1>6. \A t \in DOMAIN Vectors4 : Vectors4[t] \in Seq(Component(Numbers))
  BY <1>3 DEF Vectors4
<1>7. \A t \in DOMAIN Matrix : Matrix[t] \in Seq(Component(Numbers))
  <2> DEFINE names == <<"r1x", "r2x", "r3x", "r4x", "r1y", "r2y", "r3y", "r4y",
                        "r1z", "r2z", "r3z", "r4z", "r1w", "r2w", "r3w", "r4w">>
  <2>1. names \in Seq(FieldNames)
    BY DEF FieldNames
  <2> HIDE DEF names
  <2>2. Fields(names, "float") \in Seq(Component(Numbers))
    BY <1>1, <2>1, FieldsAreComponents
  <2> QED
    BY <2>2 DEF Matrix, names
<1>8. \A t \in DOMAIN Quaternions : Quaternions[t] \in Seq(Component(Numbers))
  BY <1>3 DEF Quaternions
<1>9. \A t \in DOMAIN Rectangle : Rectangle[t] \in Seq(Component(Numbers))
  <2>1. <<"x1", "x2", "y1", "y2">> \in Seq(FieldNames)
    BY DEF FieldNames
  <2>2. Fields(<<"x1", "x2", "y1", "y2">>, "float") \in Seq(Component(Numbers))
    BY <1>1, <2>1, FieldsAreComponents
  <2> QED
    BY <2>2 DEF Rectangle
<1> QED
  BY <1>2, <1>4, <1>5, <1>6, <1>7, <1>8, <1>9 DEF Groups

\* getValue asks each structured type for a sequence of numbers.
LEMMA StructuredComponents ==
  ASSUME NEW t \in Structured
  PROVE  Components(t) \in Seq(Component(Numbers))
<1> DEFINE group == CHOOSE g \in Groups : t \in DOMAIN g
<1>1. group \in Groups /\ t \in DOMAIN group
  BY DEF Structured
<1>2. Components(t) = group[t]
  BY DEF Components
<1> HIDE DEF group
<1> QED
  BY <1>1, <1>2, GroupsHoldComponents

\* Any other type is converted as a whole.
LEMMA SingleComponent ==
  ASSUME NEW t, t \notin Structured
  PROVE  \E name : DOMAIN Declared(t) = {name}
<1>1. \E name, scalar : Components(t) = Fields(<<name>>, scalar)
  BY DEF Components
<1>2. PICK name, scalar : Components(t) = Fields(<<name>>, scalar)
  BY <1>1
<1>3. DOMAIN Components(t) = {1} /\ Components(t)[1].name = name
  BY <1>2 DEF Fields
<1>4. DOMAIN Declared(t) = {name}
  BY <1>3 DEF Declared
<1> QED
  BY <1>4

\* Whatever type getValue is asked for, it converts a sequence of components.
LEMMA ComponentsAreSequence ==
  ASSUME NEW t \in Types
  PROVE  Components(t) \in Seq(Component(Scalars))
<1>1. CASE t \in Structured
  <2>1. Numbers \subseteq Scalars
    BY DEF Scalars
  <2>2. Component(Numbers) \subseteq Component(Scalars)
    BY <2>1 DEF Component
  <2> QED
    BY <1>1, <2>2, StructuredComponents
<1>2. CASE t \notin Structured
  <2>1. <<"self">> \in Seq(FieldNames) /\ <<"index">> \in Seq(FieldNames)
    BY DEF FieldNames
  <2>2. "int" \in Scalars
    BY DEF Scalars, Numbers
  <2>3. Fields(<<"index">>, "int") \in Seq(Component(Scalars))
    BY <2>1, <2>2, FieldsAreComponents
  <2>4. t # "Level" => Fields(<<"self">>, t) \in Seq(Component(Scalars))
    BY <1>2, <2>1, TypesAssumption, FieldsAreComponents
  <2> QED
    BY <1>2, <2>3, <2>4 DEF Components
<1> QED
  BY <1>1, <1>2

\* What is left of a sequence, and what is next in it.
LEMMA Rest ==
  ASSUME NEW S, NEW s \in Seq(S), NEW n \in 1 .. Len(s) + 1, NEW rest,
         rest = SubSeq(s, n, Len(s))
  PROVE  /\ rest = <<>> <=> n = Len(s) + 1
         /\ rest # <<>> => /\ Head(rest) = s[n]
                          /\ Tail(rest) = SubSeq(s, n + 1, Len(s))
<1>1. Len(s) \in Nat /\ n \in Nat
  BY LenProperties
<1>2. n = Len(s) + 1 => rest = <<>>
  BY <1>1
<1>3. ASSUME n # Len(s) + 1
      PROVE  rest # <<>> /\ Head(rest) = s[n] /\ Tail(rest) = SubSeq(s, n + 1, Len(s))
  <2>1. n \in 1 .. Len(s) /\ Len(s) \in n .. Len(s)
    BY <1>1, <1>3
  <2>2. Len(rest) = Len(s) - n + 1
    BY <1>1, <2>1
  <2>3. rest # <<>>
    <3>1. Len(rest) # 0
      BY <1>1, <2>1, <2>2
    <3> QED
      BY <3>1, EmptySeq
  <2> QED
    BY <2>1, <2>3, HeadTailOfSubSeq
<1> QED
  BY <1>2, <1>3

\* The components of one type are all asked for as the same type.
LEMMA SameScalar ==
  ASSUME NEW t \in Types
  PROVE  /\ \A i, j \in DOMAIN Components(t) : Components(t)[i].scalar = Components(t)[j].scalar
         /\ t = "string" => \A i \in DOMAIN Components(t) : Components(t)[i].scalar = "string"
<1>1. \A names, scalar : \A i, j \in DOMAIN Fields(names, scalar) :
        Fields(names, scalar)[i].scalar = Fields(names, scalar)[j].scalar
  BY DEF Fields
<1>2. \A group \in Groups : \A u \in DOMAIN group : \E names, scalar : group[u] = Fields(names, scalar)
  BY DEF Groups, Colors, Vectors2, Vectors3, Vectors4, Matrix, Quaternions, Rectangle
<1>3. CASE t \in Structured
  <2> DEFINE group == CHOOSE g \in Groups : t \in DOMAIN g
  <2>1. group \in Groups /\ t \in DOMAIN group
    BY <1>3 DEF Structured
  <2>2. Components(t) = group[t]
    BY <1>3 DEF Components
  <2> HIDE DEF group
  <2>3. \E names, scalar : Components(t) = Fields(names, scalar)
    BY <1>2, <2>1, <2>2
  <2>4. t # "string"
    BY <1>3 DEF Structured, Groups, Colors, Vectors2, Vectors3, Vectors4, Matrix, Quaternions,
         Rectangle
  <2> QED
    BY <1>1, <2>3, <2>4
<1>4. CASE t \notin Structured
  <2>1. /\ \E names, scalar : Components(t) = Fields(names, scalar)
        /\ t = "string" => Components(t) = Fields(<<"self">>, "string")
    BY <1>4 DEF Components
  <2>2. \A i \in DOMAIN Fields(<<"self">>, "string") : Fields(<<"self">>, "string")[i].scalar = "string"
    BY DEF Fields
  <2> QED
    BY <1>1, <2>1, <2>2
<1> QED
  BY <1>3, <1>4

-----------------------------------------------------------------------------
(* The invariant *)

\* A component that has been dealt with holds a number its object may be made into;
\* or, in a Release build, nothing, where the object was no number, or was one of
\* more than 64 bits.  What is not to be a number holds something.
Done(c) ==
  \/ /\ c.scalar \in Numbers /\ IsNumber(Source(c))
     /\ \E v \in Outcomes(c.scalar, Source(c)) : result[c.name] = Got(v)
  \/ c.scalar \notin Numbers /\ result[c.name] # Garbage
  \/ /\ result[c.name] = Garbage /\ ~ asserts
     /\ c.scalar \in Numbers => IF IsNumber(Source(c)) THEN IsLong(Source(c)) ELSE ~ inDart

\* How far the conversion is: the components before the n-th have been dealt with.
Progress ==
  \E n \in 1 .. Len(Components(type)) + 1 :
    /\ pending = SubSeq(Components(type), n, Len(Components(type)))
    /\ status = "converting" => \A i \in 1 .. n - 1 : Done(Components(type)[i])

\* The result has nothing in it while the object is found and its fields are looked
\* up, and an object that is converted has been found, with all its fields.
Untouched ==
  /\ status \in {"asked", "looking up"} =>
       result = Declared(type) /\ pending = Components(type)
  /\ status = "asked" /\ access \in DOMAIN Queries => type = Queries[access]
  /\ status \in {"looking up", "converting"} => access = "getValue"
  /\ status = "looking up" => type \in Structured
  /\ status = "converting" /\ type \in Structured => Missing = {}
  /\ status = "converting" /\ type = "string" => \A c \in DOMAIN result : result[c] # Garbage

IInv ==
  /\ TypeOK
  /\ Untouched
  /\ Progress

\* What a component may hold are four different things.
LEMMA DifferentValues ==
  /\ Default # Constructed /\ Default # Garbage
  /\ Garbage # Constructed
  /\ \A v : Got(v) # Constructed /\ Got(v) # Garbage /\ Got(v)[2] = v
  /\ \A v, w : Got(v) = Got(w) => v = w
<1>1. \A v : Got(v)[1] = "got" /\ Got(v)[2] = v
  BY DEF Got
<1>2. \A v, w : Got(v) = Got(w) => v = w
  BY <1>1
<1> QED
  BY <1>1, <1>2 DEF Default, Garbage, Constructed

\* The components of a type: a sequence, with the names of the result.
LEMMA ComponentsOf ==
  ASSUME TypeOK
  PROVE  /\ Components(type) \in Seq(Component(Scalars))
         /\ Len(Components(type)) \in Nat
         /\ DOMAIN Components(type) = 1 .. Len(Components(type))
         /\ DOMAIN result = {Components(type)[i].name : i \in DOMAIN Components(type)}
<1>1. Components(type) \in Seq(Component(Scalars))
  BY ComponentsAreSequence DEF TypeOK
<1> QED
  BY <1>1, LenProperties DEF TypeOK, Declared

\* The component that is next, and those that have been dealt with.
LEMMA NextComponent ==
  ASSUME IInv, status = "converting", pending # <<>>
  PROVE  \E n \in 1 .. Len(Components(type)) :
           /\ Current = Components(type)[n]
           /\ Current \in Component(Scalars)
           /\ Current.name \in DOMAIN result
           /\ Tail(pending) = SubSeq(Components(type), n + 1, Len(Components(type)))
           /\ \A i \in 1 .. n - 1 : Done(Components(type)[i])
<1> DEFINE all == Components(type)
<1>1. /\ all \in Seq(Component(Scalars)) /\ Len(all) \in Nat
      /\ DOMAIN result = {all[i].name : i \in 1 .. Len(all)}
  BY ComponentsOf DEF IInv
<1>2. PICK n \in 1 .. Len(all) + 1 :
        pending = SubSeq(all, n, Len(all)) /\ \A i \in 1 .. n - 1 : Done(all[i])
  BY DEF IInv, Progress
<1> HIDE DEF all
<1>3. n \in 1 .. Len(all) /\ Head(pending) = all[n] /\ Tail(pending) = SubSeq(all, n + 1, Len(all))
  BY <1>1, <1>2, Rest
<1>4. all[n] \in Component(Scalars)
  BY <1>1, <1>3, ElementOfSeq
<1>5. Current = all[n] /\ Current.name \in DOMAIN result
  BY <1>1, <1>3 DEF Current
<1> QED
  BY <1>2, <1>3, <1>4, <1>5 DEF all

\* When nothing is left, all have been dealt with.
LEMMA NothingLeft ==
  ASSUME IInv, status = "converting", pending = <<>>
  PROVE  \A i \in DOMAIN Components(type) : Done(Components(type)[i])
<1> DEFINE all == Components(type)
<1>1. all \in Seq(Component(Scalars)) /\ Len(all) \in Nat /\ DOMAIN all = 1 .. Len(all)
  BY ComponentsOf DEF IInv
<1>2. PICK n \in 1 .. Len(all) + 1 :
        pending = SubSeq(all, n, Len(all)) /\ \A i \in 1 .. n - 1 : Done(all[i])
  BY DEF IInv, Progress
<1> HIDE DEF all
<1>3. n = Len(all) + 1
  BY <1>1, <1>2, Rest
<1>4. \A i \in DOMAIN all : Done(all[i])
  BY <1>1, <1>2, <1>3
<1> QED
  BY <1>4 DEF all

\* Before the first step all components are to be converted.
LEMMA Beginning ==
  ASSUME NEW t \in Types
  PROVE  /\ 1 \in 1 .. Len(Components(t)) + 1 /\ 1 .. 1 - 1 = {}
         /\ Components(t) = SubSeq(Components(t), 1, Len(Components(t)))
<1>1. Components(t) \in Seq(Component(Scalars))
  BY ComponentsAreSequence
<1>2. Components(t) = SubSeq(Components(t), 1, Len(Components(t)))
  BY <1>1, SubSeqFull
<1>3. Len(Components(t)) \in Nat
  BY <1>1, LenProperties
<1> QED
  BY <1>2, <1>3

\* A step that deals with the next component makes progress.
LEMMA Advance ==
  ASSUME IInv, status = "converting", pending # <<>>, UNCHANGED <<call, status>>,
         pending' = Tail(pending),
         NEW c, c = Current, Done(c)',
         \A name \in DOMAIN result \ {c.name} : result'[name] = result[name]
  PROVE  Progress'
<1>0. PICK all : all = Components(type)
  OBVIOUS
<1>1. PICK n \in 1 .. Len(all) :
        /\ Current = all[n]
        /\ Tail(pending) = SubSeq(all, n + 1, Len(all))
        /\ \A i \in 1 .. n - 1 : Done(all[i])
  BY <1>0, NextComponent
<1>2. /\ all \in Seq(Component(Scalars)) /\ Len(all) \in Nat /\ DOMAIN all = 1 .. Len(all)
      /\ \A i \in 1 .. Len(all) : all[i] \in Component(Scalars) /\ all[i].name \in DOMAIN result
  BY <1>0, ComponentsOf, ElementOfSeq DEF IInv
<1>3. \A i, j \in 1 .. Len(all) : all[i].scalar = all[j].scalar
  <2>1. type \in Types
    BY DEF IInv, TypeOK
  <2>2. \A i, j \in DOMAIN all : all[i].scalar = all[j].scalar
    BY <1>0, <2>1, SameScalar
  <2> QED
    BY <1>2, <2>2
<1>4. /\ type' = type /\ asserts' = asserts /\ inDart' = inDart /\ handle' = handle
      /\ Components(type)' = all
  BY <1>0 DEF call, Components
<1>5. ASSUME NEW i \in 1 .. n
      PROVE  Done(all[i])'
  <2>1. i \in 1 .. Len(all)
    BY <1>2
  <2>2. CASE all[i].name = c.name
    <3>1. all[i] = c
      BY <1>1, <1>2, <1>3, <2>1, <2>2 DEF Component
    <3> QED
      BY <3>1
  <2>3. CASE all[i].name # c.name
    <3>1. i \in 1 .. n - 1
      BY <1>1, <1>2, <2>3
    <3>2. Done(all[i]) /\ result'[all[i].name] = result[all[i].name]
      BY <1>1, <1>2, <2>1, <2>3, <3>1
    <3> QED
      BY <1>4, <3>2 DEF Done, Source
  <2> QED
    BY <2>2, <2>3
<1>6. n + 1 \in 1 .. Len(all) + 1 /\ (n + 1) - 1 = n
  BY <1>2
<1>7. /\ n + 1 \in 1 .. Len(Components(type))' + 1
      /\ pending' = SubSeq(Components(type)', n + 1, Len(Components(type)'))
      /\ \A i \in 1 .. (n + 1) - 1 : Done(all[i])'
  BY <1>1, <1>4, <1>5, <1>6
<1>8. \A i \in 1 .. (n + 1) - 1 : Done(Components(type)[i])'
  BY <1>4, <1>7 DEF Done
<1> QED
  BY <1>7, <1>8 DEF Progress

-----------------------------------------------------------------------------
(* Every step keeps it. *)

\* A step that assigns to the next component.
LEMMA AssignStep ==
  ASSUME IInv, status = "converting", pending # <<>>, UNCHANGED <<call, status>>,
         NEW v, Assign(v), type = "string" => v # Garbage,
         \/ /\ Current.scalar \in Numbers /\ IsNumber(Source(Current))
            /\ \E w \in Outcomes(Current.scalar, Source(Current)) : v = Got(w)
         \/ Current.scalar \notin Numbers /\ v # Garbage
         \/ /\ v = Garbage /\ ~ asserts
            /\ Current.scalar \in Numbers =>
                 IF IsNumber(Source(Current)) THEN IsLong(Source(Current)) ELSE ~ inDart
  PROVE  IInv'
<1>1. /\ type' = type /\ pending' = Tail(pending) /\ status' = "converting"
      /\ asserts' = asserts /\ inDart' = inDart /\ handle' = handle /\ access' = access
      /\ DOMAIN result' = DOMAIN result
      /\ \A name \in DOMAIN result :
           result'[name] = IF name = Current.name THEN v ELSE result[name]
  BY DEF Assign, call
<1>2. Current.name \in DOMAIN result
  BY NextComponent
<1>3. PICK c : c = Current
  OBVIOUS
<1>4. Done(c)'
  BY <1>1, <1>2, <1>3 DEF Done, Source
<1>5. Progress'
  <2>1. \A name \in DOMAIN result \ {c.name} : result'[name] = result[name]
    BY <1>1, <1>3
  <2> QED
    BY <1>1, <1>3, <1>4, <2>1, Advance
<1>6. TypeOK'
  BY <1>1, <1>5 DEF IInv, TypeOK, Progress
<1>7. Untouched'
  BY <1>1 DEF IInv, Untouched, Missing, Source
<1> QED
  BY <1>5, <1>6, <1>7 DEF IInv

\* A step that ends the conversion, with a value or without.
LEMMA EndStep ==
  ASSUME IInv, status' \in {"returned", "thrown", "aborted"}, UNCHANGED <<call, pending>>,
         DOMAIN result' = DOMAIN result
  PROVE  IInv'
<1>1. Progress'
  BY DEF IInv, Progress, call
<1>2. TypeOK'
  BY DEF IInv, TypeOK, call
<1>3. Untouched'
  BY DEF Untouched
<1> QED
  BY <1>1, <1>2, <1>3 DEF IInv

\* A CIDART_CHECK that fails aborts the program or is passed over.
LEMMA CheckedStep ==
  ASSUME IInv, status = "converting", pending # <<>>, Checked, UNCHANGED call,
         Current.scalar # "string",
         Current.scalar \in Numbers =>
           IF IsNumber(Source(Current)) THEN IsLong(Source(Current)) ELSE ~ inDart
  PROVE  IInv'
<1>1. CASE asserts
  BY <1>1, EndStep DEF Checked
<1>2. CASE ~ asserts
  <2>1. type # "string"
    <3>1. PICK n \in 1 .. Len(Components(type)) : Current = Components(type)[n]
      BY NextComponent
    <3>2. n \in DOMAIN Components(type)
      BY <3>1, ComponentsOf DEF IInv
    <3> QED
      BY <3>1, <3>2, SameScalar DEF IInv, TypeOK
  <2> QED
    BY <1>2, <2>1, AssignStep DEF Checked
<1> QED
  BY <1>1, <1>2

\* What a function finds is an object, a name, null or an error handle.
LEMMA FoundIsHandle ==
  ASSUME TypeOK, status = "asked", access # "getValue"
  PROVE  /\ access \in {"getField", "getFieldOrDefault"} =>
              Dart_GetField(handle, Key) \in Handles \cup {Dart_Null, Error}
         /\ access \in {"getMapValueForKey", "getFloatForKey"} =>
              Dart_MapGetAt(handle, Key) \in Handles \cup {Dart_Null, Error}
         /\ access = "getArg" =>
              Dart_GetNativeArgument(handle, Index) \in Handles \cup {Dart_Null, Error}
         /\ access = "getTypeName" =>
              Dart_TypeName(Dart_InstanceGetType(handle)) \in TypeNames \cup {Error}
<1>1. handle \in Containers(access)
  BY DEF TypeOK
<1>2. ASSUME access \in {"getField", "getFieldOrDefault"}
      PROVE  Dart_GetField(handle, Key) \in Handles \cup {Dart_Null, Error}
  BY <1>1, <1>2 DEF Containers, Object, Keyed, None, Dart_Null, Error, Dart_GetField
<1>3. ASSUME access \in {"getMapValueForKey", "getFloatForKey"}
      PROVE  Dart_MapGetAt(handle, Key) \in Handles \cup {Dart_Null, Error}
  BY <1>1, <1>3 DEF Containers, Map, Object, Keyed, None, Dart_Null, Error, Dart_IsMap, Dart_MapGetAt
<1>4. ASSUME access = "getArg"
      PROVE  Dart_GetNativeArgument(handle, Index) \in Handles \cup {Dart_Null, Error}
  <2>1. \/ \E h \in Handles : handle = Arguments(<<h>>)
        \/ handle = Arguments(<<>>)
    BY <1>1, <1>4 DEF Containers
  <2> QED
    BY <2>1 DEF Arguments, Index, IsArgument, Dart_GetNativeArgument
<1>5. ASSUME access = "getTypeName"
      PROVE  Dart_TypeName(Dart_InstanceGetType(handle)) \in TypeNames \cup {Error}
  <2>1. handle \in Handles \cup {Dart_Null} \/ handle = Library({}) \/ handle = Error
    BY <1>1, <1>5 DEF Containers
  <2>2. ~ IsInstance(Library({})) /\ ~ IsInstance(Error)
    BY DEF IsInstance, Library, Error
  <2>3. Dart_TypeName(Error) = Error
    BY DEF Dart_TypeName, Error
  <2> QED
    BY <2>1, <2>2, <2>3 DEF TypeNames, Dart_InstanceGetType
<1> QED
  BY <1>2, <1>3, <1>4, <1>5

\* What was found goes to getValue, which has done nothing yet.
LEMMA FoundStep ==
  ASSUME IInv, status = "asked", NEW h \in Handles \cup TypeNames \cup {Dart_Null, Error}, Found(h)
  PROVE  IInv'
<1>1. /\ UNCHANGED <<asserts, inDart, type, pending, result>> /\ access' = "getValue" /\ handle' = h
      /\ status' = IF type \in Structured THEN "looking up" ELSE "converting"
      /\ type \in Types /\ pending = Components(type) /\ result = Declared(type)
  BY DEF Found, FirstStep, IInv, Untouched, TypeOK
<1>2. Progress'
  <2>1. /\ 1 \in 1 .. Len(Components(type')) + 1 /\ 1 .. 1 - 1 = {}
        /\ pending' = SubSeq(Components(type'), 1, Len(Components(type')))
    BY <1>1, Beginning
  <2> QED
    BY <2>1 DEF Progress
<1>3. TypeOK'
  BY <1>1 DEF IInv, TypeOK
<1>4. Untouched'
  <2>1. type = "string" => \A c \in DOMAIN Declared(type) : Declared(type)[c] # Garbage
    BY DifferentValues DEF Declared
  <2> QED
    BY <1>1, <2>1 DEF Untouched
<1> QED
  BY <1>2, <1>3, <1>4 DEF IInv

\* A query has answered all there is to convert.
LEMMA AnswerStep ==
  ASSUME IInv, status = "asked", access \in DOMAIN Queries, NEW v, Answer(v)
  PROVE  IInv'
<1>1. /\ UNCHANGED call /\ type' = type /\ pending' = <<>> /\ status' = "returned"
      /\ DOMAIN result' = {"self"}
      /\ type \in {"bool", "string"} /\ type \in Types
  BY DEF Answer, call, IInv, Untouched, TypeOK, Queries
<1>2. Components(type) = Fields(<<"self">>, type)
  BY <1>1 DEF Components, Structured, Groups, Colors, Vectors2, Vectors3, Vectors4, Matrix,
       Quaternions, Rectangle
<1>3. /\ DOMAIN Components(type) = {1} /\ Components(type)[1].name = "self"
      /\ DOMAIN Components(type) = 1 .. Len(Components(type))
      /\ Components(type) \in Seq(Component(Scalars)) /\ Len(Components(type)) \in Nat
  BY <1>2, ComponentsOf DEF Fields, IInv
<1>4. Len(Components(type)) = 1
  BY <1>3
<1>5. pending' = SubSeq(Components(type), 2, Len(Components(type)))
  <2>1. 2 \in 1 .. Len(Components(type)) + 1
    BY <1>4
  <2>2. SubSeq(Components(type), 2, Len(Components(type))) = <<>>
    BY <1>3, <1>4, <2>1, Rest
  <2> QED
    BY <1>1, <2>2
<1>6. DOMAIN Declared(type) = {"self"}
  BY <1>3 DEF Declared
<1>7. 2 \in 1 .. Len(Components(type)) + 1
  BY <1>4
<1>8. Progress'
  BY <1>1, <1>5, <1>7 DEF Progress
<1>9. TypeOK'
  BY <1>1, <1>5, <1>6, <1>7 DEF IInv, TypeOK, call
<1>10. Untouched'
  BY <1>1 DEF Untouched
<1> QED
  BY <1>8, <1>9, <1>10 DEF IInv

\* A string is assigned, or left as it was constructed.
LEMMA StringStep ==
  ASSUME IInv, ConvertString
  PROVE  IInv'
<1>1. /\ status = "converting" /\ pending # <<>> /\ Current.scalar = "string"
      /\ UNCHANGED <<call, status>> /\ type' = type /\ asserts' = asserts /\ handle' = handle
      /\ Current.scalar \notin Numbers
  BY DEF ConvertString, Converting, call, Numbers
<1>2. CASE Dart_IsString(Source(Current))
  <2>1. PICK text : Assign(Got(text))
    BY <1>2 DEF ConvertString
  <2>2. Got(text) # Garbage
    BY DifferentValues
  <2> QED
    BY <1>1, <2>1, <2>2, AssignStep
<1>3. CASE ~ Dart_IsString(Source(Current))
  <2>1. pending' = Tail(pending) /\ result' = result
    BY <1>3 DEF ConvertString
  <2>2. PICK c : c = Current
    OBVIOUS
  <2>3. Current.name \in DOMAIN result /\ type = "string"
    <3>1. PICK n \in 1 .. Len(Components(type)) :
            /\ Current = Components(type)[n]
            /\ Current.name \in DOMAIN result
            /\ Current \in Component(Scalars)
      BY <1>1, NextComponent
    <3>2. n \in DOMAIN Components(type) /\ \A i \in DOMAIN Components(type) : Components(type)[i].scalar = "string"
      BY <1>1, <3>1, ComponentsOf, SameScalar DEF IInv, TypeOK
    <3>3. type \notin Structured
      <4> SUFFICES ASSUME type \in Structured PROVE FALSE
        OBVIOUS
      <4>1. Components(type) \in Seq(Component(Numbers))
        BY StructuredComponents
      <4>2. Components(type)[n] \in Component(Numbers)
        BY <3>1, <4>1, ElementOfSeq
      <4>3. Current.scalar \in Numbers
        BY <3>1, <4>2 DEF Component
      <4> QED
        BY <1>1, <4>3
    <3>4. type # "Level"
      <4>1. \A i \in DOMAIN Fields(<<"index">>, "int") : Fields(<<"index">>, "int")[i].scalar = "int"
        BY DEF Fields
      <4>2. type = "Level" => Components(type) = Fields(<<"index">>, "int")
        BY <3>3 DEF Components
      <4> QED
        BY <3>2, <4>1, <4>2
    <3>5. Components(type) = Fields(<<"self">>, type)
      BY <3>3, <3>4 DEF Components
    <3>6. \A i \in DOMAIN Fields(<<"self">>, type) : Fields(<<"self">>, type)[i].scalar = type
      BY DEF Fields
    <3> QED
      BY <3>1, <3>2, <3>5, <3>6
  <2>4. Done(c)'
    BY <1>1, <2>1, <2>2, <2>3 DEF Done, IInv, Untouched
  <2>5. Progress'
    BY <1>1, <2>1, <2>2, <2>4, Advance
  <2>6. TypeOK'
    BY <1>1, <2>1, <2>5 DEF IInv, TypeOK, Progress, call
  <2>7. Untouched'
    BY <1>1, <2>1 DEF IInv, Untouched, Missing, Source, call
  <2> QED
    BY <2>5, <2>6, <2>7 DEF IInv
<1> QED
  BY <1>2, <1>3

\* The result of a Level is its index.
LEMMA LevelIsIndex ==
  /\ "Level" \notin Structured
  /\ Components("Level") = Fields(<<"index">>, "int")
  /\ DOMAIN Components("Level") = {1}
  /\ Components("Level")[1] = [name |-> "index", scalar |-> "int"]
  /\ DOMAIN Declared("Level") = {"index"}
<1>1. "Level" \notin Structured
  BY DEF Structured, Groups, Colors, Vectors2, Vectors3, Vectors4, Matrix, Quaternions, Rectangle
<1>2. Components("Level") = Fields(<<"index">>, "int")
  BY <1>1 DEF Components
<1>3. DOMAIN Components("Level") = {1} /\ Components("Level")[1] = [name |-> "index", scalar |-> "int"]
  BY <1>2 DEF Fields
<1>4. DOMAIN Declared("Level") = {"index"}
  BY <1>3 DEF Declared
<1> QED
  BY <1>1, <1>2, <1>3, <1>4

\* The first state.
LEMMA Initially == Init => IInv
<1> SUFFICES ASSUME Init PROVE IInv
  OBVIOUS
<1>1. /\ type \in Types /\ pending = Components(type) /\ result = Declared(type)
      /\ asserts \in BOOLEAN /\ inDart \in BOOLEAN
      /\ status \in {"asked", "looking up", "converting"}
      /\ status = "looking up" => type \in Structured
      /\ status = "converting" => type \notin Structured
      /\ status = "asked" => access # "getValue"
      /\ status # "asked" => access = "getValue"
  BY DEF Init, FirstStep, Finding, Queries
<1>2. /\ access \in Finding \cup DOMAIN Queries \cup {"getValue"}
      /\ handle \in IF access = "getValue" THEN Handles \cup TypeNames \cup {Dart_Null, Error}
                    ELSE Containers(access)
  BY <1>1 DEF Init
<1>3. Progress
  BY <1>1, Beginning DEF Progress
<1>4. TypeOK
  BY <1>1, <1>2, <1>3 DEF TypeOK, Progress
<1>5. Untouched
  <2>1. status = "asked" /\ access \in DOMAIN Queries => type = Queries[access]
    BY <1>1 DEF Init, Finding, Queries
  <2>2. type = "string" => \A c \in DOMAIN Declared(type) : Declared(type)[c] # Garbage
    BY DifferentValues DEF Declared
  <2> QED
    BY <1>1, <2>1, <2>2 DEF Untouched
<1> QED
  BY <1>3, <1>4, <1>5 DEF IInv

\* Finding the object, and asking about it.
LEMMA FindingStep ==
  ASSUME IInv,
         \/ GetField \/ DefaultTaken \/ DefaultNotTaken \/ GetMapValueForKey \/ GetFloatForKey
         \/ GetArg \/ HasFunction \/ IsCinderClass \/ GetTypeName \/ PrintNativeArguments
  PROVE  IInv'
<1>1. CASE DefaultTaken
  BY <1>1, EndStep DEF DefaultTaken
<1>2. CASE GetField \/ DefaultNotTaken
  <2>1. Dart_GetField(handle, Key) \in Handles \cup {Dart_Null, Error}
    BY <1>2, FoundIsHandle DEF GetField, DefaultNotTaken, Asked, IInv
  <2> QED
    BY <1>2, <2>1, FoundStep DEF GetField, DefaultNotTaken, Asked
<1>3. CASE GetMapValueForKey \/ GetFloatForKey
  <2>1. Dart_MapGetAt(handle, Key) \in Handles \cup {Dart_Null, Error}
    BY <1>3, FoundIsHandle DEF GetMapValueForKey, GetFloatForKey, Asked, IInv
  <2>2. status = "asked" /\ (Abort \/ Found(Dart_MapGetAt(handle, Key)))
    BY <1>3 DEF GetMapValueForKey, GetFloatForKey, Asked, Dart_InvokeIndex
  <2> QED
    BY <2>1, <2>2, FoundStep, EndStep DEF Abort
<1>4. CASE GetArg
  <2>1. Dart_GetNativeArgument(handle, Index) \in Handles \cup {Dart_Null, Error}
    BY <1>4, FoundIsHandle DEF GetArg, Asked, IInv
  <2>2. status = "asked" /\ (Abort \/ Found(Dart_GetNativeArgument(handle, Index)))
    BY <1>4 DEF GetArg, Asked
  <2> QED
    BY <2>1, <2>2, FoundStep, EndStep DEF Abort
<1>5. CASE GetTypeName
  <2>1. Dart_TypeName(Dart_InstanceGetType(handle)) \in TypeNames \cup {Error}
    BY <1>5, FoundIsHandle DEF GetTypeName, Asked, IInv
  <2>2. status = "asked" /\ (Abort \/ Found(Dart_TypeName(Dart_InstanceGetType(handle))))
    BY <1>5 DEF GetTypeName, Asked
  <2> QED
    BY <2>1, <2>2, FoundStep, EndStep DEF Abort
<1>6. CASE HasFunction \/ IsCinderClass \/ PrintNativeArguments
  <2>1. status = "asked" /\ access \in DOMAIN Queries
    BY <1>6 DEF HasFunction, IsCinderClass, PrintNativeArguments, Asked, Queries
  <2>2. Abort \/ \E v : Answer(v)
    BY <1>6 DEF HasFunction, IsCinderClass, PrintNativeArguments
  <2> QED
    BY <2>1, <2>2, AnswerStep, EndStep DEF Abort
<1> QED
  BY <1>1, <1>2, <1>3, <1>4, <1>5, <1>6

\* Converting it.
LEMMA GetValueStep ==
  ASSUME IInv,
         \/ FieldsMissing \/ FieldsFound \/ ConvertNumber \/ TooLong \/ ConvertBool \/ Throws
         \/ ConvertString \/ SwitchLevel \/ Return
  PROVE  IInv'
<1>1. CASE FieldsMissing \/ Return
  BY <1>1, EndStep DEF FieldsMissing, Return
<1>2. CASE FieldsFound
  <2>1. /\ UNCHANGED <<call, pending, result>> /\ type' = type /\ status' = "converting"
        /\ type \in Types /\ pending = Components(type) /\ type \in Structured
        /\ access = "getValue" /\ Missing' = {}
    BY <1>2 DEF FieldsFound, IInv, Untouched, TypeOK, call, Missing, Source
  <2>2. Progress'
    BY <2>1, Beginning DEF Progress
  <2>3. TypeOK'
    BY <2>1 DEF IInv, TypeOK, call
  <2>4. Untouched'
    <3>1. type # "string"
      BY <2>1 DEF Structured, Groups, Colors, Vectors2, Vectors3, Vectors4, Matrix, Quaternions,
           Rectangle
    <3> QED
      BY <2>1, <3>1 DEF Untouched, call
  <2> QED
    BY <2>2, <2>3, <2>4 DEF IInv
<1>3. CASE ConvertNumber
  <2>1. PICK v \in Outcomes(Current.scalar, Source(Current)) : Assign(Got(v))
    BY <1>3 DEF ConvertNumber
  <2>2. Got(v) # Garbage
    BY DifferentValues
  <2> QED
    BY <1>3, <2>1, <2>2, AssignStep DEF ConvertNumber, Converting
<1>4. CASE TooLong
  <2>1. Current.scalar # "string"
    BY <1>4 DEF TooLong, Converting, Numbers
  <2>2. IsNumber(Source(Current)) /\ IsLong(Source(Current))
    BY <1>4 DEF TooLong, IsNumber, IsLong, Dart_IntegerToInt64
  <2> QED
    BY <1>4, <2>1, <2>2, CheckedStep DEF TooLong, Converting
<1>5. CASE ConvertBool
  <2>1. PICK b : Assign(Got(b))
    BY <1>5 DEF ConvertBool
  <2>2. Got(b) # Garbage /\ Current.scalar \notin Numbers
    BY <1>5, DifferentValues DEF ConvertBool, Converting, Numbers
  <2> QED
    BY <1>5, <2>1, <2>2, AssignStep DEF ConvertBool, Converting
<1>6. CASE Throws
  <2>1. /\ status = "converting" /\ pending # <<>> /\ UNCHANGED call
        /\ Current.scalar # "string"
        /\ Current.scalar \in Numbers => ~ IsNumber(Source(Current))
    BY <1>6 DEF Throws, Converting, Numbers
  <2>2. CASE inDart
    BY <1>6, <2>1, <2>2, EndStep DEF Throws
  <2>3. CASE ~ inDart
    BY <1>6, <2>1, <2>3, CheckedStep DEF Throws
  <2> QED
    BY <2>2, <2>3
<1>7. CASE ConvertString
  BY <1>7, StringStep
<1>8. CASE SwitchLevel
  <2>1. type = "Level" /\ UNCHANGED <<call, pending>>
    BY <1>8 DEF SwitchLevel
  <2>2. DOMAIN result = {"index"}
    BY <2>1, LevelIsIndex DEF IInv, TypeOK
  <2>3. \/ status' = "aborted" /\ result' = result
        \/ status' = "returned" /\ DOMAIN result' = {"index"}
    BY <1>8 DEF SwitchLevel
  <2> QED
    BY <2>1, <2>2, <2>3, EndStep
<1> QED
  BY <1>1, <1>2, <1>3, <1>4, <1>5, <1>6, <1>7, <1>8

\* Every step.
LEMMA Inductive == IInv /\ [Next]_vars => IInv'
<1>1. IInv /\ UNCHANGED vars => IInv'
  <2> SUFFICES ASSUME IInv, UNCHANGED vars PROVE IInv'
    OBVIOUS
  <2>1. TypeOK' /\ Untouched'
    BY DEF IInv, TypeOK, Untouched, Missing, Source, vars
  <2>2. \A c : Done(c) => Done(c)'
    BY DEF Done, Source, vars
  <2>3. Progress'
    BY <2>2 DEF IInv, Progress, vars
  <2> QED
    BY <2>1, <2>3 DEF IInv
<1> QED
  BY <1>1, FindingStep, GetValueStep DEF Next

-----------------------------------------------------------------------------
(* The theorems *)

\* The variables of a conversion keep their types.
THEOREM TypeCorrect == Spec => []TypeOK
<1>1. IInv => TypeOK
  BY DEF IInv
<1> QED
  BY <1>1, Initially, Inductive, PTL DEF Spec

-----------------------------------------------------------------------------
(* The number that is returned *)

LEMMA MultipleHasNoRemainder ==
  ASSUME NEW m \in Nat \ {0}, NEW k \in Int
  PROVE  (m * k) % m = 0
<1> DEFINE r == (m * k) % m
<1>1. m * k \in Int
  OBVIOUS
<1>2. r \in 0 .. m - 1
  BY <1>1
<1>3. PICK q \in Int : m * k = m * q + r
  BY <1>1, Division
<1> HIDE DEF r
<1>4. m * (k - q) = r
  <2>1. m * (k - q) = m * k - m * q /\ m * q \in Int
    OBVIOUS
  <2> QED
    BY <1>1, <1>2, <1>3, <2>1
<1>5. ~ (k - q >= 1)
  <2> SUFFICES ASSUME k - q >= 1 PROVE FALSE
    OBVIOUS
  <2>1. m * (k - q) >= m
    OBVIOUS
  <2> QED
    BY <1>2, <1>4, <2>1
<1>6. ~ (k - q <= -1)
  <2> SUFFICES ASSUME k - q <= -1 PROVE FALSE
    OBVIOUS
  <2>1. m * (k - q) <= -m
    OBVIOUS
  <2> QED
    BY <1>2, <1>4, <2>1
<1>7. k - q = 0
  BY <1>5, <1>6
<1>8. r = 0
  BY <1>4, <1>7
<1> QED
  BY <1>8 DEF r

\* The cast of an int64_t to size_t gives a size_t, and keeps the number up to
\* multiples of 2 * LongHalf.
LEMMA WrapSizeCongruent ==
  ASSUME NEW n \in Int
  PROVE  /\ WrapSize(n) \in SizeRange
         /\ \E k \in Int : WrapSize(n) - n = 2 * LongHalf * k
<1> DEFINE M == 2 * LongHalf
<1>1. M \in Nat \ {0}
  BY WidthsAssumption
<1>2. WrapSize(n) = n % M /\ SizeRange = 0 .. M - 1
  BY DEF WrapSize, SizeRange
<1> SUFFICES n % M \in 0 .. M - 1 /\ \E k \in Int : (n % M) - n = M * k
  BY <1>2
<1> HIDE DEF M
<1>3. n % M \in 0 .. M - 1
  BY <1>1
<1>4. PICK q \in Int : n = M * q + (n % M)
  BY <1>1, Division
<1> DEFINE rest == n % M
           multiple == M * q
<1>5. rest - n = -multiple
  <2>1. rest \in Int /\ multiple \in Int /\ n = multiple + rest
    BY <1>1, <1>3, <1>4
  <2> HIDE DEF rest, multiple
  <2> QED
    BY <2>1
<1>6. -(M * q) = M * (-q) /\ -q \in Int
  BY <1>1
<1> QED
  BY <1>3, <1>5, <1>6

\* Whatever a number is converted to, the casts give what they should.
THEOREM OutcomesAreRight ==
  ASSUME NEW scalar \in Numbers, NEW h, WellFormed(h), IsNumber(h),
         NEW v \in Outcomes(scalar, h)
  PROVE  IsRight(scalar, h, v)
<1>1. CASE Dart_IsInteger(h)
  <2>1. h.n \in Int /\ v = FromInt64(scalar, h.n) /\ h.kind = "int"
    BY <1>1 DEF Outcomes, WellFormed, Dart_IntegerToInt64, Dart_IsInteger
  <2>2. CASE scalar = "int"
    <3>1. v = WrapInt(h.n) /\ v \in IntRange /\ v \in Int
      BY <2>1, <2>2, WrapIntFits, WidthsAssumption DEF FromInt64, IntRange
    <3>2. PICK k \in Int : v - h.n = 2 * IntHalf * k
      BY <2>1, <3>1, WrapIntCongruent
    <3>3. (2 * IntHalf * k) % (2 * IntHalf) = 0
      <4>1. 2 * IntHalf \in Nat \ {0}
        BY WidthsAssumption
      <4> QED
        BY <4>1, MultipleHasNoRemainder
    <3> QED
      BY <2>1, <2>2, <3>1, <3>2, <3>3 DEF IsRight
  <2>3. CASE scalar = "size_t"
    <3>1. v = WrapSize(h.n)
      BY <2>1, <2>3 DEF FromInt64
    <3>2. PICK k \in Int : v - h.n = 2 * LongHalf * k
      BY <2>1, <3>1, WrapSizeCongruent
    <3>3. (2 * LongHalf * k) % (2 * LongHalf) = 0
      <4>1. 2 * LongHalf \in Nat \ {0}
        BY WidthsAssumption
      <4> QED
        BY <4>1, MultipleHasNoRemainder
    <3>4. v \in SizeRange
      BY <2>1, <3>1, WrapSizeCongruent
    <3> QED
      BY <2>1, <2>3, <3>2, <3>3, <3>4 DEF IsRight
  <2>4. CASE scalar \in {"float", "double"}
    BY <2>1, <2>4 DEF FromInt64, IsRight
  <2> QED
    BY <2>2, <2>3, <2>4 DEF Numbers
<1>2. CASE ~ Dart_IsInteger(h)
  <2>1. h.kind = "double" /\ h.halves \in Int /\ Dart_DoubleValue(h) = {h.halves}
    BY <1>2 DEF IsNumber, Dart_IsDouble, WellFormed, Dart_DoubleValue
  <2>2. v \in IF scalar = "int" THEN FromDouble(h.halves, IntRange)
              ELSE IF scalar = "size_t" THEN FromDouble(h.halves, SizeRange) ELSE {h.halves}
    BY <1>2, <2>1 DEF Outcomes
  <2>3. CASE scalar = "int" /\ Truncate(h.halves) \in IntRange
    <3>1. v = Truncate(h.halves)
      BY <2>2, <2>3 DEF FromDouble
    <3> QED
      BY <2>1, <2>3, <3>1, TruncateIsRight DEF IsRight
  <2>4. CASE scalar = "size_t" /\ Truncate(h.halves) \in SizeRange
    <3>1. v = Truncate(h.halves)
      BY <2>2, <2>4 DEF FromDouble
    <3> QED
      BY <2>1, <2>4, <3>1, TruncateIsRight DEF IsRight
  <2>5. CASE scalar = "int" /\ Truncate(h.halves) \notin IntRange
    BY <2>1, <2>5 DEF IsRight
  <2>6. CASE scalar = "size_t" /\ Truncate(h.halves) \notin SizeRange
    BY <2>1, <2>6 DEF IsRight
  <2>7. CASE scalar \in {"float", "double"}
    BY <2>1, <2>2, <2>7 DEF IsRight
  <2> QED
    BY <2>3, <2>4, <2>5, <2>6, <2>7 DEF Numbers
<1> QED
  BY <1>1, <1>2

\* The name of a type is a string.
LEMMA NamesAreStrings == \A h \in TypeNames : h.kind \in {"string", "error"}
BY DEF TypeNames, Dart_TypeName, Dart_NewStringFromCString, Error

\* What getValue converts is as the Dart VM keeps it.
LEMMA SourcesAreWellFormed ==
  ASSUME TypeOK, access = "getValue", NEW c
  PROVE  WellFormed(Source(c))
<1>1. handle \in Handles \/ handle.kind \in {"string", "error", "null"}
  <2>1. handle \in Handles \cup TypeNames \cup {Dart_Null, Error}
    BY DEF TypeOK
  <2>2. Dart_Null.kind = "null" /\ Error.kind = "error"
    BY DEF Dart_Null, Error
  <2> QED
    BY <2>1, <2>2, NamesAreStrings
<1>2. WellFormed(Error)
  BY DEF WellFormed, Error, Dart_IsInteger, Dart_IsDouble
<1>3. WellFormed(handle)
  BY <1>1, HandlesAssumption DEF WellFormed, Dart_IsInteger, Dart_IsDouble
<1>4. WellFormed(Dart_GetField(handle, c.name))
  BY <1>1, <1>2, HandlesAssumption DEF Dart_GetField
<1> QED
  BY <1>3, <1>4 DEF Source

-----------------------------------------------------------------------------
(* What is true of a value that is returned *)

Correct ==
  AllOrNothing /\ NumbersAreRight /\ CinderObjectsConvert /\ LevelsAgree /\ DebugNeverGuesses

\* When all components have been dealt with, those of a structured type were assigned.
LEMMA AllAssigned ==
  ASSUME TypeOK, type \in Structured,
         \A i \in DOMAIN Components(type) : Done(Components(type)[i])
  PROVE  \A name \in DOMAIN result : result[name] # Constructed
<1>1. \A i \in DOMAIN Components(type) : Components(type)[i].scalar \in Numbers
  <2>1. Components(type) \in Seq(Component(Numbers))
    BY StructuredComponents
  <2>2. \A i \in DOMAIN Components(type) : Components(type)[i] \in Component(Numbers)
    BY <2>1, ElementOfSeq, LenProperties
  <2> QED
    BY <2>2 DEF Component
<1>2. \A i \in DOMAIN Components(type) : result[Components(type)[i].name] # Constructed
  BY <1>1, DifferentValues DEF Done
<1> QED
  BY <1>2, ComponentsOf

\* A value with one component is converted or it is not.
LEMMA SingleAllOrNothing ==
  ASSUME TypeOK, type \notin Structured, DOMAIN result' = DOMAIN result
  PROVE  AllOrNothing'
<1>1. PICK name : DOMAIN result' = {name}
  BY SingleComponent DEF TypeOK
<1> QED
  BY <1>1 DEF AllOrNothing

\* An ivec3 of cinder.dart lacks a field.
LEMMA NoDepth ==
  ASSUME type = "ivec3", handle.kind = "object", DOMAIN handle.fields = CinderClass[CinderType[type]]
  PROVE  Missing # {}
<1>1. \A group \in Groups : "ivec3" \in DOMAIN group => group = Vectors3
  BY DEF Groups, Colors, Vectors2, Vectors3, Vectors4, Matrix, Quaternions, Rectangle
<1>2. Vectors3 \in Groups /\ "ivec3" \in DOMAIN Vectors3
  BY DEF Groups, Vectors3
<1>3. Components("ivec3") = Vectors3.ivec3
  <2> DEFINE group == CHOOSE g \in Groups : "ivec3" \in DOMAIN g
  <2>1. "ivec3" \in Structured
    BY <1>2 DEF Structured
  <2>2. group \in Groups /\ "ivec3" \in DOMAIN group
    BY <1>2
  <2>3. Components("ivec3") = group["ivec3"]
    BY <2>1 DEF Components
  <2> HIDE DEF group
  <2> QED
    BY <1>1, <2>2, <2>3
<1>4. 3 \in DOMAIN Components(type) /\ Components(type)[3].name = "z"
  BY <1>3 DEF Vectors3, Fields, XYZ
<1>5. "z" \notin DOMAIN handle.fields
  BY DEF CinderType, CinderClass
<1>6. Dart_IsError(Source(Components(type)[3]))
  BY <1>4, <1>5 DEF Source, Dart_GetField, Dart_IsError, Error
<1> QED
  BY <1>4, <1>6 DEF Missing

\* getValue returns what it converted.
LEMMA ReturnCorrect ==
  ASSUME IInv, Return
  PROVE  Correct'
<1>1. /\ status = "converting" /\ pending = <<>> /\ type # "Level" /\ access = "getValue"
      /\ UNCHANGED <<call, result>> /\ DOMAIN result' = DOMAIN result /\ TypeOK
  BY DEF Return, IInv, Untouched
<1>2. \A i \in DOMAIN Components(type) : Done(Components(type)[i])
  BY <1>1, NothingLeft
<1>3. type \in Structured => \A name \in DOMAIN result : result[name] # Constructed
  BY <1>1, <1>2, AllAssigned
<1>4. AllOrNothing'
  BY <1>1, <1>3, SingleAllOrNothing DEF AllOrNothing
<1>5. NumbersAreRight'
  <2> SUFFICES ASSUME NEW i \in DOMAIN Components(type), NEW c, c = Components(type)[i],
                      NEW h, h = Source(c), c.scalar \in Numbers,
                      ~ (~ asserts /\ (~ inDart \/ IsLong(h)))
               PROVE  IsNumber(h) /\ IsRight(c.scalar, h, result[c.name][2])
    BY <1>1 DEF NumbersAreRight, Source, call
  <2>1. WellFormed(h)
    BY <1>1, SourcesAreWellFormed
  <2>2. IsNumber(h) /\ \E v \in Outcomes(c.scalar, h) : result[c.name] = Got(v)
    BY <1>2 DEF Done
  <2>3. PICK v \in Outcomes(c.scalar, h) : result[c.name] = Got(v)
    BY <2>2
  <2>4. result[c.name][2] = v
    BY <2>3, DifferentValues
  <2> QED
    BY <2>1, <2>2, <2>4, OutcomesAreRight
<1>6. CinderObjectsConvert'
  <2> SUFFICES ASSUME type \in DOMAIN CinderType, handle.kind = "object",
                      DOMAIN handle.fields = CinderClass[CinderType[type]]
               PROVE  \A c \in DOMAIN result : result[c] = Constructed <=> type = "ivec3"
    BY <1>1 DEF CinderObjectsConvert, call
  <2>1. type \in Structured
    BY DEF CinderType, Structured, Groups, Colors, Vectors2, Vectors3, Vectors4, Matrix,
         Quaternions, Rectangle
  <2>2. type # "ivec3"
    BY <1>1, <2>1, NoDepth DEF IInv, Untouched
  <2> QED
    BY <1>3, <2>1, <2>2
<1>7. LevelsAgree'
  BY <1>1 DEF LevelsAgree, call
<1>8. DebugNeverGuesses'
  <2>1. asserts => \A name \in DOMAIN result : result[name] # Garbage
    <3>1. asserts => \A i \in DOMAIN Components(type) : result[Components(type)[i].name] # Garbage
      BY <1>2, DifferentValues DEF Done
    <3> QED
      BY <1>1, <3>1, ComponentsOf
  <2> QED
    BY <1>1, <2>1 DEF DebugNeverGuesses, call
<1> QED
  BY <1>4, <1>5, <1>6, <1>7, <1>8 DEF Correct

\* The index of a LogLevel gives the level of its name.
LEMMA LevelCorrect ==
  ASSUME IInv, SwitchLevel, status' = "returned"
  PROVE  Correct'
<1>1. /\ status = "converting" /\ pending = <<>> /\ type = "Level" /\ access = "getValue"
      /\ UNCHANGED call /\ TypeOK
  BY DEF SwitchLevel, IInv, Untouched
<1>2. PICK i \in IF result.index = Garbage THEN IntRange ELSE {result.index[2]} :
        IF i + 1 \in DOMAIN Levels THEN result' = [index |-> Got(Levels[i + 1])]
        ELSE ~ asserts /\ result' = [index |-> Garbage]
  BY DEF SwitchLevel
<1>3. DOMAIN result' = {"index"}
  BY <1>2
<1>4. AllOrNothing'
  BY <1>3 DEF AllOrNothing
<1>5. NumbersAreRight' /\ CinderObjectsConvert'
  BY <1>1 DEF NumbersAreRight, CinderObjectsConvert, CinderType, call
<1>6. LevelsAgree'
  <2> SUFFICES ASSUME NEW l \in DOMAIN LogLevel,
                      Dart_GetField(handle, "index") = [kind |-> "int", n |-> l - 1]
               PROVE  result'.index = Got(LogLevel[l])
    BY <1>1 DEF LevelsAgree, call
  <2> DEFINE h == Dart_GetField(handle, "index")
  <2>1. l \in 1 .. 5 /\ Levels[l] = LogLevel[l] /\ DOMAIN Levels = 1 .. 5 /\ Len(Levels) = 5
    BY DEF Levels, LogLevel
  <2>2. h.kind = "int" /\ h.n = l - 1 /\ l - 1 \in IntRange /\ l - 1 \in LongRange
    BY <2>1, WidthsAssumption, LevelsAssumption DEF IntRange, LongRange
  <2> HIDE DEF h
  <2>3. /\ IsNumber(h) /\ ~ IsLong(h)
        /\ Outcomes("int", h) = {l - 1}
    <3>1. Dart_IsInteger(h) /\ Dart_IntegerToInt64(h) = {l - 1}
      BY <2>2 DEF Dart_IsInteger, Dart_IntegerToInt64
    <3>2. FromInt64("int", l - 1) = l - 1
      BY <2>2, IntSurvives DEF FromInt64
    <3> QED
      BY <2>2, <3>1, <3>2 DEF IsNumber, IsLong, Outcomes
  <2>4. Done([name |-> "index", scalar |-> "int"])
    BY <1>1, NothingLeft, LevelIsIndex
  <2>5. Source([name |-> "index", scalar |-> "int"]) = h
    BY DEF Source, h
  <2>6. result.index = Got(l - 1)
    BY <2>3, <2>4, <2>5 DEF Done, Numbers
  <2>7. i = l - 1
    BY <1>2, <2>6, DifferentValues
  <2>8. i + 1 = l
    BY <2>1, <2>7
  <2> QED
    BY <1>2, <2>1, <2>8
<1>7. DebugNeverGuesses'
  <2>1. asserts => \A c \in DOMAIN result' : result'[c] # Garbage
    BY <1>2, DifferentValues
  <2> QED
    BY <1>1, <2>1 DEF DebugNeverGuesses, call
<1> QED
  BY <1>4, <1>5, <1>6, <1>7 DEF Correct

\* cinder.dart declares the fields that a C++ type asks for, but for ivec3.
LEMMA CinderFields ==
  ASSUME NEW t \in DOMAIN CinderType, t # "ivec3", NEW i \in DOMAIN Components(t)
  PROVE  Components(t)[i].name \in CinderClass[CinderType[t]] /\ Components(t)[i].name # "self"
<1> DEFINE Declares(group) ==
             \A u \in (DOMAIN group \cap DOMAIN CinderType) \ {"ivec3"} : \A j \in DOMAIN group[u] :
               group[u][j].name \in CinderClass[CinderType[u]]
<1>1. Declares(Colors)
  BY DEF Colors, CinderType, CinderClass, Fields
<1>2. Declares(Vectors2)
  BY DEF Vectors2, XY, CinderType, CinderClass, Fields
<1>3. Declares(Vectors3)
  BY DEF Vectors3, XYZ, CinderType, CinderClass, Fields
<1>4. Declares(Vectors4)
  BY DEF Vectors4, XYZW, CinderType, CinderClass, Fields
<1>5. Declares(Matrix)
  BY DEF Matrix, CinderType, CinderClass, Fields
<1>6. Declares(Quaternions)
  BY DEF Quaternions, CinderType
<1>7. Declares(Rectangle)
  BY DEF Rectangle, CinderType, CinderClass, Fields
<1>8. \A group \in Groups : Declares(group)
  <2> HIDE DEF Declares
  <2> QED
    BY <1>1, <1>2, <1>3, <1>4, <1>5, <1>6, <1>7 DEF Groups
<1> DEFINE group == CHOOSE g \in Groups : t \in DOMAIN g
<1>9. t \in Structured
  BY DEF CinderType, Structured, Groups, Colors, Vectors2, Vectors3, Vectors4, Matrix, Rectangle
<1>10. group \in Groups /\ t \in DOMAIN group
  BY <1>9 DEF Structured
<1>11. Components(t) = group[t]
  BY <1>9 DEF Components
<1> HIDE DEF group
<1>12. Components(t)[i].name \in CinderClass[CinderType[t]]
  BY <1>8, <1>10, <1>11
<1>13. \A u \in DOMAIN CinderType : "self" \notin CinderClass[CinderType[u]]
  BY DEF CinderType, CinderClass
<1> QED
  BY <1>12, <1>13

\* When a field is missing the constructed value is returned, and the object is none
\* of cinder.dart, or it is an ivec3.
LEMMA MissingCorrect ==
  ASSUME IInv, FieldsMissing
  PROVE  Correct'
<1>1. /\ status = "looking up" /\ type \in Structured /\ access = "getValue" /\ Missing # {}
      /\ UNCHANGED <<call, result>> /\ result = Declared(type) /\ TypeOK
  BY DEF FieldsMissing, IInv, Untouched
<1>2. \A name \in DOMAIN result : result[name] = Constructed
  BY <1>1 DEF Declared
<1>3. AllOrNothing'
  BY <1>1, <1>2 DEF AllOrNothing
<1>4. NumbersAreRight'
  <2>1. \A i \in DOMAIN Components(type) : result[Components(type)[i].name] = Constructed
    BY <1>1, <1>2, ComponentsOf
  <2> QED
    BY <1>1, <2>1 DEF NumbersAreRight, call
<1>5. CinderObjectsConvert'
  <2> SUFFICES ASSUME type \in DOMAIN CinderType, handle.kind = "object",
                      DOMAIN handle.fields = CinderClass[CinderType[type]], type # "ivec3"
               PROVE  FALSE
    BY <1>1, <1>2 DEF CinderObjectsConvert, call
  <2>1. PICK i \in DOMAIN Components(type) : Dart_IsError(Source(Components(type)[i]))
    BY <1>1 DEF Missing
  <2>2. PICK name : name = Components(type)[i].name
    OBVIOUS
  <2>3. name \in DOMAIN handle.fields /\ name # "self"
    BY <2>2, CinderFields
  <2>4. Source(Components(type)[i]) = handle.fields[name]
    BY <2>2, <2>3 DEF Source, Dart_GetField
  <2>5. handle \in Handles
    <3>1. handle \in Handles \cup TypeNames \cup {Dart_Null, Error}
      BY <1>1 DEF TypeOK
    <3>2. Dart_Null.kind = "null" /\ Error.kind = "error"
      BY DEF Dart_Null, Error
    <3> QED
      BY <3>1, <3>2, NamesAreStrings
  <2>6. ~ Dart_IsError(handle.fields[name])
    BY <2>3, <2>5, HandlesAssumption
  <2> QED
    BY <2>1, <2>4, <2>6
<1>6. LevelsAgree'
  BY <1>1, LevelIsIndex DEF LevelsAgree, call
<1>7. DebugNeverGuesses'
  BY <1>1, <1>2, DifferentValues DEF DebugNeverGuesses, call
<1> QED
  BY <1>3, <1>4, <1>5, <1>6, <1>7 DEF Correct

\* getFieldOrDefault returns the default.
LEMMA DefaultCorrect ==
  ASSUME IInv, DefaultTaken
  PROVE  Correct'
<1>1. /\ access = "getFieldOrDefault" /\ status = "asked" /\ UNCHANGED call
      /\ \A name \in DOMAIN result' : result'[name] = Default
  BY DEF DefaultTaken, Asked
<1>2. AllOrNothing'
  BY <1>1, DifferentValues DEF AllOrNothing
<1>3. NumbersAreRight' /\ CinderObjectsConvert'
  BY <1>1 DEF NumbersAreRight, CinderObjectsConvert, call
<1>4. LevelsAgree'
  <2>1. handle \in Containers("getFieldOrDefault")
    BY <1>1 DEF IInv, TypeOK
  <2>2. Dart_GetField(handle, "index") = Error
    BY <2>1 DEF Containers, Object, Keyed, None, Key, Dart_Null, Error, Dart_GetField
  <2>3. Error.kind = "error"
    BY DEF Error
  <2>4. \A n : Dart_GetField(handle, "index") # [kind |-> "int", n |-> n]
    BY <2>2, <2>3
  <2> QED
    BY <1>1, <2>4 DEF LevelsAgree, call
<1>5. DebugNeverGuesses'
  BY <1>1, DifferentValues DEF DebugNeverGuesses, call
<1> QED
  BY <1>2, <1>3, <1>4, <1>5 DEF Correct

\* In a Debug build hasFunction says of a library what is true of it.
LEMMA HasFunctionTells ==
  ASSUME IInv, HasFunction, status' = "returned", asserts
  PROVE  result'.self = Got(TRUE) <=> handle.kind = "library" /\ Key \in handle.functions
<1> DEFINE found == Dart_LookupFunction(handle, Key)
<1>1. access = "hasFunction" /\ status = "asked"
  BY DEF HasFunction, Asked
<1>2. ~ Dart_IsError(found) /\ result'.self = Got(~ Dart_IsNull(found))
  BY DEF HasFunction, Abort, Answer
<1>3. handle.kind = "library" /\ (Dart_IsNull(found) <=> Key \notin handle.functions)
  BY <1>2 DEF Dart_LookupFunction, Dart_IsError, Dart_IsNull, Error, Function, Dart_Null
<1> HIDE DEF found
<1>4. CASE Dart_IsNull(found)
  <2>1. (~ Dart_IsNull(found)) = FALSE
    BY <1>4
  <2>2. result'.self = Got(FALSE) /\ Got(FALSE) # Got(TRUE)
    BY <1>2, <2>1, DifferentValues
  <2> QED
    BY <1>3, <1>4, <2>2
<1>5. CASE ~ Dart_IsNull(found)
  <2>1. (~ Dart_IsNull(found)) = TRUE
    BY <1>5
  <2>2. result'.self = Got(TRUE)
    BY <1>2, <2>1
  <2> QED
    BY <1>3, <1>5, <2>2
<1> QED
  BY <1>4, <1>5

\* Those that ask about an object return an answer.
LEMMA AnswerCorrect ==
  ASSUME IInv, HasFunction \/ IsCinderClass \/ PrintNativeArguments, status' = "returned"
  PROVE  Correct'
<1>1. /\ status = "asked" /\ access \in DOMAIN Queries
      /\ access \in {"hasFunction", "isCinderClass", "printNativeArgumentsToString"}
      /\ HasFunction <=> access = "hasFunction"
  BY DEF HasFunction, IsCinderClass, PrintNativeArguments, Asked, Queries
<1>2. PICK v : Answer(v) /\ (asserts => v # Garbage)
  BY DifferentValues DEF HasFunction, IsCinderClass, PrintNativeArguments, Abort
<1>3. UNCHANGED call /\ DOMAIN result' = {"self"} /\ result'.self = v
  BY <1>2 DEF Answer
<1>4. type \in {"bool", "string"}
  BY <1>1 DEF IInv, Untouched, Queries
<1>5. AllOrNothing'
  BY <1>3 DEF AllOrNothing
<1>6. NumbersAreRight' /\ CinderObjectsConvert' /\ LevelsAgree'
  BY <1>1, <1>3, <1>4 DEF NumbersAreRight, CinderObjectsConvert, LevelsAgree, call, Queries
<1>7. DebugNeverGuesses'
  <2>1. asserts => \A name \in DOMAIN result' : result'[name] # Garbage
    BY <1>2, <1>3
  <2>2. asserts /\ access = "hasFunction" =>
          (result'.self = Got(TRUE) <=> handle.kind = "library" /\ Key \in handle.functions)
    BY <1>1, HasFunctionTells
  <2> QED
    BY <1>3, <2>1, <2>2 DEF DebugNeverGuesses, call
<1> QED
  BY <1>5, <1>6, <1>7 DEF Correct

LEMMA CorrectStep == IInv /\ Correct /\ [Next]_vars => Correct'
<1> SUFFICES ASSUME IInv, Correct, [Next]_vars PROVE Correct'
  OBVIOUS
<1>1. CASE status' # "returned"
  BY <1>1 DEF Correct, AllOrNothing, NumbersAreRight, CinderObjectsConvert, LevelsAgree,
       DebugNeverGuesses
<1>2. CASE UNCHANGED vars
  BY <1>2 DEF Correct, AllOrNothing, NumbersAreRight, CinderObjectsConvert, LevelsAgree,
       DebugNeverGuesses, Source, vars
<1>3. CASE Next /\ status' = "returned"
  <2>1. \/ DefaultTaken \/ HasFunction \/ IsCinderClass \/ PrintNativeArguments
        \/ FieldsMissing \/ SwitchLevel \/ Return
    <3>1. Next => \/ DefaultTaken \/ HasFunction \/ IsCinderClass \/ PrintNativeArguments
                  \/ FieldsMissing \/ SwitchLevel \/ Return
                  \/ status' \in {"looking up", "converting", "thrown", "aborted"}
      BY DEF Next, GetField, DefaultNotTaken, GetMapValueForKey, GetFloatForKey, GetArg,
           GetTypeName, Found, FirstStep, Abort, FieldsFound, ConvertNumber, TooLong, ConvertBool,
           Throws, ConvertString, Converting, Checked, Assign
    <3> QED
      BY <1>3, <3>1
  <2> QED
    BY <1>3, <2>1, DefaultCorrect, AnswerCorrect, MissingCorrect, LevelCorrect, ReturnCorrect
<1> QED
  BY <1>1, <1>2, <1>3

\* Whatever is asked for from whatever object, what is returned is correct.
LEMMA ReturnsAreCorrect == Spec => []Correct
<1>1. Init => Correct
  BY DEF Init, FirstStep, Correct, AllOrNothing, NumbersAreRight, CinderObjectsConvert,
       LevelsAgree, DebugNeverGuesses
<1> QED
  BY <1>1, Initially, Inductive, CorrectStep, PTL DEF Spec

\* For integers of any width and any Dart objects, no conversion returns a value
\* that is in part the constructor's and in part the script's.
THEOREM NeverHalfConverted == Spec => []AllOrNothing
<1>1. Correct => AllOrNothing
  BY DEF Correct
<1> QED
  BY <1>1, ReturnsAreCorrect, PTL

\* In a Debug build, and in a callback of Dart code in any build, every number that
\* getValue returns is the right one, for ints and size_ts of any width.
THEOREM NumbersReturnedAreRight == Spec => []NumbersAreRight
<1>1. Correct => NumbersAreRight
  BY DEF Correct
<1> QED
  BY <1>1, ReturnsAreCorrect, PTL

\* Whatever the fields of an object of cinder.dart hold, it is converted, and an
\* ivec3 is not.
THEOREM CinderObjectsAreConverted == Spec => []CinderObjectsConvert
<1>1. Correct => CinderObjectsConvert
  BY DEF Correct
<1> QED
  BY <1>1, ReturnsAreCorrect, PTL

\* The Dart enum and the C++ switch agree, for any int wide enough for the levels.
THEOREM LevelsKeepTheirNames == Spec => []LevelsAgree
<1>1. Correct => LevelsAgree
  BY DEF Correct
<1> QED
  BY <1>1, ReturnsAreCorrect, PTL

\* In a Debug build no function of the family returns what nobody set.
THEOREM DebugReturnsNoGuess == Spec => []DebugNeverGuesses
<1>1. Correct => DebugNeverGuesses
  BY DEF Correct
<1> QED
  BY <1>1, ReturnsAreCorrect, PTL

=============================================================================
