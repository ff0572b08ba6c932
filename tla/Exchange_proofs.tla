---------------------------- MODULE Exchange_proofs ----------------------------
(***************************************************************************)
(* Proofs about Exchange, for any types, values and requests as its        *)
(* assumptions have them.                                                  *)
(*                                                                         *)
(* The codec, the changes and the modes are recursions of modules Codec    *)
(* and MCExchange.  Here they are any operators that satisfy at each level *)
(* the equation of their recursion (CodecLevels, ChangedLevels and         *)
(* ModesLevels), and what is proved of them is proved by induction over    *)
(* the depth of a type, as the existence of a least number gives it        *)
(* (DepthInduction).                                                       *)
(*                                                                         *)
(* Two descriptions of an object's members carry the induction: Lists, of  *)
(* what an encoder writes, and Says, of any document that means a value,   *)
(* with members that are unknown, overridden or in another order.          *)
(***************************************************************************)
EXTENDS Exchange, RunConfiguration_proofs, WellFoundedInduction

Enumerates(order, S) ==
  /\ order \in Seq(S)
  /\ \A x \in S : \E i \in DOMAIN order : order[i] = x
  /\ \A i, k \in DOMAIN order : order[i] = order[k] => i = k

\* The codec does at every level what module Wire says.  These are the
\* definitions of module Codec, and InSomeOrder is such an order.
CodecLevels ==
  /\ \A S : IsFiniteSet(S) => Enumerates(Order(S), S)
  /\ \A type \in Types : \A v :
       (\A x \in Parts(type, v) : Knows(type, x)) =>
         Encoded(type, v) =
           Written(type, v, Order(Parts(type, v)),
                   [x \in Parts(type, v) |-> Encoded(Member(type, x), v[x])])
  /\ \A type \in Types : \A j :
       Decoded(type, j) =
         ReadFrom(type, j, [i \in Items(type, j) |->
                              Decoded(ItemType(type, j, i), Item(j, i))])

\* A service changes a document itself or an item in it.  This is the definition
\* of ChangedSomewhere in module MCExchange.
ChangedLevels ==
  \A how \in Harmless \union Harmful : \A type \in Types : \A j :
    Changed(how, type, j) =
      ChangedHere(how, type, j) \union
      UNION {{Put(j, i, new) :
                new \in Changed(how, ItemType(type, j, i), Item(j, i))} :
             i \in Items(type, j)}

\* Of what KnownModes holds.  This is the definition of KnownModesOnly in module
\* MCExchange.
ModesLevels ==
  \A type \in Types : \A v :
    KnownModes(type, v) <=>
      /\ type.kind = "enum" => v \in type.values
      /\ \A x \in Parts(type, v) : Knows(type, x) => KnownModes(Member(type, x), v[x])

-------------------------------------------------------------------------------
(* Induction over the depth of a type.                                     *)

\* A set of numbers that is not empty has a least one.
LEMMA LeastNumber ==
  ASSUME NEW T \in SUBSET Nat, T # {}
  PROVE  \E n \in T : \A m \in T : ~(m < n)
<1>1. IsWellFoundedOn(OpToRel(<, Nat), Nat)
  BY NatLessThanWellFounded
<1>2. PICK n \in T : \A m \in T : ~(<<m, n>> \in OpToRel(<, Nat))
  BY <1>1, WFMin
<1>3. \A m \in T : m < n => <<m, n>> \in OpToRel(<, Nat)
  BY DEF OpToRel
<1> QED
  BY <1>2, <1>3

\* What holds of a type if it holds of all types less deep holds of all.
LEMMA DepthInduction ==
  ASSUME NEW Good \in SUBSET Types,
         \A type \in Types :
           (\A t \in Types : Depth[t] < Depth[type] => t \in Good) => type \in Good
  PROVE  Good = Types
<1> SUFFICES ASSUME Types \ Good # {} PROVE FALSE
  OBVIOUS
<1> DEFINE T == {Depth[type] : type \in Types \ Good}
<1>1. T \in SUBSET Nat /\ T # {}
  BY TypesAssumption
<1>2. PICK n \in T : \A m \in T : ~(m < n)
  BY <1>1, LeastNumber
<1>3. PICK type \in Types \ Good : n = Depth[type]
  BY <1>2
<1>4. \A t \in Types : Depth[t] < Depth[type] => t \in Good
  BY <1>2, <1>3
<1> QED
  BY <1>3, <1>4

LEMMA MemberIsLessDeep ==
  ASSUME NEW type \in Types, type.kind \in Objects \union {"array"},
         NEW x, Knows(type, x)
  PROVE  Member(type, x) \in Types /\ Depth[Member(type, x)] < Depth[type]
<1>1. Member(type, x) \in PartTypes(type)
  BY DEF Member, PartTypes, Knows, Objects
<1> QED
  BY <1>1, TypesAssumption

-------------------------------------------------------------------------------
(* One level of a document.                                                *)

\* An array is decoded item by item,
LEMMA DecodedArray ==
  ASSUME CodecLevels, NEW type \in Types, type.kind = "array",
         NEW j, j.json = "array"
  PROVE  Decoded(type, j) =
           AllOf([i \in DOMAIN j.a |-> Decoded(type.elem, j.a[i])])
<1>1. Items(type, j) = DOMAIN j.a
  BY DEF Items
<1>2. \A i \in DOMAIN j.a : ItemType(type, j, i) = type.elem /\ Item(j, i) = j.a[i]
  BY DEF ItemType, Item
<1>3. Decoded(type, j) =
        AllOf([i \in Items(type, j) |-> Decoded(ItemType(type, j, i), Item(j, i))])
  BY DEF CodecLevels, ReadFrom, Objects
<1>4. [i \in Items(type, j) |-> Decoded(ItemType(type, j, i), Item(j, i))]
        = [i \in DOMAIN j.a |-> Decoded(type.elem, j.a[i])]
  BY <1>1, <1>2
<1> QED
  BY <1>3, <1>4

KnownIn(type, o) == {i \in DOMAIN o : Knows(type, o[i][1])}

Results(type, o) ==
  [i \in KnownIn(type, o) |-> Decoded(Member(type, o[i][1]), o[i][2])]

\* and an object member by member.
LEMMA DecodedObject ==
  ASSUME CodecLevels, NEW type \in Types, type.kind \in Objects, NEW o
  PROVE  Decoded(type, JObject(o)) = AssembleObject(type, o, Results(type, o))
<1> DEFINE j == JObject(o)
<1>0. j.json = "object" /\ j.o = o
  BY DEF JObject
<1>1. Items(type, j) = KnownIn(type, o)
  BY <1>0 DEF Items, KnownIn, Objects
<1>2. \A i : ItemType(type, j, i) = Member(type, o[i][1]) /\ Item(j, i) = o[i][2]
  BY <1>0 DEF ItemType, Item
<1>3. Decoded(type, j) =
        AssembleObject(type, j.o, [i \in Items(type, j) |->
                                     Decoded(ItemType(type, j, i), Item(j, i))])
  <2> HIDE DEF j
  <2> QED
    BY <1>0 DEF CodecLevels, ReadFrom, Objects
<1>4. [i \in Items(type, j) |-> Decoded(ItemType(type, j, i), Item(j, i))]
        = Results(type, o)
  BY <1>1, <1>2 DEF Results
<1> QED
  BY <1>0, <1>3, <1>4

\* The members of o, in their last places, say v.
Says(type, o, v) ==
  /\ DOMAIN o \subseteq Int
  /\ \A i \in KnownIn(type, o) :
       o[i][1] \in DOMAIN v /\ Decoded(Member(type, o[i][1]), o[i][2]) # {}
  /\ \A name \in DOMAIN v : \E i \in KnownIn(type, o) :
       /\ o[i][1] = name
       /\ Decoded(Member(type, name), o[i][2]) = {v[name]}
       /\ \A k \in KnownIn(type, o) : o[k][1] = name =>
            k <= i /\ (Gathers(type, name) => k = i)

\* A document whose members say v is decoded as v.
LEMMA SaidIsRead ==
  ASSUME CodecLevels, NEW type \in Types, type.kind \in Objects,
         NEW o, NEW v, Fits(type, v), Says(type, o, v),
         \A name \in DOMAIN v :
           Gathers(type, name) => v[name] = [x \in DOMAIN v[name] |-> v[name][x]]
  PROVE  Decoded(type, JObject(o)) = {v}
<1> DEFINE R == Results(type, o)
           names == {o[i][1] : i \in DOMAIN R}
           Given(name) == [i \in {k \in DOMAIN R : o[k][1] = name} |->
                             CHOOSE w \in R[i] : TRUE]
<1>1. DOMAIN R = KnownIn(type, o)
  BY DEF Results
<1>2. \A i \in DOMAIN R : R[i] = Decoded(Member(type, o[i][1]), o[i][2])
  BY DEF Results
<1>3. names = DOMAIN v
  <2>1. \A i \in KnownIn(type, o) : o[i][1] \in DOMAIN v
    BY DEF Says
  <2>2. \A name \in DOMAIN v : \E i \in KnownIn(type, o) : o[i][1] = name
    BY DEF Says
  <2> HIDE DEF R
  <2> QED
    BY <1>1, <2>1, <2>2
<1>4. ASSUME NEW name \in DOMAIN v
      PROVE  Kept(type, name, Given(name)) = v[name]
  <2> DEFINE g == Given(name)
  <2>1. PICK i \in KnownIn(type, o) :
          /\ o[i][1] = name
          /\ Decoded(Member(type, name), o[i][2]) = {v[name]}
          /\ \A k \in KnownIn(type, o) : o[k][1] = name =>
               k <= i /\ (Gathers(type, name) => k = i)
    BY DEF Says
  <2>2. DOMAIN g = {k \in KnownIn(type, o) : o[k][1] = name}
    BY <1>1
  <2>3. i \in DOMAIN g /\ g[i] = v[name]
    BY <1>1, <1>2, <2>1, <2>2
  <2>4. DOMAIN g \subseteq Int /\ \A k \in DOMAIN g : k <= i
    BY <2>1, <2>2 DEF Says, KnownIn
  <2> HIDE DEF g
  <2>5. Max(DOMAIN g) = i
    BY <2>3, <2>4 DEF Max
  <2>6. ASSUME ~Gathers(type, name)
        PROVE  Kept(type, name, g) = v[name]
    BY <2>3, <2>5, <2>6 DEF Kept
  <2>7. ASSUME Gathers(type, name)
        PROVE  Kept(type, name, g) = v[name]
    <3>1. DOMAIN g = {i}
      BY <2>1, <2>2, <2>3, <2>7
    <3>2. UNION {DOMAIN g[k] : k \in DOMAIN g} = DOMAIN v[name]
      BY <2>3, <3>1
    <3>3. \A key \in DOMAIN v[name] : {k \in DOMAIN g : key \in DOMAIN g[k]} = {i}
      BY <2>3, <3>1
    <3>4. Max({i}) = i
      BY <2>3, <2>4 DEF Max
    <3>5. Kept(type, name, g)
            = [key \in UNION {DOMAIN g[k] : k \in DOMAIN g} |->
                 g[Max({k \in DOMAIN g : key \in DOMAIN g[k]})][key]]
      BY <2>7 DEF Kept
    <3>6. Kept(type, name, g) = [key \in DOMAIN v[name] |-> v[name][key]]
      BY <2>3, <3>2, <3>3, <3>4, <3>5
    <3> QED
      BY <2>7, <3>6
  <2> QED
    BY <2>6, <2>7 DEF g
<1>5. AssembleObject(type, o, R) = {[name \in names |-> Kept(type, name, Given(name))]}
  <2>1. \A i \in DOMAIN R : R[i] # {}
    BY <1>1, <1>2 DEF Says
  <2>2. type.kind = "struct" => type.required \subseteq names
    BY <1>3 DEF Fits
  <2> HIDE DEF R
  <2> QED
    BY <2>1, <2>2 DEF AssembleObject
<1>6. [name \in names |-> Kept(type, name, Given(name))]
        = [name \in DOMAIN v |-> v[name]]
  BY <1>3, <1>4
<1>7. v = [name \in DOMAIN v |-> v[name]]
  BY DEF Fits
<1> QED
  BY <1>5, <1>6, <1>7, DecodedObject
-------------------------------------------------------------------------------
(* What is encoded is decoded.                                             *)

\* o has a member for every name of parts and no other, each with its part.
Lists(o, parts) ==
  /\ o \in Seq({o[i] : i \in DOMAIN o})
  /\ \A i \in DOMAIN o :
       o[i][1] \in DOMAIN parts /\ o[i] = <<o[i][1], parts[o[i][1]]>>
  /\ \A i, k \in DOMAIN o : o[i][1] = o[k][1] => i = k
  /\ \A name \in DOMAIN parts : \E i \in DOMAIN o : o[i][1] = name

PartDocs(type, v) == [x \in Parts(type, v) |-> Encoded(Member(type, x), v[x])]

LEMMA KnownParts ==
  ASSUME NEW type \in Types, NEW v, Fits(type, v)
  PROVE  \A x \in Parts(type, v) : Knows(type, x)
BY DEF Fits, Parts, Knows, Objects

\* An object is encoded with one member for each of its parts.
LEMMA EncodedObject ==
  ASSUME CodecLevels, NEW type \in Types, type.kind \in Objects,
         NEW v, Fits(type, v)
  PROVE  \E o : Encoded(type, v) = JObject(o) /\ Lists(o, PartDocs(type, v))
<1> DEFINE parts == PartDocs(type, v)
           order == Order(Parts(type, v))
           o == [k \in DOMAIN order |-> <<order[k], parts[order[k]]>>]
<1>1. Encoded(type, v) = Written(type, v, order, parts)
  BY KnownParts DEF CodecLevels, PartDocs
<1>2. Encoded(type, v) = JObject(o)
  <2> HIDE DEF order, parts
  <2> QED
    BY <1>1 DEF Written, Objects
<1>3. Parts(type, v) = DOMAIN v /\ IsFiniteSet(DOMAIN v)
  BY DEF Parts, Fits
<1>4. DOMAIN parts = Parts(type, v)
  BY DEF PartDocs
<1>5. Enumerates(order, DOMAIN parts)
  BY <1>3, <1>4 DEF CodecLevels
<1> HIDE DEF order, parts
<1>6. order \in Seq(DOMAIN parts)
  BY <1>5 DEF Enumerates
<1>7. DOMAIN o = DOMAIN order /\ DOMAIN order = 1..Len(order) /\ Len(order) \in Nat
  BY <1>6
<1>8. \A k \in DOMAIN o :
        /\ o[k] = <<order[k], parts[order[k]]>>
        /\ order[k] \in DOMAIN parts
        /\ o[k][1] = order[k]
  BY <1>6
<1> HIDE DEF o
<1>9. Lists(o, parts)
  <2>1. o \in Seq({o[k] : k \in DOMAIN o})
    <3>1. o = [k \in 1..Len(order) |-> o[k]]
      BY <1>7 DEF o
    <3> QED
      BY <1>7, <3>1
  <2>2. \A i, k \in DOMAIN o : o[i][1] = o[k][1] => i = k
    BY <1>5, <1>7, <1>8 DEF Enumerates
  <2>3. \A name \in DOMAIN parts : \E i \in DOMAIN o : o[i][1] = name
    BY <1>5, <1>7, <1>8 DEF Enumerates
  <2> QED
    BY <1>8, <2>1, <2>2, <2>3 DEF Lists
<1> QED
  BY <1>2, <1>9 DEF parts

\* A document that lists the parts of v says v, if these are decoded as they
\* were.
LEMMA ListedIsSaid ==
  ASSUME NEW type, type.kind \in Objects, NEW v, Fits(type, v),
         NEW o, NEW parts, DOMAIN parts = DOMAIN v, Lists(o, parts),
         \A x \in DOMAIN v : Decoded(Member(type, x), parts[x]) = {v[x]}
  PROVE  Says(type, o, v)
<1>1. KnownIn(type, o) = DOMAIN o
  BY DEF KnownIn, Lists, Fits, Knows
<1>2. DOMAIN o \subseteq Int
  BY DEF Lists
<1>3. \A i \in DOMAIN o : o[i][1] \in DOMAIN v /\ o[i][2] = parts[o[i][1]]
  BY DEF Lists
<1>4. \A i \in DOMAIN o : Decoded(Member(type, o[i][1]), o[i][2]) = {v[o[i][1]]}
  BY <1>3
<1>5. ASSUME NEW name \in DOMAIN v
      PROVE  \E i \in DOMAIN o :
               /\ o[i][1] = name
               /\ Decoded(Member(type, name), o[i][2]) = {v[name]}
               /\ \A k \in DOMAIN o : o[k][1] = name =>
                    k <= i /\ (Gathers(type, name) => k = i)
  <2>1. PICK i \in DOMAIN o : o[i][1] = name
    BY DEF Lists
  <2>2. \A k \in DOMAIN o : o[k][1] = name => k = i
    BY <2>1 DEF Lists
  <2> QED
    BY <1>2, <1>4, <2>1, <2>2
<1> QED
  BY <1>1, <1>2, <1>3, <1>4, <1>5 DEF Says

LEMMA GatheredIsMap ==
  ASSUME NEW type \in Types, NEW name, Gathers(type, name),
         NEW w, Fits(Member(type, name), w)
  PROVE  w = [x \in DOMAIN w |-> w[x]]
BY DEF Gathers, Fits, Objects

\* Families of values that fit their types, and whose parts are in it too.
Closed(V) ==
  \A type \in Types : \A v \in V[type] :
    Fits(type, v) /\ \A x \in Parts(type, v) : v[x] \in V[Member(type, x)]

Trivial(type) == type.kind \notin Objects \union {"array"}

\* A value that has no parts is decoded as it was.
LEMMA PlainRoundTrip ==
  ASSUME CodecLevels, NEW type \in Types, Trivial(type), NEW v
  PROVE  Decoded(type, Encoded(type, v)) = {v}
<1>1. Parts(type, v) = {}
  BY DEF Parts, Trivial
<1>2. Encoded(type, v) = Written(type, v, Order(Parts(type, v)),
                [x \in Parts(type, v) |-> Encoded(Member(type, x), v[x])])
  BY <1>1 DEF CodecLevels
<1> DEFINE order == Order(Parts(type, v))
           parts == [x \in Parts(type, v) |-> Encoded(Member(type, x), v[x])]
           j == Encoded(type, v)
           R == [i \in Items(type, j) |-> Decoded(ItemType(type, j, i), Item(j, i))]
<1>3. Decoded(type, j) = ReadFrom(type, j, R)
  BY DEF CodecLevels
<1>4. j = Written(type, v, order, parts)
  BY <1>2
<1>5. type.kind \in {"string", "enum", "integer", "boolean", "raw"}
  BY TypesAssumption DEF Kinds, Trivial
<1> HIDE DEF order, parts, j, R
<1>6. CASE type.kind \in {"string", "enum"}
  <2>1. j = JString(v)
    BY <1>4, <1>6 DEF Written, Objects
  <2> QED
    BY <1>3, <1>6, <2>1 DEF ReadFrom, Objects, JString, j
<1>7. CASE type.kind = "integer"
  <2>1. j = JNumber(v)
    BY <1>4, <1>7 DEF Written, Objects
  <2> QED
    BY <1>3, <1>7, <2>1 DEF ReadFrom, Objects, JNumber, j
<1>8. CASE type.kind = "boolean"
  <2>1. j = JBoolean(v)
    BY <1>4, <1>8 DEF Written, Objects
  <2> QED
    BY <1>3, <1>8, <2>1 DEF ReadFrom, Objects, JBoolean, j
<1>9. CASE type.kind = "raw"
  <2>1. j = v
    BY <1>4, <1>9 DEF Written, Objects
  <2> QED
    BY <1>3, <1>9, <2>1 DEF ReadFrom, Objects, j
<1> QED
  BY <1>5, <1>6, <1>7, <1>8, <1>9

LEMMA EncodedArray ==
  ASSUME CodecLevels, NEW type \in Types, type.kind = "array", NEW v
  PROVE  Encoded(type, v) = JArray([i \in DOMAIN v |-> Encoded(type.elem, v[i])])
<1>1. Parts(type, v) = DOMAIN v
  BY DEF Parts
<1>2. \A x : Knows(type, x) /\ Member(type, x) = type.elem
  BY DEF Knows, Member
<1> DEFINE order == Order(Parts(type, v))
           parts == [x \in Parts(type, v) |-> Encoded(Member(type, x), v[x])]
<1>3. Encoded(type, v) = Written(type, v, order, parts)
  BY <1>2 DEF CodecLevels
<1>4. parts = [i \in DOMAIN v |-> Encoded(type.elem, v[i])]
  BY <1>1, <1>2
<1> HIDE DEF order, parts
<1> QED
  BY <1>3, <1>4 DEF Written, Objects

\* An array whose items are decoded as those of v is decoded as v.
LEMMA ArrayIsRead ==
  ASSUME CodecLevels, NEW type \in Types, type.kind = "array",
         NEW v, Fits(type, v), NEW a, DOMAIN a = DOMAIN v,
         \A i \in DOMAIN v : Decoded(type.elem, a[i]) = {v[i]}
  PROVE  Decoded(type, JArray(a)) = {v}
<1> DEFINE R == [i \in DOMAIN a |-> Decoded(type.elem, a[i])]
<1>1. Decoded(type, JArray(a)) = AllOf(R)
  BY DecodedArray DEF JArray
<1>2. DOMAIN R = DOMAIN v /\ \A i \in DOMAIN v : R[i] = {v[i]}
  OBVIOUS
<1> HIDE DEF R
<1>3. AllOf(R) = {[i \in DOMAIN v |-> CHOOSE w \in R[i] : TRUE]}
  BY <1>2 DEF AllOf
<1>4. \A i \in DOMAIN v : (CHOOSE w \in R[i] : TRUE) = v[i]
  BY <1>2
<1>5. [i \in DOMAIN v |-> CHOOSE w \in R[i] : TRUE] = [i \in DOMAIN v |-> v[i]]
  BY <1>4
<1>6. v = [i \in DOMAIN v |-> v[i]]
  BY DEF Fits
<1> QED
  BY <1>1, <1>3, <1>5, <1>6

\* What is encoded is decoded again as it was, at every depth of every type: any
\* value that has the members its type requires and no unknown ones, all the way
\* down, whatever of it is set, zero or empty (the Encode and Decode methods of
\* oas_json_gen.go).
THEOREM EncodedIsDecoded ==
  ASSUME CodecLevels, NEW V, Closed(V)
  PROVE  \A type \in Types : \A v \in V[type] :
           Decoded(type, Encoded(type, v)) = {v}
<1> DEFINE Good == {type \in Types :
                      \A v \in V[type] : Decoded(type, Encoded(type, v)) = {v}}
<1>1. ASSUME NEW type \in Types,
             \A t \in Types : Depth[t] < Depth[type] => t \in Good,
             NEW v \in V[type]
      PROVE  Decoded(type, Encoded(type, v)) = {v}
  <2>1. Fits(type, v) /\ \A x \in Parts(type, v) : v[x] \in V[Member(type, x)]
    BY DEF Closed
  <2>2. ASSUME NEW x \in DOMAIN v, type.kind \in Objects \union {"array"}
        PROVE  Decoded(Member(type, x), Encoded(Member(type, x), v[x])) = {v[x]}
    <3>1. x \in Parts(type, v)
      BY <2>2 DEF Parts
    <3>2. Member(type, x) \in Good
      BY <1>1, <2>1, <2>2, <3>1, KnownParts, MemberIsLessDeep
    <3> QED
      BY <2>1, <3>1, <3>2
  <2>3. CASE type.kind \in Objects
    <3>1. PICK o : Encoded(type, v) = JObject(o) /\ Lists(o, PartDocs(type, v))
      BY <2>1, <2>3, EncodedObject
    <3>2. DOMAIN PartDocs(type, v) = DOMAIN v
      BY <2>3 DEF PartDocs, Parts
    <3>3. \A x \in DOMAIN v :
            Decoded(Member(type, x), PartDocs(type, v)[x]) = {v[x]}
      BY <2>2, <2>3 DEF PartDocs, Parts
    <3>4. Says(type, o, v)
      BY <2>1, <2>3, <3>1, <3>2, <3>3, ListedIsSaid
    <3>5. \A name \in DOMAIN v : Gathers(type, name) =>
            v[name] = [x \in DOMAIN v[name] |-> v[name][x]]
      <4>1. \A name \in DOMAIN v : Fits(Member(type, name), v[name])
        <5> TAKE name \in DOMAIN v
        <5>1. name \in Parts(type, v)
          BY <2>3 DEF Parts
        <5> QED
          BY <2>1, <2>3, <5>1, KnownParts, MemberIsLessDeep DEF Closed
      <4> QED
        BY <4>1, GatheredIsMap
    <3> QED
      BY <2>1, <2>3, <3>1, <3>4, <3>5, SaidIsRead
  <2>4. CASE type.kind = "array"
    <3>1. \A i \in DOMAIN v : Decoded(type.elem, Encoded(type.elem, v[i])) = {v[i]}
      BY <2>2, <2>4 DEF Member
    <3>2. Encoded(type, v) = JArray([i \in DOMAIN v |-> Encoded(type.elem, v[i])])
      BY <2>4, EncodedArray
    <3> QED
      BY <2>1, <2>4, <3>1, <3>2, ArrayIsRead
  <2>5. CASE Trivial(type)
    BY <2>5, PlainRoundTrip
  <2> QED
    BY <2>3, <2>4, <2>5 DEF Trivial
<1>2. \A type \in Types :
        (\A t \in Types : Depth[t] < Depth[type] => t \in Good) => type \in Good
  BY <1>1
<1>3. Good \in SUBSET Types
  OBVIOUS
<1> HIDE DEF Good
<1>4. Good = Types
  BY <1>2, <1>3, DepthInduction
<1> QED
  BY <1>4 DEF Good
-------------------------------------------------------------------------------
(* Documents that a service has changed.                                   *)

\* The items of what an object is encoded as.
LEMMA ItemsOfObject ==
  ASSUME NEW type, type.kind \in Objects, NEW v, Fits(type, v),
         NEW o, Lists(o, PartDocs(type, v))
  PROVE  LET j == JObject(o)
         IN  /\ j.json = "object" /\ j.o = o
             /\ Items(type, j) = DOMAIN o
             /\ KnownIn(type, o) = DOMAIN o
             /\ \A i \in DOMAIN o :
                  /\ o[i][1] \in DOMAIN v
                  /\ Knows(type, o[i][1])
                  /\ ItemType(type, j, i) = Member(type, o[i][1])
                  /\ o[i][2] = Encoded(Member(type, o[i][1]), v[o[i][1]])
                  /\ Item(j, i) = o[i][2]
<1> DEFINE j == JObject(o)
           parts == PartDocs(type, v)
<1>1. j.json = "object" /\ j.o = o
  BY DEF JObject
<1>2. DOMAIN parts = DOMAIN v
  BY DEF PartDocs, Parts
<1>3. \A x \in DOMAIN v : parts[x] = Encoded(Member(type, x), v[x])
  BY DEF PartDocs, Parts
<1> HIDE DEF j, parts
<1>4. \A i \in DOMAIN o : o[i][1] \in DOMAIN v /\ o[i][2] = parts[o[i][1]]
  BY <1>2 DEF Lists, parts
<1>5. \A i \in DOMAIN o : Knows(type, o[i][1])
  BY <1>4 DEF Fits, Knows
<1>6. KnownIn(type, o) = DOMAIN o
  BY <1>5 DEF KnownIn
<1>7. Items(type, j) = DOMAIN o
  BY <1>1, <1>5 DEF Items, Objects
<1>8. \A i \in DOMAIN o :
        ItemType(type, j, i) = Member(type, o[i][1]) /\ Item(j, i) = o[i][2]
  BY <1>1 DEF ItemType, Item
<1> QED
  BY <1>1, <1>3, <1>4, <1>5, <1>6, <1>7, <1>8 DEF j

\* The kind of document that a type is encoded as.
JsonOf(type) ==
  CASE type.kind \in {"string", "enum"} -> "string"
    [] type.kind = "integer" -> "number"
    [] type.kind = "boolean" -> "boolean"
    [] type.kind = "array" -> "array"
    [] type.kind \in Objects -> "object"

\* A document that is not of the kind of its type is refused.
LEMMA OtherKindIsRefused ==
  ASSUME CodecLevels, NEW type \in Types, type.kind # "raw",
         NEW j, j.json # JsonOf(type)
  PROVE  Decoded(type, j) = {}
<1> DEFINE R == [i \in Items(type, j) |-> Decoded(ItemType(type, j, i), Item(j, i))]
<1>1. Decoded(type, j) = ReadFrom(type, j, R)
  BY DEF CodecLevels
<1>2. type.kind \in {"string", "enum", "integer", "boolean", "array"} \union Objects
  BY TypesAssumption DEF Kinds
<1> HIDE DEF R
<1> QED
  BY <1>1, <1>2 DEF ReadFrom, JsonOf, Objects

\* A value is encoded as a document of the kind of its type.
LEMMA EncodedKind ==
  ASSUME CodecLevels, NEW type \in Types, type.kind # "raw",
         NEW v, Fits(type, v)
  PROVE  Encoded(type, v).json = JsonOf(type)
<1> DEFINE order == Order(Parts(type, v))
<1>1. Encoded(type, v) = Written(type, v, order, PartDocs(type, v))
  BY KnownParts DEF CodecLevels, PartDocs
<1>2. type.kind \in {"string", "enum", "integer", "boolean", "array"} \union Objects
  BY TypesAssumption DEF Kinds
<1> HIDE DEF order
<1> QED
  BY <1>1, <1>2 DEF Written, JsonOf, Objects,
                    JString, JNumber, JBoolean, JArray, JObject

\* So null, or another kind of value, in its place is refused.
LEMMA ChangedKindIsRefused ==
  ASSUME CodecLevels, NEW type \in Types, NEW v, Fits(type, v), NEW how,
         NEW j \in MemberChanges(how, type, Encoded(type, v))
  PROVE  Decoded(type, j) = {}
<1>1. type.kind # "raw" /\ (j = JNull \/ j = WrongKind(Encoded(type, v)))
  BY DEF MemberChanges
<1>2. type.kind \in {"string", "enum", "integer", "boolean", "array"} \union Objects
  BY <1>1, TypesAssumption DEF Kinds
<1>3. JsonOf(type) \in {"string", "number", "boolean", "array", "object"}
  BY <1>2 DEF JsonOf, Objects
<1>4. j.json # JsonOf(type)
  BY <1>1, <1>3, EncodedKind DEF JNull, WrongKind, JString, JNumber
<1> QED
  BY <1>1, <1>4, OtherKindIsRefused

\* One item that cannot be read is enough.
LEMMA BrokenMember ==
  ASSUME CodecLevels, NEW type \in Types, type.kind \in Objects, NEW o,
         NEW i \in KnownIn(type, o),
         Decoded(Member(type, o[i][1]), o[i][2]) = {}
  PROVE  Decoded(type, JObject(o)) = {}
<1> DEFINE R == Results(type, o)
<1>1. i \in DOMAIN R /\ R[i] = {}
  BY DEF Results
<1> HIDE DEF R
<1>2. AssembleObject(type, o, R) = {}
  BY <1>1 DEF AssembleObject
<1> QED
  BY <1>2, DecodedObject DEF R

LEMMA BrokenElement ==
  ASSUME CodecLevels, NEW type \in Types, type.kind = "array", NEW a,
         NEW i \in DOMAIN a, Decoded(type.elem, a[i]) = {}
  PROVE  Decoded(type, JArray(a)) = {}
<1> DEFINE R == [k \in DOMAIN a |-> Decoded(type.elem, a[k])]
<1>1. Decoded(type, JArray(a)) = AllOf(R)
  BY DecodedArray DEF JArray
<1>2. i \in DOMAIN R /\ R[i] = {}
  OBVIOUS
<1> HIDE DEF R
<1> QED
  BY <1>1, <1>2 DEF AllOf

\* A required member that is not there is an error.
LEMMA MissingMember ==
  ASSUME CodecLevels, NEW type \in Types, type.kind = "struct", NEW o,
         NEW name \in type.required, \A i \in DOMAIN o : o[i][1] # name
  PROVE  Decoded(type, JObject(o)) = {}
<1> DEFINE R == Results(type, o)
<1>1. DOMAIN R \subseteq DOMAIN o
  BY DEF Results, KnownIn
<1> HIDE DEF R
<1>2. name \notin {o[i][1] : i \in DOMAIN R}
  BY <1>1
<1>3. AssembleObject(type, o, R) = {}
  BY <1>2 DEF AssembleObject
<1> QED
  BY <1>3, DecodedObject DEF R, Objects

\* What is left when one item is removed.
LEMMA RemovedAt ==
  ASSUME NEW S, NEW o \in Seq(S), NEW i \in DOMAIN o
  PROVE  \A k \in DOMAIN RemoveAt(o, i) :
           \E m \in DOMAIN o : m # i /\ RemoveAt(o, i)[k] = o[m]
<1> DEFINE before == SubSeq(o, 1, i - 1)
           after == SubSeq(o, i + 1, Len(o))
<1>1. i \in Nat /\ 1 <= i /\ i <= Len(o) /\ Len(o) \in Nat
  OBVIOUS
<1>2. before \in Seq(S) /\ Len(before) = i - 1
        /\ \A k \in 1..(i - 1) : before[k] = o[k]
  BY <1>1
<1>3. after \in Seq(S) /\ Len(after) = Len(o) - i
        /\ \A k \in 1..(Len(o) - i) : after[k] = o[i + k]
  BY <1>1
<1> HIDE DEF before, after
<1>4. RemoveAt(o, i) = before \o after
  BY DEF RemoveAt, before, after
<1> SUFFICES ASSUME NEW k \in DOMAIN (before \o after)
             PROVE  \E m \in DOMAIN o : m # i /\ (before \o after)[k] = o[m]
  BY <1>4
<1>5. k \in 1..(Len(o) - 1)
  BY <1>1, <1>2, <1>3
<1>6. CASE k <= i - 1
  <2>1. k \in 1..(i - 1)
    BY <1>1, <1>5, <1>6
  <2>2. (before \o after)[k] = before[k]
    BY <1>2, <1>3, <2>1
  <2>3. k \in DOMAIN o /\ k # i
    BY <1>1, <2>1
  <2> QED
    BY <1>2, <2>1, <2>2, <2>3
<1>7. CASE k > i - 1
  <2> DEFINE n == k - (i - 1)
  <2>1. n \in 1..(Len(o) - i) /\ i + n = k + 1
    BY <1>1, <1>5, <1>7
  <2>2. (before \o after)[k] = after[n]
    BY <1>1, <1>2, <1>3, <1>5, <1>7
  <2>3. after[n] = o[k + 1]
    <3> HIDE DEF n
    <3> QED
      BY <1>3, <2>1
  <2>4. k + 1 \in DOMAIN o /\ k + 1 # i
    BY <1>1, <1>5, <1>7
  <2> QED
    BY <2>2, <2>3, <2>4
<1> QED
  BY <1>1, <1>5, <1>6, <1>7

\* A document in which one known part, however deep, is null, of another kind or
\* missing though required is not decoded at all: the error of a part is the
\* error of the whole (the returns of the Decode methods of oas_json_gen.go).
THEOREM HarmIsRefused ==
  ASSUME CodecLevels, ChangedLevels, NEW V, Closed(V), NEW how \in Harmful
  PROVE  \A type \in Types : \A v \in V[type] :
           \A j \in Changed(how, type, Encoded(type, v)) : Decoded(type, j) = {}
<1> DEFINE Good == {type \in Types : \A v \in V[type] :
                      \A j \in Changed(how, type, Encoded(type, v)) :
                        Decoded(type, j) = {}}
<1>1. ASSUME NEW type \in Types,
             \A t \in Types : Depth[t] < Depth[type] => t \in Good,
             NEW v \in V[type], NEW j \in Changed(how, type, Encoded(type, v))
      PROVE  Decoded(type, j) = {}
  <2> DEFINE sent == Encoded(type, v)
  <2>1. Fits(type, v) /\ \A x \in Parts(type, v) : v[x] \in V[Member(type, x)]
    BY DEF Closed
  <2>2. \/ j \in ChangedHere(how, type, sent)
        \/ \E i \in Items(type, sent) :
             \E new \in Changed(how, ItemType(type, sent, i), Item(sent, i)) :
               j = Put(sent, i, new)
    BY <1>1 DEF ChangedLevels
  <2>3. CASE j \in MemberChanges(how, type, sent)
    BY <2>1, <2>3, ChangedKindIsRefused
  <2>4. CASE type.kind \in Objects
    <3>1. PICK o : sent = JObject(o) /\ Lists(o, PartDocs(type, v))
      BY <2>1, <2>4, EncodedObject
    <3> DEFINE jo == JObject(o)
    <3>2. /\ jo.json = "object" /\ jo.o = o
          /\ Items(type, jo) = DOMAIN o
          /\ \A i \in DOMAIN o :
               /\ o[i][1] \in DOMAIN v
               /\ Knows(type, o[i][1])
               /\ ItemType(type, jo, i) = Member(type, o[i][1])
               /\ o[i][2] = Encoded(Member(type, o[i][1]), v[o[i][1]])
               /\ Item(jo, i) = o[i][2]
      BY <2>1, <2>4, <3>1, ItemsOfObject
    <3> HIDE DEF jo
    <3>3. sent = jo
      BY <3>1 DEF jo
    <3> HIDE DEF sent
    <3>4. ASSUME NEW p \in ObjectChanges(how, type, o), j = JObject(p)
          PROVE  Decoded(type, j) = {}
      <4>1. PICK i \in DOMAIN o : /\ type.kind = "struct"
                                  /\ o[i][1] \in type.required
                                  /\ p = RemoveAt(o, i)
        BY <3>4 DEF ObjectChanges, Harmful
      <4>2. \A k \in DOMAIN p : p[k][1] # o[i][1]
        BY <3>1, <4>1, RemovedAt DEF Lists
      <4> QED
        BY <3>4, <4>1, <4>2, MissingMember
    <3>5. ASSUME NEW i \in Items(type, sent),
                 NEW new \in Changed(how, ItemType(type, sent, i), Item(sent, i)),
                 j = Put(sent, i, new)
          PROVE  Decoded(type, j) = {}
      <4> DEFINE x == o[i][1]
                 p == [o EXCEPT ![i] = <<x, new>>]
      <4>1. i \in DOMAIN o /\ x \in Parts(type, v) /\ Knows(type, x)
        BY <2>4, <3>2, <3>3 DEF Parts
      <4>2. new \in Changed(how, Member(type, x), Encoded(Member(type, x), v[x]))
        BY <3>2, <3>3, <3>5, <4>1
      <4>3. Member(type, x) \in Good /\ v[x] \in V[Member(type, x)]
        BY <1>1, <2>1, <2>4, <4>1, MemberIsLessDeep
      <4>4. Decoded(Member(type, x), new) = {}
        BY <4>2, <4>3
      <4>5. j = JObject(p)
        BY <3>2, <3>3, <3>5 DEF Put
      <4>6. i \in KnownIn(type, p) /\ p[i][1] = x /\ p[i][2] = new
        BY <4>1 DEF KnownIn
      <4> HIDE DEF p, x
      <4> QED
        BY <2>4, <4>4, <4>5, <4>6, BrokenMember
    <3> QED
      BY <2>2, <2>3, <3>2, <3>3, <3>4, <3>5, <2>4 DEF ChangedHere, sent
  <2>5. CASE type.kind = "array"
    <3> DEFINE a == [i \in DOMAIN v |-> Encoded(type.elem, v[i])]
    <3>1. sent = JArray(a)
      BY <2>5, EncodedArray
    <3>2. sent.json = "array" /\ sent.a = a
      <4> HIDE DEF sent, a
      <4> QED
        BY <3>1 DEF JArray
    <3> HIDE DEF sent
    <3>3. ASSUME NEW i \in Items(type, sent),
                 NEW new \in Changed(how, ItemType(type, sent, i), Item(sent, i)),
                 j = Put(sent, i, new)
          PROVE  Decoded(type, j) = {}
      <4> DEFINE b == [a EXCEPT ![i] = new]
      <4>1. i \in DOMAIN v /\ ItemType(type, sent, i) = type.elem
              /\ Item(sent, i) = Encoded(type.elem, v[i])
        BY <2>5, <3>2 DEF Items, ItemType, Item
      <4>2. Member(type, i) = type.elem /\ Knows(type, i) /\ i \in Parts(type, v)
        BY <2>5, <4>1 DEF Member, Knows, Parts
      <4>3. type.elem \in Good /\ v[i] \in V[type.elem]
        BY <1>1, <2>1, <2>5, <4>2, MemberIsLessDeep
      <4>4. Decoded(type.elem, new) = {}
        BY <3>3, <4>1, <4>3
      <4>5. j = JArray(b) /\ i \in DOMAIN b /\ b[i] = new
        BY <3>2, <3>3, <4>1 DEF Put
      <4> HIDE DEF b
      <4> QED
        BY <2>5, <4>4, <4>5, BrokenElement
    <3> QED
      BY <2>2, <2>3, <2>5, <3>3 DEF ChangedHere, Objects, sent
  <2>6. CASE Trivial(type)
    <3>1. Items(type, sent) = {}
      BY <2>6 DEF Items, Trivial
    <3> QED
      BY <2>2, <2>3, <2>6, <3>1 DEF ChangedHere, Trivial
  <2> QED
    BY <2>4, <2>5, <2>6 DEF Trivial
<1>2. \A type \in Types :
        (\A t \in Types : Depth[t] < Depth[type] => t \in Good) => type \in Good
  BY <1>1
<1>3. Good \in SUBSET Types
  OBVIOUS
<1> HIDE DEF Good
<1>4. Good = Types
  BY <1>2, <1>3, DepthInduction
<1> QED
  BY <1>4 DEF Good

-------------------------------------------------------------------------------
(* Documents that say the same in another way.                             *)

LEMMA Sequence ==
  ASSUME NEW n \in Nat, NEW o, DOMAIN o = 1..n, o = [i \in 1..n |-> o[i]]
  PROVE  o \in Seq({o[i] : i \in DOMAIN o})
OBVIOUS

\* A member in front that is unknown, or that will be overridden.
LEMMA PrependedSays ==
  ASSUME NEW type, NEW v, NEW o, o \in Seq({o[i] : i \in DOMAIN o}),
         Says(type, o, v), NEW m,
         Knows(type, m[1]) =>
           /\ m[1] \in DOMAIN v
           /\ ~Gathers(type, m[1])
           /\ Decoded(Member(type, m[1]), m[2]) # {}
  PROVE  Says(type, <<m>> \o o, v)
<1> DEFINE p == <<m>> \o o
<1>1. Len(o) \in Nat /\ DOMAIN o = 1..Len(o)
  OBVIOUS
<1>2. DOMAIN p = 1..(Len(o) + 1)
  OBVIOUS
<1>3. p[1] = m /\ \A i \in DOMAIN o : p[i + 1] = o[i]
  OBVIOUS
<1> HIDE DEF p
<1>4. \A k \in DOMAIN p : k = 1 \/ (k - 1 \in DOMAIN o /\ p[k] = o[k - 1])
  <2> TAKE k \in DOMAIN p
  <2>1. CASE k = 1
    BY <2>1
  <2>2. CASE k # 1
    <3>1. k - 1 \in DOMAIN o /\ (k - 1) + 1 = k
      BY <1>1, <1>2, <2>2
    <3> QED
      BY <1>3, <3>1
  <2> QED
    BY <2>1, <2>2
<1>5. \A k \in KnownIn(type, p) :
        \/ k = 1 /\ Knows(type, m[1])
        \/ k - 1 \in KnownIn(type, o) /\ p[k] = o[k - 1]
  BY <1>3, <1>4 DEF KnownIn
<1>6. \A i \in KnownIn(type, o) :
        i + 1 \in KnownIn(type, p) /\ i \in Int /\ i >= 1 /\ p[i + 1] = o[i]
  BY <1>1, <1>2, <1>3 DEF KnownIn
<1>7. ASSUME NEW name \in DOMAIN v
      PROVE  \E k \in KnownIn(type, p) :
               /\ p[k][1] = name
               /\ Decoded(Member(type, name), p[k][2]) = {v[name]}
               /\ \A l \in KnownIn(type, p) : p[l][1] = name =>
                    l <= k /\ (Gathers(type, name) => l = k)
  <2>1. PICK i \in KnownIn(type, o) :
          /\ o[i][1] = name
          /\ Decoded(Member(type, name), o[i][2]) = {v[name]}
          /\ \A l \in KnownIn(type, o) : o[l][1] = name =>
               l <= i /\ (Gathers(type, name) => l = i)
    BY DEF Says
  <2>2. ASSUME NEW l \in KnownIn(type, p), p[l][1] = name
        PROVE  l <= i + 1 /\ (Gathers(type, name) => l = i + 1)
    <3>1. l \in Int /\ i \in Int /\ i >= 1
      BY <1>2, <1>6 DEF KnownIn
    <3>2. CASE l = 1 /\ Knows(type, m[1])
      <4>1. ~Gathers(type, name)
        BY <1>3, <2>2, <3>2
      <4>2. l <= i + 1
        BY <3>1, <3>2
      <4> QED
        BY <4>1, <4>2
    <3>3. CASE l - 1 \in KnownIn(type, o) /\ p[l] = o[l - 1]
      <4>1. l - 1 <= i
        BY <2>1, <2>2, <3>3
      <4>2. Gathers(type, name) => l - 1 = i
        BY <2>1, <2>2, <3>3
      <4>3. l <= i + 1 /\ (l - 1 = i => l = i + 1)
        BY <3>1, <4>1
      <4> QED
        BY <4>2, <4>3
    <3> QED
      BY <1>5, <3>2, <3>3
  <2> QED
    BY <1>6, <2>1, <2>2
<1>8. \A k \in KnownIn(type, p) :
        p[k][1] \in DOMAIN v /\ Decoded(Member(type, p[k][1]), p[k][2]) # {}
  BY <1>3, <1>5 DEF Says
<1>9. DOMAIN p \subseteq Int
  BY <1>2
<1>10. Says(type, p, v)
  BY <1>7, <1>8, <1>9 DEF Says
<1> QED
  BY <1>10 DEF p

\* The order of the members does not matter,
LEMMA ReversedLists ==
  ASSUME NEW o, NEW parts, Lists(o, parts)
  PROVE  Lists(Reverse(o), parts)
<1> DEFINE p == Reverse(o)
           n == Len(o)
<1>1. n \in Nat /\ DOMAIN o = 1..n
  BY DEF Lists
<1>2. p = [i \in 1..n |-> o[(n - i) + 1]]
  BY DEF Reverse
<1> HIDE DEF p, n
<1>3. DOMAIN p = 1..n /\ \A i \in 1..n : p[i] = o[(n - i) + 1]
  BY <1>2
<1>4. \A i \in 1..n : (n - i) + 1 \in DOMAIN o /\ (n - ((n - i) + 1)) + 1 = i
  BY <1>1
<1>5. p \in Seq({p[i] : i \in DOMAIN p})
  BY <1>1, <1>2, <1>3, Sequence
<1>6. \A i \in DOMAIN p :
        p[i][1] \in DOMAIN parts /\ p[i] = <<p[i][1], parts[p[i][1]]>>
  BY <1>3, <1>4 DEF Lists
<1>7. \A i, k \in DOMAIN p : p[i][1] = p[k][1] => i = k
  <2> TAKE i, k \in DOMAIN p
  <2> HAVE p[i][1] = p[k][1]
  <2>1. (n - i) + 1 = (n - k) + 1
    BY <1>3, <1>4 DEF Lists
  <2> QED
    BY <1>1, <1>3, <2>1
<1>8. ASSUME NEW name \in DOMAIN parts
      PROVE  \E i \in DOMAIN p : p[i][1] = name
  <2>1. PICK i \in DOMAIN o : o[i][1] = name
    BY DEF Lists
  <2>2. (n - i) + 1 \in DOMAIN p
    BY <1>1, <1>3
  <2>3. p[(n - i) + 1] = o[i]
    BY <1>1, <1>3, <1>4, <2>2
  <2> QED
    BY <2>1, <2>2, <2>3
<1> QED
  BY <1>5, <1>6, <1>7, <1>8 DEF Lists, p

\* nor does another document of the same part.
LEMMA ReplacedLists ==
  ASSUME NEW o, NEW parts, Lists(o, parts), NEW i \in DOMAIN o, NEW new
  PROVE  Lists([o EXCEPT ![i] = <<o[i][1], new>>],
               [parts EXCEPT ![o[i][1]] = new])
<1> DEFINE x == o[i][1]
           p == [o EXCEPT ![i] = <<x, new>>]
           q == [parts EXCEPT ![x] = new]
<1>1. DOMAIN p = DOMAIN o /\ DOMAIN q = DOMAIN parts
  OBVIOUS
<1>2. p[i] = <<x, new>> /\ \A k \in DOMAIN o : k # i => p[k] = o[k]
  OBVIOUS
<1>3. x \in DOMAIN parts /\ q[x] = new
        /\ \A y \in DOMAIN parts : y # x => q[y] = parts[y]
  BY DEF Lists
<1>4. \A k \in DOMAIN p : p[k][1] = o[k][1]
  BY <1>1, <1>2
<1>5. \A k \in DOMAIN p : k # i => o[k][1] # x
  BY <1>1 DEF Lists
<1>6. p \in Seq({p[k] : k \in DOMAIN p})
  <2>1. Len(o) \in Nat /\ DOMAIN o = 1..Len(o)
    BY DEF Lists
  <2>2. p = [k \in 1..Len(o) |-> p[k]]
    BY <2>1
  <2> HIDE DEF p
  <2> QED
    BY <1>1, <2>1, <2>2, Sequence
<1> HIDE DEF p, q, x
<1>7. \A k \in DOMAIN p :
        p[k][1] \in DOMAIN q /\ p[k] = <<p[k][1], q[p[k][1]]>>
  <2> TAKE k \in DOMAIN p
  <2>1. CASE k = i
    BY <1>1, <1>2, <1>3, <2>1
  <2>2. CASE k # i
    BY <1>1, <1>2, <1>3, <1>5, <2>2 DEF Lists
  <2> QED
    BY <2>1, <2>2
<1>8. \A k, l \in DOMAIN p : p[k][1] = p[l][1] => k = l
  BY <1>1, <1>4 DEF Lists
<1>9. \A name \in DOMAIN q : \E k \in DOMAIN p : p[k][1] = name
  BY <1>1, <1>4 DEF Lists
<1>10. Lists(p, q)
  BY <1>6, <1>7, <1>8, <1>9 DEF Lists
<1> QED
  BY <1>10 DEF p, q, x

SentValues == [type \in Types |-> Values(type)]

LEMMA ValuesClosed == Closed(SentValues)
<1> DEFINE V == SentValues
<1> SUFFICES ASSUME NEW t \in Types, NEW w \in V[t]
             PROVE  Fits(t, w) /\ \A x \in Parts(t, w) : w[x] \in V[Member(t, x)]
  BY DEF Closed
<1>1. Fits(t, w) /\ \A x \in Parts(t, w) : w[x] \in Values(Member(t, x))
  BY ValuesAssumption DEF SentValues
<1>2. \A x \in Parts(t, w) : t.kind \in Objects \union {"array"}
  BY DEF Parts
<1> QED
  BY <1>1, <1>2, KnownParts, MemberIsLessDeep DEF SentValues

LEMMA SentIsRead ==
  ASSUME CodecLevels, NEW type \in Types, NEW v \in Values(type)
  PROVE  Decoded(type, Encoded(type, v)) = {v}
BY ValuesClosed, EncodedIsDecoded DEF SentValues

\* A document with an unknown member, a member that is overridden or members in
\* another order, however deep, is decoded as before.
LEMMA HarmlessIsSame ==
  ASSUME CodecLevels, ChangedLevels, NEW how \in Harmless
  PROVE  \A type \in Types : \A v \in Values(type) :
           \A j \in Changed(how, type, Encoded(type, v)) : Decoded(type, j) = {v}
<1> DEFINE Good == {type \in Types : \A v \in Values(type) :
                      \A j \in Changed(how, type, Encoded(type, v)) :
                        Decoded(type, j) = {v}}
<1>1. ASSUME NEW type \in Types,
             \A t \in Types : Depth[t] < Depth[type] => t \in Good,
             NEW v \in Values(type), NEW j \in Changed(how, type, Encoded(type, v))
      PROVE  Decoded(type, j) = {v}
  <2> DEFINE sent == Encoded(type, v)
  <2>1. Fits(type, v) /\ \A x \in Parts(type, v) : v[x] \in Values(Member(type, x))
    BY ValuesAssumption
  <2>2. \/ j \in ChangedHere(how, type, sent)
        \/ \E i \in Items(type, sent) :
             \E new \in Changed(how, ItemType(type, sent, i), Item(sent, i)) :
               j = Put(sent, i, new)
    BY <1>1 DEF ChangedLevels
  <2>3. MemberChanges(how, type, sent) = {}
    BY DEF MemberChanges, Harmless
  <2>4. CASE type.kind \in Objects
    <3>1. PICK o : sent = JObject(o) /\ Lists(o, PartDocs(type, v))
      BY <2>1, <2>4, EncodedObject
    <3> DEFINE jo == JObject(o)
               parts == PartDocs(type, v)
    <3>2. /\ jo.json = "object" /\ jo.o = o
          /\ Items(type, jo) = DOMAIN o
          /\ \A i \in DOMAIN o :
               /\ o[i][1] \in DOMAIN v
               /\ Knows(type, o[i][1])
               /\ ItemType(type, jo, i) = Member(type, o[i][1])
               /\ o[i][2] = Encoded(Member(type, o[i][1]), v[o[i][1]])
               /\ Item(jo, i) = o[i][2]
      BY <2>1, <2>4, <3>1, ItemsOfObject
    <3>3. DOMAIN parts = DOMAIN v
            /\ \A x \in DOMAIN v : parts[x] = Encoded(Member(type, x), v[x])
      BY <2>4 DEF PartDocs, Parts
    <3> HIDE DEF jo, parts
    <3>4. sent = jo /\ Lists(o, parts)
      BY <3>1 DEF jo, parts
    <3> HIDE DEF sent
    <3>5. \A x \in DOMAIN v : /\ Knows(type, x) /\ v[x] \in Values(Member(type, x))
                             /\ Member(type, x) \in Types
                             /\ Depth[Member(type, x)] < Depth[type]
      <4>1. Parts(type, v) = DOMAIN v
        BY <2>4 DEF Parts
      <4> QED
        BY <2>1, <2>4, <4>1, KnownParts, MemberIsLessDeep
    <3>6. \A x \in DOMAIN v : Decoded(Member(type, x), parts[x]) = {v[x]}
      BY <3>3, <3>5, SentIsRead
    <3>7. ASSUME NEW p, Says(type, p, v), j = JObject(p)
          PROVE  Decoded(type, j) = {v}
      <4>1. \A name \in DOMAIN v : Gathers(type, name) =>
              v[name] = [x \in DOMAIN v[name] |-> v[name][x]]
        <5>1. \A name \in DOMAIN v : Fits(Member(type, name), v[name])
          BY <3>5, ValuesAssumption
        <5> QED
          BY <5>1, GatheredIsMap
      <4> QED
        BY <2>1, <2>4, <3>7, <4>1, SaidIsRead
    <3>8. Says(type, o, v)
      BY <2>1, <2>4, <3>3, <3>4, <3>6, ListedIsSaid
    <3>9. o \in Seq({o[i] : i \in DOMAIN o})
      BY <3>4 DEF Lists
    <3>10. ASSUME NEW p \in ObjectChanges(how, type, o), j = JObject(p)
           PROVE  Decoded(type, j) = {v}
      <4>1. CASE how = "unknown"
        <5>1. PICK n \in {JNull, JObject(<<>>)} :
                type.kind = "struct" /\ p = << <<NewField, n>> >> \o o
          BY <3>10, <4>1 DEF ObjectChanges
        <5>2. ~Knows(type, <<NewField, n>>[1])
          BY <5>1, TypesAssumption DEF Knows
        <5>3. Says(type, << <<NewField, n>> >> \o o, v)
          BY <3>8, <3>9, <5>2, PrependedSays
        <5> QED
          BY <3>7, <3>10, <5>1, <5>3
      <4>2. CASE how = "repeated"
        <5>1. PICK i \in DOMAIN o :
                /\ ~Gathers(type, o[i][1])
                /\ \E w \in Samples(Member(type, o[i][1])) :
                     p = << <<o[i][1], Encoded(Member(type, o[i][1]), w)>> >> \o o
          BY <3>10, <4>2 DEF ObjectChanges
        <5> DEFINE x == o[i][1]
                   t == Member(type, x)
        <5>2. PICK w \in Samples(t) : p = << <<x, Encoded(t, w)>> >> \o o
          BY <5>1
        <5>3. x \in DOMAIN v
          BY <3>2
        <5>4. t \in Types
          BY <3>5, <5>3
        <5>5. Decoded(t, Encoded(t, w)) # {}
          BY <5>2, <5>4, SamplesAssumption, SentIsRead
        <5> DEFINE m == <<x, Encoded(t, w)>>
        <5>6. m[1] \in DOMAIN v /\ ~Gathers(type, m[1])
                /\ Decoded(Member(type, m[1]), m[2]) # {}
          BY <5>1, <5>3, <5>5
        <5>7. p = <<m>> \o o
          BY <5>2
        <5> HIDE DEF m
        <5>8. Says(type, <<m>> \o o, v)
          BY <3>8, <3>9, <5>6, PrependedSays
        <5> QED
          BY <3>7, <3>10, <5>7, <5>8
      <4>3. CASE how = "reordered"
        <5>1. p = Reverse(o)
          BY <3>10, <4>3 DEF ObjectChanges
        <5>2. Lists(p, parts)
          BY <3>4, <5>1, ReversedLists
        <5>3. Says(type, p, v)
          BY <2>1, <2>4, <3>3, <3>6, <5>2, ListedIsSaid
        <5> QED
          BY <3>7, <3>10, <5>3
      <4> QED
        BY <4>1, <4>2, <4>3 DEF Harmless
    <3>11. ASSUME NEW i \in Items(type, sent),
                  NEW new \in Changed(how, ItemType(type, sent, i), Item(sent, i)),
                  j = Put(sent, i, new)
           PROVE  Decoded(type, j) = {v}
      <4> DEFINE x == o[i][1]
                 p == [o EXCEPT ![i] = <<x, new>>]
                 q == [parts EXCEPT ![x] = new]
      <4>1. i \in DOMAIN o /\ x \in DOMAIN v
        BY <3>2, <3>4
      <4>2. new \in Changed(how, Member(type, x), Encoded(Member(type, x), v[x]))
        BY <3>2, <3>4, <3>11, <4>1
      <4>3. Member(type, x) \in Good
        BY <1>1, <3>5, <4>1
      <4>4. Decoded(Member(type, x), new) = {v[x]}
        BY <3>5, <4>1, <4>2, <4>3
      <4>5. j = JObject(p)
        BY <3>2, <3>4, <3>11 DEF Put
      <4>6. Lists(p, q)
        BY <3>4, <4>1, ReplacedLists
      <4>7. DOMAIN q = DOMAIN v
        BY <3>3
      <4>8. \A y \in DOMAIN v : Decoded(Member(type, y), q[y]) = {v[y]}
        <5> TAKE y \in DOMAIN v
        <5>1. CASE y = x
          <6>1. q[y] = new
            BY <3>3, <4>1, <5>1
          <6> HIDE DEF q, x
          <6> QED
            BY <4>4, <5>1, <6>1
        <5>2. CASE y # x
          <6>1. q[y] = parts[y]
            BY <3>3, <5>2
          <6> QED
            BY <3>6, <6>1
        <5> QED
          BY <5>1, <5>2
      <4> HIDE DEF p, q, x
      <4>9. Says(type, p, v)
        BY <2>1, <2>4, <4>6, <4>7, <4>8, ListedIsSaid
      <4> QED
        BY <3>7, <4>5, <4>9
    <3> QED
      BY <2>2, <2>3, <2>4, <3>2, <3>4, <3>10, <3>11 DEF ChangedHere, sent
  <2>5. CASE type.kind = "array"
    <3> DEFINE a == [i \in DOMAIN v |-> Encoded(type.elem, v[i])]
    <3>1. sent = JArray(a)
      BY <2>5, EncodedArray
    <3>2. sent.json = "array" /\ sent.a = a
      <4> HIDE DEF sent, a
      <4> QED
        BY <3>1 DEF JArray
    <3>3. \A i \in DOMAIN v : v[i] \in Values(type.elem) /\ type.elem \in Types
                               /\ Depth[type.elem] < Depth[type]
      <4>1. \A i \in DOMAIN v : /\ Member(type, i) = type.elem
                               /\ Knows(type, i) /\ i \in Parts(type, v)
        BY <2>5 DEF Member, Knows, Parts
      <4> QED
        BY <2>1, <2>5, <4>1, MemberIsLessDeep
    <3> HIDE DEF sent
    <3>4. ASSUME NEW i \in Items(type, sent),
                 NEW new \in Changed(how, ItemType(type, sent, i), Item(sent, i)),
                 j = Put(sent, i, new)
          PROVE  Decoded(type, j) = {v}
      <4> DEFINE b == [a EXCEPT ![i] = new]
      <4>1. i \in DOMAIN v /\ ItemType(type, sent, i) = type.elem
              /\ Item(sent, i) = Encoded(type.elem, v[i])
        BY <2>5, <3>2 DEF Items, ItemType, Item
      <4>2. type.elem \in Good
        BY <1>1, <3>3, <4>1
      <4>3. Decoded(type.elem, new) = {v[i]}
        BY <3>3, <3>4, <4>1, <4>2
      <4>4. j = JArray(b)
        BY <3>2, <3>4 DEF Put
      <4>5. DOMAIN b = DOMAIN v
        OBVIOUS
      <4>6. \A k \in DOMAIN v : Decoded(type.elem, b[k]) = {v[k]}
        <5> TAKE k \in DOMAIN v
        <5>1. CASE k = i
          <6>1. b[k] = new
            BY <4>1, <5>1
          <6> HIDE DEF b
          <6> QED
            BY <4>3, <5>1, <6>1
        <5>2. CASE k # i
          <6>1. b[k] = Encoded(type.elem, v[k])
            BY <5>2
          <6> HIDE DEF b
          <6> QED
            BY <3>3, <6>1, SentIsRead
        <5> QED
          BY <5>1, <5>2
      <4> HIDE DEF b
      <4> QED
        BY <2>1, <2>5, <4>4, <4>5, <4>6, ArrayIsRead
    <3> QED
      BY <2>2, <2>3, <2>5, <3>4 DEF ChangedHere, Objects, sent
  <2>6. CASE Trivial(type)
    <3>1. Items(type, sent) = {}
      BY <2>6 DEF Items, Trivial
    <3> QED
      BY <2>2, <2>3, <2>6, <3>1 DEF ChangedHere, Trivial
  <2> QED
    BY <2>4, <2>5, <2>6 DEF Trivial
<1>2. \A type \in Types :
        (\A t \in Types : Depth[t] < Depth[type] => t \in Good) => type \in Good
  BY <1>1
<1>3. Good \in SUBSET Types
  OBVIOUS
<1> HIDE DEF Good
<1>4. Good = Types
  BY <1>2, <1>3, DepthInduction
<1> QED
  BY <1>4 DEF Good

-------------------------------------------------------------------------------
(* Validation visits every place where an enumeration may be.              *)

\* If it is a value of that type, all its modes are known.
ModesFit(type, v) == type \in Types => KnownModes(type, v)

\* No enumeration is in a type.
Free(type) == \A v : ModesFit(type, v)

\* Nothing that is no enumeration and has no parts has a mode in it.
LEMMA PlainIsFree ==
  ASSUME ModesLevels, NEW type,
         type.kind \in {"string", "integer", "boolean", "raw"}
  PROVE  Free(type)
BY DEF ModesLevels, Free, ModesFit, Parts, Objects

\* The modes of a collection are those of its elements,
LEMMA ElementsFit ==
  ASSUME ModesLevels, NEW type, type.kind \in {"map", "array"}, NEW v,
         \A x \in DOMAIN v : ModesFit(type.elem, v[x])
  PROVE  ModesFit(type, v)
<1> SUFFICES ASSUME type \in Types PROVE KnownModes(type, v)
  BY DEF ModesFit
<1>1. type.elem \in Types
  BY TypesAssumption DEF PartTypes
<1>2. \A x : Member(type, x) = type.elem
  BY DEF Member
<1>3. \A x \in Parts(type, v) : KnownModes(type.elem, v[x])
  BY <1>1 DEF Parts, ModesFit
<1> QED
  BY <1>2, <1>3 DEF ModesLevels

\* and the modes of a struct are those of its members.
LEMMA MembersFit ==
  ASSUME ModesLevels, NEW type, type.kind = "struct", NEW v,
         \A x \in DOMAIN type.fields :
           x \in DOMAIN v => ModesFit(type.fields[x], v[x])
  PROVE  ModesFit(type, v)
<1> SUFFICES ASSUME type \in Types PROVE KnownModes(type, v)
  BY DEF ModesFit
<1>1. \A x \in DOMAIN type.fields : type.fields[x] \in Types
  BY TypesAssumption DEF PartTypes
<1>2. \A x \in Parts(type, v) : Knows(type, x) =>
        /\ x \in DOMAIN type.fields /\ x \in DOMAIN v
        /\ Member(type, x) = type.fields[x]
  BY DEF Parts, Knows, Member, Objects
<1>3. \A x \in Parts(type, v) : Knows(type, x) => KnownModes(Member(type, x), v[x])
  BY <1>1, <1>2 DEF ModesFit
<1> QED
  BY <1>3 DEF ModesLevels

LEMMA ElementsAreFree ==
  ASSUME ModesLevels, NEW type, type.kind \in {"map", "array"}, Free(type.elem)
  PROVE  Free(type)
BY ElementsFit DEF Free

LEMMA MembersAreFree ==
  ASSUME ModesLevels, NEW type, type.kind = "struct",
         \A x \in DOMAIN type.fields : Free(type.fields[x])
  PROVE  Free(type)
BY MembersFit DEF Free

LEMMA PlainTypesAreFree ==
  ASSUME ModesLevels
  PROVE  Free(String) /\ Free(Integer) /\ Free(Boolean) /\ Free(Raw)
BY PlainIsFree DEF String, Integer, Boolean, Raw

LEMMA CollectionsAreFree ==
  ASSUME ModesLevels
  PROVE  /\ Free(MapOf(String)) /\ Free(MapOf(Raw))
         /\ Free(ArrayOf(String)) /\ Free(ArrayOf(Integer))
<1>1. \A type : MapOf(type).kind = "map" /\ MapOf(type).elem = type
                  /\ ArrayOf(type).kind = "array" /\ ArrayOf(type).elem = type
  BY DEF MapOf, ArrayOf
<1> QED
  BY <1>1, PlainTypesAreFree, ElementsAreFree

LEMMA Structs ==
  ASSUME NEW fields, NEW required
  PROVE  /\ StructOf(fields, required).kind = "struct"
         /\ StructOf(fields, required).fields = fields
         /\ Struct(fields).kind = "struct" /\ Struct(fields).fields = fields
BY DEF StructOf, Struct

\* All of these are plain, all through.
LEMMA PartsAreFree ==
  ASSUME ModesLevels
  PROVE  /\ Free(V1NexusAlgorithmResources)
         /\ Free(V1NexusAlgorithmContainer)
         /\ Free(V1NexusDatadogIntegrationSettings)
         /\ Free(V1NexusErrorHandlingBehaviour)
         /\ Free(V1NexusAlgorithmRuntimeEnvironmentAnnotations)
         /\ Free(V1NexusAlgorithmWorkgroupRef)
         /\ Free(ModelsAlgorithmRequestRef)
         /\ Free(ModelsAlgorithmRequestAlgorithmParameters)
<1>1. V1NexusAlgorithmResources.kind = "struct"
        /\ \A x \in DOMAIN V1NexusAlgorithmResources.fields :
              Free(V1NexusAlgorithmResources.fields[x])
  BY Structs, PlainTypesAreFree, CollectionsAreFree
     DEF V1NexusAlgorithmResources, V1NexusAlgorithmResourcesCustomResources,
         V1ResourceList
<1>2. Free(V1NexusAlgorithmResources)
  BY <1>1, MembersAreFree
<1>3. Free(V1NexusAlgorithmContainer) /\ Free(V1NexusDatadogIntegrationSettings)
  BY Structs, PlainTypesAreFree, MembersAreFree
     DEF V1NexusAlgorithmContainer, V1NexusDatadogIntegrationSettings
<1>4. Free(V1NexusErrorHandlingBehaviour)
  BY Structs, CollectionsAreFree, MembersAreFree DEF V1NexusErrorHandlingBehaviour
<1>5. Free(V1NexusAlgorithmWorkgroupRef) /\ Free(ModelsAlgorithmRequestRef)
  BY Structs, PlainTypesAreFree, MembersAreFree
     DEF V1NexusAlgorithmWorkgroupRef, ModelsAlgorithmRequestRef
<1>6. Free(V1NexusAlgorithmRuntimeEnvironmentAnnotations)
        /\ Free(ModelsAlgorithmRequestAlgorithmParameters)
  BY CollectionsAreFree
     DEF V1NexusAlgorithmRuntimeEnvironmentAnnotations,
         ModelsAlgorithmRequestAlgorithmParameters
<1> QED
  BY <1>2, <1>3, <1>4, <1>5, <1>6

LEMMA VariablesAreFree ==
  ASSUME ModesLevels
  PROVE  Free(ArrayOf(V1EnvVar)) /\ Free(ArrayOf(V1EnvFromSource))
<1>1. /\ Free(V1ConfigMapKeySelector)
      /\ Free(V1ObjectFieldSelector)
      /\ Free(V1FileKeySelector)
      /\ Free(V1ResourceFieldSelector)
      /\ Free(V1SecretKeySelector)
  BY Structs, PlainTypesAreFree, MembersAreFree
     DEF V1ConfigMapKeySelector, V1ObjectFieldSelector, V1FileKeySelector,
         V1ResourceFieldSelector, V1SecretKeySelector
<1>2. Free(V1ConfigMapEnvSource) /\ Free(V1SecretEnvSource)
  BY Structs, PlainTypesAreFree, MembersAreFree
     DEF V1ConfigMapEnvSource, V1SecretEnvSource
<1>3. V1EnvVarSource.kind = "struct"
        /\ \A x \in DOMAIN V1EnvVarSource.fields : Free(V1EnvVarSource.fields[x])
  BY <1>1, Structs DEF V1EnvVarSource
<1>4. Free(V1EnvVarSource)
  BY <1>3, MembersAreFree
<1>5. V1EnvVar.kind = "struct"
        /\ \A x \in DOMAIN V1EnvVar.fields : Free(V1EnvVar.fields[x])
  BY <1>4, Structs, PlainTypesAreFree DEF V1EnvVar
<1>6. V1EnvFromSource.kind = "struct"
        /\ \A x \in DOMAIN V1EnvFromSource.fields :
              Free(V1EnvFromSource.fields[x])
  BY <1>2, Structs, PlainTypesAreFree DEF V1EnvFromSource
<1>7. Free(V1EnvVar) /\ Free(V1EnvFromSource)
  BY <1>5, <1>6, MembersAreFree
<1>8. \A type : ArrayOf(type).kind = "array" /\ ArrayOf(type).elem = type
  BY DEF ArrayOf
<1> QED
  BY <1>7, <1>8, ElementsAreFree

\* Only metadata may have modes in them.
LEMMA AnswersAreFree ==
  ASSUME ModesLevels, NEW name \in Answers, name # "GetMetadataOK"
  PROVE  Free(Body[name])
<1>1. Body[name] = AnswerBodies[name]
  BY DEF Body
<1>2. /\ Free(ModelsRequestResult)
      /\ Free(ModelsTaggedRequestResult)
      /\ Free(ModelsCheckRunResponse)
  BY Structs, PlainTypesAreFree, MembersAreFree
     DEF ModelsRequestResult, ModelsTaggedRequestResult, ModelsCheckRunResponse
<1>3. /\ Free(GetResultsOK)
      /\ Free(CreateRunAccepted)
      /\ Free(PayloadOK)
      /\ Free(CompleteRequestAccepted)
  <2>1. GetResultsOK.kind = "array" /\ GetResultsOK.elem = ModelsTaggedRequestResult
    BY DEF GetResultsOK, ArrayOf
  <2> QED
    BY <1>2, <2>1, CollectionsAreFree, ElementsAreFree
       DEF CreateRunAccepted, PayloadOK, CompleteRequestAccepted
<1>4. AnswerBodies[name] \in
        {ModelsRequestResult, GetResultsOK, CreateRunAccepted, PayloadOK,
         ModelsCheckRunResponse, CompleteRequestAccepted, String}
  BY DEF Answers, AnswerBodies, GetMetadataBadRequest, GetMetadataUnauthorized,
         GetMetadataNotFound, GetResultBadRequest, GetResultUnauthorized,
         GetResultNotFound, GetResultsBadRequest, GetResultsUnauthorized,
         GetBufferedRequestOK, GetBufferedRequestBadRequest,
         GetBufferedRequestUnauthorized, GetBufferedRequestNotFound,
         CreateRunBadRequest, CreateRunUnauthorized,
         CreateRunInternalServerError, PayloadBadRequest, PayloadUnauthorized,
         PayloadForbidden, PayloadNotFound, CheckRequestBadRequest,
         CheckRequestUnauthorized, CheckRequestNotFound,
         CompleteRequestBadRequest, CompleteRequestUnauthorized,
         CompleteRequestNotFound
<1> QED
  BY <1>1, <1>2, <1>3, <1>4, PlainTypesAreFree

LEMMA ValidModeFits ==
  ASSUME ModesLevels, NEW type, type.kind = "enum", NEW v \in type.values
  PROVE  ModesFit(type, v)
BY DEF ModesLevels, ModesFit, Parts, Objects

\* Each Validate method visits what may have modes in it.
LEMMA ValidMountFits ==
  ASSUME ModesLevels, NEW mount, ValidVolumeMount(mount)
  PROVE  ModesFit(V1VolumeMount, mount)
<1> DEFINE T == V1VolumeMount
<1>1. T.kind = "struct"
  BY Structs DEF V1VolumeMount
<1>2. "mountPropagation" \in DOMAIN mount =>
        ModesFit(V1MountPropagationMode, mount["mountPropagation"])
  <2>1. V1MountPropagationMode.kind = "enum"
    BY DEF V1MountPropagationMode, Enum
  <2> QED
    BY <2>1, ValidModeFits DEF ValidVolumeMount, ValidIfSet, ValidMountPropagation
<1>3. "recursiveReadOnly" \in DOMAIN mount =>
        ModesFit(V1RecursiveReadOnlyMode, mount["recursiveReadOnly"])
  <2>1. V1RecursiveReadOnlyMode.kind = "enum"
    BY DEF V1RecursiveReadOnlyMode, Enum
  <2> QED
    BY <2>1, ValidModeFits DEF ValidVolumeMount, ValidIfSet, ValidRecursiveReadOnly
<1>4. \A x \in DOMAIN T.fields :
        x \in DOMAIN mount => ModesFit(T.fields[x], mount[x])
  BY <1>2, <1>3, Structs, PlainTypesAreFree DEF V1VolumeMount, Free
<1> HIDE DEF T
<1>5. ModesFit(T, mount)
  BY <1>1, <1>4, MembersFit
<1> QED
  BY <1>5 DEF T

LEMMA ValidMountsFit ==
  ASSUME ModesLevels, NEW mounts,
         \A key \in DOMAIN mounts : ValidVolumeMount(mounts[key])
  PROVE  ModesFit(MapOf(V1VolumeMount), mounts)
<1>1. MapOf(V1VolumeMount).kind = "map" /\ MapOf(V1VolumeMount).elem = V1VolumeMount
  BY DEF MapOf
<1>2. \A key \in DOMAIN mounts : ModesFit(V1VolumeMount, mounts[key])
  BY ValidMountFits
<1> QED
  BY <1>1, <1>2, ElementsFit

LEMMA ValidRuntimeFits ==
  ASSUME ModesLevels, NEW environment, ValidRuntimeEnvironment(environment)
  PROVE  ModesFit(V1NexusAlgorithmRuntimeEnvironment, environment)
<1> DEFINE T == V1NexusAlgorithmRuntimeEnvironment
           Mounts == {"configurationFileMounts", "secretFileMounts", "storageMounts"}
<1>1. T.kind = "struct"
  BY Structs DEF V1NexusAlgorithmRuntimeEnvironment
<1>2. \A x \in Mounts : x \in DOMAIN environment =>
        \A key \in DOMAIN environment[x] : ValidVolumeMount(environment[x][key])
  BY DEF ValidRuntimeEnvironment, ValidIfSet, ValidConfigurationFileMounts,
         ValidSecretFileMounts, ValidStorageMounts
<1>3. \A x \in Mounts : x \in DOMAIN environment =>
        ModesFit(MapOf(V1VolumeMount), environment[x])
  BY <1>2, ValidMountsFit
<1>4. \A x \in DOMAIN T.fields :
        (T.fields[x] = MapOf(V1VolumeMount) /\ x \in Mounts) \/ Free(T.fields[x])
  BY Structs, PlainTypesAreFree, PartsAreFree, VariablesAreFree
     DEF V1NexusAlgorithmRuntimeEnvironment,
         V1NexusAlgorithmRuntimeEnvironmentConfigurationFileMounts,
         V1NexusAlgorithmRuntimeEnvironmentSecretFileMounts,
         V1NexusAlgorithmRuntimeEnvironmentStorageMounts
<1> HIDE DEF T, Mounts
<1>5. \A x \in DOMAIN T.fields :
        x \in DOMAIN environment => ModesFit(T.fields[x], environment[x])
  BY <1>3, <1>4 DEF Free
<1>6. ModesFit(T, environment)
  BY <1>1, <1>5, MembersFit
<1> QED
  BY <1>6 DEF T

LEMMA ValidPayloadFits ==
  ASSUME ModesLevels, NEW configuration, ValidPayloadConfiguration(configuration)
  PROVE  ModesFit(V1NexusAlgorithmPayloadConfiguration, configuration)
<1> DEFINE T == V1NexusAlgorithmPayloadConfiguration
<1>1. T.kind = "struct"
  BY Structs DEF V1NexusAlgorithmPayloadConfiguration
<1>2. "payloadSerializationMode" \in DOMAIN configuration =>
        ModesFit(V1PayloadSerializationMode, configuration["payloadSerializationMode"])
  <2>1. V1PayloadSerializationMode.kind = "enum"
    BY DEF V1PayloadSerializationMode, Enum
  <2> QED
    BY <2>1, ValidModeFits
       DEF ValidPayloadConfiguration, ValidIfSet, ValidPayloadSerialization
<1>3. \A x \in DOMAIN T.fields :
        x \in DOMAIN configuration => ModesFit(T.fields[x], configuration[x])
  BY <1>2, Structs, PlainTypesAreFree DEF V1NexusAlgorithmPayloadConfiguration, Free
<1> HIDE DEF T
<1>4. ModesFit(T, configuration)
  BY <1>1, <1>3, MembersFit
<1> QED
  BY <1>4 DEF T

LEMMA ValidSpecFits ==
  ASSUME ModesLevels, NEW spec, ValidSpec(spec)
  PROVE  ModesFit(V1NexusAlgorithmSpec, spec)
<1> DEFINE T == V1NexusAlgorithmSpec
<1>1. T.kind = "struct"
  BY Structs DEF V1NexusAlgorithmSpec
<1>2. "payloadConfiguration" \in DOMAIN spec =>
        ModesFit(V1NexusAlgorithmPayloadConfiguration, spec["payloadConfiguration"])
  BY ValidPayloadFits DEF ValidSpec, ValidIfSet
<1>3. "runtimeEnvironment" \in DOMAIN spec =>
        ModesFit(V1NexusAlgorithmRuntimeEnvironment, spec["runtimeEnvironment"])
  BY ValidRuntimeFits DEF ValidSpec, ValidIfSet
<1>4. \A x \in DOMAIN T.fields :
        \/ x = "payloadConfiguration"
             /\ T.fields[x] = V1NexusAlgorithmPayloadConfiguration
        \/ x = "runtimeEnvironment"
             /\ T.fields[x] = V1NexusAlgorithmRuntimeEnvironment
        \/ Free(T.fields[x])
  BY Structs, PlainTypesAreFree, CollectionsAreFree, PartsAreFree
     DEF V1NexusAlgorithmSpec
<1> HIDE DEF T
<1>5. \A x \in DOMAIN T.fields :
        x \in DOMAIN spec => ModesFit(T.fields[x], spec[x])
  BY <1>2, <1>3, <1>4 DEF Free
<1>6. ModesFit(T, spec)
  BY <1>1, <1>5, MembersFit
<1> QED
  BY <1>6 DEF T

LEMMA ValidRequestFits ==
  ASSUME ModesLevels, NEW request, ValidAlgorithmRequest(request)
  PROVE  ModesFit(ModelsAlgorithmRequest, request)
<1> DEFINE T == ModelsAlgorithmRequest
<1>1. T.kind = "struct"
  BY Structs DEF ModelsAlgorithmRequest
<1>2. "customConfiguration" \in DOMAIN request =>
        ModesFit(V1NexusAlgorithmSpec, request["customConfiguration"])
  BY ValidSpecFits DEF ValidAlgorithmRequest, ValidIfSet
<1>3. \A x \in DOMAIN T.fields :
        \/ x = "customConfiguration" /\ T.fields[x] = V1NexusAlgorithmSpec
        \/ Free(T.fields[x])
  BY Structs, PlainTypesAreFree, PartsAreFree DEF ModelsAlgorithmRequest
<1> HIDE DEF T
<1>4. \A x \in DOMAIN T.fields :
        x \in DOMAIN request => ModesFit(T.fields[x], request[x])
  BY <1>2, <1>3 DEF Free
<1>5. ModesFit(T, request)
  BY <1>1, <1>4, MembersFit
<1> QED
  BY <1>5 DEF T

LEMMA ValidMetadataFits ==
  ASSUME ModesLevels, NEW metadata, ValidCheckpointedRequest(metadata)
  PROVE  ModesFit(ModelsCheckpointedRequest, metadata)
<1> DEFINE T == ModelsCheckpointedRequest
           Specs == {"applied_configuration", "configuration_overrides"}
<1>1. T.kind = "struct"
  BY Structs DEF ModelsCheckpointedRequest
<1>2. \A x \in Specs :
        x \in DOMAIN metadata => ModesFit(V1NexusAlgorithmSpec, metadata[x])
  BY ValidSpecFits DEF ValidCheckpointedRequest, ValidIfSet
<1>3. \A x \in DOMAIN T.fields :
        (x \in Specs /\ T.fields[x] = V1NexusAlgorithmSpec) \/ Free(T.fields[x])
  BY Structs, PlainTypesAreFree, PartsAreFree DEF ModelsCheckpointedRequest
<1> HIDE DEF T, Specs
<1>4. \A x \in DOMAIN T.fields :
        x \in DOMAIN metadata => ModesFit(T.fields[x], metadata[x])
  BY <1>2, <1>3 DEF Free
<1>5. ModesFit(T, metadata)
  BY <1>1, <1>4, MembersFit
<1> QED
  BY <1>5 DEF T

-------------------------------------------------------------------------------
(* What C programs ask for, on its way.                                    *)

LEMMA OnlyOne == ASSUME NEW v PROVE Only({v}) = v
BY DEF Only

LEMMA BodyNames ==
  /\ DOMAIN Body = DOMAIN RequestBodies \union Answers
  /\ "CreateRun" \in DOMAIN Body /\ "CreateRun" \notin Answers
  /\ "GetMetadataOK" \in Answers /\ "GetMetadataOK" \in DOMAIN Body
BY DEF Body, Answers, RequestBodies, AnswerBodies

RoundTrips(type, v) == Decoded(type, Encoded(type, v)) = {v}

\* An object is decoded as it was if all its members are.
LEMMA ObjectRoundTrip ==
  ASSUME CodecLevels, NEW type \in Types, type.kind \in Objects,
         NEW v, Fits(type, v),
         \A x \in DOMAIN v :
           ~Gathers(type, x) /\ RoundTrips(Member(type, x), v[x])
  PROVE  RoundTrips(type, v)
<1>1. PICK o : Encoded(type, v) = JObject(o) /\ Lists(o, PartDocs(type, v))
  BY EncodedObject
<1>2. DOMAIN PartDocs(type, v) = DOMAIN v
  BY DEF PartDocs, Parts
<1>3. \A x \in DOMAIN v :
        Decoded(Member(type, x), PartDocs(type, v)[x]) = {v[x]}
  BY <1>2 DEF PartDocs, RoundTrips
<1>4. Says(type, o, v)
  BY <1>1, <1>2, <1>3, ListedIsSaid
<1> QED
  BY <1>1, <1>4, SaidIsRead DEF RoundTrips

LEMMA FewAreFinite ==
  ASSUME NEW a, NEW b, NEW c, NEW d, NEW e, NEW S \in SUBSET {a, b, c, d, e}
  PROVE  IsFiniteSet(S)
<1>1. IsFiniteSet({a})
  BY FS_Singleton
<1>2. IsFiniteSet({a} \union {b})
  BY <1>1, FS_AddElement
<1>3. IsFiniteSet(({a} \union {b}) \union {c})
  BY <1>2, FS_AddElement
<1>4. IsFiniteSet((({a} \union {b}) \union {c}) \union {d})
  BY <1>3, FS_AddElement
<1>5. IsFiniteSet(((({a} \union {b}) \union {c}) \union {d}) \union {e})
  BY <1>4, FS_AddElement
<1>6. ((({a} \union {b}) \union {c}) \union {d}) \union {e} = {a, b, c, d, e}
  OBVIOUS
<1> QED
  BY <1>5, <1>6, FS_Subset

\* A struct without required maps, at most five of whose members are set.
LEMMA StructRoundTrip ==
  ASSUME CodecLevels, NEW type \in Types, type.kind = "struct",
         NEW v, v = [x \in DOMAIN v |-> v[x]],
         type.required \subseteq DOMAIN v, DOMAIN v \subseteq DOMAIN type.fields,
         NEW a, NEW b, NEW c, NEW d, NEW e, DOMAIN v \subseteq {a, b, c, d, e},
         \A x \in type.required : type.fields[x].kind # "map",
         \A x \in DOMAIN v : RoundTrips(type.fields[x], v[x])
  PROVE  RoundTrips(type, v)
<1>1. Fits(type, v)
  BY FewAreFinite DEF Fits
<1>2. \A x : Member(type, x) = type.fields[x]
  BY DEF Member
<1>3. \A x \in DOMAIN v : ~Gathers(type, x)
  BY <1>2 DEF Gathers
<1> QED
  BY <1>1, <1>2, <1>3, ObjectRoundTrip DEF Objects

LEMMA MapRoundTrip ==
  ASSUME CodecLevels, NEW type \in Types, type.kind = "map",
         NEW v, v = [x \in DOMAIN v |-> v[x]],
         NEW a, NEW b, NEW c, NEW d, NEW e, DOMAIN v \subseteq {a, b, c, d, e},
         \A x \in DOMAIN v : RoundTrips(type.elem, v[x])
  PROVE  RoundTrips(type, v)
<1>1. Fits(type, v)
  BY FewAreFinite DEF Fits
<1>2. \A x : Member(type, x) = type.elem /\ ~Gathers(type, x)
  BY DEF Member, Gathers
<1> QED
  BY <1>1, <1>2, ObjectRoundTrip DEF Objects

-------------------------------------------------------------------------------
\* The types of what a request has in it.
LEMMA FieldsAreTypes ==
  ASSUME NEW type \in Types, type.kind = "struct"
  PROVE  \A x \in DOMAIN type.fields : type.fields[x] \in Types
BY TypesAssumption DEF PartTypes

LEMMA BodyTypes ==
  /\ Body["CreateRun"] = ModelsAlgorithmRequest
  /\ Body["GetMetadataOK"] = ModelsCheckpointedRequest
  /\ ModelsAlgorithmRequest \in Types /\ ModelsCheckpointedRequest \in Types
<1>1. /\ Body["CreateRun"] = ModelsAlgorithmRequest
      /\ Body["GetMetadataOK"] = ModelsCheckpointedRequest
  BY BodyNames DEF Body, RequestBodies, AnswerBodies
<1> QED
  BY <1>1, BodyNames, TypesAssumption

LEMMA RequestTypes ==
  /\ V1NexusAlgorithmSpec \in Types
  /\ ModelsAlgorithmRequestRef \in Types
  /\ V1NexusAlgorithmResources \in Types
  /\ V1ResourceList \in Types
  /\ V1NexusAlgorithmContainer \in Types
  /\ V1NexusAlgorithmRuntimeEnvironment \in Types
  /\ V1NexusAlgorithmWorkgroupRef \in Types
  /\ String \in Types
  /\ Integer \in Types
<1>1. /\ ModelsAlgorithmRequest.kind = "struct"
      /\ {"customConfiguration", "parentRequest", "tag"}
           \subseteq DOMAIN ModelsAlgorithmRequest.fields
      /\ ModelsAlgorithmRequest.fields["customConfiguration"] = V1NexusAlgorithmSpec
      /\ ModelsAlgorithmRequest.fields["parentRequest"] = ModelsAlgorithmRequestRef
      /\ ModelsAlgorithmRequest.fields["tag"] = String
  BY Structs DEF ModelsAlgorithmRequest
<1>2. /\ V1NexusAlgorithmSpec \in Types
      /\ ModelsAlgorithmRequestRef \in Types
      /\ String \in Types
  BY <1>1, BodyTypes, FieldsAreTypes
<1>3. /\ V1NexusAlgorithmSpec.kind = "struct"
      /\ {"computeResources", "container", "runtimeEnvironment", "workgroupRef"}
           \subseteq DOMAIN V1NexusAlgorithmSpec.fields
      /\ V1NexusAlgorithmSpec.fields["computeResources"] = V1NexusAlgorithmResources
      /\ V1NexusAlgorithmSpec.fields["container"] = V1NexusAlgorithmContainer
      /\ V1NexusAlgorithmSpec.fields["runtimeEnvironment"] =
           V1NexusAlgorithmRuntimeEnvironment
      /\ V1NexusAlgorithmSpec.fields["workgroupRef"] = V1NexusAlgorithmWorkgroupRef
  BY Structs DEF V1NexusAlgorithmSpec
<1>4. /\ V1NexusAlgorithmResources \in Types
      /\ V1NexusAlgorithmContainer \in Types
      /\ V1NexusAlgorithmRuntimeEnvironment \in Types
      /\ V1NexusAlgorithmWorkgroupRef \in Types
  BY <1>2, <1>3, FieldsAreTypes
<1>5. /\ V1NexusAlgorithmResources.kind = "struct"
      /\ "limits" \in DOMAIN V1NexusAlgorithmResources.fields
      /\ V1NexusAlgorithmResources.fields["limits"] = V1ResourceList
  BY Structs DEF V1NexusAlgorithmResources
<1>6. /\ V1NexusAlgorithmRuntimeEnvironment.kind = "struct"
      /\ "deadlineSeconds" \in DOMAIN V1NexusAlgorithmRuntimeEnvironment.fields
      /\ V1NexusAlgorithmRuntimeEnvironment.fields["deadlineSeconds"] = Integer
  BY Structs DEF V1NexusAlgorithmRuntimeEnvironment
<1>7. V1ResourceList \in Types /\ Integer \in Types
  BY <1>4, <1>5, <1>6, FieldsAreTypes
<1> QED
  BY <1>2, <1>4, <1>7

\* A text and a number are decoded as they were,
LEMMA PlainValues ==
  ASSUME CodecLevels
  PROVE  \A v : RoundTrips(String, v) /\ RoundTrips(Integer, v)
<1>1. Trivial(String) /\ Trivial(Integer)
  BY DEF Trivial, String, Integer, Objects
<1> QED
  BY <1>1, RequestTypes, PlainRoundTrip DEF RoundTrips

LEMMA ResourcesRoundTrip ==
  ASSUME CodecLevels, NEW c
  PROVE  RoundTrips(V1NexusAlgorithmResources, Resources(c))
<1> DEFINE T == V1NexusAlgorithmResources
           v == Resources(c)
<1>1. /\ T.kind = "struct"
      /\ T.required = {}
      /\ {"limits", "requests"} \subseteq DOMAIN T.fields
      /\ T.fields["limits"] = V1ResourceList
      /\ T.fields["requests"] = V1ResourceList
  BY DEF V1NexusAlgorithmResources, Struct, StructOf
<1>2. \A cpu, memory : RoundTrips(V1ResourceList, [cpu |-> cpu, memory |-> memory])
  <2> TAKE cpu, memory
  <2> DEFINE w == [cpu |-> cpu, memory |-> memory]
  <2>1. V1ResourceList.kind = "map" /\ V1ResourceList.elem = String
    BY DEF V1ResourceList, MapOf
  <2>2. w = [x \in DOMAIN w |-> w[x]]
    OBVIOUS
  <2>3. DOMAIN w \subseteq {"cpu", "memory", "cpu", "cpu", "cpu"}
    OBVIOUS
  <2> HIDE DEF w
  <2>4. RoundTrips(V1ResourceList, w)
    BY <2>1, <2>2, <2>3, MapRoundTrip, PlainValues, RequestTypes
  <2> QED
    BY <2>4 DEF w
<1>3. v = [x \in DOMAIN v |-> v[x]]
  BY DEF Resources, SetMembers
<1>4. DOMAIN v \subseteq {"limits", "requests", "limits", "limits", "limits"}
  BY ResourcesMembers
<1>5. \A x \in DOMAIN v : RoundTrips(T.fields[x], v[x])
  <2>1. "limits" \in DOMAIN v =>
          v["limits"] = [cpu |-> c["cpu_limit"], memory |-> c["memory_limit"]]
    BY ResourcesMembers
  <2>2. "requests" \in DOMAIN v =>
          v["requests"] = [cpu |-> c["cpu_request"], memory |-> c["memory_request"]]
    BY ResourcesMembers
  <2>3. \A x \in DOMAIN v : RoundTrips(V1ResourceList, v[x])
    <3> HIDE DEF T, v
    <3> QED
      BY <1>2, <1>4, <2>1, <2>2
  <2> HIDE DEF T, v
  <2> QED
    BY <1>1, <1>4, <2>3
<1>6. T \in Types
  BY RequestTypes
<1> HIDE DEF T, v
<1>7. RoundTrips(T, v)
  BY <1>1, <1>3, <1>4, <1>5, <1>6, StructRoundTrip
<1> QED
  BY <1>7 DEF T, v

LEMMA ContainerRoundTrip ==
  ASSUME CodecLevels, NEW c
  PROVE  RoundTrips(V1NexusAlgorithmContainer, Container(c))
<1> DEFINE T == V1NexusAlgorithmContainer
           v == Container(c)
<1>1. /\ T.kind = "struct"
      /\ T.required = {}
      /\ "versionTag" \in DOMAIN T.fields
      /\ T.fields["versionTag"] = String
  BY DEF V1NexusAlgorithmContainer, Struct, StructOf
<1>2. v = [x \in DOMAIN v |-> v[x]]
  BY DEF Container, SetMembers
<1>3. DOMAIN v \subseteq {"versionTag", "versionTag", "versionTag", "versionTag",
                        "versionTag"}
  BY ContainerMembers
<1>4. T \in Types
  BY RequestTypes
<1> HIDE DEF T, v
<1>5. \A x \in DOMAIN v : RoundTrips(T.fields[x], v[x])
  BY <1>1, <1>3, PlainValues
<1>6. RoundTrips(T, v)
  BY <1>1, <1>2, <1>3, <1>4, <1>5, StructRoundTrip
<1> QED
  BY <1>6 DEF T, v

LEMMA RuntimeRoundTrip ==
  ASSUME CodecLevels, NEW c
  PROVE  RoundTrips(V1NexusAlgorithmRuntimeEnvironment, RuntimeEnvironment(c))
<1> DEFINE T == V1NexusAlgorithmRuntimeEnvironment
           v == RuntimeEnvironment(c)
<1>1. /\ T.kind = "struct"
      /\ T.required = {}
      /\ {"deadlineSeconds", "maximumRetries"} \subseteq DOMAIN T.fields
      /\ T.fields["deadlineSeconds"] = Integer
      /\ T.fields["maximumRetries"] = Integer
  BY DEF V1NexusAlgorithmRuntimeEnvironment, Struct, StructOf
<1>2. v = [x \in DOMAIN v |-> v[x]]
  BY DEF RuntimeEnvironment, SetMembers
<1>3. DOMAIN v \subseteq {"deadlineSeconds", "maximumRetries", "maximumRetries",
                        "maximumRetries", "maximumRetries"}
  BY RuntimeMembers
<1>4. T \in Types
  BY RequestTypes
<1> HIDE DEF T, v
<1>5. \A x \in DOMAIN v : RoundTrips(T.fields[x], v[x])
  BY <1>1, <1>3, PlainValues
<1>6. RoundTrips(T, v)
  BY <1>1, <1>2, <1>3, <1>4, <1>5, StructRoundTrip
<1> QED
  BY <1>6 DEF T, v

LEMMA WorkgroupRoundTrip ==
  ASSUME CodecLevels, NEW c
  PROVE  RoundTrips(V1NexusAlgorithmWorkgroupRef, Workgroup(c))
<1> DEFINE T == V1NexusAlgorithmWorkgroupRef
           v == Workgroup(c)
<1>1. /\ T.kind = "struct"
      /\ T.required = {}
      /\ \A x \in {"name", "group", "kind"} :
           x \in DOMAIN T.fields /\ T.fields[x] = String
  BY DEF V1NexusAlgorithmWorkgroupRef, Struct, StructOf
<1>2. v = [x \in DOMAIN v |-> v[x]]
  BY DEF Workgroup
<1>3. DOMAIN v \subseteq {"name", "group", "kind", "kind", "kind"}
  BY DEF Workgroup
<1>4. T \in Types
  BY RequestTypes
<1> HIDE DEF T, v
<1>5. \A x \in DOMAIN v : RoundTrips(T.fields[x], v[x])
  BY <1>1, <1>3, PlainValues
<1>6. RoundTrips(T, v)
  BY <1>1, <1>2, <1>3, <1>4, <1>5, StructRoundTrip
<1> QED
  BY <1>6 DEF T, v

LEMMA ParentRoundTrip ==
  ASSUME CodecLevels, NEW p
  PROVE  RoundTrips(ModelsAlgorithmRequestRef, ParentRequest(p))
<1> DEFINE T == ModelsAlgorithmRequestRef
           v == ParentRequest(p)
<1>1. /\ T.kind = "struct"
      /\ T.required = {"algorithmName", "requestId"}
      /\ DOMAIN T.fields = {"algorithmName", "requestId"}
      /\ \A x \in DOMAIN T.fields : T.fields[x] = String
  BY DEF ModelsAlgorithmRequestRef, StructOf
<1>2. v = [x \in DOMAIN v |-> v[x]]
  BY DEF ParentRequest
<1>3. DOMAIN v = {"algorithmName", "requestId"}
  BY DEF ParentRequest
<1>4. T \in Types
  BY RequestTypes
<1>5. String.kind # "map"
  BY DEF String
<1> HIDE DEF T, v
<1>6. DOMAIN v \subseteq {"algorithmName", "requestId", "requestId", "requestId",
                        "requestId"}
  BY <1>3
<1>7. \A x \in DOMAIN v : RoundTrips(T.fields[x], v[x])
  BY <1>1, <1>3, PlainValues
<1>8. \A x \in T.required : T.fields[x].kind # "map"
  BY <1>1, <1>5
<1>9. RoundTrips(T, v)
  BY <1>1, <1>2, <1>3, <1>4, <1>6, <1>7, <1>8, StructRoundTrip
<1> QED
  BY <1>9 DEF T, v

\* and so is all that is built of them for a C program.
LEMMA SpecRoundTrip ==
  ASSUME CodecLevels, NEW c
  PROVE  RoundTrips(V1NexusAlgorithmSpec, CustomSpec(c))
<1> DEFINE T == V1NexusAlgorithmSpec
           v == CustomSpec(c)
<1>1. /\ T.kind = "struct"
      /\ T.required = {}
      /\ {"computeResources", "container", "runtimeEnvironment", "workgroupRef"}
           \subseteq DOMAIN T.fields
      /\ T.fields["computeResources"] = V1NexusAlgorithmResources
      /\ T.fields["container"] = V1NexusAlgorithmContainer
      /\ T.fields["runtimeEnvironment"] = V1NexusAlgorithmRuntimeEnvironment
      /\ T.fields["workgroupRef"] = V1NexusAlgorithmWorkgroupRef
  BY DEF V1NexusAlgorithmSpec, Struct, StructOf
<1>2. v = [x \in DOMAIN v |-> v[x]]
  BY DEF CustomSpec, SetMembers
<1>3. DOMAIN v \subseteq {"computeResources", "container", "runtimeEnvironment",
                        "workgroupRef", "workgroupRef"}
  BY SpecMembers
<1>4. /\ "computeResources" \in DOMAIN v =>
           RoundTrips(T.fields["computeResources"], v["computeResources"])
      /\ "container" \in DOMAIN v =>
           RoundTrips(T.fields["container"], v["container"])
  <2>1. "computeResources" \in DOMAIN v => v["computeResources"] = Resources(c)
    BY SpecMembers
  <2>2. "container" \in DOMAIN v => v["container"] = Container(c)
    BY SpecMembers
  <2> HIDE DEF T, v
  <2> QED
    BY <1>1, <2>1, <2>2, ResourcesRoundTrip, ContainerRoundTrip
<1>5. /\ "runtimeEnvironment" \in DOMAIN v =>
           RoundTrips(T.fields["runtimeEnvironment"], v["runtimeEnvironment"])
      /\ "workgroupRef" \in DOMAIN v =>
           RoundTrips(T.fields["workgroupRef"], v["workgroupRef"])
  <2>1. "runtimeEnvironment" \in DOMAIN v =>
          v["runtimeEnvironment"] = RuntimeEnvironment(c)
    BY SpecMembers
  <2>2. "workgroupRef" \in DOMAIN v => v["workgroupRef"] = Workgroup(c)
    BY SpecMembers
  <2> HIDE DEF T, v
  <2> QED
    BY <1>1, <2>1, <2>2, RuntimeRoundTrip, WorkgroupRoundTrip
<1>6. T \in Types
  BY RequestTypes
<1> HIDE DEF T, v
<1>7. \A x \in DOMAIN v : RoundTrips(T.fields[x], v[x])
  BY <1>3, <1>4, <1>5
<1>8. RoundTrips(T, v)
  BY <1>1, <1>2, <1>3, <1>6, <1>7, StructRoundTrip
<1> QED
  BY <1>8 DEF T, v

-------------------------------------------------------------------------------
(* What is stored of a request.                                            *)

\* f under the names that metadata have for the members of a request.
UnderNewNames(f) ==
  [name \in {Renamed[n] : n \in DOMAIN f \intersect DOMAIN Renamed} |->
     f[CHOOSE n \in DOMAIN Renamed : Renamed[n] = name]]

\* No two members of a request have the same name in metadata.
LEMMA RenamedOnce ==
  /\ DOMAIN Renamed =
       {"customConfiguration", "parentRequest", "requestApiVersion", "tag"}
  /\ \A n, m \in DOMAIN Renamed : Renamed[n] = Renamed[m] => n = m
BY DEF Renamed

LEMMA NewNames ==
  ASSUME NEW f
  PROVE  /\ \A name \in DOMAIN UnderNewNames(f) :
              \E n \in DOMAIN f \intersect DOMAIN Renamed : name = Renamed[n]
         /\ \A n \in DOMAIN Renamed :
              /\ Renamed[n] \in DOMAIN UnderNewNames(f) <=> n \in DOMAIN f
              /\ n \in DOMAIN f => UnderNewNames(f)[Renamed[n]] = f[n]
<1>1. \A n \in DOMAIN Renamed :
        (CHOOSE m \in DOMAIN Renamed : Renamed[m] = Renamed[n]) = n
  BY RenamedOnce
<1>2. DOMAIN UnderNewNames(f) = {Renamed[n] : n \in DOMAIN f \intersect DOMAIN Renamed}
  BY DEF UnderNewNames
<1>3. ASSUME NEW n \in DOMAIN Renamed
      PROVE  Renamed[n] \in DOMAIN UnderNewNames(f) <=> n \in DOMAIN f
  BY <1>2, RenamedOnce
<1>4. ASSUME NEW n \in DOMAIN Renamed, n \in DOMAIN f
      PROVE  UnderNewNames(f)[Renamed[n]] = f[n]
  <2>1. UnderNewNames(f)[Renamed[n]] =
          f[CHOOSE m \in DOMAIN Renamed : Renamed[m] = Renamed[n]]
    BY <1>2, <1>3, <1>4 DEF UnderNewNames
  <2> QED
    BY <1>1, <2>1
<1> QED
  BY <1>2, <1>3, <1>4

\* What is stored of a document that lists its parts lists them too, under
\* their new names.
LEMMA StoredLists ==
  ASSUME CodecLevels, NEW o, NEW parts, Lists(o, parts)
  PROVE  \E s : Stored(JObject(o)) = JObject(s) /\ Lists(s, UnderNewNames(parts))
<1> DEFINE S == {i \in DOMAIN o : o[i][1] \in DOMAIN Renamed}
           kept == Order(S)
           s == [k \in DOMAIN kept |-> <<Renamed[o[kept[k]][1]], o[kept[k]][2]>>]
<1>1. Stored(JObject(o)) = JObject(s)
  <2>1. JObject(o).o = o
    BY DEF JObject
  <2> QED
    BY <2>1 DEF Stored
<1>2. IsFiniteSet(S)
  <2>1. DOMAIN o = 1..Len(o) /\ Len(o) \in Nat
    BY DEF Lists
  <2>2. IsFiniteSet(DOMAIN o)
    BY <2>1, FS_Interval
  <2>3. S \subseteq DOMAIN o
    OBVIOUS
  <2> QED
    BY <2>2, <2>3, FS_Subset
<1>3. Enumerates(kept, S)
  <2> HIDE DEF S
  <2> QED
    BY <1>2 DEF CodecLevels
<1>4. \A i \in S : i \in DOMAIN o /\ o[i][1] \in DOMAIN Renamed
  OBVIOUS
<1>5. \A i \in DOMAIN o : o[i][1] \in DOMAIN Renamed => i \in S
  OBVIOUS
<1> HIDE DEF S, kept
<1>6. kept \in Seq(S)
  BY <1>3 DEF Enumerates
<1>7. DOMAIN s = DOMAIN kept /\ DOMAIN kept = 1..Len(kept) /\ Len(kept) \in Nat
  BY <1>6
<1>8. \A k \in DOMAIN s : kept[k] \in S
  BY <1>6
<1>9. \A k \in DOMAIN s : s[k] = <<Renamed[o[kept[k]][1]], o[kept[k]][2]>>
  OBVIOUS
<1>10. s \in Seq({s[k] : k \in DOMAIN s})
  <2>1. s = [k \in 1..Len(kept) |-> s[k]]
    BY <1>7
  <2> HIDE DEF s
  <2> QED
    BY <1>7, <2>1
<1> HIDE DEF s
<1>11. \A k \in DOMAIN s :
         /\ o[kept[k]][1] \in DOMAIN parts \intersect DOMAIN Renamed
         /\ s[k][1] = Renamed[o[kept[k]][1]]
         /\ s[k][2] = parts[o[kept[k]][1]]
         /\ s[k] = <<s[k][1], s[k][2]>>
  BY <1>4, <1>8, <1>9 DEF Lists
<1>12. \A k \in DOMAIN s :
         /\ s[k][1] \in DOMAIN UnderNewNames(parts)
         /\ s[k] = <<s[k][1], UnderNewNames(parts)[s[k][1]]>>
  <2> TAKE k \in DOMAIN s
  <2> DEFINE n == o[kept[k]][1]
  <2>1. n \in DOMAIN parts /\ n \in DOMAIN Renamed
    BY <1>11
  <2> HIDE DEF n
  <2>2. Renamed[n] \in DOMAIN UnderNewNames(parts)
          /\ UnderNewNames(parts)[Renamed[n]] = parts[n]
    BY <2>1, NewNames
  <2> QED
    BY <1>11, <2>2 DEF n
<1>13. ASSUME NEW i \in DOMAIN s, NEW k \in DOMAIN s, s[i][1] = s[k][1]
       PROVE  i = k
  <2>1. o[kept[i]][1] = o[kept[k]][1]
    BY <1>11, <1>13, RenamedOnce
  <2>2. kept[i] = kept[k]
    BY <1>4, <1>8, <2>1 DEF Lists
  <2> QED
    BY <1>3, <1>7, <2>2 DEF Enumerates
<1>14. ASSUME NEW name \in DOMAIN UnderNewNames(parts)
       PROVE  \E k \in DOMAIN s : s[k][1] = name
  <2>1. PICK n \in DOMAIN parts \intersect DOMAIN Renamed : name = Renamed[n]
    BY NewNames
  <2>2. PICK i \in DOMAIN o : o[i][1] = n
    BY <2>1 DEF Lists
  <2>3. PICK k \in DOMAIN kept : kept[k] = i
    BY <1>3, <1>5, <2>1, <2>2 DEF Enumerates
  <2> QED
    BY <1>7, <1>11, <2>1, <2>2, <2>3
<1>15. Lists(s, UnderNewNames(parts))
  BY <1>10, <1>12, <1>13, <1>14 DEF Lists
<1> QED
  BY <1>1, <1>15

\* What the request of a C program is read as, when it is shown as metadata.
LEMMA StoredIsRead ==
  ASSUME CodecLevels, NEW a, NEW p
  PROVE  LET request == Request(a, p)
         IN  Decoded(ModelsCheckpointedRequest,
                     Stored(Encoded(ModelsAlgorithmRequest, request)))
               = {UnderNewNames(request)}
<1> DEFINE A == ModelsAlgorithmRequest
           M == ModelsCheckpointedRequest
           r == Request(a, p)
           m == UnderNewNames(r)
           parts == PartDocs(A, r)
<1>1. /\ A.kind = "struct" /\ A.required = {"algorithmParameters"}
      /\ DOMAIN A.fields = {"algorithmParameters", "customConfiguration",
                            "parentRequest", "requestApiVersion", "tag"}
      /\ A.fields["customConfiguration"] = V1NexusAlgorithmSpec
      /\ A.fields["parentRequest"] = ModelsAlgorithmRequestRef
      /\ A.fields["requestApiVersion"] = String
      /\ A.fields["tag"] = String
  BY DEF ModelsAlgorithmRequest, StructOf
<1>2. /\ M.kind = "struct" /\ M.required = {}
      /\ {"configuration_overrides", "parent", "api_version", "tag"}
           \subseteq DOMAIN M.fields
      /\ M.fields["configuration_overrides"] = V1NexusAlgorithmSpec
      /\ M.fields["parent"] = ModelsAlgorithmRequestRef
      /\ M.fields["api_version"] = String
      /\ M.fields["tag"] = String
  BY DEF ModelsCheckpointedRequest, Struct, StructOf
<1>3. /\ DOMAIN r \subseteq {"algorithmParameters", "customConfiguration",
                             "parentRequest", "requestApiVersion", "tag"}
      /\ "algorithmParameters" \in DOMAIN r
      /\ "customConfiguration" \in DOMAIN r =>
           r["customConfiguration"] = CustomSpec(a.configuration)
      /\ "parentRequest" \in DOMAIN r => r["parentRequest"] = ParentRequest(a.parent)
  BY DEF Request, SetMembers, Opt, Unset
<1>4. r = [x \in DOMAIN r |-> r[x]] /\ m = [x \in DOMAIN m |-> m[x]]
  <2>1. r = [x \in DOMAIN r |-> r[x]]
    BY DEF Request, SetMembers
  <2> HIDE DEF r
  <2>2. m = [x \in DOMAIN m |-> m[x]]
    BY DEF UnderNewNames
  <2> QED
    BY <2>1, <2>2
<1>5. A \in Types /\ M \in Types
  BY BodyTypes
<1> HIDE DEF A, M, r
<1>6. Fits(A, r)
  BY <1>1, <1>3, <1>4, FewAreFinite DEF Fits
<1>7. PICK o : Encoded(A, r) = JObject(o) /\ Lists(o, parts)
  BY <1>1, <1>5, <1>6, EncodedObject DEF Objects
<1>8. PICK s : Stored(JObject(o)) = JObject(s) /\ Lists(s, UnderNewNames(parts))
  BY <1>7, StoredLists
<1>9. DOMAIN parts = DOMAIN r
        /\ \A x \in DOMAIN r : parts[x] = Encoded(A.fields[x], r[x])
  BY <1>1 DEF PartDocs, Parts, Objects, Member
<1> HIDE DEF parts
<1>10. DOMAIN UnderNewNames(parts) = DOMAIN m
  BY <1>9 DEF UnderNewNames
<1>11. DOMAIN m \subseteq {"configuration_overrides", "parent", "api_version", "tag"}
  <2>1. \A n \in DOMAIN Renamed :
          Renamed[n] \in {"configuration_overrides", "parent", "api_version", "tag"}
    BY DEF Renamed
  <2> QED
    BY <2>1, NewNames
<1>12. \A n \in DOMAIN r \intersect DOMAIN Renamed :
         /\ M.fields[Renamed[n]] = A.fields[n]
         /\ RoundTrips(A.fields[n], r[n])
  <2>1. "customConfiguration" \in DOMAIN r =>
          RoundTrips(A.fields["customConfiguration"], r["customConfiguration"])
    BY <1>1, <1>3, SpecRoundTrip
  <2>2. "parentRequest" \in DOMAIN r =>
          RoundTrips(A.fields["parentRequest"], r["parentRequest"])
    BY <1>1, <1>3, ParentRoundTrip
  <2>3. RoundTrips(A.fields["requestApiVersion"], r["requestApiVersion"])
          /\ RoundTrips(A.fields["tag"], r["tag"])
    BY <1>1, PlainValues
  <2>4. \A n \in DOMAIN Renamed : M.fields[Renamed[n]] = A.fields[n]
    BY <1>1, <1>2 DEF Renamed
  <2> QED
    BY <2>1, <2>2, <2>3, <2>4, RenamedOnce
<1>13. \A x \in DOMAIN m :
         Decoded(Member(M, x), UnderNewNames(parts)[x]) = {m[x]}
  <2> TAKE x \in DOMAIN m
  <2>1. PICK n \in DOMAIN r \intersect DOMAIN Renamed : x = Renamed[n]
    BY NewNames
  <2>2. UnderNewNames(parts)[x] = parts[n] /\ m[x] = r[n]
    BY <1>9, <2>1, NewNames
  <2>3. Member(M, x) = A.fields[n]
    BY <1>2, <1>12, <2>1 DEF Member
  <2> HIDE DEF m
  <2> QED
    BY <1>9, <1>12, <2>1, <2>2, <2>3 DEF RoundTrips
<1>14. Fits(M, m)
  <2>1. DOMAIN m \subseteq {"configuration_overrides", "parent", "api_version",
                           "tag", "tag"}
    BY <1>11
  <2> HIDE DEF m
  <2>2. IsFiniteSet(DOMAIN m)
    BY <2>1, FewAreFinite
  <2> QED
    BY <1>2, <1>4, <1>11, <2>2 DEF Fits
<1>15. \A x : ~Gathers(M, x)
  BY <1>2 DEF Gathers
<1> HIDE DEF m
<1>16. Says(M, s, m)
  BY <1>2, <1>8, <1>10, <1>13, <1>14, ListedIsSaid DEF Objects
<1>17. Decoded(M, JObject(s)) = {m}
  BY <1>2, <1>5, <1>14, <1>15, <1>16, SaidIsRead DEF Objects
<1> QED
  BY <1>7, <1>8, <1>17 DEF A, M, r, m

\* What is stored of a request passes the validation of metadata.
LEMMA StoredIsValid ==
  ASSUME NEW a, NEW p
  PROVE  Valid("GetMetadataOK", UnderNewNames(Request(a, p)))
<1> DEFINE r == Request(a, p)
           m == UnderNewNames(r)
<1>1. "customConfiguration" \in DOMAIN r =>
        r["customConfiguration"] = CustomSpec(a.configuration)
  BY DEF Request, SetMembers, Opt, Unset
<1> HIDE DEF r
<1>2. /\ "applied_configuration" \notin DOMAIN m
      /\ "configuration_overrides" \in DOMAIN m =>
           m["configuration_overrides"] = CustomSpec(a.configuration)
  <2>1. "applied_configuration" \notin DOMAIN m
    <3>1. \A n \in DOMAIN Renamed : Renamed[n] # "applied_configuration"
      BY DEF Renamed
    <3> QED
      BY <3>1, NewNames
  <2>2. Renamed["customConfiguration"] = "configuration_overrides"
    BY DEF Renamed
  <2> QED
    BY <1>1, <2>1, <2>2, NewNames, RenamedOnce
<1>3. \A c : ValidSpec(CustomSpec(c))
  <2> TAKE c
  <2>1. "payloadConfiguration" \notin DOMAIN CustomSpec(c)
    BY SpecMembers
  <2>2. ValidRuntimeEnvironment(RuntimeEnvironment(c))
    BY RuntimeMembers DEF ValidRuntimeEnvironment, ValidIfSet
  <2>3. "runtimeEnvironment" \in DOMAIN CustomSpec(c) =>
          ValidRuntimeEnvironment(CustomSpec(c)["runtimeEnvironment"])
    BY <2>2, SpecMembers
  <2> QED
    BY <2>1, <2>3 DEF ValidSpec, ValidIfSet
<1> HIDE DEF m
<1>4. ValidCheckpointedRequest(m)
  BY <1>2, <1>3 DEF ValidCheckpointedRequest, ValidIfSet
<1> QED
  BY <1>4 DEF Valid, m, r

\* What metadata show of a request is what was asked for.
LEMMA StoredIsAsked ==
  ASSUME NEW a \in Asks, ~Halved(a), NEW p
  PROVE  LET metadata == UnderNewNames(Request(a, p))
             overrides == Found(metadata, <<"configuration_overrides">>)
         IN  /\ overrides # {} <=> "configuration" \in DOMAIN a
             /\ "configuration" \in DOMAIN a =>
                  \A field \in DOMAIN Place :
                    Found(Only(overrides), Place[field])
                      = Meant(a.configuration, field)
             /\ Found(metadata, <<"tag">>) = Found(a, <<"tag">>)
             /\ Found(metadata, <<"parent">>)
                  = {ParentRequest(q) : q \in Found(a, <<"parent">>)}
<1> DEFINE r == Request(a, p)
           metadata == UnderNewNames(r)
           overrides == Found(metadata, <<"configuration_overrides">>)
<1>1. ASSUME NEW n \in DOMAIN Renamed
      PROVE  Found(metadata, <<Renamed[n]>>) = Found(r, <<n>>)
  <2> HIDE DEF r
  <2>1. At(metadata, Renamed[n]) = At(r, n)
    BY <1>1, NewNames DEF At
  <2> QED
    BY <2>1, One
<1>2. /\ overrides = Found(r, <<"customConfiguration">>)
      /\ Found(metadata, <<"parent">>) = Found(r, <<"parentRequest">>)
      /\ Found(metadata, <<"tag">>) = Found(r, <<"tag">>)
  <2>1. /\ Renamed["customConfiguration"] = "configuration_overrides"
        /\ Renamed["parentRequest"] = "parent"
        /\ Renamed["tag"] = "tag"
    BY DEF Renamed
  <2> HIDE DEF metadata, r
  <2> QED
    BY <1>1, <2>1, RenamedOnce
<1>3. /\ Found(r, <<"customConfiguration">>)
           = {CustomSpec(c) : c \in Found(a, <<"configuration">>)}
      /\ Found(r, <<"parentRequest">>)
           = {ParentRequest(q) : q \in Found(a, <<"parent">>)}
      /\ Found(r, <<"tag">>) = Found(a, <<"tag">>)
  BY RequestAsAsked
<1>4. Found(a, <<"configuration">>) =
        IF "configuration" \in DOMAIN a THEN {a.configuration} ELSE {}
  BY One DEF At
<1> HIDE DEF r, metadata, overrides
<1>5. overrides = IF "configuration" \in DOMAIN a
                    THEN {CustomSpec(a.configuration)} ELSE {}
  BY <1>2, <1>3, <1>4
<1>6. ASSUME "configuration" \in DOMAIN a, NEW field \in DOMAIN Place
      PROVE  Found(Only(overrides), Place[field]) = Meant(a.configuration, field)
  <2>1. Only(overrides) = CustomSpec(a.configuration)
    BY <1>5, <1>6, OnlyOne
  <2>2. IsConfiguration(a.configuration)
    BY <1>6, AsksAssumption
  <2>3. ~Half(a.configuration, Limits) /\ ~Half(a.configuration, ResourceRequests)
    BY <1>6 DEF Halved
  <2> QED
    BY <1>6, <2>1, <2>2, <2>3, ConfigurationAsMeant
<1> QED
  BY <1>2, <1>3, <1>5, <1>6 DEF r, metadata, overrides

-------------------------------------------------------------------------------
(* The invariant.                                                          *)

\* A value that no C program asks for, on its way.
Sending ==
  ask = {} =>
    /\ pc \in {"made", "refused", "sent", "read"}
    /\ \E v \in Values(Body[body]) : value = {v}

\* What is on the wire of it.
OnTheWire ==
  ask = {} /\ pc \in {"sent", "read"} =>
    IF change = "none"
      THEN doc = Encoded(Body[body], Only(value))
      ELSE /\ change \in Harmless \union Harmful
           /\ body \in Answers
           /\ value \subseteq Samples(Body[body])
           /\ doc \in Changed(change, Body[body],
                             Encoded(Body[body], Only(value)))

\* What a C program asks for, on its way.
Asking ==
  \A a \in ask :
    /\ a \in Asks /\ ask = {a}
    /\ pc = "asked" => body = "CreateRun"
    /\ pc \in {"made", "sent", "read"} =>
         ~Halved(a) /\ \E p \in AlgorithmParameters(a) : Only(value) = Request(a, p)
    /\ body = "CreateRun" /\ pc = "sent" =>
         doc = Encoded(ModelsAlgorithmRequest, Only(value))
    /\ body # "CreateRun" =>
         /\ body = "GetMetadataOK" /\ pc \in {"sent", "read"}
         /\ doc = Stored(Encoded(ModelsAlgorithmRequest, Only(value)))

\* What has been validated.
Checked == body = "CreateRun" /\ pc \in {"sent", "read"} => Valid(body, Only(value))

\* What has been read.
ReadWhole ==
  got = IF pc = "read"
          THEN {v \in Decoded(Body[body], doc) : body \in Answers => Valid(body, v)}
          ELSE {}

IInv ==
  /\ body \in DOMAIN Body
  /\ change # "none" => ask = {} /\ pc \in {"sent", "read"}
  /\ Sending
  /\ OnTheWire
  /\ Asking
  /\ Checked
  /\ ReadWhole

LEMMA InitHolds == Init => IInv
<1> SUFFICES ASSUME Init PROVE IInv
  OBVIOUS
<1>1. body \in DOMAIN Body
  BY BodyNames DEF Init
<1>2. Sending
  BY DEF Init, Sending
<1>3. Asking
  BY DEF Init, Asking
<1> QED
  BY <1>1, <1>2, <1>3 DEF Init, IInv, OnTheWire, Checked, ReadWhole

\* The request that is made is one around the parameters.
LEMMA AskedIsMade == IInv /\ CreateRun => Asking'
<1> SUFFICES ASSUME IInv, CreateRun, NEW a \in ask
             PROVE  /\ a \in Asks /\ ask = {a}
                    /\ body = "CreateRun"
                    /\ pc' \in {"made", "refused"}
                    /\ pc' = "made" =>
                         /\ ~Halved(a)
                         /\ \E p \in AlgorithmParameters(a) :
                              Only(value') = Request(a, p)
  BY DEF CreateRun, Asking
<1>1. a \in Asks /\ ask = {a} /\ body = "CreateRun"
  BY DEF IInv, Asking, CreateRun
<1>2. value' = CreateRunRequest(a)
  BY <1>1, OnlyOne DEF CreateRun
<1>3. ASSUME pc' = "made"
      PROVE  /\ ~Halved(a)
             /\ \E p \in AlgorithmParameters(a) : Only(value') = Request(a, p)
  <2>1. value' # {}
    BY <1>3 DEF CreateRun
  <2>2. ~Halved(a) /\ value' = {Request(a, p) : p \in AlgorithmParameters(a)}
    BY <1>2, <2>1 DEF CreateRunRequest
  <2>3. Only(value') \in value'
    BY <2>1 DEF Only
  <2> QED
    BY <2>2, <2>3
<1>4. pc' \in {"made", "refused"}
  BY DEF CreateRun
<1> QED
  BY <1>1, <1>3, <1>4

LEMMA StepHolds == IInv /\ [Next]_vars => IInv'
<1> SUFFICES ASSUME IInv, [Next]_vars PROVE IInv'
  OBVIOUS
<1>1. CASE CreateRun
  <2>1. Asking'
    BY <1>1, AskedIsMade
  <2> QED
    BY <1>1, <2>1
       DEF IInv, CreateRun, Sending, OnTheWire, Checked, ReadWhole
<1>2. CASE Send
  <2>1. CASE pc' = "refused"
    BY <1>2, <2>1
       DEF IInv, Send, Sending, OnTheWire, Asking, Checked, ReadWhole
  <2>2. CASE pc' = "sent"
    <3>1. Sending' /\ ReadWhole'
      BY <1>2, <2>2 DEF IInv, Send, Sending, ReadWhole
    <3>2. OnTheWire'
      BY <1>2, <2>2 DEF IInv, Send, OnTheWire
    <3>3. Asking'
      BY <1>2, <2>2, BodyTypes DEF IInv, Send, Asking
    <3>4. Checked'
      BY <1>2, <2>2, BodyNames DEF IInv, Send, Checked
    <3> QED
      BY <1>2, <2>2, <3>1, <3>2, <3>3, <3>4 DEF IInv, Send
  <2> QED
    BY <1>2, <2>1, <2>2 DEF Send
<1>3. CASE Read
  <2>1. Sending' /\ OnTheWire' /\ Checked'
    BY <1>3 DEF IInv, Read, Sending, OnTheWire, Checked
  <2>2. Asking'
    BY <1>3 DEF IInv, Read, Asking
  <2>3. ReadWhole'
    BY <1>3 DEF IInv, Read, ReadWhole
  <2> QED
    BY <1>3, <2>1, <2>2, <2>3 DEF IInv, Read
<1>4. CASE Store
  <2>1. Asking'
    BY <1>4 DEF IInv, Store, Asking
  <2> QED
    BY <1>4, <2>1, BodyNames
       DEF IInv, Store, Sending, OnTheWire, Checked, ReadWhole
<1>5. ASSUME NEW how \in Harmless \union Harmful, Change(how)
      PROVE  IInv'
  <2>1. OnTheWire'
    BY <1>5 DEF IInv, Change, OnTheWire, Harmless, Harmful
  <2>2. Sending' /\ Asking' /\ Checked' /\ ReadWhole'
    BY <1>5 DEF IInv, Change, Sending, Asking, Checked, ReadWhole
  <2> QED
    BY <1>5, <2>1, <2>2 DEF IInv, Change
<1>6. CASE UNCHANGED vars
  BY <1>6 DEF IInv, vars, Sending, OnTheWire, Asking, Checked, ReadWhole
<1> QED
  BY <1>1, <1>2, <1>3, <1>4, <1>5, <1>6 DEF Next, Terminated

LEMMA Invariant == Spec => []IInv
BY InitHolds, StepHolds, PTL DEF Spec

-------------------------------------------------------------------------------
(* The theorems.                                                           *)

\* What is encoded is decoded again as it was, in every body that travels
\* (encoders and decoders of both clients).
THEOREM RoundTripHolds == ASSUME CodecLevels PROVE Spec => []RoundTrip
<1>1. IInv => RoundTrip
  <2> SUFFICES ASSUME IInv, pc = "read", ask = {}, change = "none"
               PROVE  got = {v \in value : body \in Answers => Valid(body, v)}
    BY DEF RoundTrip
  <2>1. PICK v \in Values(Body[body]) : value = {v}
    BY DEF IInv, Sending
  <2>2. Body[body] \in Types
    BY TypesAssumption DEF IInv
  <2>3. doc = Encoded(Body[body], v)
    BY <2>1, OnlyOne DEF IInv, OnTheWire
  <2>4. Decoded(Body[body], doc) = {v}
    BY <2>2, <2>3, SentIsRead
  <2> QED
    BY <2>1, <2>4 DEF IInv, ReadWhole
<1> QED
  BY <1>1, Invariant, PTL

\* An answer with one known part that is null, of another kind or missing though
\* required is not read, not even the half of it that could be
\* (oas_response_decoders_gen.go).
THEOREM WrongAnswerIsRefused ==
  ASSUME CodecLevels, ChangedLevels
  PROVE  Spec => []NothingHalfRead
<1>1. IInv => NothingHalfRead
  <2> SUFFICES ASSUME IInv, pc = "read", change \in Harmful
               PROVE  got = {}
    BY DEF NothingHalfRead
  <2>1. ask = {} /\ change # "none"
    BY DEF IInv, Harmful
  <2>2. PICK v \in Values(Body[body]) : value = {v}
    BY <2>1 DEF IInv, Sending
  <2>3. Body[body] \in Types
    BY TypesAssumption DEF IInv
  <2>4. doc \in Changed(change, Body[body], Encoded(Body[body], v))
    BY <2>1, <2>2, OnlyOne DEF IInv, OnTheWire
  <2>5. Decoded(Body[body], doc) = {}
    <3>1. v \in SentValues[Body[body]]
      BY <2>2, <2>3 DEF SentValues
    <3> QED
      BY <2>3, <2>4, <3>1, ValuesClosed, HarmIsRefused
  <2> QED
    BY <2>5 DEF IInv, ReadWhole
<1> QED
  BY <1>1, Invariant, PTL

\* An answer with members the client does not know, in any order, or with a
\* member that is given twice means the same (oas_json_gen.go).
THEOREM NewerServiceIsUnderstood ==
  ASSUME CodecLevels, ChangedLevels
  PROVE  Spec => []NewerServiceUnderstood
<1>1. IInv => NewerServiceUnderstood
  <2> SUFFICES ASSUME IInv, pc = "read", change \in Harmless
               PROVE  got = value
    BY DEF NewerServiceUnderstood
  <2>1. ask = {} /\ change # "none"
    BY DEF IInv, Harmless
  <2>2. PICK v \in Values(Body[body]) : value = {v}
    BY <2>1 DEF IInv, Sending
  <2>3. Body[body] \in Types
    BY TypesAssumption DEF IInv
  <2>4. doc \in Changed(change, Body[body], Encoded(Body[body], v))
    BY <2>1, <2>2, OnlyOne DEF IInv, OnTheWire
  <2>5. Decoded(Body[body], doc) = {v}
    BY <2>2, <2>3, <2>4, HarmlessIsSame
  <2>6. Valid(body, v)
    BY <2>1, <2>2, SamplesAssumption DEF IInv, OnTheWire
  <2> QED
    BY <2>2, <2>5, <2>6 DEF IInv, ReadWhole
<1> QED
  BY <1>1, Invariant, PTL

\* No request leaves and no answer is accepted that has an unknown mode in it,
\* however deep: Validate visits every place where a mode may be, and no answer
\* that is not validated has such a place (oas_validators_gen.go).
THEOREM OnlyKnownModesTravel == ASSUME ModesLevels PROVE Spec => []OnlyKnownModes
<1>1. IInv => OnlyKnownModes
  <2> SUFFICES ASSUME IInv PROVE OnlyKnownModes
    OBVIOUS
  <2>1. \A name \in DOMAIN Body : Body[name] \in Types
    BY TypesAssumption
  <2>2. ASSUME body = "CreateRun", pc = "sent"
        PROVE  KnownModes(Body[body], Only(value))
    <3>1. ValidAlgorithmRequest(Only(value))
      BY <2>2 DEF IInv, Checked, Valid
    <3>2. Body[body] = ModelsAlgorithmRequest
      BY <2>2, BodyNames DEF Body, RequestBodies
    <3> QED
      BY <2>1, <2>2, <3>1, <3>2, BodyNames, ValidRequestFits DEF ModesFit
  <2>3. ASSUME body \in Answers, NEW v \in got
        PROVE  KnownModes(Body[body], v)
    <3>1. Valid(body, v)
      BY <2>3 DEF IInv, ReadWhole
    <3>2. CASE body = "GetMetadataOK"
      <4>1. ValidCheckpointedRequest(v)
        BY <3>1, <3>2 DEF Valid
      <4>2. Body[body] = ModelsCheckpointedRequest
        BY <3>2, BodyNames DEF Body, AnswerBodies
      <4> QED
        BY <2>1, <3>2, <4>1, <4>2, BodyNames, ValidMetadataFits DEF ModesFit
    <3>3. CASE body # "GetMetadataOK"
      BY <2>1, <2>3, <3>3, BodyNames, AnswersAreFree DEF Free, ModesFit
    <3> QED
      BY <3>2, <3>3
  <2> QED
    BY <2>2, <2>3 DEF OnlyKnownModes
<1> QED
  BY <1>1, Invariant, PTL

\* What a C program asks for is shown by the metadata of its run, field by field
\* and no more, whatever its configuration, parent, tag and parameters are
\* (main.go:235-434).
THEOREM AskedIsRecorded == ASSUME CodecLevels PROVE Spec => []WhatIsAskedIsRecorded
<1>1. IInv => WhatIsAskedIsRecorded
  <2> DEFINE Shows(metadata, a) ==
        LET overrides == Found(metadata, <<"configuration_overrides">>)
        IN  /\ overrides # {} <=> "configuration" \in DOMAIN a
            /\ "configuration" \in DOMAIN a =>
                 \A field \in DOMAIN Place :
                   Found(Only(overrides), Place[field])
                     = Meant(a.configuration, field)
            /\ Found(metadata, <<"tag">>) = Found(a, <<"tag">>)
            /\ Found(metadata, <<"parent">>)
                 = {ParentRequest(p) : p \in Found(a, <<"parent">>)}
  <2> SUFFICES ASSUME IInv, pc = "read", body = "GetMetadataOK", NEW a \in ask
               PROVE  \E metadata \in got : Shows(metadata, a)
    BY DEF WhatIsAskedIsRecorded
  <2>1. /\ a \in Asks
        /\ ~Halved(a)
        /\ doc = Stored(Encoded(ModelsAlgorithmRequest, Only(value)))
    BY DEF IInv, Asking
  <2>2. PICK p : Only(value) = Request(a, p)
    BY DEF IInv, Asking
  <2> DEFINE m == UnderNewNames(Request(a, p))
  <2>3. Decoded(Body[body], doc) = {m}
    BY <2>1, <2>2, StoredIsRead, BodyTypes
  <2>4. Valid(body, m)
    BY StoredIsValid
  <2>5. Shows(m, a)
    BY <2>1, StoredIsAsked
  <2> HIDE DEF m, Shows
  <2>6. m \in got
    BY <2>3, <2>4 DEF IInv, ReadWhole
  <2> QED
    BY <2>5, <2>6
<1> QED
  BY <1>1, Invariant, PTL
===============================================================================
