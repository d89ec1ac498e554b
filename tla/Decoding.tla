------------------------------ MODULE Decoding ------------------------------
(***************************************************************************)
(* How a struct of a payload is decoded (schemas/decode.go) and what the   *)
(* tools publish of it, given the same of the structs within it: each has  *)
(* an UnmarshalJSON of its own, that of the outer one calls the inner.     *)
(***************************************************************************)
EXTENDS Payloads, FiniteSetsExt, TLAPS

CONSTANTS
  Fields,                  \* the fields of each struct
  Nested(_, _),            \* what a struct within is decoded to, or Malformed
  NestedPublished(_, _),   \* whether a value of it is as published
  NestedAcceptable(_, _)   \* whether a payload of it is acceptable

Present(field, object) == {i \in DOMAIN Keys(field) : Keys(field)[i] \in DOMAIN object.fields}

LastPresent(field, object) == object.fields[Keys(field)[Max(Present(field, object))]]

\* The first of a field's keys that is there.
lookup(field, object) == object.fields[Keys(field)[Min(Present(field, object))]]

\* A Go zero value, as it is marshalled: a nil slice is null.
Zero(type) ==
  CASE type.kind = "text" -> Text("")
    [] type.kind = "number" -> Number(0)
    [] OTHER -> Null

\* json.Unmarshal of what is neither a list nor a map.  A null element leaves
\* a string empty; a struct's own UnmarshalJSON refuses it (newObject).
Element(type, value) ==
  CASE type.kind \in {"text", "pointer"} ->
         IF value.is = "text" THEN value
         ELSE IF value = Null THEN Zero(type) ELSE Malformed
    [] type.kind = "number" -> IF value.is = "number" THEN value ELSE Malformed
    [] OTHER -> Nested(type.name, value)

\* The elements of a list or a map; one that is malformed spoils the whole.
Elements(type, values) == [i \in DOMAIN values |-> Element(type.of, values[i])]
Spoilt(elements) == \E i \in DOMAIN elements : elements[i] = Malformed

Unmarshal(type, value) ==
  CASE type.kind = "list" ->
         IF value.is = "list" /\ ~Spoilt(Elements(type, value.items))
         THEN List(Elements(type, value.items)) ELSE Malformed
    [] type.kind = "map" ->
         IF value.is = "object" /\ ~Spoilt(Elements(type, value.fields))
         THEN Object(Elements(type, value.fields)) ELSE Malformed
    [] OTHER -> Element(type, value)

AsIs(type, value) == value

\* Every list of a struct that is returned goes through orEmpty.  (leaves is
\* not returned: ResolveArchitecture only looks at its length.)
orEmpty(type, value) == IF type.kind = "list" /\ value = Null THEN List(<<>>) ELSE value

NullKept(type) == Null
NullRefused(type) == Malformed

\* decodeInto refuses a null unless the field is a pointer.
NullField(type) == IF type.kind = "pointer" THEN Null ELSE Malformed

DecodedField(field, f, object) ==
  IF Present(field, object) = {}
  THEN IF f.required THEN Malformed ELSE orEmpty(f.type, Zero(f.type))
  ELSE IF lookup(field, object) = Null THEN NullField(f.type)
  ELSE Unmarshal(f.type, lookup(field, object))

DecodedFields(name, object) ==
  [k \in DOMAIN Fields[name] |-> DecodedField(k, Fields[name][k], object)]

UnmarshalJSON(name, value) ==
  IF value.is = "object" /\ ~Spoilt(DecodedFields(name, value))
  THEN Object(DecodedFields(name, value)) ELSE Malformed

-----------------------------------------------------------------------------
(***************************************************************************)
(* What outputSchema publishes of a type: only a pointer may be null.      *)
(***************************************************************************)
PublishedElement(type, value) ==
  CASE type.kind = "pointer" -> value.is = "text" \/ value = Null
    [] type.kind \in {"text", "number"} -> value.is = type.kind
    [] OTHER -> NestedPublished(type.name, value)

PublishedField(type, value) ==
  CASE type.kind = "list" ->
         /\ value.is = "list"
         /\ \A i \in DOMAIN value.items : PublishedElement(type.of, value.items[i])
    [] type.kind = "map" ->
         /\ value.is = "object"
         /\ \A k \in DOMAIN value.fields : PublishedElement(type.of, value.fields[k])
    [] OTHER -> PublishedElement(type, value)

Published(name, value) ==
  /\ value.is = "object"
  /\ \A k \in DOMAIN Fields[name] :
       /\ k \in DOMAIN value.fields
       /\ PublishedField(Fields[name][k].type, value.fields[k])

(***************************************************************************)
(* What the package says it accepts: required fields present, the first    *)
(* name that is present counting, null only where a field is nullable, and *)
(* every nested value as well.  Of a list's elements it says nothing.      *)
(***************************************************************************)
AcceptableElement(type, value) ==
  CASE type.kind = "pointer" -> value.is = "text" \/ value = Null
    [] type.kind \in {"text", "number"} -> value.is = type.kind
    [] OTHER -> NestedAcceptable(type.name, value)

AcceptableField(type, value) ==
  CASE type.kind = "list" ->
         /\ value.is = "list"
         /\ \A i \in DOMAIN value.items :
              \/ AcceptableElement(type.of, value.items[i])
              \/ type.of.kind = "text" /\ value.items[i] = Null
    [] type.kind = "map" ->
         /\ value.is = "object"
         /\ \A k \in DOMAIN value.fields : AcceptableElement(type.of, value.fields[k])
    [] OTHER -> AcceptableElement(type, value)

Acceptable(name, value) ==
  /\ value.is = "object"
  /\ \A k \in DOMAIN Fields[name] :
       \/ Present(k, value) = {} /\ ~Fields[name][k].required
       \/ \E i \in Present(k, value) :
            /\ \A j \in Present(k, value) : i <= j
            /\ AcceptableField(Fields[name][k].type, value.fields[Keys(k)[i]])

-----------------------------------------------------------------------------
(***************************************************************************)
(* About any struct, given the same of those within it.                    *)
(***************************************************************************)

\* A field that is there has a first key (lookup, decode.go:39-47).
LEMMA FirstPresent ==
  ASSUME NEW field, NEW object, Present(field, object) # {}
  PROVE  /\ Min(Present(field, object)) \in Present(field, object)
         /\ \A j \in Present(field, object) : Min(Present(field, object)) <= j
<1>1. DOMAIN Keys(field) \subseteq 1..2
  BY DEF Keys
<1>2. \E i \in Present(field, object) : \A j \in Present(field, object) : i <= j
  BY <1>1 DEF Present
<1> QED BY <1>2 DEF Min

\* The kinds of types a field may have.
LEMMA TypeCases ==
  ASSUME NEW structs, NEW type \in FieldTypes(structs)
  PROVE  \/ type \in Single(structs)
         \/ type.kind = "list" /\ type.of \in Single(structs)
         \/ type.kind = "map" /\ type.of.kind = "struct" /\ type.of.name \in structs
BY DEF FieldTypes, Slice, MapOf, Struct

\* Nothing decoded is taken for the failure to decode it.
LEMMA Sound == /\ \A s : Text(s) # Malformed
               /\ Null # Malformed
               /\ \A items : List(items) # Malformed
               /\ \A fields : Object(fields) # Malformed
<1>1. ASSUME NEW v, v.is # "malformed" PROVE v # Malformed
  BY <1>1 DEF Malformed
<1> QED BY <1>1 DEF Text, Null, List, Object

\* The kinds of types an element may have.
LEMMA SingleCases ==
  ASSUME NEW structs, NEW type \in Single(structs)
  PROVE  \/ type.kind \in {"text", "number", "pointer"}
         \/ type.kind = "struct" /\ type.name \in structs
BY DEF Single, Struct, string, int, pointer

\* What is decoded is as published, at any depth: a list is never null.
LEMMA DecodedConforms ==
  ASSUME NEW structs, NEW name, WellFormed(Fields[name], structs),
         \A n \in structs : \A v : Nested(n, v) # Malformed => NestedPublished(n, Nested(n, v))
  PROVE  \A value : UnmarshalJSON(name, value) # Malformed
                      => Published(name, UnmarshalJSON(name, value))
<1>1. ASSUME NEW type \in Single(structs), NEW v, Element(type, v) # Malformed
      PROVE  PublishedElement(type, Element(type, v))
  BY <1>1, SingleCases DEF Element, PublishedElement, Zero, Text, Null
<1>2. ASSUME NEW type \in FieldTypes(structs), NEW v, Unmarshal(type, v) # Malformed
      PROVE  PublishedField(type, Unmarshal(type, v))
  <2>1. CASE type.kind = "list" /\ type.of \in Single(structs)
    <3>1. /\ Unmarshal(type, v) = List(Elements(type, v.items))
          /\ ~Spoilt(Elements(type, v.items))
      BY <1>2, <2>1 DEF Unmarshal
    <3>2. \A i \in DOMAIN v.items : PublishedElement(type.of, Elements(type, v.items)[i])
      BY <1>1, <2>1, <3>1 DEF Spoilt, Elements
    <3> QED BY <2>1, <3>1, <3>2 DEF PublishedField, List, Elements
  <2>2. CASE type.kind = "map" /\ type.of.kind = "struct" /\ type.of.name \in structs
    <3>1. /\ Unmarshal(type, v) = Object(Elements(type, v.fields))
          /\ ~Spoilt(Elements(type, v.fields))
      BY <1>2, <2>2 DEF Unmarshal
    <3>2. \A k \in DOMAIN v.fields : PublishedElement(type.of, Elements(type, v.fields)[k])
      BY <2>2, <3>1 DEF Spoilt, Elements, Element, PublishedElement
    <3> QED BY <2>2, <3>1, <3>2 DEF PublishedField, Object, Elements
  <2>3. CASE type \in Single(structs)
    BY <1>1, <1>2, <2>3, SingleCases DEF Unmarshal, PublishedField
  <2> QED BY <2>1, <2>2, <2>3, TypeCases
<1>3. ASSUME NEW k \in DOMAIN Fields[name], NEW object,
             DecodedField(k, Fields[name][k], object) # Malformed
      PROVE  PublishedField(Fields[name][k].type, DecodedField(k, Fields[name][k], object))
  <2> DEFINE f == Fields[name][k]
  <2>1. f.type \in FieldTypes(structs) /\ (f.required \/ f.type.kind \in {"text", "pointer", "list"})
    BY DEF WellFormed
  <2>2. CASE Present(k, object) = {}
    <3>1. DecodedField(k, f, object) = orEmpty(f.type, Zero(f.type))
      BY <1>3, <2>2 DEF DecodedField
    <3>2. f.type.kind \in {"text", "pointer", "list"}
      BY <1>3, <2>1, <2>2 DEF DecodedField
    <3>3. CASE f.type.kind = "list"
      <4>1. orEmpty(f.type, Zero(f.type)) = List(<<>>)
        BY <3>3 DEF orEmpty, Zero
      <4> QED BY <3>1, <3>3, <4>1 DEF PublishedField, List
    <3>4. CASE f.type.kind = "text"
      <4>1. orEmpty(f.type, Zero(f.type)) = Text("")
        BY <3>4 DEF orEmpty, Zero
      <4>2. PublishedElement(f.type, Text(""))
        BY <3>4 DEF PublishedElement, Text
      <4> QED BY <3>1, <3>4, <4>1, <4>2 DEF PublishedField
    <3>5. CASE f.type.kind = "pointer"
      <4>1. orEmpty(f.type, Zero(f.type)) = Null
        BY <3>5 DEF orEmpty, Zero
      <4> QED BY <3>1, <3>5, <4>1 DEF PublishedField, PublishedElement
    <3> QED BY <3>2, <3>3, <3>4, <3>5
  <2>3. CASE Present(k, object) # {} /\ lookup(k, object) = Null
    BY <1>3, <2>3 DEF DecodedField, NullField, PublishedField, PublishedElement
  <2>4. CASE Present(k, object) # {} /\ lookup(k, object) # Null
    BY <1>2, <1>3, <2>1, <2>4 DEF DecodedField
  <2> QED BY <2>2, <2>3, <2>4
<1>4. ASSUME NEW value, UnmarshalJSON(name, value) # Malformed
      PROVE  Published(name, UnmarshalJSON(name, value))
  <2>1. /\ UnmarshalJSON(name, value) = Object(DecodedFields(name, value))
        /\ ~Spoilt(DecodedFields(name, value))
    BY <1>4 DEF UnmarshalJSON
  <2>2. \A k \in DOMAIN Fields[name] :
          PublishedField(Fields[name][k].type, DecodedFields(name, value)[k])
    BY <1>3, <2>1 DEF Spoilt, DecodedFields
  <2> QED BY <2>1, <2>2 DEF Published, Object, DecodedFields
<1> QED BY <1>4

\* A payload is decoded exactly when it is acceptable.
LEMMA AcceptableDecoded ==
  ASSUME NEW structs, NEW name, WellFormed(Fields[name], structs),
         \A n \in structs : ~NestedAcceptable(n, Null),
         \A n \in structs : \A v : Nested(n, v) # Malformed <=> NestedAcceptable(n, v)
  PROVE  \A value : UnmarshalJSON(name, value) # Malformed <=> Acceptable(name, value)
<1>1. ASSUME NEW type \in Single(structs), NEW v
      PROVE  Element(type, v) # Malformed
               <=> AcceptableElement(type, v) \/ (type.kind = "text" /\ v = Null)
  <2>1. CASE type.kind = "struct" /\ type.name \in structs
    BY <2>1 DEF Element, AcceptableElement
  <2>2. CASE type.kind = "number"
    BY <2>2 DEF Element, AcceptableElement, Malformed
  <2>3. CASE type.kind = "text"
    <3>1. Element(type, v) = IF v.is = "text" THEN v ELSE IF v = Null THEN Text("") ELSE Malformed
      BY <2>3 DEF Element, Zero
    <3>2. AcceptableElement(type, v) <=> v.is = "text"
      BY <2>3 DEF AcceptableElement
    <3>3. v.is = "text" => v # Malformed
      BY DEF Malformed
    <3> QED BY <2>3, <3>1, <3>2, <3>3, Sound
  <2>4. CASE type.kind = "pointer"
    <3>1. Element(type, v) = IF v.is = "text" THEN v ELSE IF v = Null THEN Null ELSE Malformed
      BY <2>4 DEF Element, Zero
    <3>2. AcceptableElement(type, v) <=> v.is = "text" \/ v = Null
      BY <2>4 DEF AcceptableElement
    <3> QED BY <2>4, <3>1, <3>2 DEF Null, Malformed
  <2> QED BY <2>1, <2>2, <2>3, <2>4, SingleCases
<1>2. ASSUME NEW type \in FieldTypes(structs), NEW v, v # Null
      PROVE  Unmarshal(type, v) # Malformed <=> AcceptableField(type, v)
  <2>1. CASE type.kind = "list" /\ type.of \in Single(structs)
    <3>1. Unmarshal(type, v) # Malformed
            <=> v.is = "list" /\ \A i \in DOMAIN v.items : Element(type.of, v.items[i]) # Malformed
      BY <2>1 DEF Unmarshal, Spoilt, Elements, List, Malformed
    <3> QED BY <1>1, <2>1, <3>1 DEF AcceptableField
  <2>2. CASE type.kind = "map" /\ type.of.kind = "struct" /\ type.of.name \in structs
    <3>1. Unmarshal(type, v) # Malformed
            <=> v.is = "object" /\ \A k \in DOMAIN v.fields : Element(type.of, v.fields[k]) # Malformed
      BY <2>2 DEF Unmarshal, Spoilt, Elements, Object, Malformed
    <3> QED BY <2>2, <3>1 DEF AcceptableField, Element, AcceptableElement
  <2>3. CASE type \in Single(structs)
    BY <1>1, <1>2, <2>3, SingleCases DEF Unmarshal, AcceptableField
  <2> QED BY <2>1, <2>2, <2>3, TypeCases
<1>3. ASSUME NEW type \in FieldTypes(structs)
      PROVE  NullField(type) # Malformed <=> AcceptableField(type, Null)
  <2>1. CASE type.kind \in {"list", "map"}
    BY <2>1 DEF NullField, AcceptableField, Null
  <2>2. CASE type \in Single(structs) /\ type.kind # "struct"
    <3>1. type.kind \in {"text", "number", "pointer"}
      BY <2>2, SingleCases
    <3> QED BY <3>1 DEF NullField, AcceptableField, AcceptableElement, Null, Malformed
  <2>3. CASE type.kind = "struct" /\ type.name \in structs
    BY <2>3 DEF NullField, AcceptableField, AcceptableElement
  <2> QED BY <2>1, <2>2, <2>3, TypeCases, SingleCases
<1>4. ASSUME NEW k \in DOMAIN Fields[name], NEW object
      PROVE  DecodedField(k, Fields[name][k], object) # Malformed
               <=> \/ Present(k, object) = {} /\ ~Fields[name][k].required
                   \/ \E i \in Present(k, object) :
                        /\ \A j \in Present(k, object) : i <= j
                        /\ AcceptableField(Fields[name][k].type, object.fields[Keys(k)[i]])
  <2> DEFINE f == Fields[name][k]
             first == Min(Present(k, object))
  <2>1. f.type \in FieldTypes(structs) /\ (f.required \/ f.type.kind \in {"text", "pointer", "list"})
    BY DEF WellFormed
  <2>2. CASE Present(k, object) = {}
    <3>1. CASE f.required
      BY <2>2, <3>1 DEF DecodedField
    <3>2. CASE ~f.required
      <4>1. DecodedField(k, f, object) = orEmpty(f.type, Zero(f.type))
        BY <2>2, <3>2 DEF DecodedField
      <4>2. orEmpty(f.type, Zero(f.type)) \in {Text(""), Null, List(<<>>)}
        BY <2>1, <3>2 DEF orEmpty, Zero
      <4>3. DecodedField(k, f, object) # Malformed
        BY <4>1, <4>2, Sound
      <4> QED BY <2>2, <3>2, <4>3
    <3> QED BY <3>1, <3>2
  <2>3. CASE Present(k, object) # {}
    <3>1. first \in Present(k, object) /\ \A j \in Present(k, object) : first <= j
      BY <2>3, FirstPresent
    <3>2. ASSUME NEW i \in Present(k, object), \A j \in Present(k, object) : i <= j
          PROVE  i = first
      <4>1. DOMAIN Keys(k) \subseteq 1..2
        BY DEF Keys
      <4>2. i \in Int /\ first \in Int
        BY <3>1, <4>1 DEF Present
      <4> QED BY <3>1, <3>2, <4>2
    <3>3. DecodedField(k, f, object) # Malformed
            <=> AcceptableField(f.type, lookup(k, object))
      <4>1. CASE lookup(k, object) = Null
        BY <1>3, <2>1, <2>3, <4>1 DEF DecodedField
      <4>2. CASE lookup(k, object) # Null
        BY <1>2, <2>1, <2>3, <4>2 DEF DecodedField
      <4> QED BY <4>1, <4>2
    <3>4. lookup(k, object) = object.fields[Keys(k)[first]]
      BY DEF lookup
    <3> QED BY <2>3, <3>1, <3>2, <3>3, <3>4
  <2> QED BY <2>2, <2>3
<1>5. ASSUME NEW value
      PROVE  UnmarshalJSON(name, value) # Malformed <=> Acceptable(name, value)
  <2>1. UnmarshalJSON(name, value) # Malformed
          <=> value.is = "object" /\ ~Spoilt(DecodedFields(name, value))
    BY DEF UnmarshalJSON, Object, Malformed
  <2>2. Spoilt(DecodedFields(name, value))
          <=> \E k \in DOMAIN Fields[name] : DecodedField(k, Fields[name][k], value) = Malformed
    BY DEF Spoilt, DecodedFields
  <2> QED BY <1>4, <2>1, <2>2 DEF Acceptable
<1> QED BY <1>5

\* What a field that has no other name is decoded to, by what is there.
LEMMA PlainField ==
  ASSUME NEW k, k \notin {"childCount", "nextCursor"}, NEW f, NEW object,
         DecodedField(k, f, object) # Malformed
  PROVE  \/ /\ k \notin DOMAIN object.fields /\ ~f.required
            /\ DecodedField(k, f, object) = orEmpty(f.type, Zero(f.type))
         \/ /\ k \in DOMAIN object.fields /\ object.fields[k] = Null
            /\ f.type.kind = "pointer" /\ DecodedField(k, f, object) = Null
         \/ /\ k \in DOMAIN object.fields /\ object.fields[k] # Null
            /\ DecodedField(k, f, object) = Unmarshal(f.type, object.fields[k])
<1>1. Keys(k) = <<k>>
  BY DEF Keys
<1>2. CASE k \notin DOMAIN object.fields
  <2>1. Present(k, object) = {}
    BY <1>1, <1>2 DEF Present
  <2> QED BY <1>2, <2>1 DEF DecodedField
<1>3. CASE k \in DOMAIN object.fields
  <2>1. Present(k, object) = {1}
    BY <1>1, <1>3 DEF Present
  <2>2. Min(Present(k, object)) = 1
    BY <2>1, FirstPresent
  <2>3. lookup(k, object) = object.fields[k]
    BY <1>1, <2>2 DEF lookup
  <2> QED BY <1>3, <2>1, <2>3 DEF DecodedField, NullField
<1> QED BY <1>2, <1>3

\* A pointer keeps the text that is there.
LEMMA PointerField ==
  ASSUME NEW k, k \notin {"childCount", "nextCursor"}, NEW f, NEW object,
         f.type.kind = "pointer", ~f.required, DecodedField(k, f, object) # Malformed
  PROVE  DecodedField(k, f, object) =
           IF k \in DOMAIN object.fields THEN object.fields[k] ELSE Null
<1>1. orEmpty(f.type, Zero(f.type)) = Null
  BY DEF orEmpty, Zero
<1>2. ASSUME NEW v, Unmarshal(f.type, v) # Malformed PROVE Unmarshal(f.type, v) = v
  <2>1. Unmarshal(f.type, v) = IF v.is = "text" THEN v ELSE IF v = Null THEN Null ELSE Malformed
    BY DEF Unmarshal, Element, Zero
  <2> QED BY <1>2, <2>1
<1> QED BY <1>1, <1>2, PlainField

\* A list is decoded element by element, and one that is left out is empty.
LEMMA ListField ==
  ASSUME NEW k, k \notin {"childCount", "nextCursor"}, NEW f, NEW object,
         f.type.kind = "list", DecodedField(k, f, object) # Malformed
  PROVE  \/ /\ k \notin DOMAIN object.fields
            /\ DecodedField(k, f, object) = List(<<>>)
         \/ /\ k \in DOMAIN object.fields /\ object.fields[k].is = "list"
            /\ DecodedField(k, f, object) = List(Elements(f.type, object.fields[k].items))
            /\ ~Spoilt(Elements(f.type, object.fields[k].items))
<1>1. orEmpty(f.type, Zero(f.type)) = List(<<>>)
  BY DEF orEmpty, Zero
<1> QED BY <1>1, PlainField DEF Unmarshal

\* What an acceptable payload has in a field that has no other name.
LEMMA PlainAcceptable ==
  ASSUME NEW name, NEW value, Acceptable(name, value),
         NEW k \in DOMAIN Fields[name], k \notin {"childCount", "nextCursor"}
  PROVE  /\ Fields[name][k].required => k \in DOMAIN value.fields
         /\ k \in DOMAIN value.fields
              => AcceptableField(Fields[name][k].type, value.fields[k])
<1>1. Keys(k) = <<k>>
  BY DEF Keys
<1>2. Present(k, value) = IF k \in DOMAIN value.fields THEN {1} ELSE {}
  BY <1>1 DEF Present
<1> QED BY <1>1, <1>2 DEF Acceptable
=============================================================================
