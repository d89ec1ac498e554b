--------------------------- MODULE LookupsProofs ---------------------------
(***************************************************************************)
(* The proofs about Lookups: for any payloads whatever, a tool answers     *)
(* with what its schema says and only of a payload that is acceptable, and *)
(* a walk of a tree that can be walked never loses the agent.  What        *)
(* Decoding proves of a struct given those within it is used three times,  *)
(* from the innermost structs outwards.                                    *)
(***************************************************************************)
EXTENDS LookupsInvariant, TLAPS

-----------------------------------------------------------------------------
\* The structs that contain none, and those that contain such.
Flat == {s \in DOMAIN Fields : WellFormed(Fields[s], {})}
Shallow == {s \in DOMAIN Fields : WellFormed(Fields[s], Flat)}

LEMMA WellFormedInMore ==
  ASSUME NEW fields, NEW fewer, NEW more, fewer \subseteq more, WellFormed(fields, fewer)
  PROVE  WellFormed(fields, more)
BY DEF WellFormed, FieldTypes, Single

LEMMA ArchitectureNames ==
  DOMAIN ArchitectureFields =
    {"DecisionAnswer", "DecisionNode", "DecisionTree", "DecisionTreeNodeResponse",
     "ArchitectureDetail", "TaxonomyLookupResponse"}
BY DEF ArchitectureFields

LEMMA DeviceClassNames ==
  DOMAIN DeviceClassFields = ClassTools \cup {"DeviceClassNode"}
BY DEF DeviceClassFields, ClassTools

LEMMA FieldsOfEach ==
  /\ DOMAIN Fields = DOMAIN ArchitectureFields \cup DOMAIN DeviceClassFields
  /\ \A s \in DOMAIN ArchitectureFields : Fields[s] = ArchitectureFields[s]
  /\ \A s \in DOMAIN DeviceClassFields : Fields[s] = DeviceClassFields[s]
<1>1. DOMAIN ArchitectureFields \cap DOMAIN DeviceClassFields = {}
  BY ArchitectureNames, DeviceClassNames DEF ClassTools
<1> QED BY <1>1 DEF Fields

LEMMA AnswerFields ==
  Fields["DecisionAnswer"] =
    Texts({"value"}, [next |-> Optional(pointer), resolves_toward |-> Optional(pointer),
                      label |-> Optional(pointer)])
BY ArchitectureNames, FieldsOfEach DEF ArchitectureFields

LEMMA NodeFields ==
  Fields["DecisionNode"] =
    Texts({"id", "question", "evidence_type"},
          [recognition_triggers |-> Optional(Slice(string)),
           answers |-> Optional(Slice(Struct("DecisionAnswer")))])
BY ArchitectureNames, FieldsOfEach DEF ArchitectureFields

LEMMA TreeFields ==
  Fields["DecisionTree"] =
    Texts({"tree_id", "version", "taxonomy_ref", "taxonomy_version", "root_question_id"},
          [nodes |-> Required(MapOf(Struct("DecisionNode")))])
BY ArchitectureNames, FieldsOfEach DEF ArchitectureFields

LEMMA NodeResponseFields ==
  Fields["DecisionTreeNodeResponse"] = [node |-> Required(Struct("DecisionNode"))]
BY ArchitectureNames, FieldsOfEach DEF ArchitectureFields

LEMMA DetailFields ==
  Fields["ArchitectureDetail"] =
    Texts({"id", "name", "type"},
          [parent_id |-> Optional(pointer), definition |-> Optional(string),
           distinguishing_mechanism |-> Optional(string),
           canonical_spec_ref |-> Optional(string)])
BY ArchitectureNames, FieldsOfEach DEF ArchitectureFields

LEMMA TaxonomyFields ==
  Fields["TaxonomyLookupResponse"] =
    Texts({"taxonomyid", "taxonomy_version", "device_class"},
          [leaves |-> Optional(Slice(Struct("ArchitectureDetail")))])
BY ArchitectureNames, FieldsOfEach DEF ArchitectureFields

LEMMA FlatStructs ==
  {"DecisionAnswer", "ArchitectureDetail", "DeviceClassNode", "ListDeviceClassVendorsOutput"}
    \subseteq Flat
<1> USE DEF Texts, Required, Optional, WellFormed, FieldTypes, Single, Slice, string, int, pointer
<1>1. WellFormed(Fields["DecisionAnswer"], {})
  BY AnswerFields
<1>2. WellFormed(Fields["ArchitectureDetail"], {})
  BY DetailFields
<1>3. WellFormed(DeviceClassFields["DeviceClassNode"], {})
  BY DEF DeviceClassFields
<1>4. WellFormed(DeviceClassFields["ListDeviceClassVendorsOutput"], {})
  BY DEF DeviceClassFields
<1> QED BY <1>1, <1>2, <1>3, <1>4, FieldsOfEach, ArchitectureNames, DeviceClassNames
        DEF Flat, ClassTools

LEMMA ShallowStructs ==
  DOMAIN Fields \ {"DecisionTree", "DecisionTreeNodeResponse"} \subseteq Shallow
<1> USE DEF Texts, Required, Optional, WellFormed, FieldTypes, Single, Slice, Struct,
            string, int, pointer
<1>1. \A s \in Flat : s \in Shallow
  BY WellFormedInMore DEF Flat, Shallow
<1>2. WellFormed(Fields["DecisionNode"], {"DecisionAnswer"})
  BY NodeFields
<1>3. WellFormed(Fields["TaxonomyLookupResponse"], {"ArchitectureDetail"})
  BY TaxonomyFields
<1>4. WellFormed(DeviceClassFields["ListDeviceClassesOutput"], {"DeviceClassNode"})
  BY DEF DeviceClassFields
<1>5. WellFormed(DeviceClassFields["SearchDeviceClassesOutput"], {"DeviceClassNode"})
  BY DEF DeviceClassFields
<1>6. WellFormed(DeviceClassFields["GetDeviceClassOutput"], {"DeviceClassNode"})
  BY DEF DeviceClassFields
<1> HIDE DEF Texts, Required, Optional, WellFormed, FieldTypes, Single, Slice, Struct,
             string, int, pointer
<1>7. \A s \in DOMAIN Fields : \A t \in Flat : WellFormed(Fields[s], {t}) => s \in Shallow
  BY WellFormedInMore DEF Shallow
<1>8. \A s \in {"ListDeviceClassesOutput", "SearchDeviceClassesOutput", "GetDeviceClassOutput"} :
        s \in Shallow
  BY <1>4, <1>5, <1>6, <1>7, FlatStructs, FieldsOfEach, DeviceClassNames DEF ClassTools
<1>9. \A s \in {"DecisionNode", "TaxonomyLookupResponse"} : s \in Shallow
  BY <1>2, <1>3, <1>7, FlatStructs, FieldsOfEach, ArchitectureNames
<1> QED BY <1>1, <1>8, <1>9, FlatStructs, FieldsOfEach, ArchitectureNames, DeviceClassNames
        DEF ClassTools

\* The structs of the payloads nest no deeper than three (so the levels Inner,
\* Middle and Outer leave none of them undecoded): the fields of each are
\* well-formed over the structs of at most two levels.
THEOREM NestingIsThreeDeep == \A s \in DOMAIN Fields : WellFormed(Fields[s], Shallow)
<1>1. \A s \in Shallow : WellFormed(Fields[s], Shallow)
  <2>1. Flat \subseteq Shallow
    BY WellFormedInMore DEF Flat, Shallow
  <2> QED BY <2>1, WellFormedInMore DEF Shallow
<1>2. WellFormed(Fields["DecisionTree"], {"DecisionNode"})
  BY TreeFields DEF Texts, Required, WellFormed, FieldTypes, Single, MapOf, Struct, string
<1>3. WellFormed(Fields["DecisionTreeNodeResponse"], {"DecisionNode"})
  BY NodeResponseFields DEF Required, WellFormed, FieldTypes, Single, Struct
<1>4. "DecisionNode" \in Shallow
  BY ShallowStructs, FieldsOfEach, ArchitectureNames
<1> QED BY <1>1, <1>2, <1>3, <1>4, ShallowStructs, WellFormedInMore

-----------------------------------------------------------------------------
\* The three levels speak of the same failure and the same fields.
LEMMA SameEverywhere ==
  /\ Inner!Malformed = Malformed /\ Middle!Malformed = Malformed /\ Outer!Malformed = Malformed
  /\ Inner!Null = Null /\ Middle!Null = Null /\ Outer!Null = Null
BY DEF Malformed, Inner!Malformed, Middle!Malformed, Outer!Malformed,
       Null, Inner!Null, Middle!Null, Outer!Null

LEMMA SameWellFormed ==
  ASSUME NEW fields, NEW structs, WellFormed(fields, structs)
  PROVE  /\ Inner!WellFormed(fields, structs)
         /\ Middle!WellFormed(fields, structs)
         /\ Outer!WellFormed(fields, structs)
BY DEF WellFormed, FieldTypes, Single, Slice, MapOf, Struct, string, int, pointer,
  Inner!WellFormed, Inner!FieldTypes, Inner!Single, Inner!Slice, Inner!MapOf, Inner!Struct,
  Inner!string, Inner!int, Inner!pointer,
  Middle!WellFormed, Middle!FieldTypes, Middle!Single, Middle!Slice, Middle!MapOf, Middle!Struct,
  Middle!string, Middle!int, Middle!pointer,
  Outer!WellFormed, Outer!FieldTypes, Outer!Single, Outer!Slice, Outer!MapOf, Outer!Struct,
  Outer!string, Outer!int, Outer!pointer

\* At each level, what is decoded is as published.
LEMMA InnerConforms ==
  \A s \in Flat : \A v : Inner!UnmarshalJSON(s, v) # Malformed
                         => Inner!Published(s, Inner!UnmarshalJSON(s, v))
BY Inner!DecodedConforms, SameEverywhere, SameWellFormed DEF Flat, NoStruct

LEMMA MiddleConforms ==
  \A s \in Shallow : \A v : Middle!UnmarshalJSON(s, v) # Malformed
                            => Middle!Published(s, Middle!UnmarshalJSON(s, v))
BY InnerConforms, Middle!DecodedConforms, SameEverywhere, SameWellFormed DEF Shallow

\* Whatever a tool decodes conforms to its output schema, at any depth
\* (decode.go:88, schema.go:47-49).
THEOREM GetConforms ==
  \A s \in DOMAIN Fields : \A v : Get(s, v) # Malformed => Published(s, Get(s, v))
BY MiddleConforms, Outer!DecodedConforms, NestingIsThreeDeep, SameEverywhere, SameWellFormed
   DEF Get, Published

\* At each level, null is no struct, and what is decoded is what is acceptable.
LEMMA NoNullStruct ==
  \A s : ~Inner!Acceptable(s, Null) /\ ~Middle!Acceptable(s, Null)
BY DEF Inner!Acceptable, Middle!Acceptable, Null

LEMMA InnerWhole ==
  \A s \in Flat : \A v : Inner!UnmarshalJSON(s, v) # Malformed <=> Inner!Acceptable(s, v)
BY Inner!AcceptableDecoded, SameEverywhere, SameWellFormed DEF Flat, NoStruct, Never

LEMMA MiddleWhole ==
  \A s \in Shallow : \A v : Middle!UnmarshalJSON(s, v) # Malformed <=> Middle!Acceptable(s, v)
BY InnerWhole, Middle!AcceptableDecoded, NoNullStruct, SameEverywhere, SameWellFormed DEF Shallow

\* A payload is decoded exactly when all of it is acceptable (decode.go:4-7).
THEOREM GetWhole ==
  \A s \in DOMAIN Fields : \A v : Get(s, v) # Malformed <=> Acceptable(s, v)
BY MiddleWhole, Outer!AcceptableDecoded, NoNullStruct, NestingIsThreeDeep, SameEverywhere,
   SameWellFormed
   DEF Get, Acceptable

-----------------------------------------------------------------------------
\* What a struct is decoded to: each of its fields decoded.
LEMMA DecodedOuter ==
  ASSUME NEW s, NEW v, Get(s, v) # Malformed
  PROVE  /\ v.is = "object"
         /\ Get(s, v) = Object([k \in DOMAIN Fields[s] |->
                                  Outer!DecodedField(k, Fields[s][k], v)])
BY SameEverywhere DEF Get, Outer!UnmarshalJSON, Outer!DecodedFields, Outer!Object, Object

LEMMA DecodedMiddle ==
  ASSUME NEW s, NEW v, Middle!UnmarshalJSON(s, v) # Malformed
  PROVE  /\ v.is = "object"
         /\ Middle!UnmarshalJSON(s, v) =
              Object([k \in DOMAIN Fields[s] |-> Middle!DecodedField(k, Fields[s][k], v)])
BY SameEverywhere DEF Middle!UnmarshalJSON, Middle!DecodedFields, Middle!Object, Object

LEMMA DecodedInner ==
  ASSUME NEW s, NEW v, Inner!UnmarshalJSON(s, v) # Malformed
  PROVE  /\ v.is = "object"
         /\ Inner!UnmarshalJSON(s, v) =
              Object([k \in DOMAIN Fields[s] |-> Inner!DecodedField(k, Fields[s][k], v)])
BY SameEverywhere DEF Inner!UnmarshalJSON, Inner!DecodedFields, Inner!Object, Object

\* A result of get is an object or the failure.
LEMMA GetIs ==
  \A s, v : Get(s, v).is = IF Get(s, v) = Malformed THEN "malformed" ELSE "object"
BY DecodedOuter DEF Object, Malformed

\* A struct that contains none is published alike at any level.
LEMMA FlatPublished ==
  ASSUME NEW s \in Flat, NEW v, Middle!Published(s, v)
  PROVE  Published(s, v)
<1>1. ASSUME NEW type \in Single({}), NEW w, Middle!PublishedElement(type, w)
      PROVE  Outer!PublishedElement(type, w)
  BY <1>1, SameEverywhere DEF Single, Middle!PublishedElement, Outer!PublishedElement,
     string, int, pointer
<1>2. ASSUME NEW type \in FieldTypes({}), NEW w, Middle!PublishedField(type, w)
      PROVE  Outer!PublishedField(type, w)
  <2>1. CASE type \in Single({})
    <3>1. type.kind \notin {"list", "map"}
      BY <2>1 DEF Single, string, int, pointer
    <3> QED BY <1>1, <1>2, <2>1, <3>1 DEF Middle!PublishedField, Outer!PublishedField
  <2>2. CASE type.kind = "list" /\ type.of \in Single({})
    BY <1>1, <1>2, <2>2 DEF Middle!PublishedField, Outer!PublishedField
  <2> QED BY <2>1, <2>2 DEF FieldTypes, Slice
<1> QED BY <1>2 DEF Published, Middle!Published, Outer!Published, Flat, WellFormed

\* The first leaf is there exactly when the payload is acceptable and has one,
\* and is then as published (ResolveArchitecture).
LEMMA FirstLeafFound ==
  ASSUME NEW v
  PROVE  LET leaf == FirstLeaf(Get("TaxonomyLookupResponse", v)) IN
           /\ leaf # Malformed <=> Acceptable("TaxonomyLookupResponse", v) /\ HasLeaf(v)
           /\ leaf # Malformed => Published("ArchitectureDetail", leaf) /\ leaf.is = "object"
<1> DEFINE response == Get("TaxonomyLookupResponse", v)
           leaves == Fields["TaxonomyLookupResponse"]["leaves"]
           decoded == Outer!DecodedField("leaves", leaves, v)
           leaf == FirstLeaf(response)
<1>1. /\ "TaxonomyLookupResponse" \in DOMAIN Fields
      /\ "ArchitectureDetail" \in Flat /\ "ArchitectureDetail" \in Shallow
  BY FlatStructs, ShallowStructs, FieldsOfEach, ArchitectureNames
<1>2. /\ "leaves" \in DOMAIN Fields["TaxonomyLookupResponse"]
      /\ leaves.type.kind = "list"
      /\ leaves.type.of.kind = "struct" /\ leaves.type.of.name = "ArchitectureDetail"
  BY TaxonomyFields DEF Texts, Required, Optional, Slice, Struct, string
<1>3. CASE response = Malformed
  BY <1>1, <1>3, GetWhole DEF FirstLeaf
<1>4. CASE response # Malformed
  <2>1. Acceptable("TaxonomyLookupResponse", v)
    BY <1>1, <1>4, GetWhole
  <2>2. response.fields["leaves"] = decoded /\ decoded # Malformed
    <3>1. ~Outer!Spoilt(Outer!DecodedFields("TaxonomyLookupResponse", v))
      BY <1>4, SameEverywhere DEF Get, Outer!UnmarshalJSON
    <3> QED BY <1>2, <1>4, <3>1, DecodedOuter, SameEverywhere
            DEF Object, Outer!Spoilt, Outer!DecodedFields
  <2>3. CASE "leaves" \notin DOMAIN v.fields
    <3>1. decoded = List(<<>>)
      BY <1>2, <2>2, <2>3, Outer!ListField, SameEverywhere DEF Outer!List, List
    <3>2. IsEmpty(List(<<>>))
      BY DEF IsEmpty, List
    <3> QED BY <2>2, <2>3, <3>1, <3>2 DEF FirstLeaf, HasLeaf
  <2>4. CASE "leaves" \in DOMAIN v.fields
    <3> DEFINE items == v.fields["leaves"].items
    <3>1. /\ decoded = List(Outer!Elements(leaves.type, items))
          /\ ~Outer!Spoilt(Outer!Elements(leaves.type, items))
      BY <1>2, <2>2, <2>4, Outer!ListField, SameEverywhere DEF Outer!List, List
    <3>2. Outer!Elements(leaves.type, items) =
            [i \in DOMAIN items |-> Middle!UnmarshalJSON("ArchitectureDetail", items[i])]
      BY <1>2 DEF Outer!Elements, Outer!Element
    <3>3. /\ IsEmpty(decoded) <=> 1 \notin DOMAIN items
          /\ 1 \in DOMAIN items
               => decoded.items[1] = Middle!UnmarshalJSON("ArchitectureDetail", items[1])
      BY <3>1, <3>2 DEF List, IsEmpty
    <3>4. 1 \in DOMAIN items
            => Middle!UnmarshalJSON("ArchitectureDetail", items[1]) # Malformed
      BY <3>1, <3>2, SameEverywhere DEF Outer!Spoilt
    <3>5. HasLeaf(v) <=> 1 \in DOMAIN items
      BY <2>4 DEF HasLeaf, IsEmpty
    <3>6. CASE 1 \notin DOMAIN items
      BY <2>2, <3>3, <3>5, <3>6 DEF FirstLeaf
    <3>7. CASE 1 \in DOMAIN items
      <4>1. leaf = Middle!UnmarshalJSON("ArchitectureDetail", items[1])
        BY <1>4, <2>2, <3>3, <3>7 DEF FirstLeaf
      <4>2. leaf # Malformed
        BY <3>4, <3>7, <4>1
      <4>3. Published("ArchitectureDetail", leaf)
        BY <1>1, <4>1, <4>2, MiddleConforms, FlatPublished
      <4>4. leaf.is = "object"
        BY <4>1, <4>2, DecodedMiddle DEF Object
      <4> QED BY <2>1, <3>5, <3>7, <4>2, <4>3, <4>4
    <3> QED BY <3>6, <3>7
  <2> QED BY <2>3, <2>4
<1> QED BY <1>3, <1>4

-----------------------------------------------------------------------------
\* The fields the walk reads, and what they are made of.
LEMMA WalkedFields ==
  /\ "DecisionAnswer" \in Flat /\ "DecisionNode" \in Shallow
  /\ {"DecisionTree", "DecisionTreeNodeResponse", "TaxonomyLookupResponse"} \subseteq DOMAIN Fields
  /\ \A k \in {"next", "resolves_toward"} :
       /\ k \in DOMAIN Fields["DecisionAnswer"] /\ ~Fields["DecisionAnswer"][k].required
       /\ Fields["DecisionAnswer"][k].type.kind = "pointer"
  /\ "answers" \in DOMAIN Fields["DecisionNode"]
  /\ Fields["DecisionNode"]["answers"].type.kind = "list"
  /\ Fields["DecisionNode"]["answers"].type.of.kind = "struct"
  /\ Fields["DecisionNode"]["answers"].type.of.name = "DecisionAnswer"
  /\ "root_question_id" \in DOMAIN Fields["DecisionTree"]
  /\ Fields["DecisionTree"]["root_question_id"].type.kind = "text"
  /\ "nodes" \in DOMAIN Fields["DecisionTree"]
  /\ Fields["DecisionTree"]["nodes"].type.kind = "map"
  /\ Fields["DecisionTree"]["nodes"].type.of.kind = "struct"
  /\ Fields["DecisionTree"]["nodes"].type.of.name = "DecisionNode"
  /\ DOMAIN Fields["DecisionTreeNodeResponse"] = {"node"}
  /\ Fields["DecisionTreeNodeResponse"]["node"].type.kind = "struct"
  /\ Fields["DecisionTreeNodeResponse"]["node"].type.name = "DecisionNode"
<1>1. "DecisionAnswer" \in Flat /\ "DecisionNode" \in Shallow
  BY FlatStructs, ShallowStructs, FieldsOfEach, ArchitectureNames
<1>2. {"DecisionTree", "DecisionTreeNodeResponse", "TaxonomyLookupResponse"} \subseteq DOMAIN Fields
  BY FieldsOfEach, ArchitectureNames
<1> QED BY <1>1, <1>2, AnswerFields, NodeFields, TreeFields, NodeResponseFields
        DEF Texts, Required, Optional, Slice, MapOf, Struct, string, pointer

\* A question is served as it is: its response is decoded exactly when it is
\* acceptable, and holds it decoded.
LEMMA QuestionDecoded ==
  ASSUME NEW n
  PROVE  LET response == Get("DecisionTreeNodeResponse", Object([k \in {"node"} |-> n])) IN
           /\ response # Malformed <=> Middle!Acceptable("DecisionNode", n)
           /\ response # Malformed
                => response.fields["node"] = Middle!UnmarshalJSON("DecisionNode", n)
<1> DEFINE served == Object([k \in {"node"} |-> n])
           field == Fields["DecisionTreeNodeResponse"]["node"]
           response == Get("DecisionTreeNodeResponse", served)
<1>1. served.is = "object" /\ DOMAIN served.fields = {"node"} /\ served.fields["node"] = n
  BY DEF Object
<1>2. Outer!Keys("node") = <<"node">>
  BY DEF Outer!Keys
<1>3. Outer!Present("node", served) = {1}
  BY <1>1, <1>2 DEF Outer!Present
<1>4. Acceptable("DecisionTreeNodeResponse", served) <=> Outer!AcceptableField(field.type, n)
  BY <1>1, <1>2, <1>3, WalkedFields DEF Acceptable, Outer!Acceptable
<1>5. Outer!AcceptableField(field.type, n) <=> Middle!Acceptable("DecisionNode", n)
  BY WalkedFields DEF Outer!AcceptableField, Outer!AcceptableElement
<1>6. ASSUME response # Malformed
      PROVE  response.fields["node"] = Middle!UnmarshalJSON("DecisionNode", n)
  <2>1. /\ response.fields["node"] = Outer!DecodedField("node", field, served)
        /\ Outer!DecodedField("node", field, served) # Malformed
    <3>1. ~Outer!Spoilt(Outer!DecodedFields("DecisionTreeNodeResponse", served))
      BY <1>6, SameEverywhere DEF Get, Outer!UnmarshalJSON
    <3> QED BY <1>6, <3>1, WalkedFields, DecodedOuter, SameEverywhere
            DEF Object, Outer!Spoilt, Outer!DecodedFields
  <2>2. Outer!DecodedField("node", field, served) = Outer!Unmarshal(field.type, n)
    BY <1>1, <2>1, Outer!PlainField, WalkedFields, SameEverywhere
  <2> QED BY <2>1, <2>2, WalkedFields DEF Outer!Unmarshal, Outer!Element
<1> QED BY <1>4, <1>5, <1>6, GetWhole, WalkedFields

\* The answers of a decoded question are those that were there, decoded.
LEMMA AnswersDecoded ==
  ASSUME NEW n, Middle!UnmarshalJSON("DecisionNode", n) # Malformed
  PROVE  LET list == Middle!UnmarshalJSON("DecisionNode", n).fields["answers"] IN
           \/ "answers" \notin DOMAIN n.fields /\ list = List(<<>>)
           \/ /\ "answers" \in DOMAIN n.fields
              /\ list = List([i \in DOMAIN n.fields["answers"].items |->
                    Inner!UnmarshalJSON("DecisionAnswer", n.fields["answers"].items[i])])
              /\ \A i \in DOMAIN n.fields["answers"].items :
                   Inner!UnmarshalJSON("DecisionAnswer", n.fields["answers"].items[i]) # Malformed
<1> DEFINE answers == Fields["DecisionNode"]["answers"]
           decoded == Middle!DecodedField("answers", answers, n)
<1>1. /\ Middle!UnmarshalJSON("DecisionNode", n).fields["answers"] = decoded
      /\ decoded # Malformed
  <2>1. ~Middle!Spoilt(Middle!DecodedFields("DecisionNode", n))
    BY SameEverywhere DEF Middle!UnmarshalJSON
  <2> QED BY <2>1, WalkedFields, DecodedMiddle, SameEverywhere
          DEF Object, Middle!Spoilt, Middle!DecodedFields
<1>2. \/ "answers" \notin DOMAIN n.fields /\ decoded = List(<<>>)
      \/ /\ "answers" \in DOMAIN n.fields
         /\ decoded = List(Middle!Elements(answers.type, n.fields["answers"].items))
         /\ ~Middle!Spoilt(Middle!Elements(answers.type, n.fields["answers"].items))
  BY <1>1, Middle!ListField, WalkedFields, SameEverywhere DEF Middle!List, List
<1>3. \A items : Middle!Elements(answers.type, items) =
        [i \in DOMAIN items |-> Inner!UnmarshalJSON("DecisionAnswer", items[i])]
  BY WalkedFields DEF Middle!Elements, Middle!Element
<1> QED BY <1>1, <1>2, <1>3, SameEverywhere DEF Middle!Spoilt

\* Where a decoded answer leads is what was there, or null.
LEMMA AnswerDecoded ==
  ASSUME NEW a, Inner!UnmarshalJSON("DecisionAnswer", a) # Malformed,
         NEW k \in {"next", "resolves_toward"}
  PROVE  Inner!UnmarshalJSON("DecisionAnswer", a).fields[k] =
           IF k \in DOMAIN a.fields THEN a.fields[k] ELSE Null
<1> DEFINE decoded == Inner!DecodedField(k, Fields["DecisionAnswer"][k], a)
<1>1. Inner!UnmarshalJSON("DecisionAnswer", a).fields[k] = decoded /\ decoded # Malformed
  <2>1. ~Inner!Spoilt(Inner!DecodedFields("DecisionAnswer", a))
    BY SameEverywhere DEF Inner!UnmarshalJSON
  <2> QED BY <2>1, WalkedFields, DecodedInner, SameEverywhere
          DEF Object, Inner!Spoilt, Inner!DecodedFields
<1> QED BY <1>1, Inner!PointerField, WalkedFields, SameEverywhere

\* What a published tree, and a published question, are made of.
LEMMA PublishedTree ==
  ASSUME NEW tree, Published("DecisionTree", tree)
  PROVE  /\ tree.fields["root_question_id"].is = "text"
         /\ \A q \in DOMAIN tree.fields["nodes"].fields :
              Middle!Published("DecisionNode", tree.fields["nodes"].fields[q])
<1>1. \A k \in DOMAIN Fields["DecisionTree"] :
        Outer!PublishedField(Fields["DecisionTree"][k].type, tree.fields[k])
  BY DEF Published, Outer!Published
<1>2. tree.fields["root_question_id"].is = "text"
  BY <1>1, WalkedFields DEF Outer!PublishedField, Outer!PublishedElement
<1>3. \A q \in DOMAIN tree.fields["nodes"].fields :
        Outer!PublishedElement(Fields["DecisionTree"]["nodes"].type.of,
                               tree.fields["nodes"].fields[q])
  BY <1>1, WalkedFields DEF Outer!PublishedField
<1> QED BY <1>2, <1>3, WalkedFields DEF Outer!PublishedElement

LEMMA PublishedQuestion ==
  ASSUME NEW node, Middle!Published("DecisionNode", node),
         NEW i \in DOMAIN node.fields["answers"].items, NEW k \in {"next", "resolves_toward"}
  PROVE  LET chosen == node.fields["answers"].items[i].fields IN
           k \in DOMAIN chosen /\ (chosen[k].is = "text" \/ chosen[k] = Null)
<1> DEFINE answers == Fields["DecisionNode"]["answers"]
           chosen == node.fields["answers"].items[i]
<1>1. Middle!PublishedField(answers.type, node.fields["answers"])
  BY WalkedFields DEF Middle!Published
<1>2. Middle!PublishedElement(answers.type.of, chosen)
  BY <1>1, WalkedFields DEF Middle!PublishedField
<1>3. Inner!Published("DecisionAnswer", chosen)
  BY <1>2, WalkedFields DEF Middle!PublishedElement
<1>4. k \in DOMAIN chosen.fields
      /\ Inner!PublishedField(Fields["DecisionAnswer"][k].type, chosen.fields[k])
  BY <1>3, WalkedFields DEF Inner!Published
<1> QED BY <1>4, WalkedFields, SameEverywhere DEF Inner!PublishedField, Inner!PublishedElement

\* What an acceptable tree is made of.
LEMMA AcceptableTree ==
  ASSUME NEW tree, Acceptable("DecisionTree", tree)
  PROVE  /\ tree.fields["root_question_id"].is = "text"
         /\ \A q \in DOMAIN tree.fields["nodes"].fields :
              Middle!Acceptable("DecisionNode", tree.fields["nodes"].fields[q])
<1>1. Fields["DecisionTree"]["root_question_id"].required /\ Fields["DecisionTree"]["nodes"].required
  BY TreeFields DEF Texts, Required
<1>2. /\ Outer!AcceptableField(Fields["DecisionTree"]["root_question_id"].type,
                              tree.fields["root_question_id"])
      /\ Outer!AcceptableField(Fields["DecisionTree"]["nodes"].type, tree.fields["nodes"])
  BY <1>1, WalkedFields, Outer!PlainAcceptable DEF Acceptable
<1>3. tree.fields["root_question_id"].is = "text"
  BY <1>2, WalkedFields DEF Outer!AcceptableField, Outer!AcceptableElement
<1>4. \A q \in DOMAIN tree.fields["nodes"].fields :
        Outer!AcceptableElement(Fields["DecisionTree"]["nodes"].type.of,
                                tree.fields["nodes"].fields[q])
  BY <1>2, WalkedFields DEF Outer!AcceptableField
<1> QED BY <1>3, <1>4, WalkedFields DEF Outer!AcceptableElement

-----------------------------------------------------------------------------
\* A question, as the agent has it, every answer of which leads to one of the
\* questions or names an architecture.
LeadsOn(node, questions) ==
  /\ ~IsEmpty(node.fields["answers"])
  /\ \A i \in DOMAIN node.fields["answers"].items :
       LET chosen == node.fields["answers"].items[i].fields IN
         IF chosen["next"] # Null THEN chosen["next"].text \in questions
                                  ELSE chosen["resolves_toward"] # Null

\* Taking an answer of such a question keeps the agent on its way.
LEMMA ChooseStep ==
  ASSUME NEW node, NEW questions, Middle!Published("DecisionNode", node), Choose(node),
         stage = "question", at.is = "text", name.is \in {"nothing", "null", "text"}
  PROVE  /\ stage' \in {"question", "leaf", "stuck"}
         /\ stage' = "question" => at'.is = "text"
         /\ name'.is \in {"nothing", "null", "text"}
         /\ LeadsOn(node, questions)
              => /\ stage' = "question" => at'.text \in questions
                 /\ ~Lost'
<1>1. CASE IsEmpty(node.fields["answers"]) /\ Stuck
  BY <1>1 DEF Stuck, LeadsOn
<1>2. ASSUME NEW i \in DOMAIN node.fields["answers"].items,
             LET chosen == node.fields["answers"].items[i].fields IN
               IF chosen["next"] # Null
               THEN at' = chosen["next"] /\ UNCHANGED <<name, stage>>
               ELSE stage' = "leaf" /\ name' = chosen["resolves_toward"] /\ UNCHANGED at
      PROVE  /\ stage' \in {"question", "leaf", "stuck"}
             /\ stage' = "question" => at'.is = "text"
             /\ name'.is \in {"nothing", "null", "text"}
             /\ LeadsOn(node, questions)
                  => /\ stage' = "question" => at'.text \in questions
                     /\ ~Lost'
  <2> DEFINE chosen == node.fields["answers"].items[i].fields
  <2>1. \A k \in {"next", "resolves_toward"} : chosen[k].is = "text" \/ chosen[k] = Null
    BY PublishedQuestion
  <2>2. CASE chosen["next"] # Null
    BY <1>2, <2>1, <2>2 DEF LeadsOn, Lost
  <2>3. CASE chosen["next"] = Null
    <3>1. stage' = "leaf" /\ name' = chosen["resolves_toward"] /\ at' = at
      BY <1>2, <2>3
    <3>2. name'.is \in {"null", "text"}
      BY <2>1, <3>1 DEF Null
    <3>3. LeadsOn(node, questions) => name' # Null
      BY <2>3, <3>1 DEF LeadsOn
    <3> QED BY <3>1, <3>2, <3>3 DEF Lost
  <2> QED BY <2>2, <2>3
<1> QED BY <1>1, <1>2 DEF Choose

\* Every question of a tree that can be walked leads on: held in memory, or
\* fetched and decoded on its own.
LEMMA HeldLeadsOn ==
  ASSUME NEW tree, Walkable(tree), Published("DecisionTree", tree),
         NEW q \in DOMAIN tree.fields["nodes"].fields
  PROVE  LeadsOn(tree.fields["nodes"].fields[q], DOMAIN tree.fields["nodes"].fields)
<1>1. Middle!Published("DecisionNode", tree.fields["nodes"].fields[q])
  BY PublishedTree
<1> QED BY <1>1, PublishedQuestion DEF Walkable, LeadsOn

LEMMA FetchedLeadsOn ==
  ASSUME NEW tree, Walkable(tree), NEW q \in DOMAIN tree.fields["nodes"].fields
  PROVE  /\ Middle!Acceptable("DecisionNode", tree.fields["nodes"].fields[q])
         /\ LeadsOn(Middle!UnmarshalJSON("DecisionNode", tree.fields["nodes"].fields[q]),
                    DOMAIN tree.fields["nodes"].fields)
<1> DEFINE n == tree.fields["nodes"].fields[q]
           node == Middle!UnmarshalJSON("DecisionNode", n)
           items == n.fields["answers"].items
<1>1. Middle!Acceptable("DecisionNode", n)
  BY AcceptableTree DEF Walkable
<1>2. node # Malformed
  BY <1>1, MiddleWhole, WalkedFields
<1>3. "answers" \in DOMAIN n.fields /\ 1 \in DOMAIN items
  BY DEF Walkable, IsEmpty
<1>4. /\ node.fields["answers"] =
           List([i \in DOMAIN items |-> Inner!UnmarshalJSON("DecisionAnswer", items[i])])
      /\ \A i \in DOMAIN items : Inner!UnmarshalJSON("DecisionAnswer", items[i]) # Malformed
  BY <1>2, <1>3, AnswersDecoded
<1>5. /\ DOMAIN node.fields["answers"].items = DOMAIN items
      /\ \A i \in DOMAIN items : node.fields["answers"].items[i] =
                                   Inner!UnmarshalJSON("DecisionAnswer", items[i])
  <2> DEFINE decoded == [i \in DOMAIN items |-> Inner!UnmarshalJSON("DecisionAnswer", items[i])]
  <2>1. node.fields["answers"].items = decoded
    <3>1. \A x : List(x).items = x
      BY DEF List
    <3> HIDE DEF node
    <3> QED BY <1>4, <3>1, Zenon
  <2>2. /\ DOMAIN decoded = DOMAIN items
        /\ \A i \in DOMAIN items : decoded[i] = Inner!UnmarshalJSON("DecisionAnswer", items[i])
    OBVIOUS
  <2> QED BY <2>1, <2>2
<1>6. ASSUME NEW i \in DOMAIN items
      PROVE  LET chosen == node.fields["answers"].items[i].fields IN
               IF chosen["next"] # Null
               THEN chosen["next"].text \in DOMAIN tree.fields["nodes"].fields
               ELSE chosen["resolves_toward"] # Null
  <2> DEFINE there == items[i].fields
             chosen == node.fields["answers"].items[i].fields
  <2>1. \A k \in {"next", "resolves_toward"} :
          chosen[k] = IF k \in DOMAIN there THEN there[k] ELSE Null
    <3>1. Inner!UnmarshalJSON("DecisionAnswer", items[i]) # Malformed
      BY <1>4
    <3>2. chosen = Inner!UnmarshalJSON("DecisionAnswer", items[i]).fields
      BY <1>5
    <3> QED BY <3>1, <3>2, AnswerDecoded
  <2>2. IF "next" \in DOMAIN there /\ there["next"] # Null
        THEN there["next"].text \in DOMAIN tree.fields["nodes"].fields
        ELSE "resolves_toward" \in DOMAIN there /\ there["resolves_toward"] # Null
    BY DEF Walkable
  <2> QED BY <2>1, <2>2
<1> QED BY <1>1, <1>3, <1>5, <1>6 DEF LeadsOn, IsEmpty

-----------------------------------------------------------------------------
\* An answer that get gave is right by what get promises.
LEMMA AnsweredRight ==
  ASSUME NEW s \in DOMAIN Fields, s # "ArchitectureDetail", NEW payload,
         Answers(s, payload, Get(s, payload))
  PROVE  answer'.type \in DOMAIN Fields /\ AnswersConform' /\ AnswersWhole'
<1>1. answer'.type = s /\ answer'.payload = payload /\ answer'.value = Get(s, payload)
  BY DEF Answers
<1>2. Answered' <=> Get(s, payload) # Malformed
  BY <1>1, GetIs DEF Answered
<1>3. AnswersConform'
  BY <1>1, <1>2, GetConforms DEF AnswersConform
<1>4. Answered' <=> Acceptable(s, payload)
  BY <1>2, GetWhole
<1>5. Source(answer'.type) = s
  BY <1>1 DEF Source
<1> QED BY <1>1, <1>3, <1>4, <1>5 DEF AnswersWhole

LEMMA InitInv == Init => IInv
<1> SUFFICES ASSUME Init PROVE IInv
  OBVIOUS
<1> QED BY DEF Init, IInv, TypeOK, WorldInv, AnswersConform, AnswersWhole, HeldInv, AtInv,
        NeverLost, Lost, Answered, NoAnswer, Nothing

LEMMA GetDecisionTreeInv == IInv /\ GetDecisionTree => IInv'
<1> SUFFICES ASSUME IInv, GetDecisionTree PROVE IInv'
  OBVIOUS
<1>1. /\ stage = "start" /\ way' = "whole" /\ held' = Get("DecisionTree", Tree)
      /\ Answers("DecisionTree", Tree, held') /\ world' = world /\ version' = version
  BY DEF GetDecisionTree
<1>2. answer'.type \in DOMAIN Fields /\ AnswersConform' /\ AnswersWhole'
  BY <1>1, AnsweredRight, WalkedFields
<1>3. held'.is \in {"malformed", "object"}
  BY <1>1, GetIs
<1>4. CASE held' = Malformed
  <2>1. stage' = "stuck" /\ at' = at /\ name' = name
    BY <1>4 DEF GetDecisionTree, Stuck
  <2>2. ~Walkable(held')
    BY <1>4 DEF Walkable, Acceptable, Outer!Acceptable, Malformed
  <2>3. TypeOK'
    BY <1>1, <1>2, <1>3, <2>1 DEF IInv, TypeOK
  <2> QED BY <1>1, <1>2, <2>1, <2>2, <2>3
          DEF IInv, WorldInv, HeldInv, AtInv, NeverLost, Walked
<1>5. CASE held' # Malformed
  <2>1. stage' = "question" /\ at' = held'.fields["root_question_id"] /\ name' = name
    BY <1>5 DEF GetDecisionTree
  <2>2. Published("DecisionTree", held')
    BY <1>1, <1>5, GetConforms, WalkedFields
  <2>3. at'.is = "text"
    BY <2>1, <2>2, PublishedTree
  <2>4. Walkable(held') => at'.text \in DOMAIN held'.fields["nodes"].fields
    BY <2>1 DEF Walkable
  <2>5. TypeOK'
    BY <1>1, <1>2, <1>3, <2>1, <2>3 DEF IInv, TypeOK
  <2> QED BY <1>1, <1>2, <2>1, <2>2, <2>4, <2>5
          DEF IInv, WorldInv, HeldInv, AtInv, NeverLost, Walked, Lost
<1> QED BY <1>4, <1>5

LEMMA FirstQuestionInv == IInv /\ FirstQuestion => IInv'
<1> SUFFICES ASSUME IInv, FirstQuestion PROVE IInv'
  OBVIOUS
<1>1. at' = rootNodeID /\ at'.is = "text"
  BY DEF FirstQuestion, rootNodeID, Text
<1>2. TypeOK'
  BY <1>1 DEF IInv, TypeOK, FirstQuestion
<1>3. AnswersConform' /\ AnswersWhole'
  BY DEF IInv, AnswersConform, AnswersWhole, Answered, FirstQuestion
<1> QED BY <1>1, <1>2, <1>3
        DEF IInv, WorldInv, HeldInv, AtInv, NeverLost, Lost, FirstQuestion, rootNodeID

\* A step that leaves the last answer alone.
LEMMA AnswerKept ==
  IInv /\ UNCHANGED answer
  => answer'.type \in {"none"} \cup DOMAIN Fields /\ AnswersConform' /\ AnswersWhole'
BY DEF IInv, TypeOK, AnswersConform, AnswersWhole, Answered

LEMMA AskHeldInv == IInv /\ AskHeld => IInv'
<1> SUFFICES ASSUME IInv, AskHeld PROVE IInv'
  OBVIOUS
<1> DEFINE nodes == held.fields["nodes"].fields
<1>1. /\ stage = "question" /\ way = "whole" /\ Published("DecisionTree", held)
      /\ UNCHANGED <<world, version, way, held, answer>>
  BY DEF AskHeld, IInv, HeldInv
<1>2. Walked' = held /\ Walked = held /\ Undisturbed
  BY <1>1 DEF Walked, Undisturbed
<1>3. answer'.type \in {"none"} \cup DOMAIN Fields /\ AnswersConform' /\ AnswersWhole'
  BY <1>1, AnswerKept
<1>4. Walkable(held) => at.text \in DOMAIN nodes
  BY <1>1, <1>2 DEF IInv, AtInv
<1>5. at.is = "text" /\ name.is \in {"nothing", "null", "text"}
  BY <1>1 DEF IInv, TypeOK
<1>6. /\ stage' \in {"question", "leaf", "stuck"}
      /\ stage' = "question" => at'.is = "text"
      /\ name'.is \in {"nothing", "null", "text"}
      /\ Walkable(held) => /\ stage' = "question" => at'.text \in DOMAIN nodes
                           /\ ~Lost'
  <2>1. CASE at.text \in DOMAIN nodes
    <3>1. Choose(nodes[at.text]) /\ Middle!Published("DecisionNode", nodes[at.text])
      BY <1>1, <2>1, PublishedTree DEF AskHeld
    <3>2. Walkable(held) => LeadsOn(nodes[at.text], DOMAIN nodes)
      BY <1>1, <2>1, HeldLeadsOn
    <3> QED BY <1>1, <1>5, <3>1, <3>2, ChooseStep
  <2>2. CASE at.text \notin DOMAIN nodes
    <3>1. Stuck
      BY <2>2 DEF AskHeld
    <3> QED BY <1>4, <1>5, <2>2, <3>1 DEF Stuck
  <2> QED BY <2>1, <2>2
<1>7. TypeOK'
  BY <1>1, <1>3, <1>6 DEF IInv, TypeOK
<1> QED BY <1>1, <1>2, <1>3, <1>6, <1>7 DEF IInv, WorldInv, HeldInv, AtInv, NeverLost

\* As long as it is the tree that can be walked that is served, so is the
\* question asked for.
LEMMA ServedQuestion ==
  ASSUME NEW q, q = rootNodeID \/ (q.is = "text" /\ q.text \in DOMAIN Tree.fields["nodes"].fields),
         Walkable(Tree)
  PROVE  \E n \in DOMAIN Tree.fields["nodes"].fields :
           Served(q) = Object([k \in {"node"} |-> Tree.fields["nodes"].fields[n]])
<1> DEFINE root == Tree.fields["root_question_id"]
           nodes == Tree.fields["nodes"].fields
           key == IF q = Text("root") THEN root ELSE q
<1>1. root.is = "text" /\ root.text \in DOMAIN nodes
  BY AcceptableTree DEF Walkable
<1>2. key.is = "text" /\ key.text \in DOMAIN nodes
  BY <1>1 DEF rootNodeID
<1>3. Served(q) = Object([k \in {"node"} |-> nodes[key.text]])
  BY <1>2 DEF Served
<1> QED BY <1>2, <1>3

LEMMA GetDecisionTreeNodeInv == IInv /\ GetDecisionTreeNode => IInv'
<1> SUFFICES ASSUME IInv, GetDecisionTreeNode PROVE IInv'
  OBVIOUS
<1> DEFINE nodes == Tree.fields["nodes"].fields
           response == Get("DecisionTreeNodeResponse", Served(at))
<1>1. /\ stage = "question" /\ way = "calls"
      /\ UNCHANGED <<world, version, way, held>>
  BY DEF GetDecisionTreeNode
<1>2. at.is = "text" /\ name.is \in {"nothing", "null", "text"}
  BY <1>1 DEF IInv, TypeOK
<1>3. Undisturbed => Walked = Tree /\ Walked' = Tree
  BY <1>1 DEF Undisturbed, Walked, Tree
<1>4. ASSUME Undisturbed, Walkable(Tree)
      PROVE  \E n \in DOMAIN nodes :
               /\ Served(at) = Object([k \in {"node"} |-> nodes[n]])
               /\ Served(at) # Nothing /\ response # Malformed
               /\ LeadsOn(response.fields["node"], DOMAIN nodes)
  <2>1. at = rootNodeID \/ at.text \in DOMAIN nodes
    BY <1>1, <1>3, <1>4 DEF IInv, AtInv
  <2>2. PICK n \in DOMAIN nodes : Served(at) = Object([k \in {"node"} |-> nodes[n]])
    BY <1>2, <1>4, <2>1, ServedQuestion
  <2>3. Served(at) # Nothing
    BY <2>2 DEF Object, Nothing
  <2>4. response # Malformed /\ LeadsOn(response.fields["node"], DOMAIN nodes)
    BY <1>4, <2>2, QuestionDecoded, FetchedLeadsOn
  <2> QED BY <2>2, <2>3, <2>4
<1>5. ASSUME stage' \in {"question", "leaf", "stuck"},
             stage' = "question" => at'.is = "text",
             name'.is \in {"nothing", "null", "text"},
             answer'.type \in {"none"} \cup DOMAIN Fields, AnswersConform', AnswersWhole',
             Undisturbed /\ Walkable(Tree)
               => (stage' = "question" => at'.text \in DOMAIN nodes) /\ ~Lost'
      PROVE  IInv'
  <2>1. TypeOK'
    BY <1>1, <1>5 DEF IInv, TypeOK
  <2>2. Undisturbed' <=> Undisturbed
    BY <1>1 DEF Undisturbed
  <2>3. AtInv'
    BY <1>1, <1>3, <1>5, <2>2 DEF AtInv
  <2>4. NeverLost'
    BY <1>1, <1>3, <1>5, <2>2 DEF NeverLost
  <2> QED BY <1>1, <1>5, <2>1, <2>3, <2>4 DEF IInv, WorldInv, HeldInv
<1>6. CASE Served(at) = Nothing
  <2>1. Stuck /\ answer' = NoAnswer
    BY <1>6 DEF GetDecisionTreeNode
  <2>2. answer'.type = "none" /\ AnswersConform' /\ AnswersWhole'
    BY <2>1 DEF NoAnswer, Nothing, AnswersConform, AnswersWhole, Answered
  <2>3. ~(Undisturbed /\ Walkable(Tree))
    BY <1>4, <1>6
  <2> QED BY <1>2, <1>5, <2>1, <2>2, <2>3 DEF Stuck
<1>7. CASE Served(at) # Nothing
  <2>1. Answers("DecisionTreeNodeResponse", Served(at), response)
    BY <1>7 DEF GetDecisionTreeNode
  <2>2. answer'.type \in DOMAIN Fields /\ AnswersConform' /\ AnswersWhole'
    BY <2>1, AnsweredRight, WalkedFields
  <2>3. CASE response = Malformed
    <3>1. Stuck
      BY <1>7, <2>3 DEF GetDecisionTreeNode
    <3>2. ~(Undisturbed /\ Walkable(Tree))
      BY <1>4, <2>3
    <3> QED BY <1>2, <1>5, <2>2, <3>1, <3>2 DEF Stuck
  <2>4. CASE response # Malformed
    <3>1. Choose(response.fields["node"])
      BY <1>7, <2>4 DEF GetDecisionTreeNode
    <3>2. Middle!Published("DecisionNode", response.fields["node"])
      <4>1. Published("DecisionTreeNodeResponse", response)
        BY <2>4, GetConforms, WalkedFields
      <4>2. Outer!PublishedField(Fields["DecisionTreeNodeResponse"]["node"].type,
                                 response.fields["node"])
        BY <4>1, WalkedFields DEF Published, Outer!Published
      <4> QED BY <4>2, WalkedFields DEF Outer!PublishedField, Outer!PublishedElement
    <3>3. Undisturbed /\ Walkable(Tree) => LeadsOn(response.fields["node"], DOMAIN nodes)
      BY <1>4
    <3> QED BY <1>1, <1>2, <1>5, <2>2, <3>1, <3>2, <3>3, ChooseStep
  <2> QED BY <2>3, <2>4
<1> QED BY <1>6, <1>7

LEMMA ResolveArchitectureInv == IInv /\ ResolveArchitecture => IInv'
<1> SUFFICES ASSUME IInv, ResolveArchitecture PROVE IInv'
  OBVIOUS
<1> DEFINE leaf == FirstLeaf(Get("TaxonomyLookupResponse", world.taxonomy))
<1>1. /\ stage = "leaf" /\ Answers("ArchitectureDetail", world.taxonomy, leaf)
      /\ stage' = IF leaf = Malformed THEN "stuck" ELSE "done"
      /\ UNCHANGED <<world, version, way, held, at, name>>
  BY DEF ResolveArchitecture
<1>2. answer'.type = "ArchitectureDetail" /\ answer'.payload = world.taxonomy /\ answer'.value = leaf
  BY <1>1 DEF Answers
<1>3. Answered' <=> leaf # Malformed
  BY <1>2, FirstLeafFound DEF Answered, Malformed
<1>4. AnswersConform'
  BY <1>2, <1>3, FirstLeafFound DEF AnswersConform
<1>5. AnswersWhole'
  BY <1>2, <1>3, FirstLeafFound DEF AnswersWhole, Source
<1>6. "ArchitectureDetail" \in DOMAIN Fields
  BY FieldsOfEach, ArchitectureNames
<1>7. TypeOK'
  BY <1>1, <1>2, <1>6 DEF IInv, TypeOK
<1>8. NeverLost'
  BY <1>1, FirstLeafFound DEF NeverLost, Lost, Resolvable
<1> QED BY <1>1, <1>4, <1>5, <1>7, <1>8 DEF IInv, WorldInv, HeldInv, AtInv

LEMMA RepublishInv == IInv /\ Republish => IInv'
<1> SUFFICES ASSUME IInv, Republish PROVE IInv'
  OBVIOUS
<1>1. /\ version < Len(world.trees) /\ version' = version + 1
      /\ UNCHANGED <<world, way, held, at, name, stage, answer>>
  BY DEF Republish, walk
<1>2. version' \in DOMAIN world.trees /\ version' # 1
  <2>1. world.trees \in Seq({world.trees[i] : i \in DOMAIN world.trees})
    BY WorldsAssumption DEF IInv, WorldInv
  <2>2. DOMAIN world.trees = 1..Len(world.trees) /\ Len(world.trees) \in Nat
    BY <2>1
  <2>3. version \in Nat /\ version >= 1
    BY <2>2 DEF IInv, TypeOK
  <2> QED BY <1>1, <2>2, <2>3
<1>3. answer'.type \in {"none"} \cup DOMAIN Fields /\ AnswersConform' /\ AnswersWhole'
  BY <1>1, AnswerKept
<1>4. TypeOK'
  BY <1>1, <1>2, <1>3 DEF IInv, TypeOK
<1>5. Undisturbed' => Undisturbed /\ Walked' = Walked
  BY <1>1, <1>2 DEF Undisturbed, Walked
<1> QED BY <1>1, <1>3, <1>4, <1>5
        DEF IInv, WorldInv, HeldInv, AtInv, NeverLost, Lost, Resolvable

LEMMA LookUpClassInv ==
  ASSUME NEW type \in DOMAIN world.classes, IInv, LookUpClass(type)
  PROVE  IInv'
<1>1. /\ stage = "start" /\ Answers(type, world.classes[type], Get(type, world.classes[type]))
      /\ UNCHANGED <<world, version, way, held, at, name, stage>>
  BY DEF LookUpClass, walk
<1>2. type \in ClassTools
  BY WorldsAssumption DEF IInv, WorldInv
<1>3. type \in DOMAIN Fields /\ type # "ArchitectureDetail"
  BY <1>2, FieldsOfEach, DeviceClassNames DEF ClassTools
<1>4. answer'.type \in DOMAIN Fields /\ AnswersConform' /\ AnswersWhole'
  BY <1>1, <1>3, AnsweredRight
<1>5. TypeOK'
  BY <1>1, <1>4 DEF IInv, TypeOK
<1> QED BY <1>1, <1>4, <1>5 DEF IInv, WorldInv, HeldInv, AtInv, NeverLost, Lost, Resolvable

\* IInv is inductive: every step of a tool, the agent or ODAS keeps it.
THEOREM Inductive == Spec => []IInv
<1>1. IInv /\ [Next]_vars => IInv'
  <2> SUFFICES ASSUME IInv, [Next]_vars PROVE IInv'
    OBVIOUS
  <2>1. CASE GetDecisionTree
    BY <2>1, GetDecisionTreeInv
  <2>2. CASE FirstQuestion
    BY <2>2, FirstQuestionInv
  <2>3. CASE AskHeld
    BY <2>3, AskHeldInv
  <2>4. CASE GetDecisionTreeNode
    BY <2>4, GetDecisionTreeNodeInv
  <2>5. CASE ResolveArchitecture
    BY <2>5, ResolveArchitectureInv
  <2>6. CASE Republish
    BY <2>6, RepublishInv
  <2>7. ASSUME NEW type \in DOMAIN world.classes, LookUpClass(type) PROVE IInv'
    BY <2>7, LookUpClassInv
  <2>8. CASE UNCHANGED vars
    <3>1. UNCHANGED <<world, version, way, held, at, name, stage, answer>>
      BY <2>8 DEF vars, walk
    <3>2. answer'.type \in {"none"} \cup DOMAIN Fields /\ AnswersConform' /\ AnswersWhole'
      BY <3>1, AnswerKept
    <3> QED BY <3>1, <3>2 DEF IInv, TypeOK, WorldInv, HeldInv, AtInv, NeverLost,
            Walked, Undisturbed, Lost, Resolvable
  <2> QED BY <2>1, <2>2, <2>3, <2>4, <2>5, <2>6, <2>7, <2>8 DEF Next
<1> QED BY <1>1, InitInv, PTL DEF Spec

-----------------------------------------------------------------------------
\* Types of every variable.
THEOREM TypeCorrect == Spec => []TypeOK
<1>1. IInv => TypeOK
  BY DEF IInv
<1> QED BY <1>1, Inductive, PTL

\* Whatever ODAS sends, an answer conforms to the tool's output schema: no list
\* in it is null, at any depth (schema.go:47-49, decode.go:88).
THEOREM AnswersAlwaysConform == Spec => []AnswersConform
<1>1. IInv => AnswersConform
  BY DEF IInv
<1> QED BY <1>1, Inductive, PTL

\* A tool answers exactly when the whole payload is acceptable: of a damaged
\* one nothing is returned, and none that is sound is refused (decode.go:4-7).
THEOREM AnswersAlwaysWhole == Spec => []AnswersWhole
<1>1. IInv => AnswersWhole
  BY DEF IInv
<1> QED BY <1>1, Inductive, PTL

\* Over a tree that can be walked the agent is never lost, whichever way it
\* walks (architecture.go:36-43, 58-64).
THEOREM WalkNeverLost == Spec => []NeverLost
<1>1. IInv => NeverLost
  BY DEF IInv
<1> QED BY <1>1, Inductive, PTL
=============================================================================
