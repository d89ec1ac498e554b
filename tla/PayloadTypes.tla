---------------------------- MODULE PayloadTypes ----------------------------
(***************************************************************************)
(* The structs the payloads of the lookup tools are decoded into           *)
(* (schemas/architecture_selection.go, schemas/device_class.go).           *)
(***************************************************************************)
EXTENDS Payloads

\* Fields that are required strings, and others.
Texts(names, others) ==
  [k \in names \cup DOMAIN others |-> IF k \in names THEN Required(string) ELSE others[k]]

(***************************************************************************)
(* The fields of each struct, under the names they are published under.    *)
(***************************************************************************)
ArchitectureFields ==
  [DecisionAnswer |->
     Texts({"value"}, [next |-> Optional(pointer), resolves_toward |-> Optional(pointer),
                       label |-> Optional(pointer)]),
   DecisionNode |->
     Texts({"id", "question", "evidence_type"},
           [recognition_triggers |-> Optional(Slice(string)),
            answers |-> Optional(Slice(Struct("DecisionAnswer")))]),
   DecisionTree |->
     Texts({"tree_id", "version", "taxonomy_ref", "taxonomy_version", "root_question_id"},
           [nodes |-> Required(MapOf(Struct("DecisionNode")))]),
   DecisionTreeNodeResponse |-> [node |-> Required(Struct("DecisionNode"))],
   ArchitectureDetail |->
     Texts({"id", "name", "type"},
           [parent_id |-> Optional(pointer), definition |-> Optional(string),
            distinguishing_mechanism |-> Optional(string),
            canonical_spec_ref |-> Optional(string)]),
   TaxonomyLookupResponse |->
     Texts({"taxonomyid", "taxonomy_version", "device_class"},
           [leaves |-> Optional(Slice(Struct("ArchitectureDetail")))])]

DeviceClassFields ==
  LET nodes == Required(Slice(Struct("DeviceClassNode"))) IN
  [DeviceClassNode |->
     Texts({"id", "name", "description"},
           [childCount |-> Required(int), path |-> Required(Slice(string))]),
   ListDeviceClassesOutput |-> [nodes |-> nodes, nextCursor |-> Optional(pointer)],
   SearchDeviceClassesOutput |-> [nodes |-> nodes],
   GetDeviceClassOutput |->
     [node |-> Required(Struct("DeviceClassNode")),
      ancestors |-> nodes, children |-> nodes, siblings |-> nodes],
   ListDeviceClassVendorsOutput |-> [vendors |-> Required(Slice(string))]]

Fields ==
  [name \in DOMAIN ArchitectureFields \cup DOMAIN DeviceClassFields |->
     IF name \in DOMAIN ArchitectureFields THEN ArchitectureFields[name]
                                           ELSE DeviceClassFields[name]]
=============================================================================
