----------------------------- MODULE MCLookups -----------------------------
(***************************************************************************)
(* Instances of Lookups for TLC: a sound payload for every tool, and every *)
(* payload that differs from it in one place.                              *)
(***************************************************************************)
EXTENDS LookupsInvariant, TLC

\* One place of a value is null, of another type or gone; a list is empty.
RECURSIVE Variants(_)
Variants(v) ==
  {v, Null, Other}
  \cup CASE v.is = "object" ->
              {Object([k \in DOMAIN v.fields \ {gone} |-> v.fields[k]]) : gone \in DOMAIN v.fields}
              \cup UNION {{Object([v.fields EXCEPT ![k] = x]) : x \in Variants(v.fields[k])} :
                            k \in DOMAIN v.fields}
         [] v.is = "list" /\ v.items # <<>> ->
              {List(<<>>)} \cup {List([v.items EXCEPT ![1] = x]) : x \in Variants(v.items[1])}
         [] OTHER -> {}

Record(texts, others) == Object([k \in texts |-> Text("x")] @@ others)

-----------------------------------------------------------------------------
Reply(value, next, leaf) ==
  Object([value |-> Text(value), next |-> next, resolves_toward |-> leaf, label |-> Null])
Question(id, replies) ==
  Record({"question", "evidence_type"},
         [id |-> Text(id), recognition_triggers |-> List(<<Text("t")>>),
          answers |-> List(replies)])
TreeOf(nodes) ==
  Record({"tree_id", "version", "taxonomy_ref", "taxonomy_version"},
         [root_question_id |-> Text("q1"), nodes |-> Object(nodes)])

First == TreeOf([q1 |-> Question("q1", <<Reply("yes", Text("q2"), Null),
                                         Reply("no", Null, Text("A"))>>),
                 q2 |-> Question("q2", <<Reply("go", Null, Text("B"))>>)])
Second == TreeOf([q1 |-> Question("q1", <<Reply("yes", Text("q3"), Null)>>),
                  q3 |-> Question("q3", <<>>)])
Third == TreeOf([q1 |-> Question("q1", <<Reply("yes", Text("q3"), Null)>>),
                 q3 |-> Question("q3", <<Reply("go", Null, Text("A"))>>)])
Round == TreeOf([q1 |-> Question("q1", <<Reply("yes", Text("q2"), Null),
                                         Reply("no", Null, Text("A"))>>),
                 q2 |-> Question("q2", <<Reply("back", Text("q1"), Null)>>)])

Leaf == Record({"id", "name", "type", "definition", "distinguishing_mechanism",
                "canonical_spec_ref"}, [parent_id |-> Null])
Taxonomy == Record({"taxonomyid", "taxonomy_version", "device_class"},
                   [leaves |-> List(<<Leaf, Leaf>>)])

Class == Record({"id", "name", "description"},
                [childCount |-> Number(1), child_count |-> Number(2),
                 path |-> List(<<Text("p")>>)])
Some == List(<<Class>>)
Classes == [ListDeviceClassesOutput |-> Object([nodes |-> Some, nextCursor |-> Null,
                                                next_cursor |-> Text("c")]),
            SearchDeviceClassesOutput |-> Object([nodes |-> Some]),
            GetDeviceClassOutput |-> Object([node |-> Class, ancestors |-> Some,
                                             children |-> Some, siblings |-> Some]),
            ListDeviceClassVendorsOutput |-> Object([vendors |-> List(<<Text("v")>>)])]

-----------------------------------------------------------------------------
World(trees, taxonomy, classes) ==
  [trees |-> trees, taxonomy |-> taxonomy, classes |-> classes]

\* The node endpoint serves nodes of a tree that has some.
HasNodes(tree) ==
  /\ tree.is = "object" /\ {"nodes", "root_question_id"} \subseteq DOMAIN tree.fields
  /\ tree.fields["nodes"].is = "object"

EveryWorld ==
  {World(<<t>>, Taxonomy, <<>>) : t \in {t \in Variants(First) : HasNodes(t)}}
  \cup {World(trees, Taxonomy, <<>>) : trees \in {<<First, Second>>, <<First, Third>>, <<Round>>}}
  \cup {World(<<First>>, x, <<>>) : x \in Variants(Taxonomy)}
  \cup UNION {{World(<<>>, Null, c :> x) : x \in Variants(Classes[c])} : c \in ClassTools}
=============================================================================
