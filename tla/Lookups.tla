------------------------------ MODULE Lookups ------------------------------
(***************************************************************************)
(* The seven tools that look something up, and the agent that walks a      *)
(* decision tree with them as their descriptions tell it to: holding the   *)
(* whole tree (get_decision_tree) or one question at a time                *)
(* (get_decision_tree_node), then resolve_architecture.  ODAS serves one   *)
(* version of the tree after another.  That a call may fail otherwise is   *)
(* NodeRead's and ToolCall's concern.                                      *)
(***************************************************************************)
EXTENDS PayloadTypes

CONSTANT Worlds   \* what ODAS may hold

(***************************************************************************)
(* trees: the versions of the tree's payload, in their order; taxonomy:    *)
(* the payload for an architecture's name; classes: those of device-class  *)
(* tools.                                                                  *)
(***************************************************************************)
ClassTools == {"ListDeviceClassesOutput", "SearchDeviceClassesOutput",
               "GetDeviceClassOutput", "ListDeviceClassVendorsOutput"}

\* Any payloads, under the tools and in the order of the versions.
ASSUME WorldsAssumption ==
  \A w \in Worlds :
    /\ DOMAIN w.classes \subseteq ClassTools
    /\ w.trees \in Seq({w.trees[i] : i \in DOMAIN w.trees})

VARIABLES
  world,    \* what ODAS holds
  version,  \* which of the trees it serves
  way,      \* how the agent walks: "none" yet, "whole" or "calls"
  held,     \* whole: the decoded tree
  at,       \* the id of the question to ask next, as the agent has it
  name,     \* the architecture the leaf named
  stage,    \* "start", "question", "leaf", "done" or "stuck"
  answer    \* the last result of a tool: its type, the payload and the outcome

walk == <<way, held, at, name, stage>>
vars == <<world, version, walk, answer>>

Nothing == [is |-> "nothing"]
NoAnswer == [type |-> "none", payload |-> Nothing, value |-> Nothing]

Init ==
  /\ world \in Worlds
  /\ version = 1
  /\ way = "none" /\ held = Nothing /\ at = Nothing /\ name = Nothing
  /\ stage = "start"
  /\ answer = NoAnswer

-----------------------------------------------------------------------------
(***************************************************************************)
(* The structs nest three deep: those that contain none, those that        *)
(* contain such, and all.                                                  *)
(***************************************************************************)
NoStruct(type, value) == Malformed
Never(type, value) == FALSE

Inner == INSTANCE Decoding WITH
  Nested <- NoStruct, NestedPublished <- Never, NestedAcceptable <- Never
Middle == INSTANCE Decoding WITH
  Nested <- Inner!UnmarshalJSON, NestedPublished <- Inner!Published,
  NestedAcceptable <- Inner!Acceptable
Outer == INSTANCE Decoding WITH
  Nested <- Middle!UnmarshalJSON, NestedPublished <- Middle!Published,
  NestedAcceptable <- Middle!Acceptable

Published(type, value) == Outer!Published(type, value)
Acceptable(type, payload) == Outer!Acceptable(type, payload)

\* get on a payload: the decoded struct, or Malformed.
Get(type, payload) == Outer!UnmarshalJSON(type, payload)

IsEmpty(list) == 1 \notin DOMAIN list.items

\* The tool answers with what it published, or with an error result.
Answers(type, payload, value) ==
  answer' = [type |-> type, payload |-> payload, value |-> value]

Stuck == stage' = "stuck" /\ UNCHANGED <<at, name>>

Tree == world.trees[version]

GetDecisionTree ==
  /\ stage = "start" /\ version \in DOMAIN world.trees
  /\ way' = "whole"
  /\ held' = Get("DecisionTree", Tree)
  /\ Answers("DecisionTree", Tree, held')
  /\ IF held' = Malformed THEN Stuck
     ELSE stage' = "question" /\ at' = held'.fields["root_question_id"] /\ UNCHANGED name
  /\ UNCHANGED <<world, version>>

\* ODAS serves a node of its tree as {"node": ...}, the root under "root" too
\* (external).
Served(id) ==
  LET nodes == Tree.fields["nodes"].fields
      key == IF id = Text("root") THEN Tree.fields["root_question_id"] ELSE id
  IN IF key.is = "text" /\ key.text \in DOMAIN nodes
     THEN Object([k \in {"node"} |-> nodes[key.text]]) ELSE Nothing

\* The default of node_id.
rootNodeID == Text("root")

FirstQuestion ==
  /\ stage = "start" /\ version \in DOMAIN world.trees
  /\ way' = "calls" /\ at' = rootNodeID /\ stage' = "question"
  /\ UNCHANGED <<world, version, held, name, answer>>

\* The agent takes one of a question's answers: it leads to the next question
\* or, without one, to an architecture (external).
Choose(node) ==
  \/ IsEmpty(node.fields["answers"]) /\ Stuck
  \/ \E i \in DOMAIN node.fields["answers"].items :
       LET chosen == node.fields["answers"].items[i].fields IN
         IF chosen["next"] # Null
         THEN at' = chosen["next"] /\ UNCHANGED <<name, stage>>
         ELSE stage' = "leaf" /\ name' = chosen["resolves_toward"] /\ UNCHANGED at

AskHeld ==
  /\ stage = "question" /\ way = "whole"
  /\ IF at.text \in DOMAIN held.fields["nodes"].fields
     THEN Choose(held.fields["nodes"].fields[at.text]) ELSE Stuck
  /\ UNCHANGED <<world, version, way, held, answer>>

GetDecisionTreeNode ==
  /\ stage = "question" /\ way = "calls"
  /\ LET response == Get("DecisionTreeNodeResponse", Served(at)) IN
       IF Served(at) = Nothing THEN Stuck /\ answer' = NoAnswer
       ELSE /\ Answers("DecisionTreeNodeResponse", Served(at), response)
            /\ IF response = Malformed THEN Stuck ELSE Choose(response.fields["node"])
  /\ UNCHANGED <<world, version, way, held>>

\* No leaf is a tool error; else the first one is the answer.
FirstLeaf(response) ==
  IF response = Malformed \/ IsEmpty(response.fields["leaves"])
  THEN Malformed ELSE response.fields["leaves"].items[1]

ResolveArchitecture ==
  /\ stage = "leaf" /\ name # Null
  /\ LET leaf == FirstLeaf(Get("TaxonomyLookupResponse", world.taxonomy)) IN
       /\ Answers("ArchitectureDetail", world.taxonomy, leaf)
       /\ stage' = IF leaf = Malformed THEN "stuck" ELSE "done"
  /\ UNCHANGED <<world, version, way, held, at, name>>

\* A new version of the tree is put in place (external).
Republish ==
  /\ version < Len(world.trees)
  /\ version' = version + 1
  /\ UNCHANGED <<world, walk, answer>>

LookUpClass(type) ==
  /\ stage = "start"
  /\ Answers(type, world.classes[type], Get(type, world.classes[type]))
  /\ UNCHANGED <<world, version, walk>>

Next ==
  \/ GetDecisionTree \/ FirstQuestion \/ AskHeld \/ GetDecisionTreeNode
  \/ ResolveArchitecture \/ Republish
  \/ \E type \in DOMAIN world.classes : LookUpClass(type)

Spec == Init /\ [][Next]_vars

\* An agent that has begun a walk goes on with it: it asks, takes an answer and
\* resolves the leaf.  It need not begin one, and nobody need publish anything.
FairSpec ==
  /\ Spec
  /\ WF_vars(AskHeld) /\ WF_vars(GetDecisionTreeNode) /\ WF_vars(ResolveArchitecture)

-----------------------------------------------------------------------------
\* Types of every variable.
TypeOK ==
  /\ version \in {1} \cup DOMAIN world.trees
  /\ way \in {"none", "whole", "calls"}
  /\ held.is \in {"nothing", "malformed", "object"}
  /\ stage \in {"start", "question", "leaf", "done", "stuck"}
  /\ stage = "question" => at.is = "text"
  /\ name.is \in {"nothing", "null", "text"}
  /\ answer.type \in {"none"} \cup DOMAIN Fields

Answered == answer.value.is \notin {"malformed", "nothing"}

\* An answer is what the tool's output schema says: a list is never null, at
\* any depth, though ODAS may leave one out (schema.go:47-49, decode.go:88).
AnswersConform == Answered => Published(answer.type, answer.value)

\* A tool answers exactly when the whole payload is acceptable: no part of a
\* damaged one is ever returned, and none that is sound is refused
\* (decode.go:4-7).
Source(type) == IF type = "ArchitectureDetail" THEN "TaxonomyLookupResponse" ELSE type
HasLeaf(payload) ==
  "leaves" \in DOMAIN payload.fields /\ ~IsEmpty(payload.fields["leaves"])

AnswersWhole ==
  answer.type # "none" =>
    (Answered <=> /\ Acceptable(Source(answer.type), answer.payload)
                  /\ answer.type = "ArchitectureDetail" => HasLeaf(answer.payload))

\* A tree that can be walked: every question has answers, and an answer leads
\* to a question of the tree or names an architecture.
Walkable(tree) ==
  /\ Acceptable("DecisionTree", tree)
  /\ LET nodes == tree.fields["nodes"].fields
         given(answerOf, key) == key \in DOMAIN answerOf /\ answerOf[key] # Null
         Leads(answerOf) ==
           IF given(answerOf, "next") THEN answerOf["next"].text \in DOMAIN nodes
           ELSE given(answerOf, "resolves_toward")
     IN /\ tree.fields["root_question_id"].text \in DOMAIN nodes
        /\ \A q \in DOMAIN nodes :
             /\ "answers" \in DOMAIN nodes[q].fields
             /\ ~IsEmpty(nodes[q].fields["answers"])
             /\ \A i \in DOMAIN nodes[q].fields["answers"].items :
                  Leads(nodes[q].fields["answers"].items[i].fields)

\* No answers lead round: of any questions of the tree, one has no answer that
\* leads to another of them.
Acyclic(tree) ==
  LET nodes == tree.fields["nodes"].fields
      Follows(q, next) ==
        \E i \in DOMAIN nodes[q].fields["answers"].items :
          LET answerOf == nodes[q].fields["answers"].items[i].fields
          IN "next" \in DOMAIN answerOf /\ answerOf["next"] = Text(next)
  IN \A some \in SUBSET DOMAIN nodes \ {{}} :
       \E q \in some : \A next \in some : ~Follows(q, next)

Resolvable == /\ Acceptable("TaxonomyLookupResponse", world.taxonomy)
              /\ HasLeaf(world.taxonomy)

\* The tree a walk is about: the one held, or the one served when a walk a
\* question at a time may have begun, as long as that is still served.
Walked == IF way = "whole" THEN held ELSE world.trees[1]
Undisturbed == way = "calls" => version = 1
Lost == stage = "stuck" \/ (stage = "leaf" /\ name = Null)

\* Walked as the tools' descriptions say, a tree that can be walked never loses
\* the agent: neither one held in memory, nor one fetched a question at a time
\* from the default of node_id on (architecture.go:36-43, 58-64).
NeverLost == Lost /\ Undisturbed /\ Walkable(Walked) => ~Resolvable

\* A walk of such a tree, if its answers do not lead round, ends with an
\* architecture, unless it is the walk of a tree fetched a question at a time
\* that is no longer the one served (architecture.go:36-43, 58-64).
WalkArrives ==
  stage = "question" /\ Undisturbed /\ Walkable(Walked) /\ Acyclic(Walked) /\ Resolvable
    ~> stage = "done" \/ ~Undisturbed

=============================================================================
