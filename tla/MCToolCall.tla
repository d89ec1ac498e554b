---------------------------- MODULE MCToolCall -----------------------------
(***************************************************************************)
(* Instances of ToolCall for TLC: every kind of argument in one call, and  *)
(* every kind of message in two at once.                                   *)
(***************************************************************************)
EXTENDS ToolCallInvariant

\* One further spelling, on either side of the name, or one on both sides.
Only(side, e) == [s \in {"before", "after"} |-> IF s = side THEN e ELSE Tag("missing")]
Spelt(others) ==
  {Only(side, e) : side \in {"before", "after"}, e \in Values}
  \cup [before : others, after : others]

Plain == [method |-> "tools/call", params |-> TRUE, tool |-> "listing",
          args |-> [f \in Fields |-> Tag("text")],
          extra |-> [f \in Fields |-> Only("before", Tag("missing"))], token |-> TRUE, project |-> TRUE]

\* A value for each argument: every pair of page and limit in good company,
\* and each of them alone in any.
ListingArgs(qs, as, ps, ns) ==
  {[Plain.args EXCEPT !.query = q, !.forChildAltitude = a, !.page = p, !.limit = n] :
     q \in qs, a \in as, p \in ps, n \in ns}
Queries == {Tag("missing"), Tag("empty"), Tag("text"), Tag("null")}
Choices == {Tag("missing"), Tag("null"), Tag("text"), Tag("choice")}

EveryCall ==
  {[Plain EXCEPT !.args = a, !.extra.forChildAltitude = Only("after", e)] :
     a \in ListingArgs({Tag("text")}, {Tag("choice")}, Values, Values)
           \cup ListingArgs(Queries, Choices, {JsonInt(1)}, Values)
           \cup ListingArgs(Queries, Choices, Values, {Tag("missing")}),
     e \in Choices}
  \cup {[Plain EXCEPT !.args.page = p, !.args.forChildAltitude = Tag("choice"),
                      !.extra.page = Only("before", e)] : p \in Values, e \in Values}
  \cup {[Plain EXCEPT !.tool = "node", !.args.requirementId = a, !.extra.requirementId = e] :
         a \in Values, e \in Spelt({Tag("text"), Tag("other")})}
  \cup {[Plain EXCEPT !.tool = "browse", !.args.parent_id = a, !.args.depth = n] :
          a \in Values, n \in Values}
  \cup {[Plain EXCEPT !.tool = "browse", !.args.cursor = a, !.args.depth = JsonInt(1),
                      !.extra.cursor = e] : a \in Values, e \in Spelt({Tag("null")})}
  \cup {[Plain EXCEPT !.tool = "search", !.args.query = a, !.args.matches = n] :
          a \in Values, n \in Values}
  \cup {[Plain EXCEPT !.tool = "lookup", !.args.key = a, !.extra.key = e] :
          a \in Values, e \in Spelt({})}
  \cup {[Plain EXCEPT !.tool = "lookup", !.args.node_id = a] : a \in Values}

GoodArgs == [f \in Fields |-> IF Schema[f].kind = "integer" THEN Tag("missing")
                               ELSE Tag("choice")]
BadArgs == [f \in Fields |-> Tag("other")]

EveryMessage ==
  {[Plain EXCEPT !.tool = t, !.args = a, !.token = k, !.project = p] :
     t \in Tools \cup {"unknown"}, a \in {GoodArgs, BadArgs}, k \in BOOLEAN, p \in BOOLEAN}
  \cup {[Plain EXCEPT !.method = "prompts/get"],
        [Plain EXCEPT !.method = "notification", !.params = FALSE]}

Unknown == [Plain EXCEPT !.tool = "unknown"]

\* m1 makes every call beside a message that carries no arguments.
CONSTANTS m1, m2
Calls == {[m \in {m1, m2} |-> IF m = m1 THEN q ELSE Unknown] : q \in EveryCall}
MessagesAndCalls == [{m1, m2} -> EveryMessage] \cup Calls
=============================================================================
