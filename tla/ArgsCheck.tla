----------------------------- MODULE ArgsCheck -----------------------------
(***************************************************************************)
(* capabilities.argsValidator: the check of a tool's arguments against its *)
(* flat input schema.  The tools stand for their kinds: "listing" for      *)
(* requirement_tree_search, "node" for requirement_tree_node, "browse" for *)
(* list_device_classes, "search" for search_device_classes and "lookup"    *)
(* for get_decision_tree_node and the other tools that take a key alone.   *)
(***************************************************************************)
EXTENDS Integers

ProjectTools == {"listing", "node"}
ClassTools == {"browse", "search"}
Tools == ProjectTools \cup ClassTools \cup {"lookup"}

\* What a schema says of one argument.  max = 0: no maximum.  One that may be
\* null is null by default; one that is neither required nor null has a default
\* of its own.
Required(minLength) ==
  [kind |-> "string", required |-> TRUE, nullable |-> FALSE, enum |-> FALSE,
   min |-> minLength, max |-> 0]
Optional ==
  [kind |-> "string", required |-> FALSE, nullable |-> FALSE, enum |-> FALSE,
   min |-> 0, max |-> 0]
Nullable(enum) ==
  [kind |-> "string", required |-> FALSE, nullable |-> TRUE, enum |-> enum,
   min |-> 0, max |-> 0]
Integer(max) ==
  [kind |-> "integer", required |-> FALSE, nullable |-> FALSE, enum |-> FALSE,
   min |-> 1, max |-> max]

MaxLimit == 100
MaxListDepth == 3
RequirementSchema ==
  [query            |-> Required(1),
   forChildAltitude |-> Nullable(TRUE),
   page             |-> Integer(0),
   limit            |-> Integer(MaxLimit),
   requirementId    |-> Required(1)]
ClassSchema ==
  [parent_id |-> Nullable(FALSE),
   cursor    |-> Nullable(FALSE),
   depth     |-> Integer(MaxListDepth),
   matches   |-> Integer(0)]   \* search_device_classes calls it limit
LookupSchema ==
  [key     |-> Required(0),    \* device_class_key
   node_id |-> Optional]       \* "root" by default
Fields == DOMAIN RequirementSchema \cup DOMAIN ClassSchema \cup DOMAIN LookupSchema
Schema == [f \in Fields |-> CASE f \in DOMAIN RequirementSchema -> RequirementSchema[f]
                              [] f \in DOMAIN ClassSchema -> ClassSchema[f]
                              [] f \in DOMAIN LookupSchema -> LookupSchema[f]]
ToolFields == [listing |-> {"query", "forChildAltitude", "page", "limit"},
               node    |-> {"requirementId"},
               browse  |-> {"parent_id", "cursor", "depth"},
               search  |-> {"query", "matches"},
               lookup  |-> {"key", "node_id"}]

\* The JSON values the check tells apart.  An integer, a whole float and a
\* whole-number string are read alike, by their number n; "huge" is a whole
\* number that no int64 holds, "choice" a string among the enum's values.
Tag(t) == [type |-> t, n |-> 0]
JsonInt(n) == [type |-> "int", n |-> n]
Values == {Tag(t) : t \in {"missing", "null", "empty", "text", "choice", "fraction",
                           "huge", "other"}}
          \cup {JsonInt(n) : n \in {-1, 0, 1, MaxListDepth, MaxListDepth + 1,
                                   MaxLimit, MaxLimit + 1}}

\* What int64(f) gives for a float out of range is up to the platform: the
\* least int64, or the one nearest to it (both scaled down here).
MinInt64 == -1000
MaxInt64 == 1000
Platforms == {MinInt64, MaxInt64}

Refused == Tag("refused")

\* asInteger.
AsInteger(v, platform) ==
  CASE v.type = "int"  -> v
    [] v.type = "huge" -> JsonInt(platform)
    [] OTHER           -> Refused

NotTooSmall(f, n) == n >= Schema[f].min
InBounds(f, n) == n >= Schema[f].min /\ (Schema[f].max # 0 => n <= Schema[f].max)

\* fieldSpec.check of a value that is there and is not null.
CheckInteger(f, v, platform) ==
  LET i == AsInteger(v, platform)
  IN  IF i # Refused /\ InBounds(f, i.n) THEN i ELSE Refused
CheckString(f, v) ==
  IF /\ v.type \in {"empty", "text", "choice"}
     /\ Schema[f].enum => v.type = "choice"
     /\ Schema[f].min > 0 => v.type # "empty"
  THEN v ELSE Refused

\* An argument left out gets its default: for an integer 1, 10 or 25, all in
\* bounds, for a text that may not be null "root".
Default(f) ==
  CASE Schema[f].kind = "integer"                        -> JsonInt(1)
    [] Schema[f].kind = "string" /\ Schema[f].nullable   -> Tag("null")
    [] Schema[f].kind = "string" /\ ~Schema[f].nullable  -> Tag("text")

\* validate, one argument: what the handler gets for it, or Refused.
Validated(f, v, platform) ==
  CASE v.type = "missing" -> IF Schema[f].required THEN Refused ELSE Default(f)
    [] v.type = "null"    -> IF Schema[f].nullable THEN v ELSE Refused
    [] OTHER              -> IF Schema[f].kind = "integer" THEN CheckInteger(f, v, platform)
                             ELSE CheckString(f, v)

\* validate leaves arguments it does not know where they are and writes all of
\* them in the order of their names.  The decoder that follows takes a name
\* whatever its case, each value replacing the last: a further spelling that
\* sorts before the name is replaced by the checked value, one that sorts after
\* it replaces that.  There is one after a name with a capital (its lower case)
\* and with an s or a k, since the decoder takes U+017F for an s and U+212A for
\* a k: device_class_key has both.
Overridable == {"forChildAltitude", "requirementId", "key", "cursor"}
Spellings == [before : Values, after : Values]

\* The decoder has no use for a value of another type, wherever it comes, and
\* fails; null it takes for any.  A further argument is not coerced: its
\* integer is written as one.
Accepts(f, e) ==
  \/ e.type \in {"missing", "null"}
  \/ Schema[f].kind = "integer" /\ e.type = "int"
  \/ /\ Schema[f].kind = "string" /\ e.type \in {"empty", "text", "choice"}
     /\ Schema[f].enum => e.type = "choice"

\* What the decoder makes of f, checked to be v, among further spellings: null
\* clears a pointer and leaves anything else as it is.
DecodedAnyCase(f, v, extra) ==
  IF v = Refused \/ ~Accepts(f, extra.before) \/ ~Accepts(f, extra.after) THEN Refused
  ELSE CASE extra.after.type = "missing" -> v
         [] extra.after.type = "null"    -> IF Schema[f].nullable THEN extra.after ELSE v
         [] OTHER                        -> extra.after

=============================================================================
