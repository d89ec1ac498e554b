--------------------------- MODULE ToolCallProofs ---------------------------
(***************************************************************************)
(* Proofs about ToolCall, for any set of messages and whatever they carry  *)
(* together: the invariant IInv is inductive, the safety properties follow *)
(* from it, and what a handler gets conforms to the schema its tool        *)
(* declares.                                                               *)
(***************************************************************************)
EXTENDS ToolCallInvariant, TLAPS

USE DEF Methods, ProjectTools, ClassTools, Tools, InTool, Unanswered, Tag, JsonInt,
        MinInt64, MaxInt64, Platforms, MaxLimit, MaxListDepth

InputValues == Values \cup {JsonInt(n) : n \in Platforms}

-----------------------------------------------------------------------------
(* The check of the arguments. *)

\* The schema is a function of the eleven arguments, and this is what it says of
\* each of them.
LEMMA SchemaSays ==
  /\ Fields = {"query", "forChildAltitude", "page", "limit", "requirementId", "key",
               "node_id", "parent_id", "cursor", "depth", "matches"}
  /\ \A f \in {"query", "requirementId"} : Schema[f] = Required(1)
  /\ Schema["key"] = Required(0)
  /\ Schema["node_id"] = Optional
  /\ \A f \in {"parent_id", "cursor"} : Schema[f] = Nullable(FALSE)
  /\ Schema["forChildAltitude"] = Nullable(TRUE)
  /\ \A f \in {"page", "matches"} : Schema[f] = Integer(0)
  /\ Schema["limit"] = Integer(MaxLimit)
  /\ Schema["depth"] = Integer(MaxListDepth)
<1>1. DOMAIN RequirementSchema = {"query", "forChildAltitude", "page", "limit",
                                  "requirementId"}
  BY DEF RequirementSchema
<1>2. DOMAIN ClassSchema = {"parent_id", "cursor", "depth", "matches"}
  BY DEF ClassSchema
<1>3. DOMAIN LookupSchema = {"key", "node_id"}
  BY DEF LookupSchema
<1>4. \A f \in DOMAIN RequirementSchema : Schema[f] = RequirementSchema[f]
  BY <1>1, <1>2, <1>3 DEF Schema, Fields
<1>5. \A f \in DOMAIN ClassSchema : Schema[f] = ClassSchema[f]
  BY <1>1, <1>2, <1>3 DEF Schema, Fields
<1>6. \A f \in DOMAIN LookupSchema : Schema[f] = LookupSchema[f]
  BY <1>1, <1>2, <1>3 DEF Schema, Fields
<1> QED BY <1>1, <1>2, <1>3, <1>4, <1>5, <1>6
        DEF Fields, RequirementSchema, ClassSchema, LookupSchema

\* What a schema asks of an argument's value once it is decoded, its least
\* length left aside: that one the check alone looks at.
Conforms(f, v) ==
  /\ v \in InputValues
  /\ IF Schema[f].kind = "integer" THEN v.type = "int" /\ InBounds(f, v.n)
     ELSE \/ v.type = "null" /\ Schema[f].nullable
          \/ /\ v.type \in {"empty", "text", "choice"}
             /\ Schema[f].enum => v.type = "choice"

\* What the properties of a schema can be: an integer is never required, a text
\* that may be null may be left out, and one of an enum is null by default.
LEMMA SchemaType ==
  ASSUME NEW f \in Fields
  PROVE  /\ Schema[f].kind \in {"string", "integer"}
         /\ Schema[f].nullable => ~Schema[f].required /\ Schema[f].kind = "string"
         /\ Schema[f].enum => Schema[f].nullable
         /\ Schema[f].kind = "string" /\ ~Schema[f].required => Schema[f].min = 0
         /\ Schema[f].kind = "integer" => /\ ~Schema[f].required
                                          /\ Schema[f].min = 1
                                          /\ Schema[f].max \in Nat
<1>1. CASE f \in {"page", "matches", "limit", "depth"}
  BY <1>1, SchemaSays DEF Integer
<1>2. CASE f \in {"query", "requirementId", "key", "node_id"}
  BY <1>2, SchemaSays DEF Required, Optional
<1>3. CASE f \in {"forChildAltitude", "parent_id", "cursor"}
  BY <1>3, SchemaSays DEF Nullable
<1> QED BY <1>1, <1>2, <1>3, SchemaSays

\* fieldSpec.check and the defaults: what is not a problem conforms, and keeps
\* the least length too.
LEMMA ValidatedConforms ==
  ASSUME NEW f \in Fields, NEW v \in Values, NEW p \in Platforms,
         Validated(f, v, p) # Refused
  PROVE  /\ Conforms(f, Validated(f, v, p))
         /\ Schema[f].min > 0 => Validated(f, v, p).type # "empty"
<1>1. CASE v.type = "missing"
  BY <1>1, SchemaType DEF Validated, Default, Conforms, InBounds, InputValues, Values
<1>2. CASE v.type = "null"
  BY <1>2, SchemaType DEF Validated, Conforms, InputValues
<1>3. CASE v.type \notin {"missing", "null"} /\ Schema[f].kind = "integer"
  <2>1. Validated(f, v, p) = AsInteger(v, p) /\ InBounds(f, AsInteger(v, p).n)
    BY <1>3 DEF Validated, CheckInteger
  <2>2. AsInteger(v, p) \in InputValues /\ AsInteger(v, p).type = "int"
    BY <1>3, <2>1 DEF AsInteger, Refused, InputValues
  <2> QED BY <1>3, <2>1, <2>2 DEF Conforms
<1>4. CASE v.type \notin {"missing", "null"} /\ Schema[f].kind # "integer"
  BY <1>4, SchemaType DEF Validated, CheckString, Conforms, InputValues
<1> QED BY <1>1, <1>2, <1>3, <1>4

\* The decoder that follows changes what was checked only to a value that the
\* argument's type admits.
LEMMA DecodedConforms ==
  ASSUME NEW f \in Fields, NEW v, NEW e \in Spellings, Conforms(f, v),
         f \notin Overridable => e.after = Tag("missing"),
         DecodedAnyCase(f, v, e) # Refused
  PROVE  Conforms(f, DecodedAnyCase(f, v, e))
<1>1. Accepts(f, e.after) /\ e.after \in Values
  BY DEF DecodedAnyCase, Spellings
<1>2. CASE e.after.type = "missing"
  BY <1>2 DEF DecodedAnyCase
<1>3. CASE e.after.type = "null"
  <2>1. DecodedAnyCase(f, v, e) = IF Schema[f].nullable THEN e.after ELSE v
    BY <1>3 DEF DecodedAnyCase
  <2>2. Schema[f].nullable => Schema[f].kind = "string"
    BY SchemaType
  <2> QED BY <1>1, <1>3, <2>1, <2>2 DEF Conforms, InputValues
<1>4. CASE e.after.type \notin {"missing", "null"}
  <2>1. Schema[f].kind = "string"
    BY <1>4, SchemaSays DEF Overridable, Required, Nullable
  <2>2. DecodedAnyCase(f, v, e) = e.after
    BY <1>4 DEF DecodedAnyCase
  <2> QED BY <1>1, <1>4, <2>1, <2>2 DEF Accepts, Conforms, InputValues
<1> QED BY <1>2, <1>3, <1>4

\* What the decoder makes of a call's arguments, when none is a problem.
LEMMA InputTyped ==
  ASSUME TypeOK, NEW m \in Messages, request[m].tool # "unknown",
         \A f \in ArgFields(m) : Input(m)[f] # Refused
  PROVE  /\ ArgFields(m) \subseteq Fields
         /\ \A f \in ArgFields(m) : Conforms(f, Input(m)[f])
         /\ Input(m) \in [Fields -> InputValues]
<1>1. IsRequest(request[m]) /\ platform \in Platforms
  BY ScenariosAssumption DEF TypeOK
<1>2. ArgFields(m) \subseteq Fields
  BY <1>1, SchemaSays DEF ArgFields, ToolFields, IsRequest
<1>3. ASSUME NEW f \in ArgFields(m) PROVE Conforms(f, Input(m)[f])
  <2>1. Input(m)[f] = DecodedAnyCase(f, Checked(m, f), request[m].extra[f])
    BY <1>2 DEF Input
  <2>2. /\ request[m].args[f] \in Values /\ request[m].extra[f] \in Spellings
        /\ f \notin Overridable => request[m].extra[f].after = Tag("missing")
    BY <1>1, <1>2 DEF IsRequest
  <2>3. Checked(m, f) # Refused
    BY <2>1 DEF DecodedAnyCase
  <2>4. Conforms(f, Checked(m, f))
    BY <1>1, <1>2, <2>2, <2>3, ValidatedConforms DEF Checked
  <2> QED BY <1>2, <2>1, <2>2, <2>4, DecodedConforms
<1>4. Input(m) \in [Fields -> InputValues]
  <2>1. Tag("missing") \in InputValues
    BY DEF InputValues, Values
  <2>2. ASSUME NEW f \in Fields PROVE Input(m)[f] \in InputValues
    <3>1. CASE f \in ArgFields(m)
      BY <1>3, <3>1 DEF Conforms
    <3>2. CASE f \notin ArgFields(m)
      BY <2>1, <3>2 DEF Input
    <3> QED BY <3>1, <3>2
  <2>3. Input(m) = [f \in Fields |-> Input(m)[f]]
    BY DEF Input
  <2> QED BY <2>2, <2>3
<1> QED BY <1>2, <1>3, <1>4

-----------------------------------------------------------------------------
(* The invariant is inductive. *)

LEMMA InitInv == Init => IInv
<1> SUFFICES ASSUME Init PROVE IInv
  OBVIOUS
<1>1. NoInput \in [Fields -> InputValues]
  BY DEF NoInput, InputValues, Values
<1>2. TypeOK
  BY <1>1 DEF Init, TypeOK, NoReply, Details, InputValues
<1>3. RoutedInv /\ CheckedInv
  BY DEF Init, RoutedInv, CheckedInv
<1>4. alive = TRUE /\ AnswerInv /\ UnexpectedIsLogged /\ SpanTellsFailure /\ AskedInScope
  BY DEF Init, AnswerInv, UnexpectedIsLogged, SpanTellsFailure, AskedInScope, NoReply
<1> QED BY <1>2, <1>3, <1>4 DEF IInv

\* Whoever answers a message, from the routing on, keeps the invariant, if the
\* failures nobody meant the caller to read are logged.
LEMMA AnswerStepInv ==
  ASSUME IInv, NEW m \in Messages, NEW kind \in {"result", "toolError", "protocolError"},
         NEW detail \in Details, pc[m] \in {"routed"} \cup InTool,
         Answer(m, kind, detail), UNCHANGED <<fixed, alive, input, span, asked>>,
         LogError(m) \/ (Silently(m) /\ detail \notin {"none", "internal"})
  PROVE  IInv'
<1> USE DEF IInv, fixed, Goto, Answer, Details, NoReply, LogError, Silently
<1>1. TypeOK'
  <2>1. logged' \in [Messages -> BOOLEAN]
    <3>1. CASE LogError(m)
      BY <3>1 DEF TypeOK
    <3>2. CASE Silently(m)
      BY <3>2 DEF TypeOK
    <3> QED BY <3>1, <3>2
  <2>2. reply' \in [Messages -> [kind : {"none", "result", "toolError", "protocolError"},
                                 detail : Details]]
    BY DEF TypeOK
  <2>3. pc' = [pc EXCEPT ![m] = "returned"] /\ UNCHANGED <<fixed, alive, input, span, asked>>
    OBVIOUS
  <2> QED BY <2>1, <2>2, <2>3 DEF TypeOK
<1>2. RoutedInv' /\ CheckedInv'
  BY DEF TypeOK, RoutedInv, CheckedInv, Input, Checked, ArgFields
<1>3. AnswerInv'
  BY DEF TypeOK, AnswerInv
<1>4. SpanTellsFailure' /\ alive' = TRUE
  BY DEF TypeOK, SpanTellsFailure
<1>5. UnexpectedIsLogged' /\ AskedInScope'
  BY DEF TypeOK, UnexpectedIsLogged, AskedInScope
<1> QED BY <1>1, <1>2, <1>3, <1>4, <1>5

LEMMA MiddlewareStepInv ==
  ASSUME IInv, NEW m \in Messages,
         \/ StartSpan(m) \/ UnknownTool(m) \/ KnownTool(m) \/ OtherMethod(m)
         \/ Panic(m) \/ EndSpan(m)
  PROVE  IInv'
<1>1. CASE StartSpan(m)
  \* Parameters that are missing are not looked into: the process lives.
  <2>1. /\ pc[m] = "arrived" /\ pc' = [pc EXCEPT ![m] = "routed"]
        /\ span' = [span EXCEPT ![m] = "open"]
        /\ UNCHANGED <<fixed, alive, input, reply, logged, asked>>
    BY <1>1 DEF StartSpan, LooksIntoParams, Goto
  <2> USE DEF IInv, TypeOK, fixed
  <2>2. TypeOK'
    BY <2>1
  <2>3. RoutedInv' /\ CheckedInv'
    BY <2>1 DEF RoutedInv, CheckedInv, Input, Checked, ArgFields
  <2>4. AnswerInv'
    BY <2>1 DEF AnswerInv
  <2>5. UnexpectedIsLogged' /\ SpanTellsFailure' /\ AskedInScope'
    BY <2>1 DEF UnexpectedIsLogged, SpanTellsFailure, AskedInScope
  <2> QED BY <2>1, <2>2, <2>3, <2>4, <2>5
<1>2. CASE UnknownTool(m)
  BY <1>2, AnswerStepInv DEF UnknownTool, Details, Silently
<1>3. CASE KnownTool(m)
  BY <1>3 DEF KnownTool, Goto, fixed, IInv, TypeOK, RoutedInv, CheckedInv, AnswerInv,
       UnexpectedIsLogged, SpanTellsFailure, AskedInScope, Input, Checked, ArgFields
<1>4. CASE OtherMethod(m)
  BY <1>4, AnswerStepInv DEF OtherMethod, Details, Silently
<1>5. CASE Panic(m)
  BY <1>5, AnswerStepInv DEF Panic, Details
<1>6. CASE EndSpan(m)
  BY <1>6 DEF EndSpan, MarkOutside, Goto, fixed, IInv, TypeOK, RoutedInv, CheckedInv,
       AnswerInv, UnexpectedIsLogged, SpanTellsFailure, AskedInScope, Input, Checked,
       ArgFields
<1> QED BY <1>1, <1>2, <1>3, <1>4, <1>5, <1>6

LEMMA ToolStepInv ==
  ASSUME IInv, NEW m \in Messages,
         ValidateArgs(m) \/ Scope(m) \/ OdasAnswers(m) \/ FanOutPanic(m)
  PROVE  IInv'
<1>1. CASE ValidateArgs(m)
  <2>1. CASE \E f \in ArgFields(m) : Input(m)[f] = Refused
    BY <1>1, <2>1, AnswerStepInv DEF ValidateArgs, Details, Silently
  <2>2. CASE \A f \in ArgFields(m) : Input(m)[f] # Refused
    <3> USE DEF IInv, TypeOK, RoutedInv, CheckedInv, AnswerInv, UnexpectedIsLogged,
                SpanTellsFailure, AskedInScope, Goto, fixed
    <3>1. Input(m) \in [Fields -> InputValues]
      BY <1>1, <2>2, InputTyped DEF ValidateArgs
    <3>2. input' = [input EXCEPT ![m] = Input(m)] /\ pc' = [pc EXCEPT ![m] = "scope"]
      BY <1>1, <2>2 DEF ValidateArgs
    <3>3. \A n \in Messages : ArgFields(n)' = ArgFields(n) /\ Input(n)' = Input(n)
      BY <1>1 DEF ValidateArgs, Input, Checked, ArgFields
    <3>4. TypeOK'
      BY <1>1, <2>2, <3>1, <3>2 DEF ValidateArgs, InputValues
    <3>5. RoutedInv' /\ CheckedInv'
      BY <1>1, <2>2, <3>2, <3>3 DEF ValidateArgs
    <3> QED BY <1>1, <2>2, <3>2, <3>4, <3>5 DEF ValidateArgs, NoReply
  <2> QED BY <2>1, <2>2
<1>2. CASE Scope(m)
  <2>1. CASE InScope(m)
    <3>1. /\ pc[m] = "scope" /\ pc' = [pc EXCEPT ![m] = "odas"]
          /\ asked' = [asked EXCEPT ![m] = TRUE]
          /\ UNCHANGED <<fixed, alive, input, reply, span, logged>>
      BY <1>2, <2>1 DEF Scope, Goto
    <3> USE DEF IInv, TypeOK, fixed
    <3>2. TypeOK'
      BY <3>1
    <3>3. RoutedInv' /\ CheckedInv'
      BY <3>1 DEF RoutedInv, CheckedInv, Input, Checked, ArgFields
    <3>4. AnswerInv' /\ UnexpectedIsLogged' /\ SpanTellsFailure'
      BY <3>1 DEF AnswerInv, UnexpectedIsLogged, SpanTellsFailure
    <3>5. AskedInScope'
      BY <2>1, <3>1 DEF AskedInScope, InScope, RoutedInv
    <3> QED BY <3>1, <3>2, <3>3, <3>4, <3>5
  <2>2. CASE ~InScope(m)
    BY <1>2, <2>2, AnswerStepInv DEF Scope, Details, Silently
  <2> QED BY <2>1, <2>2
<1>3. CASE OdasAnswers(m)
  BY <1>3, AnswerStepInv DEF OdasAnswers, Details, Silently
<1>4. CASE FanOutPanic(m)
  BY <1>4, AnswerStepInv DEF FanOutPanic, UnexpectedError, PrefixOnly, Details
<1> QED BY <1>1, <1>2, <1>3, <1>4

LEMMA StepInv == IInv /\ [Next]_vars => IInv'
<1> SUFFICES ASSUME IInv, [Next]_vars PROVE IInv'
  OBVIOUS
<1>1. CASE Next
  BY <1>1, MiddlewareStepInv, ToolStepInv DEF Next, Step
<1>2. CASE UNCHANGED vars
  BY <1>2 DEF vars, IInv, TypeOK, RoutedInv, CheckedInv, AnswerInv, UnexpectedIsLogged,
         SpanTellsFailure, AskedInScope, Input, Checked, ArgFields
<1> QED BY <1>1, <1>2

\* Which tool a message was routed to, what its check made of the arguments and
\* when its answer was made stay as every later step relies on them.
THEOREM Inductive == Spec => []IInv
  BY InitInv, StepInv, PTL DEF Spec

-----------------------------------------------------------------------------
(* What the invariant gives. *)

\* Every variable keeps its type, and so an answer is always of a kind and with
\* a detail that the server gives (tools.go:52-55).
THEOREM TypeCorrect == Spec => []TypeOK
<1>1. IInv => TypeOK
  BY DEF IInv
<1> QED BY <1>1, Inductive, PTL

\* A failure nobody meant the caller to read leaves an error line
\* (tools.go:52-55, recover.go:25).
THEOREM UnexpectedAlwaysLogged == Spec => []UnexpectedIsLogged
<1>1. IInv => UnexpectedIsLogged
  BY DEF IInv
<1> QED BY <1>1, Inductive, PTL

\* The span of an answered message is marked as an error exactly when its
\* caller was answered with one (server.go:52-54).
THEOREM SpanAlwaysTells == Spec => []SpanTellsFailure
<1>1. IInv => SpanTellsFailure
  BY DEF IInv
<1> QED BY <1>1, Inductive, PTL

\* ODAS is asked only for a tool that exists and with the headers it needs
\* (headers.go:39-57, requirements.go:80-91).
THEOREM AlwaysAskedInScope == Spec => []AskedInScope
<1>1. IInv => AskedInScope
  BY DEF IInv
<1> QED BY <1>1, Inductive, PTL

\* An argument that conforms to its schema, by the kind of the argument.
LEMMA ConformsByField ==
  ASSUME NEW f \in Fields, NEW v, Conforms(f, v)
  PROVE  /\ f \in {"query", "requirementId", "key", "node_id"} =>
              v.type \in {"empty", "text", "choice"}
         /\ f = "forChildAltitude" => v.type \in {"choice", "null"}
         /\ f \in {"parent_id", "cursor"} => v.type \in {"empty", "text", "choice", "null"}
         /\ f \in {"page", "matches"} => v.type = "int" /\ v.n >= 1
         /\ f = "limit" => v.type = "int" /\ v.n \in 1..MaxLimit
         /\ f = "depth" => v.type = "int" /\ v.n \in 1..MaxListDepth
<1>1. CASE f \in {"query", "requirementId", "key", "node_id"}
  BY <1>1, SchemaSays DEF Conforms, Required, Optional
<1>2. CASE f \in {"forChildAltitude", "parent_id", "cursor"}
  BY <1>2, SchemaSays DEF Conforms, Nullable
<1>3. CASE f \in {"page", "matches", "limit", "depth"}
  <2>1. v.type = "int" /\ InBounds(f, v.n)
    BY <1>3, SchemaSays DEF Conforms, Integer
  <2>2. v.n \in Int
    BY <2>1 DEF Conforms, InputValues, Values
  <2> QED BY <1>3, <2>1, <2>2, SchemaSays DEF InBounds, Integer
<1> QED BY <1>1, <1>2, <1>3, SchemaSays

\* An argument no other spelling of which sorts after its name is decoded as it
\* was checked, or the decoding fails.
LEMMA DecodedAsChecked ==
  ASSUME NEW m \in Messages, NEW f \in Fields, f \in ArgFields(m), f \notin Overridable,
         IsRequest(request[m]), Input(m)[f] # Refused
  PROVE  Input(m)[f] = Checked(m, f)
<1>1. request[m].extra[f].after = Tag("missing")
  BY DEF IsRequest
<1> QED BY <1>1 DEF Input, DecodedAnyCase

\* What a handler gets conforms to its tool's schema, whatever further
\* arguments came along (validate.go:14-18, requirements.go:42-49,
\* ontology.go:41-49).
THEOREM InputAlwaysConforms == Spec => []InputConforms
<1>1. IInv => InputConforms
  <2> SUFFICES ASSUME IInv, NEW m \in Messages, pc[m] \in {"scope", "odas"}
               PROVE  HandlerInputConforms(m)
    BY DEF InputConforms
  <2> DEFINE tool == request[m].tool
  <2>1. /\ IsRequest(request[m]) /\ platform \in Platforms
        /\ input[m] = Input(m) /\ tool \in Tools
        /\ \A f \in ArgFields(m) : Input(m)[f] # Refused
    BY ScenariosAssumption DEF IInv, TypeOK, RoutedInv, CheckedInv, IsRequest
  <2>2. ArgFields(m) \subseteq Fields /\ \A f \in ArgFields(m) : Conforms(f, input[m][f])
    BY <2>1, InputTyped DEF IInv
  <2>3. "query" \in ArgFields(m) => input[m].query.type # "empty"
    <3> SUFFICES ASSUME "query" \in ArgFields(m) PROVE input[m].query.type # "empty"
      OBVIOUS
    <3>1. input[m].query = Checked(m, "query") /\ Checked(m, "query") # Refused
      BY <2>1, <2>2, DecodedAsChecked DEF Overridable
    <3>2. request[m].args["query"] \in Values
      BY <2>1, <2>2 DEF IsRequest
    <3>3. Schema["query"].min > 0
      BY SchemaSays DEF Required
    <3> QED BY <2>1, <2>2, <3>1, <3>2, <3>3, ValidatedConforms DEF Checked
  <2>4. CASE tool = "listing"
    <3>1. ArgFields(m) = {"query", "forChildAltitude", "page", "limit"}
      BY <2>4 DEF ArgFields, ToolFields
    <3> QED BY <2>2, <2>3, <2>4, <3>1, ConformsByField DEF HandlerInputConforms
  <2>5. CASE tool = "node"
    <3>1. ArgFields(m) = {"requirementId"}
      BY <2>5 DEF ArgFields, ToolFields
    <3> QED BY <2>2, <2>5, <3>1, ConformsByField DEF HandlerInputConforms
  <2>6. CASE tool = "browse"
    <3>1. ArgFields(m) = {"parent_id", "cursor", "depth"}
      BY <2>6 DEF ArgFields, ToolFields
    <3> QED BY <2>2, <2>6, <3>1, ConformsByField DEF HandlerInputConforms
  <2>7. CASE tool = "search"
    <3>1. ArgFields(m) = {"query", "matches"}
      BY <2>7 DEF ArgFields, ToolFields
    <3> QED BY <2>2, <2>3, <2>7, <3>1, ConformsByField DEF HandlerInputConforms
  <2>8. CASE tool = "lookup"
    <3>1. ArgFields(m) = {"key", "node_id"}
      BY <2>8 DEF ArgFields, ToolFields
    <3> QED BY <2>2, <2>8, <3>1, ConformsByField DEF HandlerInputConforms
  <2> QED BY <2>1, <2>4, <2>5, <2>6, <2>7, <2>8 DEF HandlerInputConforms
<1> QED BY <1>1, Inductive, PTL

\* The names that a further spelling sorts after are all ExtraArgumentsIgnored
\* needs to fail: of any other argument a handler gets what was checked, whatever
\* other spellings of it came along (validate.go:17).
THEOREM ExtrasReplaceOnlyOverridable ==
  Spec => [](\A m \in Messages : pc[m] \in {"scope", "odas"} =>
               \A f \in ArgFields(m) \ Overridable : input[m][f] = Checked(m, f))
<1>1. IInv => \A m \in Messages : pc[m] \in {"scope", "odas"} =>
                \A f \in ArgFields(m) \ Overridable : input[m][f] = Checked(m, f)
  <2> SUFFICES ASSUME IInv, NEW m \in Messages, pc[m] \in {"scope", "odas"},
                      NEW f \in ArgFields(m) \ Overridable
               PROVE  input[m][f] = Checked(m, f)
    OBVIOUS
  <2>1. input[m] = Input(m) /\ f \in Fields /\ Input(m)[f] # Refused
    BY InputTyped DEF IInv, RoutedInv, CheckedInv
  <2>2. IsRequest(request[m])
    BY ScenariosAssumption DEF IInv, TypeOK
  <2> QED BY <2>1, <2>2, DecodedAsChecked
<1> QED BY <1>1, Inductive, PTL

=============================================================================
