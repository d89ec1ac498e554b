----------------------------- MODULE ToolCall ------------------------------
(***************************************************************************)
(* One MCP message on its way through the server: the span around it, the  *)
(* recovery from panics, the answer to unknown tools, and addTool's own    *)
(* pipeline of validation, headers, ODAS and the result.  Messages are     *)
(* served concurrently, each on a goroutine of the SDK, in one process.    *)
(***************************************************************************)
EXTENDS ArgsCheck

CONSTANTS
  Messages,  \* messages in flight
  Scenarios  \* what they may carry together

Methods == {"tools/call", "prompts/get", "notification"}

(***************************************************************************)
(* params: the message has parameters (a notification arrives with a typed *)
(* nil pointer).  args: the tool's arguments; extra: further ones, under   *)
(* other spellings of the same names, at most one on either side of each   *)
(* in byte order.  token, project: the two headers, as the HTTP transport  *)
(* hands them over; stdio has none.                                        *)
(***************************************************************************)
IsRequest(q) ==
  /\ q.method \in Methods /\ q.params \in BOOLEAN /\ q.tool \in Tools \cup {"unknown"}
  /\ q.args \in [Fields -> Values] /\ q.extra \in [Fields -> Spellings]
  /\ \A f \in Fields \ Overridable : q.extra[f].after = Tag("missing")
  /\ q.token \in BOOLEAN /\ q.project \in BOOLEAN

ASSUME ScenariosAssumption ==
  \A s \in Scenarios : DOMAIN s = Messages /\ \A m \in Messages : IsRequest(s[m])

VARIABLES
  platform, \* what int64 makes of a float out of range, on this build
  alive,    \* the process runs
  request,  \* per message: what it carries
  pc,       \* per message: where its goroutine is
  input,    \* per message: the arguments the handler got
  reply,    \* per message: kind and detail of the answer
  span,     \* per message: "none", "open", "ok" or "error"
  logged,   \* per message: an error line was written about it
  asked     \* per message: ODAS was asked

vars == <<platform, alive, request, pc, input, reply, span, logged, asked>>

fixed == <<platform, request>>

NoReply == [kind |-> "none", detail |-> "none"]
NoInput == [f \in Fields |-> Tag("missing")]

Init ==
  /\ platform \in Platforms
  /\ alive = TRUE
  /\ request \in Scenarios
  /\ pc = [m \in Messages |-> "arrived"]
  /\ input = [m \in Messages |-> NoInput]
  /\ reply = [m \in Messages |-> NoReply]
  /\ span = [m \in Messages |-> "none"]
  /\ logged = [m \in Messages |-> FALSE]
  /\ asked = [m \in Messages |-> FALSE]

\* An error line about the message.
Silently(m) == UNCHANGED logged
LogError(m) == logged' = [logged EXCEPT ![m] = TRUE]

Goto(m, l) == pc' = [pc EXCEPT ![m] = l]

\* The handler chain returns with an answer; the span is still to end.
Answer(m, kind, detail) ==
  /\ reply' = [reply EXCEPT ![m] = [kind |-> kind, detail |-> detail]]
  /\ Goto(m, "returned")

-----------------------------------------------------------------------------
(***************************************************************************)
(* The middleware.                                                         *)
(***************************************************************************)
\* extractTraceContext looks into the parameters only when there are some.
LooksAnyway(m) == TRUE
LooksIntoParams(m) == request[m].params

\* tracingMiddleware starts the span.  It runs outside the recovery: looking
\* into a nil pointer would end the process.
StartSpan(m) ==
  /\ alive /\ pc[m] = "arrived"
  /\ IF LooksIntoParams(m) /\ ~request[m].params
     THEN alive' = FALSE /\ UNCHANGED <<pc, span>>
     ELSE span' = [span EXCEPT ![m] = "open"] /\ Goto(m, "routed") /\ UNCHANGED alive
  /\ UNCHANGED <<fixed, input, reply, logged, asked>>

\* unknownToolMiddleware answers for a tool that does not exist.
UnknownTool(m) ==
  /\ alive /\ pc[m] = "routed"
  /\ request[m].method = "tools/call" /\ request[m].tool = "unknown"
  /\ Answer(m, "toolError", "unknown")
  /\ UNCHANGED <<fixed, alive, input, span, logged, asked>>

KnownTool(m) ==
  /\ alive /\ pc[m] = "routed"
  /\ request[m].method = "tools/call" /\ request[m].tool # "unknown"
  /\ Goto(m, "validate")
  /\ UNCHANGED <<fixed, alive, input, reply, span, logged, asked>>

\* Every other method is the SDK's to serve.
OtherMethod(m) ==
  /\ alive /\ pc[m] = "routed"
  /\ request[m].method # "tools/call"
  /\ \/ Answer(m, "result", "data")
     \/ Answer(m, "protocolError", "sdk")
  /\ UNCHANGED <<fixed, alive, input, span, logged, asked>>

\* recoverMiddleware makes an internal error of a panic on the message's own
\* goroutine, and logs it.
Panic(m) ==
  /\ alive /\ pc[m] \in {"routed", "validate", "scope", "odas"}
  /\ Answer(m, "protocolError", "internal")
  /\ LogError(m)
  /\ UNCHANGED <<fixed, alive, input, span, asked>>

\* The span ends, marked with the error or the tool error it sees returned;
\* being outermost, it sees what the recovery made of a panic.
MarkInside(r) == IF r.kind = "toolError" \/ r.detail = "sdk" THEN "error" ELSE "ok"
MarkOutside(r) == IF r.kind # "result" THEN "error" ELSE "ok"

EndSpan(m) ==
  /\ alive /\ pc[m] = "returned"
  /\ span' = [span EXCEPT ![m] = MarkOutside(reply[m])]
  /\ Goto(m, "replied")
  /\ UNCHANGED <<fixed, alive, input, reply, logged, asked>>

-----------------------------------------------------------------------------
(***************************************************************************)
(* addTool.                                                                *)
(***************************************************************************)
ArgFields(m) == ToolFields[request[m].tool]

Checked(m, f) == Validated(f, request[m].args[f], platform)
Input(m) == [f \in Fields |-> IF f \in ArgFields(m)
                              THEN DecodedAnyCase(f, Checked(m, f), request[m].extra[f])
                              ELSE Tag("missing")]

\* The problems are answered all in one message; otherwise the arguments, with
\* defaults applied and values coerced, are decoded for the handler.
ValidateArgs(m) ==
  /\ alive /\ pc[m] = "validate"
  /\ IF \E f \in ArgFields(m) : Input(m)[f] = Refused
     THEN Answer(m, "toolError", "args") /\ UNCHANGED input
     ELSE Goto(m, "scope") /\ input' = [input EXCEPT ![m] = Input(m)] /\ UNCHANGED reply
  /\ UNCHANGED <<fixed, alive, span, logged, asked>>

\* The token, and for the requirement tools the project, in this order, each a
\* failure of its own when its header is missing.
TokenAlone(m) == request[m].token
InScope(m) == request[m].token /\ (request[m].tool \in ProjectTools => request[m].project)

Scope(m) ==
  /\ alive /\ pc[m] = "scope"
  /\ IF InScope(m)
     THEN /\ Goto(m, "odas")
          /\ asked' = [asked EXCEPT ![m] = TRUE]
          /\ UNCHANGED reply
     ELSE /\ Answer(m, "toolError", IF request[m].token THEN "project" ELSE "token")
          /\ UNCHANGED asked
  /\ UNCHANGED <<fixed, alive, input, span, logged>>

\* The client's answer: a value, which json.Marshal cannot refuse (an output is
\* made of texts, whole numbers, booleans and lists and maps of those), or a
\* failure meant for the model to read.
OdasAnswers(m) ==
  /\ alive /\ pc[m] = "odas"
  /\ Answer(m, "result", "data") \/ Answer(m, "toolError", "odas")
  /\ UNCHANGED <<fixed, alive, input, span, logged, asked>>

\* An error that is no ToolError keeps its text out of the answer and is
\* logged.
FullText == "panic text"
PrefixOnly == "none"
UnexpectedError(m) == Answer(m, "toolError", PrefixOnly) /\ LogError(m)

\* A panic on a goroutine that Node fans out to becomes such an error.
FanOutPanic(m) ==
  /\ alive /\ pc[m] = "odas" /\ request[m].tool = "node"
  /\ UnexpectedError(m)
  /\ UNCHANGED <<fixed, alive, input, span, asked>>

Step(m) == \/ StartSpan(m) \/ UnknownTool(m) \/ KnownTool(m) \/ OtherMethod(m)
           \/ Panic(m) \/ EndSpan(m)
           \/ ValidateArgs(m) \/ Scope(m) \/ OdasAnswers(m) \/ FanOutPanic(m)

Next == \E m \in Messages : Step(m)

Spec == Init /\ [][Next]_vars

\* Goroutines run; ODAS answers or the client's timeout ends the wait.
FairSpec == Spec /\ \A m \in Messages : WF_vars(Step(m))

-----------------------------------------------------------------------------
(***************************************************************************)
(* Properties.                                                             *)
(***************************************************************************)
Details == {"none", "data", "unknown", "sdk", "internal", "args", "token", "project", "odas"}

\* An answer is one of the kinds the server gives, and its detail is never the
\* text of an unexpected failure (tools.go:52-55).
TypeOK ==
  /\ alive \in BOOLEAN /\ platform \in Platforms
  /\ request \in Scenarios
  /\ pc \in [Messages -> {"arrived", "routed", "validate", "scope", "odas", "returned",
                          "replied"}]
  /\ input \in [Messages -> [Fields -> Values \cup {JsonInt(n) : n \in Platforms}]]
  /\ reply \in [Messages -> [kind : {"none", "result", "toolError", "protocolError"},
                             detail : Details]]
  /\ span \in [Messages -> {"none", "open", "ok", "error"}]
  /\ logged \in [Messages -> BOOLEAN]
  /\ asked \in [Messages -> BOOLEAN]

\* Every message is answered, whatever the others carry and wherever their
\* handling panics: none takes down the process the others are served in
\* (server/recover.go:16-19, odas/recover.go:10-12, tracing.go:89-93).
EveryMessageAnswered == \A m \in Messages : <>(pc[m] = "replied")

\* A failure nobody meant the caller to read leaves an error line: the answer
\* alone would tell no one what happened (tools.go:52-55, recover.go:25).
UnexpectedIsLogged ==
  \A m \in Messages :
    reply[m].kind \in {"toolError", "protocolError"} /\ reply[m].detail \in {"none", "internal"}
      => logged[m]

\* The span of an answered message is marked as an error exactly when the
\* caller was answered with one, a panic included (server.go:52-54).
SpanTellsFailure ==
  \A m \in Messages : pc[m] = "replied" =>
    (span[m] = "error" <=> reply[m].kind # "result")

\* ODAS is asked only for a tool that exists, and with every header the tool
\* needs: no request goes out without a credential, and no requirement is read
\* outside a project (headers.go:39-57, requirements.go:80-91).
AskedInScope ==
  \A m \in Messages : asked[m] =>
    /\ request[m].method = "tools/call" /\ request[m].tool # "unknown"
    /\ request[m].token /\ (request[m].tool \in {"listing", "node"} => request[m].project)

\* What the handler of message m holds, by what its tool's schema declares:
\* required texts are there, an enum's value is one of its own, page is at
\* least 1, limit is within 1..100, depth within 1..3; the one thing that may
\* fail is an id's least length.
HandlerInputConforms(m) ==
  CASE request[m].tool = "listing" ->
         /\ input[m].query.type \in {"text", "choice"}
         /\ input[m].forChildAltitude.type \in {"choice", "null"}
         /\ input[m].page.type = "int" /\ input[m].page.n >= 1
         /\ input[m].limit.type = "int" /\ input[m].limit.n \in 1..MaxLimit
    [] request[m].tool = "browse" ->
         /\ \A f \in {"parent_id", "cursor"} :
              input[m][f].type \in {"empty", "text", "choice", "null"}
         /\ input[m].depth.type = "int" /\ input[m].depth.n \in 1..MaxListDepth
    [] request[m].tool = "search" ->
         /\ input[m].query.type \in {"text", "choice"}
         /\ input[m].matches.type = "int" /\ input[m].matches.n >= 1
    [] request[m].tool = "node" -> input[m].requirementId.type \in {"empty", "text", "choice"}
    [] request[m].tool = "lookup" ->
         \A f \in {"key", "node_id"} : input[m][f].type \in {"empty", "text", "choice"}

\* What a handler gets conforms to the schema, whatever further arguments come
\* along (validate.go:14-18, requirements.go:42-49, ontology.go:41-49).
InputConforms ==
  \A m \in Messages : pc[m] \in {"scope", "odas"} => HandlerInputConforms(m)

\* validate.go:17: "extra arguments are ignored".
ExtraArgumentsIgnored ==
  \A m \in Messages : pc[m] \in {"scope", "odas"} =>
    \A f \in ArgFields(m) : input[m][f] = Checked(m, f)

=============================================================================
