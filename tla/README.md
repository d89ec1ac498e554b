# OrivMCP: specifications, model checks and proofs

OrivMCP is an MCP server in Go. It offers an agent read-only tools over ODAS (requirement trees, device classes,
architecture selection), over HTTP or stdio, as a binary or embedded in a host program (`orivmcp.Start`). This
directory holds TLA+ modules written from its source, the TLC configurations that check them, and TLAPS proofs
about the server's life, the reading of a requirement, the paging of a listing, the handling of a message, the
binary and the lookups. Paths below are relative to `src/`.

## 1. Inventory

| Component | State | Operations | Correct when |
|---|---|---|---|
| Embedded server, `orivmcp/orivmcp.go` | run context, `done`, `err`, listener | `Start`, `run`, `Done`, `Err`, `Shutdown` | a failed start leaves nothing; a stop releases everything, is reached, and is reported truthfully to every caller |
| Runtime, `internal/app` | telemetry, log closer, HTTP client | `New`, `Preflight`, `Close` | released in the reverse order of use |
| Telemetry and log, `internal/telemetry` | three providers, a log file opened on write | `New`, `Shutdown`, `NewLogger` | an aborted start stops what it built |
| HTTP serving, `internal/server/server.go` | `http.Server`, the accepting goroutine, connections | `Serve`, `ServeHTTP`, `Preflight` | drains, cuts after 10 s, ends with its goroutine |
| MCP pipeline, `internal/server/{tracing,recover}.go`, `internal/capabilities/{tools,headers}.go` | one goroutine per message | middleware, `addTool` | every message answered; failures logged and traced |
| Argument checks, `internal/capabilities/{validate,schema}.go` | none | `validate`, `check`, `asInteger` | what a handler gets conforms to its schema |
| ODAS client, `internal/odas/base.go` | shared connection pool | `get`, `CheckHealth` | every failure becomes the right answer and the right log line |
| Requirement client, `internal/odas/requirement.go`, `internal/schemas/requirement.go` | none | `Node`, `Roots`, `Children`, `Search` | consistent detail; complete, legal, ending walks |
| Architecture and device-class clients, `internal/odas/{architecture_selection,device_class}.go`, `internal/schemas` | none | one `get` each, `UnmarshalJSON` | answers are whole and conform to their schema; the walk of a tree without cycles arrives |
| Transport guard, `internal/{server,config}/security.go` | none | `Normalize…Entry`, `matches`, `wrap` | admits what the configured lists mean |
| Configuration, `internal/config/config.go` | none | `Load`, `LoadFrom`, `reader` | the real environment wins; what cannot be meant is refused |
| Binary, `cmd/oriv-mcp` | signal context, deferred calls | `run`, `runStdio` | comes up, goes down on a signal, its status tells failure |

The host calls `Start`, which reads the configuration, binds, builds the runtime and spawns `run`. `run` starts the
probe of ODAS and `server.Serve`, which spawns `http.Server.Serve`; net/http serves each connection on a goroutine
nobody joins. A request goes through the guard, the SDK, the three middlewares and `addTool` to a client, and the
client through one shared `http.Client` to ODAS. The binary does the same as a host over HTTP; over stdio it builds the
runtime itself, probes ODAS and only then runs one session of the SDK. The parts meet in the run context (cancelled by
the host, by `Shutdown` and by `run`), the `errs` and `done` channels, the pool, the logger and the providers.

What is hard: a stop that overtakes the start of `http.Server.Serve`; the listener failing under open connections; a
drain that times out; messages handled apart from their HTTP requests, which no drain waits for; `Shutdown` called by
several goroutines; a log file that reopens on a late write; two reads that cancel each other on a pool all calls
share; a tree that humans edit between reads and pages; the window ODAS echoes; panics on goroutines the recovery does
not cover; arguments and settings at the edge of a number; two ways of gathering the same variables; a payload damaged
in one place; a tree replaced while it is walked. `PROJECT.json` lists each at its line with the properties about it.

## 2. Modules

| Module | Models | Runs |
|---|---|---|
| `Lifecycle` | `Start`, `run`, `Serve`, `New`/`Close`, telemetry, log file, net/http (external), host | `lifecycle*` |
| `ServerPromise` | abstract: what the package promises its host | property `KeepsPromise`; composed in `Binary` |
| `LifecycleInvariant`, `LifecycleProofs` | the inductive invariant and the proofs | `lifecycle` (`IInv`) |
| `OdasGet` | pure: what `get` makes of a complete reply | with `NodeRead` |
| `NodeRead` | `Node`: two `get`s, errgroup, the pool, caller, editors | `node_*` |
| `NodePromise` | abstract: what a call of `Node` promises its caller | property `KeepsNodePromise` |
| `NodeReadInvariant`, `NodeReadProofs` | the inductive invariant and the proofs | `node_read` (`IInv`) |
| `ListingWalk` | the listings and an agent paging through one | `listing_*` |
| `ListingPromise` | abstract: what paging promises, without pages | property `KeepsListingPromise` |
| `ListingWalkInvariant`, `ListingWalkProofs` | the inductive invariant and the proofs | `listing_walk` (`IInv`) |
| `ArgsCheck` | pure: the check and decoding of arguments | with `ToolCall` |
| `ToolCall` | one MCP message through middleware and `addTool` | `call*` |
| `ToolCallInvariant`, `ToolCallProofs` | the inductive invariant and the proofs | `call` (`IInv`) |
| `Settings` | pure: the readers of `LoadFrom` | with `Binary` |
| `TransportGuard` | pure: allowlists, the guard, the routes | with `Binary` |
| `Binary` | the process from its flag to its exit, both transports | `binary*` |
| `BinaryInvariant`, `BinaryProofs` | the inductive invariant and the proofs | `binary` (`IInv`) |
| `Payloads`, `PayloadTypes` | pure: JSON values, the Go types of the payloads | with `Lookups` |
| `Decoding` | pure: `decode.go` for one struct, what output schemas publish of it; lemmas about both | with `Lookups` |
| `Lookups` | the seven lookup tools and an agent walking a decision tree | `lookups` |
| `LookupsInvariant`, `LookupsProofs` | the inductive invariant and the proofs | `lookups` (`IInv`) |
| `MC…` | instances for TLC | |

**Lifecycle.** One variable per piece of the code's state: `startPc` and `runPc` are the program counters of `start`
and `run` (`draining` and `join` are the two waits inside `Serve`), `acceptor` is the goroutine in `server.go:153`,
`conn` the state of each connection, `provider` and `logFile` the resources of the runtime, `runErr` the error `run`
has collected, `srvErr` is `Server.err`. A step that fails includes its clean-up, in `start` and in the functions it
called. net/http is external and modelled as `server.go` relies on it: `Serve` registers its listener unless `Shutdown`
came first; `Shutdown` closes the registered listener, waits for it and for the connections, and returns the error of
that close (`listenerClose`) or its own deadline's, in which case `Close` cuts the connections without waiting for
handlers. `detached` says that some message is handled though its HTTP request is over: cut, or handled by the SDK
under the context of its session, not of the request that brought it. Such a handler may write to the log at any time.
A path the `ServeMux` does not take (`~goodPath`) makes `run` panic after `Start` has returned; its deferred calls
cancel and close `done` before the process is gone (`panicked`). `CloseIdleConnections` in `Runtime.Close` has no effect
on what is modelled. The counts of connections and callers and the kinds of setup are constants.

**NodeRead** keeps one program counter per call and read: `begin`, `pool` (waiting for a connection), `sent` (request
out), `body` (headers in), `done`; a panic may end it at any of them. `base` tells a base URL that is empty, or one no
request can be made of, from a usable one. A record tells its parent in up to three fields, of which
`ConfirmedParentID` takes the first that does; the older ones may say anything. The reply is drawn when the headers
arrive, from what ODAS records at that moment, and judged when the body has been read. `CtxDone` is the errgroup's
context. A path is abstracted to its last element. What is fixed for a behaviour (which calls, the pool, the replies,
the places, how many moves) is its `scope`. `window` (the parents recorded during a call), `failedBy` and the kind of
`line` are histories for the properties. `NodePromise` knows neither reads nor replies: a call begins, may meet
trouble, and answers with a failure if it did, or else with a parent of its window and a path to one of its window, or
none.

**ListingWalk** abstracts a row to its place in the sort and its altitude. ODAS (external) answers the window asked
for, or a smaller one, says which, and may leave the window out when it applied the one asked for. The agent follows
`hasMore` and goes on after the page the listing names. `Times` is Go's int multiplication with `IntSpan` values.
`ListingPromise` knows no pages, sizes or totals, only the matches and those passed: while a walk is calm (no edit, no
lost payload, a start that an int can reckon with) a page brings the next of them, in their order, and says whether it
was the last; afterwards it brings matches and nothing else. The rows before the start page count as passed.

**ToolCall** follows one message: `arrived`, `routed`, `validate`, `scope`, `odas`, `returned`, `replied`. A panic on
the message's own goroutine may happen anywhere inside the recovery; one on a goroutine of `Node` becomes an error.
`ArgsCheck` keeps, of a JSON value, its type and the number it stands for. Its tools stand for kinds of tools. A
further spelling of an argument's name (`Spellings`) comes before or after the name in byte order, as `json.Marshal`
writes the checked object; one after it replaces the checked value, one of a type the field does not take makes the
decoding fail. A name has a spelling after it if it has a capital (the lower case), or an s or a k, for which
`encoding/json` also takes U+017F and U+212A. The failures of `json.Marshal` in `tools.go:92-99` are no step: an output
is made of texts, whole numbers, booleans, lists and maps of those, which it cannot refuse.

**Binary** follows the main goroutine: `flags`, `dotenv`, `gather` (the keys of the file in any order, then the
environment), `load`, `build`, then `preflight`, `session` and `deferred` over stdio or `serving` over HTTP, and
`exited`. Over stdio the file is put into the settings first and the environment after it (`config.Load`), over HTTP
both become one list of pairs (`environWithDotEnv`), and `Settings` takes them from there. A variable is its name and
spelling; a text is what its reader makes of it. Of the embedded server it uses the actions of `ServerPromise`, which
`Lifecycle` is proved to implement, so both sides of that interface are covered. How the SDK ends a session is
external. `logFile` follows a log that is written to a file, as in every environment but the sandbox. In
`TransportGuard` a host is its form (a name, an IPv6 literal with or without brackets), an id and a port, and an origin
has a scheme. `HasPrefix` is the test of `security.go:31`, which takes the colon after a scheme for that of a port when
an entry is nothing but the scheme's name.

**Lookups.** `PayloadTypes` writes each payload's struct down as data (fields, type, required or not). `Decoding`
decodes one struct of them (`UnmarshalJSON`, following `newObject`, `required`, `optional`, `decodeInto` and `orEmpty`),
given how the structs within it are decoded; as each has an `UnmarshalJSON` of its own, the outer calling the inner,
`Lookups` instantiates it once per level (`Inner`, `Middle`, `Outer`). `Published` is the output schema and `Acceptable`
the reference definition, from the package's own account of what it accepts. `Lookups` adds the agent, who takes the
answers of a tree it holds or asks for one question after the other while ODAS (external) may serve another version.

## 3. Runs

Passing runs; deadlock is not checked since every system here may come to rest. `lifecycle` takes two minutes,
`call` and `lookups` between one and two, the others less.

| Run | Bounds | Shows |
|---|---|---|
| `lifecycle` | 2 connections, 2 callers, all 64 setups, fairness | nothing left by a failed start; what is released at `done`; after a stop that drained nothing is connected, and only a handler without a request opens the log again; telemetry is last; every answer of `Shutdown` is true; refinement of `ServerPromise`; the server stops when asked or when its listener fails, and `Shutdown` answers; the invariant of the proofs, types included |
| `node_read` | one call: every reply, every way of a record to tell its parent, 2 parents, 2 reparentings; two calls: a pool of 1; fairness | refinement of `NodePromise`; consistent detail, genuine and logged failures, no read left behind; a failed or abandoned call is answered though ODAS never answers; the invariant of the proofs, types included |
| `listing_walk` | 3 rows, all altitudes, limits 1–3, caps 1, 2, 5, start pages 1, 11 and 31, one edit, an int of 64 values, fairness | refinement of `ListingPromise`: each page brings the next matches until none is left; walks end, candidates legal, `hasMore` right while its product fits an int; the invariant of the proofs, types included |
| `call` | every kind of value for every argument, with a further spelling before and after it; 2 messages of every kind; fairness | handlers get what the schema says; failures logged and traced, ODAS asked in scope; every message answered; the invariant of the proofs, types included |
| `binary` | one variable in 2 spellings, in the file and up to twice in the environment; any 2 numeric, list or path settings at once; every kind of entry against every request; fairness | the environment wins on both transports; unusable settings are refused; served are exactly the admissible requests and those of an origin whose scheme an entry is the name of; exit status, closing of the log, end on a signal, start with usable settings; the invariant of the proofs, types included |
| `lookups` | a sound payload of each tool and all that differ in one place; two versions of a tree; trees whose answers lead round; fairness | answers conform and are whole; the walk of a tree that can be walked and leads nowhere round ends with an architecture; the invariant of the proofs, types included |

Why the bounds suffice: connections and callers interact only through "is any left" and "has it stopped", so two of
each already show every order. One call of `Node` never sees another but through the pool, which two calls on one
connection exhaust. Three rows give full, partial and empty last pages for every window
up to three rows, and a cap below, at and above the limit. Messages share nothing but the process. Settings are read
independently of each other, so two wrong ones show that both are reported; an entry and a request are compared part by
part, and each part takes every kind of value. Decoding treats each field alone, so payloads wrong in one place reach
every branch of it at every depth. The proofs remove the bounds for every safety property.

Runs that find what the code does against what it says (each a counterexample of a few steps):

| Run | Said | Done |
|---|---|---|
| `lifecycle_accept` | `Done`: everything released (`orivmcp.go:153`) | after a listener failure connections stay open and served |
| `node_torn` | the path ends at the direct parent (`schemas/requirement.go:370`) | two unsynchronised reads |
| `listing_edits` | paging cannot skip or repeat (`schemas/requirement.go:346`) | pages are offsets into a list humans edit |
| `binary_boot` | a dead dependency does not keep the server from booting (`base.go:257`) | with an accepted timeout of less than a nanosecond, of NaN or beyond an int64 there is no timeout, and over stdio the preflight waits for good |
| `call_extra` | extra arguments are ignored (`validate.go:17`) | one under another spelling of a name replaces the checked one |
| `lifecycle_detached` | `Shutdown` has the log file closed and returns once that has finished (`orivmcp.go:165`) | a message handled apart from its request outlives a clean drain, and its record opens the file again |

The models also show, without a run of their own: handlers of connections cut after the drain timed out go on past
`Serve` (`detached` after "join"); an error of closing a listener that is closed makes `Err` of a clean stop
(`ServeCancelled`); a malformed `MCP_PATH` ends the process after `Start` has returned, though `Start` is said to
return a server that is reachable (`orivmcp.go:61`; `RunBegin`, `BuildHandler`); an origin entry that is a scheme's
name admits every origin of that scheme (`NamesScheme`), which `.env.example:87` does not say; a reply without a
payload is an empty listing, though empty is said to mean that nothing matched (`schemas/requirement.go:349`;
`ReadNoPayload`); a tree that is republished between two questions need not have the `next` an answer gave
(`Undisturbed`); a `Shutdown` whose context ends after `done` may still give the context's error (`ShutdownReturns`); a
read cancelled while its body arrives is logged (`BodyFails`), though `base.go:301` calls that not worth a line; an
ancestors reply without a payload is an empty path for a requirement that has a parent (`DetailConsistent` speaks of
replies with one); on a far page the product behind `hasMore` wraps (`HasMoreTells` excludes it); `MCP_PATH=/` is a
catch-all, so that no path is unknown (`Guarded`); of two spellings of a name in one `.env` file either may win
(`TakeDotEnv`); an unbracketed IPv6 entry admits no request that a URL can name (`hasExplicitPort`); `runStdio` drops
what `Close` returns (`RunDeferred`); and an answer of a decision tree that leads nowhere, or round in a circle, is
passed on (`WalkArrives` excludes both).

**Fairness.** `Lifecycle`: weak fairness of `run`'s own steps (its drain ends by a timer, its flush by a timeout), of
the accepting goroutine, of a `Shutdown` that can return, and of the probe only once its context is done; after a panic
neither of the last two is owed, since the process ends. Nothing is assumed of connections, handlers, callers' contexts
or ODAS. `NodeRead`: a read whose context is done fails; ODAS may never answer. `ListingWalk`: the agent goes on.
`ToolCall`: goroutines run and ODAS is bounded by the client's timeout. `Lookups`: the agent asks its next question and
the tools answer; nothing of who publishes trees. `Binary`: the main goroutine runs, a probe with a done context or a
timeout that bounds gives up, the SDK ends a session whose context is done, and a server asked to stop stops, which
`lifecycle` checks; nothing of ODAS, the client or signals.

## 4. Proofs

`LifecycleProofs` proves, for any sets of connections and callers and any set of setups (the only assumption is
`SetupsAssumption`, the type of a setup), every safety property of `Lifecycle` that the passing runs check, and the
refinement of `ServerPromise`.

The safety properties are not inductive. That nothing is left at `done` rests on what each stage of the stop could rely
on, and that on how the accepting goroutine and `Shutdown` can overtake each other; `IInv` collects it: `StartInv`
(until the server is up nothing runs), `AcceptorInv` (a serving acceptor after `Shutdown` has a closed listener; none
is serving once the drain is over), `StopInv` (which stage implies cancelled, probe over, providers stopped), `ErrInv`
(what an error says of the connections: without `accept` none is accepted any more, without `deadline` none is left)
and `ShutdownTruthful`. That only a handler without a request opens a closed log after a stop that drained is an action
property: under `IInv` no other writer of the log is left then (`QuietAfterCleanStop`). `InitInv`, `StartStepInv`,
`RunStepInv` and `OtherStepInv` prove that it is inductive, one step per action; each property then follows from it.
For the refinement `InitPromise` and `StartStepPromise`, `RunStepPromise`, `OtherStepPromise` map every action, under
the invariant, to a step of `ServerPromise` or a stutter: `ServeFailed` and `ServeCancelled` are its `BeginStop`,
`Finish` its `Stop`, a `RunBegin` that panics its `Crash`.

`NodeReadProofs` proves, for any calls, parents, replies, pool and number of reparentings (assuming the types of
`Scopes` and that "root" names no requirement), every safety property of `NodeRead` that the passing run checks, and
the refinement of `NodePromise`. Here too the properties speak only of a call that has answered, and hold because of
what its reads had gathered long before. `IInv` keeps it: `ReadsInv` (reads run only under a call that waits, and have
an outcome from the headers on), `FirstInv` (the kept failure is of a read that is over, was no cancellation unless the
caller left, and is on record), `ReplyInv` (what a reply said was so at a moment of the call; a failure found in it
will be logged; with no failure kept every read that is over succeeded) and `WindowInv`. `ParentConfirmed` says that of
any record ODAS may write the parent taken is the requirement's. `OutcomeFacts` states what
`get` makes of a reply; `RunningRead` and `ReturnInv` are the lemma every returning read uses, so that `ReadStepInv`
has only to say with what outcome and under which context each step returns. `OtherStepInv` has the steps of calls,
callers and editors. For the refinement a read's step is `Fail` or a stutter (`ReadStepPromise`), and `Answer` is the
step where `ReplyInv` is needed: it puts the detail into the window (`OtherStepPromise`).

`ToolCallProofs` proves every safety property of `call` for any number of messages and anything they may carry
(`ScenariosAssumption` only types it). `InputConforms` is about the value a handler holds two steps after the check;
`IInv` keeps that the tool was routed to (`RoutedInv`), that a handler past the check holds what the check made of the
arguments and none of them is a problem (`CheckedInv`), and when an answer and a span are there (`AnswerInv`), which
the span and the log line rest on. The rest is about the algorithm: `ValidatedConforms` (whatever passes the check
conforms to its schema, on either platform), `DecodedConforms` (the decoding that follows leaves the type but not the
least length) and `ConformsByField`. `ExtrasReplaceOnlyOverridable` says what the finding of `call_extra` leaves
intact: only the arguments whose names have a spelling after them can be replaced.

`BinaryProofs` proves every safety property of `binary` for any scenarios: any file, any environment, any requests. Its
assumptions are the types of a scenario and of the lists a text stands for (`ScenariosAssumption`,
`EntriesAssumption`), that neither `a,b` nor the empty text is JSON (`ListsAssumption`), and that "none" and "*" are no
ports and "none" no id (`PartsAssumption`). That the environment wins is a fact about the end of two loops whose order
nobody fixes, over two different data structures; `IInv` says it of every moment of them: `GatherInv` (the keys taken
so far are in the values, or are pairs) and `PutInv` (the last pair of a name that is still to be put carries a text
the name may have; a name without a pair is settled). `TakeEnvironInv` and `PutPairInv` are the two steps that need it.
`SettingsInv` carries what was read past the place where it is read, `StdioInv` the deferred calls and what the session
left, and `ServerInv` what each place of the main goroutine may have seen fail, from which `ExitTellsFailure` and
`LogEndsClosed` follow. `GuardAdmits` is about the guard alone: for any lists and any request, what normalisation and
the prefix test let through is what the lists mean as they are documented, and the origins of whose scheme an entry is
the name (`HostsAdmit`, `OriginsAdmit`, by cases on the form and the port of an entry in `ExpandedMatches`); `GuardInv`
says that a request is always answered by a guard built of settings nothing is wrong with, and that makes it
`ServedIsAdmissible`.

`ListingWalkProofs` proves every safety property of `listing_walk` for any finite set of rows and any windows. It
assumes that the number of rows and one more window fit an int (`TotalAssumption`: the total is decoded into one).
`IInv` says what the agent has after each page: exactly the matches from its start up to the last rank of the windows
read so far, whatever page it started from (`WalkInv`), only matches (`MatchInv`), and a `hasMore` that compares what
was reached with the total (`MoreInv`). Four facts about data carry it: a finite set of numbers has a greatest and a
least element (`Greatest`, `Least`, by the well-foundedness of its subsets, since an induction theorem cannot be
instantiated), so the total is the highest rank (`BeyondRank`) and no rank is left out (`NextRank`); and a product
below half of the int's values comes out of `Times` as it is (`TimesHolds`), which a calm walk never leaves
(`ReachHolds`). `WalkComplete`, what the promise means for a walk from page 1, no run lists; it follows from `IInv`,
which one does (`AlwaysComplete`). For the refinement of `ListingPromise` a page of a calm walk is a `Page`
(`CalmPagePromise`): a window is not empty while a match is left because no rank is left out, and `hasMore` is false
exactly when all are passed; any other page is a `RoughPage`, an edit is `Disturb`. Two theorems delimit the findings:
without an edit nothing is skipped or repeated (`UneditedNeverSkips`), and with every payload in place an empty walk
means that nothing matches (`IntactEmptyMeansNoMatch`).

`LookupsProofs` proves every safety property of `lookups` for any payloads of any size and any number of versions of a
tree; `WorldsAssumption` says only that the class tools have their names and the versions form a sequence. What a
recursive definition computes cannot be proved here, so the decoding is none: `Decoding` proves of one struct, from the
same about those within it, that whatever is decoded is as published (`DecodedConforms`) and that decoding succeeds
exactly on what is acceptable (`AcceptableDecoded`). `LookupsProofs` uses both three times, from the inside out
(`GetConforms`, `GetWhole`); that three levels are enough, so that no struct is left undecoded, is `NestingIsThreeDeep`.
With these `AnswersConform` and `AnswersWhole` hold step by step. That a walk is not lost
(`WalkNeverLost`, the safety half of `WalkArrives`) needs more: that a held tree was decoded
whole (`HeldInv`) and that the next question is one of the tree, or its root by the alias (`AtInv`). `HeldLeadsOn` and
`FetchedLeadsOn` carry what `Walkable` says of a payload over to the decoded questions, for a whole tree and for a
single question, and `ChooseStep` is the agent's choice in both.

Only model-checked is liveness, everywhere: it is outside the prover's reach.

## 5. Not modelled

Prompts, resources, tags, message texts, quoting, log layout, the joining of URLs, the search for the repository root
and the inference of schemas by the library hold no state and decide nothing the properties speak of. Two servers in
one process share the OpenTelemetry globals; the documentation asks for one per process, and that is what is modelled.
Build and deployment are no part of the program. `PROJECT.json` gives a note for each hazard that no property covers.

## 6. Plan

Done: every component above is modelled as far as `PROJECT.json` says and checked, every safety property of a passing
run is proved, and so are the three refinements: of `ServerPromise` by the server, of `NodePromise` by `Node` and of
`ListingPromise` by the listings. What remains for later: a promise for the message pipeline, as those have one; and
the hazards of `PROJECT.json` that no property covers, should the code come to promise something about them.
