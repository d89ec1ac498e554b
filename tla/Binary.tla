------------------------------- MODULE Binary -------------------------------
(***************************************************************************)
(* The oriv-mcp process, from its flag to its exit: it gathers its         *)
(* variables from the environment and the .env file, each transport in a   *)
(* way of its own, and reads its settings; over stdio it probes ODAS, then *)
(* runs one session; over HTTP it starts the embedded server, of which it  *)
(* knows no more than ServerPromise, and waits for it.                     *)
(***************************************************************************)
EXTENDS Settings, TransportGuard

CONSTANT Scenarios   \* what a process may be started with, and asked

ASSUME ScenariosAssumption ==
  \A s \in Scenarios :
    /\ s.transport \in {"http", "stdio", "other"}
    /\ DOMAIN s.dotenv \subseteq Keys /\ s.dotenv \in [DOMAIN s.dotenv -> STRING]
    /\ s.environ \in Seq(Keys \X STRING)
    /\ s.requests \subseteq Requests

ASSUME EntriesAssumption ==
  /\ \A text \in DOMAIN HostLists : HostLists[text] \subseteq Entries
  /\ \A text \in DOMAIN OriginLists : OriginLists[text] \subseteq Entries

VARIABLES
  given,     \* the scenario
  pc,        \* where the main goroutine is
  left,      \* the keys of the .env file it has not come to yet
  pairs,     \* the KEY=value pairs LoadFrom has still to put
  values,    \* reader.values
  reported,  \* the variables the configuration error names
  signalled, \* the signal context is done
  logFile,   \* stdio: "closed" or "open"; opened by the first record
  lastLine,  \* stdio: the last record written
  ended,     \* stdio: what MCPServer.Run returned
  deferred,  \* stdio: the deferred calls of runStdio, the next one first
  exit,      \* the exit status, StillRuns until then
  trouble,   \* what has failed (history)
  handler,   \* HTTP: NewHTTPHandler has "none", "built" it
  answer,    \* HTTP: the last request and what it was answered
  phase, asked, cause, err   \* HTTP: the embedded server

server == <<phase, asked, cause, err>>
config == <<given, left, pairs, values, reported>>
stdio == <<logFile, lastLine, ended, deferred>>
vars == <<config, pc, signalled, stdio, exit, trouble, handler, answer, server>>

\* The binary stops its server by its context: it never calls Shutdown.
Server == INSTANCE ServerPromise WITH Callers <- {}, caller <- <<>>

NoAnswer == [status |-> "none"]
StillRuns == -1

Init ==
  /\ given \in Scenarios
  /\ pc = "flags"
  /\ left = {} /\ pairs = <<>> /\ values = <<>> /\ reported = {}
  /\ signalled = FALSE
  /\ logFile = "closed" /\ lastLine = "none" /\ ended = "none" /\ deferred = <<>>
  /\ exit = StillRuns /\ trouble = {}
  /\ handler = "none" /\ answer = NoAnswer
  /\ Server!Init

-----------------------------------------------------------------------------
\* main: an error is printed and the status is 1.
ExitWith(status, failures) ==
  /\ pc' = "exited"
  /\ exit' = status
  /\ trouble' = trouble \cup failures

Goto(label) == pc' = label /\ UNCHANGED <<exit, trouble>>

ParseFlag ==
  /\ pc = "flags"
  /\ IF given.transport = "other" THEN ExitWith(1, {"flag"}) ELSE Goto("dotenv")
  /\ UNCHANGED <<config, signalled, stdio, handler, answer, server>>

\* godotenv.Read: a missing file is an empty one, a file it cannot read or
\* parse is an error.
ReadDotEnv ==
  /\ pc = "dotenv"
  /\ \/ Goto("gather") /\ left' = DOMAIN given.dotenv
     \/ ExitWith(1, {"dotenv"}) /\ UNCHANGED left
  /\ UNCHANGED <<given, pairs, values, reported, signalled, stdio, handler, answer,
                 server>>

\* One key of the file, in the order a Go map happens to be ranged over:
\* config.Load hands the map to LoadFrom, environWithDotEnv makes pairs of it.
TakeDotEnv(key) ==
  /\ pc = "gather" /\ key \in left
  /\ left' = left \ {key}
  /\ IF given.transport = "stdio"
     THEN values' = Put(values, key, given.dotenv[key]) /\ UNCHANGED pairs
     ELSE pairs' = Append(pairs, <<key, given.dotenv[key]>>) /\ UNCHANGED values
  /\ UNCHANGED <<given, pc, reported, signalled, stdio, exit, trouble, handler, answer,
                 server>>

EnvironFirst(file, environ) == environ \o file

\* Later pairs win, so the real environment goes last.
PairsOf(file, environ) == file \o environ

TakeEnviron ==
  /\ pc = "gather" /\ left = {}
  /\ pairs' = PairsOf(pairs, given.environ)
  /\ Goto("load")
  /\ UNCHANGED <<given, left, values, reported, signalled, stdio, handler, answer,
                 server>>

PutPair ==
  /\ pc = "load" /\ pairs # <<>>
  /\ values' = Put(values, Head(pairs)[1], Head(pairs)[2])
  /\ pairs' = Tail(pairs)
  /\ UNCHANGED <<given, left, pc, reported, signalled, stdio, exit, trouble, handler,
                 answer, server>>

ReadSettings ==
  /\ pc = "load" /\ pairs = <<>>
  /\ reported' = Reported(values)
  /\ IF Reported(values) = {}
     THEN Goto("build") /\ UNCHANGED server
     ELSE /\ ExitWith(1, {"settings"})
          /\ IF given.transport = "http"
             THEN Server!StartReturns /\ phase' = "refused"
             ELSE UNCHANGED server
  /\ UNCHANGED <<given, left, pairs, values, signalled, stdio, handler, answer>>

\* SIGINT or SIGTERM: done for good, and seen by whoever has the context.
Signal ==
  /\ pc \notin {"flags", "exited"} /\ ~signalled
  /\ signalled' = TRUE
  /\ IF given.transport = "http" THEN Server!Ask ELSE UNCHANGED server
  /\ UNCHANGED <<config, pc, stdio, exit, trouble, handler, answer>>

-----------------------------------------------------------------------------
(***************************************************************************)
(* runStdio.                                                               *)
(***************************************************************************)
IsStdio == given.transport = "stdio"

WriteLine(line) == lastLine' = line /\ logFile' = "open"

InOrder(call, others) == others \o <<call>>

\* The call deferred last runs first.
Defer(call, others) == <<call>> \o others

BuildRuntime ==
  /\ IsStdio /\ pc = "build"
  /\ \/ /\ Goto("preflight")
        /\ WriteLine("starting")
        /\ deferred' = Defer("closingRecord", Defer("close", <<>>))
     \/ ExitWith(1, {"runtime"}) /\ UNCHANGED <<logFile, lastLine, deferred>>
  /\ UNCHANGED <<config, signalled, ended, handler, answer, server>>

PreflightEnds ==
  /\ IsStdio /\ pc = "preflight"
  /\ Goto("session")
  /\ WriteLine("preflight")
  /\ UNCHANGED <<config, signalled, ended, deferred, handler, answer, server>>

\* ODAS answered, cannot be reached, or is not configured.
OdasSettles == PreflightEnds

ProbeCutBySignal == signalled
ProbeCutByTimeout == Bounded(values)

\* The probe has the signal context and the client's timeout, if that is one.
ProbeCut == ProbeCutBySignal \/ ProbeCutByTimeout
ProbeGivesUp == ProbeCut /\ PreflightEnds

\* The records of a session: what the tools write.
SessionLogs ==
  /\ IsStdio /\ pc = "session"
  /\ WriteLine("session")
  /\ UNCHANGED <<config, pc, signalled, ended, deferred, exit, trouble, handler,
                 answer, server>>

(***************************************************************************)
(* What the SDK's Run may end with (external): nothing or the error of a   *)
(* closed transport when the client hangs up, the context's error, or the  *)
(* error of a transport that broke.                                        *)
(***************************************************************************)
RunReturns(result, failures) ==
  /\ IsStdio /\ pc = "session"
  /\ ended' = result
  /\ pc' = "deferred"
  /\ trouble' = trouble \cup failures
  /\ UNCHANGED <<config, signalled, logFile, lastLine, deferred, exit, handler, answer,
                 server>>

ClientHangsUp == RunReturns("nil", {}) \/ RunReturns("serverClosing", {})
TransportBreaks == RunReturns("wireError", {"session"}) \/ RunReturns("EOF", {"session"})
SessionCancelled == signalled /\ RunReturns("cancelled", {})

isWireError(result) == result \in {"serverClosing", "wireError"}
isClientHangup(result) == result = "serverClosing"

SessionStatus ==
  IF ended \in {"nil", "cancelled"} \/ isClientHangup(ended) THEN 0 ELSE 1

\* What Close returns is dropped.
RunDeferred ==
  /\ pc = "deferred" /\ deferred # <<>>
  /\ deferred' = Tail(deferred)
  /\ IF Head(deferred) = "close" THEN logFile' = "closed" /\ UNCHANGED lastLine
     ELSE WriteLine("closing")
  /\ UNCHANGED <<config, pc, signalled, ended, exit, trouble, handler, answer, server>>

StdioExits ==
  /\ pc = "deferred" /\ deferred = <<>>
  /\ ExitWith(SessionStatus, {})
  /\ UNCHANGED <<config, signalled, stdio, handler, answer, server>>

-----------------------------------------------------------------------------
(***************************************************************************)
(* The HTTP transport.  The embedded server takes the steps its promise    *)
(* allows; NewHTTPHandler runs on its goroutine, after Start has returned. *)
(***************************************************************************)
IsHTTP == given.transport = "http"

StartServer ==
  /\ IsHTTP /\ pc = "build"
  /\ Server!StartReturns
  /\ IF phase' = "refused" THEN ExitWith(1, {"start"}) ELSE Goto("serving")
  /\ UNCHANGED <<config, signalled, stdio, handler, answer>>

\* ServeMux panics on a pattern it cannot parse, and nothing recovers: run's
\* deferred calls cancel the context, and the process ends with status 2.
BuildHandler ==
  /\ pc = "serving" /\ handler = "none"
  /\ IF WellFormed(MCPPath(values))
     THEN handler' = "built" /\ UNCHANGED <<pc, exit, trouble, server>>
     ELSE ExitWith(2, {"panic"}) /\ Server!Crash /\ UNCHANGED handler
  /\ UNCHANGED <<config, signalled, stdio, answer>>

Hosts == Listed(values, "ALLOWED_HOSTS", HostLists)
Origins == Listed(values, "ALLOWED_ORIGINS", OriginLists)

Request(r) ==
  /\ handler = "built" /\ phase = "running"
  /\ answer' = [request |-> r,
                status |-> Answer(r, MCPPath(values), AllowedHosts(Hosts),
                                  AllowedOrigins(Origins))]
  /\ UNCHANGED <<config, pc, signalled, stdio, exit, trouble, handler, server>>

BeginStop ==
  /\ handler = "built"
  /\ Server!BeginStop
  /\ UNCHANGED <<config, pc, signalled, stdio, exit, trouble, handler, answer>>

StopServer ==
  /\ Server!Stop
  /\ trouble' = trouble \cup err'
  /\ UNCHANGED <<config, pc, signalled, stdio, exit, handler, answer>>

\* run returns srv.Err() once Done is closed.
ServerExits ==
  /\ pc = "serving" /\ phase = "stopped"
  /\ ExitWith(IF err = {} THEN 0 ELSE 1, {})
  /\ UNCHANGED <<config, signalled, stdio, handler, answer, server>>

-----------------------------------------------------------------------------
Gather ==
  \/ ParseFlag \/ ReadDotEnv \/ TakeEnviron \/ PutPair \/ ReadSettings
  \/ \E key \in left : TakeDotEnv(key)

StdioStep ==
  \/ BuildRuntime \/ OdasSettles \/ ProbeGivesUp \/ SessionLogs \/ ClientHangsUp
  \/ TransportBreaks \/ SessionCancelled \/ RunDeferred \/ StdioExits

HTTPStep ==
  \/ StartServer \/ BuildHandler \/ BeginStop \/ StopServer \/ ServerExits
  \/ \E r \in given.requests : Request(r)

Next == Gather \/ Signal \/ StdioStep \/ HTTPStep

Spec == Init /\ [][Next]_vars

(***************************************************************************)
(* The main goroutine runs; a probe that can give up does; the SDK ends a  *)
(* session whose context is done; and a server asked to stop stops, which  *)
(* Lifecycle has for a property.  Nothing is assumed of ODAS, the client   *)
(* or signals.                                                             *)
(***************************************************************************)
FairSpec ==
  /\ Spec
  /\ WF_vars(Gather) /\ WF_vars(BuildRuntime) /\ WF_vars(ProbeGivesUp)
  /\ WF_vars(SessionCancelled) /\ WF_vars(RunDeferred) /\ WF_vars(StdioExits)
  /\ WF_vars(StartServer) /\ WF_vars(BuildHandler) /\ WF_vars(asked /\ BeginStop)
  /\ WF_vars(StopServer) /\ WF_vars(ServerExits)

-----------------------------------------------------------------------------
\* Types of every variable.
ConfigTypeOK ==
  /\ given \in Scenarios
  /\ left \subseteq Keys
  /\ pairs \in Seq(Keys \X STRING)
  /\ DOMAIN values \subseteq Names
  /\ reported \subseteq Names

Failures == {"flag", "dotenv", "settings", "runtime", "session", "start", "panic",
             "accept", "listenerClose", "deadline", "close"}

TypeOK ==
  /\ ConfigTypeOK
  /\ pc \in {"flags", "dotenv", "gather", "load", "build", "preflight", "session",
             "deferred", "serving", "exited"}
  /\ signalled \in BOOLEAN
  /\ logFile \in {"closed", "open"}
  /\ lastLine \in {"none", "starting", "preflight", "session", "closing"}
  /\ ended \in {"none", "nil", "serverClosing", "cancelled", "wireError", "EOF"}
  /\ exit \in StillRuns..2
  /\ exit = StillRuns <=> pc # "exited"
  /\ trouble \subseteq Failures
  /\ handler \in {"none", "built"}
  /\ phase \in {"starting", "refused", "running", "stopping", "stopped",
               "crashed"}
  /\ asked \in BOOLEAN /\ cause \in {"none", "asked", "listener"}
  /\ err \subseteq {"accept", "listenerClose", "deadline", "close"}

WrittenIn(keys, name) == {k \in keys : ToLower(k) = name}

\* The texts a name may have: that of the environment's last pair of it, else
\* those of the .env file, one per spelling.
Written(name) ==
  LET here == {i \in DOMAIN given.environ : ToLower(given.environ[i][1]) = name}
      file == WrittenIn(DOMAIN given.dotenv, name)
  IN IF here = {} THEN {given.dotenv[k] : k \in file}
     ELSE {given.environ[i][2] : i \in {i \in here : \A j \in here : j <= i}}

Settled(name) == IF Written(name) = {} THEN ~IsSet(values, name)
                 ELSE IsSet(values, name) /\ values[name] \in Written(name)

\* Whatever the transport, the settings are read from the same variables: the
\* real environment's last pair of a name in any spelling, else the .env
\* file's, and no other (config.go:109-110, main.go:100-102).
Gathered == /\ pc \notin {"flags", "dotenv", "gather"} /\ pairs = <<>>
            /\ trouble \cap {"flag", "dotenv"} = {}

RealEnvironmentWins == Gathered => \A n \in Names : Settled(n)

\* A configuration error names every variable whose text no deployment could
\* mean, and a process with such a variable never gets as far as its runtime
\* (config.go:110, .env.example:9-10).
Meaningless(name) ==
  CASE name \in {"PORT", "ENVIRONMENT"} -> {"word", ""}
    [] name \in {"HTTP_MAX_CONNECTIONS", "HTTP_TIMEOUT_SECONDS"} ->
         {"word", "", "0", "-1"}
    [] name \in {"ALLOWED_HOSTS", "ALLOWED_ORIGINS"} -> {"a,b", ""}
    [] OTHER -> {}

Unusable ==
  {n \in Names : IF Written(n) = {} THEN n = "OTEL_URL"
                 ELSE Written(n) \subseteq Meaningless(n)}

UnusableIsRefused ==
  Gathered /\ pc # "load" =>
    Unusable \subseteq reported /\ (reported # {} => trouble = {"settings"})

\* The process exits with 0 exactly when nothing of its own failed: neither a
\* signal nor a client that hangs up is a failure (main.go:94, 120-121).
ExitTellsFailure == pc = "exited" => (exit = 0) = (trouble = {})

\* A stdio process that came up leaves its log closed, and closed after the
\* closing record, not reopened by it (main.go:82-90).
LogEndsClosed ==
  pc = "exited" /\ ended # "none" => logFile = "closed" /\ lastLine = "closing"

\* A request reaches MCP, on the paths of the endpoint, exactly when the
\* configured lists, read as the documentation explains them, admit its host and
\* its origin (.env.example:27-33, 85-89; security.go:15-17), or when its host is
\* admitted and an origin entry is no origin but the name of its scheme.
ServedIsAdmissible ==
  answer # NoAnswer =>
    (answer.status = "served") =
      /\ Admitted(answer.request, Hosts, Origins)
      /\ ~(answer.request.path = "/health" /\ answer.request.method = "GET")
      /\ MCPPath(values) # "/" => answer.request.path \in {MCPPath(values), "/"}

\* A signal ends the process, wherever it is, even if ODAS never answers.
SignalEndsProcess == signalled ~> pc = "exited"

Up == pc \in {"session", "deferred"} \/ handler = "built"

\* With a timeout that bounds a request and a path ServeMux takes, accepted
\* settings bring the server up or the process says what failed.
UsableSettingsBoot ==
  pc = "build" /\ Bounded(values) /\ WellFormed(MCPPath(values))
    ~> Up \/ (pc = "exited" /\ exit # 2)

\* The claim that no dead dependency keeps the server from booting
\* (base.go:257-258), of whatever settings LoadFrom accepts.
AcceptedSettingsBoot == pc = "build" ~> Up \/ pc = "exited"
=============================================================================
