----------------------------- MODULE Lifecycle -----------------------------
(***************************************************************************)
(* The life of one embedded OrivMCP server: orivmcp.Start, the goroutine   *)
(* that runs the server, server.Serve with the net/http server under it,   *)
(* app.New and Runtime.Close, and Shutdown called from several goroutines. *)
(*                                                                         *)
(* The processes are: the goroutine inside Start (startPc), the one that   *)
(* Start spawns (runPc), the one that accepts connections (acceptor), the  *)
(* start-up probe (probe), one goroutine per connection (conn), and the    *)
(* host's calls of Shutdown (caller, each with a context of its own).      *)
(***************************************************************************)
CONSTANTS
  Conns,    \* slots for client connections: how many can be open at once
  Callers,  \* goroutines of the host that may call Shutdown
  Setups    \* the options and configurations the host may start with

\* The OpenTelemetry providers, one per configured collector endpoint.
Signals == {"meter", "tracer", "logger"}

(***************************************************************************)
(* given: Options.Listener is set.  endpoints: the signals whose collector *)
(* URL is configured.  fileLog: the environment logs to a file (every one  *)
(* but the sandbox).  goodPath: MCP_PATH is a pattern a ServeMux takes.    *)
(***************************************************************************)
Setup == [given: BOOLEAN, endpoints: SUBSET Signals, fileLog: BOOLEAN,
          goodPath: BOOLEAN]

ASSUME SetupsAssumption == Setups \subseteq Setup

VARIABLES
  opts,        \* the setup chosen by the host
  startPc,     \* where Start is; "refused" and "up" are its two results
  listener,    \* "unbound", "open" or "closed"
  provider,    \* per signal: "off" (never built), "running" or "stopped"
  logFile,     \* "open" or "closed"; opened by the first record written
  cancelled,   \* the run context is done: the host's context, or cancel()
  runPc,       \* where run is
  acceptor,    \* the goroutine inside http.Server.Serve
  inShutdown,  \* http.Server.Shutdown has been called
  conn,        \* per slot: "none", "new", "idle" or "active"
  detached,    \* a message is still handled though its HTTP request is over
  probe,       \* the start-up probe of ODAS
  runErr,      \* the errors run has met so far (its serveErr and closeErr)
  srvErr,      \* Server.err
  caller,      \* per Shutdown call: "idle", "waiting" or its result
  callerCtx    \* its context: "live" or "ended"

hostVars  == <<caller, callerCtx>>
serveVars == <<acceptor, inShutdown, conn, detached>>
errVars   == <<runErr, srvErr>>
vars == <<opts, startPc, listener, provider, logFile, cancelled, runPc,
          acceptor, inShutdown, conn, detached, probe, runErr, srvErr, caller,
          callerCtx>>

Init ==
  /\ opts \in Setups
  /\ startPc = "config"
  /\ listener = IF opts.given THEN "open" ELSE "unbound"
  /\ provider = [s \in Signals |-> "off"]
  /\ logFile = "closed"
  /\ cancelled = FALSE
  /\ runPc = "none"
  /\ acceptor = "none"
  /\ inShutdown = FALSE
  /\ conn = [c \in Conns |-> "none"]
  /\ detached = FALSE
  /\ probe = "none"
  /\ runErr = {} /\ srvErr = {}
  /\ caller = [k \in Callers |-> "idle"]
  /\ callerCtx = [k \in Callers |-> "live"]

-----------------------------------------------------------------------------
(***************************************************************************)
(* Start.  A step that fails makes Start return an error: its own clean-up *)
(* and the one of the functions it called belong to the same step.         *)
(***************************************************************************)
afterStart == <<logFile, runPc, serveVars, probe, errVars, hostVars>>

\* Start closes the listener it was given whenever it returns an error.
GivenListenerReleased == IF opts.given THEN "closed" ELSE listener

LoadConfig ==
  /\ startPc = "config"
  /\ \/ startPc' = "bind" /\ UNCHANGED listener
     \/ startPc' = "refused" /\ listener' = GivenListenerReleased
  /\ UNCHANGED <<opts, provider, cancelled, afterStart>>

BindListener ==
  /\ startPc = "bind"
  /\ \/ startPc' = "telemetry" /\ listener' = "open"
     \/ ~opts.given /\ startPc' = "refused" /\ UNCHANGED listener
  /\ UNCHANGED <<opts, provider, cancelled, afterStart>>

\* The order in which telemetry.New builds the providers.
BuiltBefore(s) == CASE s = "meter"  -> {}
                    [] s = "tracer" -> {"meter"}
                    [] s = "logger" -> {"meter", "tracer"}

ProvidersAfter(built, state) ==
  [s \in Signals |-> IF s \in built THEN state ELSE "off"]

\* The providers built so far are shut down when app.New fails.
KeptOnAbort(built) == ProvidersAfter(built, "running")
ShutDownOnAbort(built) == ProvidersAfter(built, "stopped")

\* app.New failed: start cancels the context and closes a listener of its
\* own, Start closes one it was given.
AbortStart ==
  /\ startPc' = "refused"
  /\ cancelled' = TRUE
  /\ listener' = "closed"

\* telemetry.New: the resource or the exporter of any endpoint may fail, and
\* the deferred Shutdown then stops the providers built before it.
BuildTelemetry ==
  /\ startPc = "telemetry"
  /\ \/ /\ startPc' = "logger"
        /\ provider' = ProvidersAfter(opts.endpoints, "running")
        /\ UNCHANGED <<listener, cancelled>>
     \/ /\ AbortStart
        /\ \/ UNCHANGED provider
           \/ \E s \in opts.endpoints :
                provider' = ShutDownOnAbort(opts.endpoints \cap BuiltBefore(s))
  /\ UNCHANGED <<opts, afterStart>>

\* telemetry.NewLogger fails when the log directory cannot be made; the rest
\* of app.New cannot fail, and Start then spawns run.
BuildLogger ==
  /\ startPc = "logger"
  /\ \/ /\ startPc' = "up"
        /\ runPc' = "begin"
        /\ UNCHANGED <<listener, provider, cancelled>>
     \/ /\ opts.fileLog
        /\ provider' = ShutDownOnAbort(opts.endpoints)
        /\ AbortStart
        /\ UNCHANGED runPc
  /\ UNCHANGED <<opts, logFile, serveVars, probe, errVars, hostVars>>

-----------------------------------------------------------------------------
(***************************************************************************)
(* run and server.Serve.                                                   *)
(***************************************************************************)
startVars == <<opts, startPc>>

\* A record goes to the log file where there is one; lumberjack opens, or
\* reopens, the file on a write.
WriteLog == logFile' = IF opts.fileLog THEN "open" ELSE logFile

\* run logs and starts the probe; NewHTTPHandler registers the path; Serve
\* spawns the accepting goroutine.  A path the ServeMux panics on ends the
\* process, but only once the deferred calls of run have cancelled the context
\* and closed done.
RunBegin ==
  /\ runPc = "begin"
  /\ probe' = "probing"
  /\ IF opts.goodPath
     THEN runPc' = "serve" /\ acceptor' = "starting" /\ UNCHANGED cancelled
     ELSE runPc' = "panicked" /\ cancelled' = TRUE /\ UNCHANGED acceptor
  /\ WriteLog
  /\ UNCHANGED <<startVars, listener, provider, inShutdown, conn, detached, errVars,
                 hostVars>>

\* run's cancel, also called first by Shutdown.
LeaveRunning == UNCHANGED cancelled
Cancel == cancelled' = TRUE

\* What run does once Serve has returned with the errors errs: it logs an
\* error and cancels the context, so that the probe ends too.
ServeReturns(errs) ==
  /\ runPc' = "waitProbe"
  /\ runErr' = errs
  /\ Cancel
  /\ IF errs # {} THEN WriteLog ELSE UNCHANGED logFile

\* Serve's select, first case: the listener failed.  Nothing shuts the HTTP
\* server down here.
ServeFailed ==
  /\ runPc = "serve"
  /\ acceptor = "failed"
  /\ ServeReturns({"accept"})
  /\ UNCHANGED <<startVars, listener, provider, serveVars, probe, srvErr, hostVars>>

\* Serve's select, second case: the context is done.  http.Server.Shutdown
\* closes the listener if its Serve has registered it already; a Close that
\* reports an error is taken to have closed it all the same.
ServeCancelled ==
  /\ runPc = "serve"
  /\ cancelled
  /\ runPc' = "draining"
  /\ inShutdown' = TRUE
  /\ \/ acceptor = "serving" /\ listener' = "closed" /\ runErr' \in {{}, {"listenerClose"}}
     \/ acceptor # "serving" /\ UNCHANGED <<listener, runErr>>
  /\ UNCHANGED <<startVars, provider, logFile, cancelled, acceptor, conn, detached,
                 probe, srvErr, hostVars>>

\* The waits of the shutdown: for the connections (http.Server.Shutdown), for
\* the accepting goroutine (Serve receives from errs), for the probe.
NoWait == TRUE
ConnsGone == \A c \in Conns : conn[c] = "none"
ServeExited == acceptor \in {"stopped", "failed"}
ProbeOver == probe = "done"

\* Shutdown returns, with the error of closing the listener, once the
\* registered Serve has returned and no connection is left.
Drained ==
  /\ runPc = "draining"
  /\ acceptor # "serving"
  /\ ConnsGone
  /\ runPc' = "join"
  /\ UNCHANGED <<startVars, listener, provider, logFile, cancelled, serveVars,
                 probe, errVars, hostVars>>

\* shutdownTimeout passed: that is Shutdown's error then, and Close closes every
\* connection; the handlers that are running go on without one.
DrainTimesOut ==
  /\ runPc = "draining"
  /\ acceptor # "serving"
  /\ conn' = [c \in Conns |-> "none"]
  /\ detached' = (detached \/ \E c \in Conns : conn[c] = "active")
  /\ runErr' = {"deadline"}
  /\ runPc' = "join"
  /\ UNCHANGED <<startVars, listener, provider, logFile, cancelled, acceptor,
                 inShutdown, probe, srvErr, hostVars>>

\* Serve keeps the error of Shutdown, not the ErrServerClosed it receives.
ServeErr == runErr

Joined ==
  /\ runPc = "join"
  /\ ServeExited
  /\ ServeReturns(ServeErr)
  /\ UNCHANGED <<startVars, listener, provider, serveVars, probe, srvErr, hostVars>>

\* preflight.Wait, then the closing record.
ProbeJoined ==
  /\ runPc = "waitProbe"
  /\ ProbeOver
  /\ runPc' = "flush"
  /\ WriteLog
  /\ UNCHANGED <<startVars, listener, provider, cancelled, serveVars, probe,
                 errVars, hostVars>>

\* The order in which Telemetry.Shutdown stops the providers.
StoppedBefore(s) == CASE s = "tracer" -> {}
                      [] s = "meter"  -> {"tracer"}
                      [] s = "logger" -> {"tracer", "meter"}

\* Runtime.Close, first part: one provider is flushed and stopped, within
\* cleanupTimeout whether or not the collector answers.
FlushProvider(s) ==
  /\ runPc = "flush"
  /\ provider[s] = "running"
  /\ \A t \in StoppedBefore(s) : provider[t] # "running"
  /\ provider' = [provider EXCEPT ![s] = "stopped"]
  /\ UNCHANGED <<startVars, listener, logFile, cancelled, runPc, serveVars, probe,
                 errVars, hostVars>>

\* Runtime.Close, second part: the connections of the ODAS client that are
\* idle (nothing here depends on them), then the log file, whose error is kept.
CloseLog ==
  /\ runPc = "flush"
  /\ \A s \in Signals : provider[s] # "running"
  /\ logFile' = "closed"
  /\ \/ runErr' = runErr
     \/ logFile = "open" /\ runErr' = runErr \cup {"close"}
  /\ runPc' = "publish"
  /\ UNCHANGED <<startVars, listener, provider, cancelled, serveVars, probe,
                 srvErr, hostVars>>

\* Server.err joins what Serve returned and what the log file's Close did.
CloseErrOnly == runErr \cap {"close"}
JoinedErr == runErr

Publish ==
  /\ runPc = "publish"
  /\ srvErr' = JoinedErr
  /\ runPc' = "finish"
  /\ UNCHANGED <<startVars, listener, provider, logFile, cancelled, serveVars,
                 probe, runErr, hostVars>>

\* run's deferred calls: cancel once more, close done.
Finish ==
  /\ runPc = "finish"
  /\ runPc' = "done"
  /\ cancelled' = TRUE
  /\ UNCHANGED <<startVars, listener, provider, logFile, serveVars, probe,
                 errVars, hostVars>>

-----------------------------------------------------------------------------
(***************************************************************************)
(* The goroutines Serve and run start.                                     *)
(***************************************************************************)
runVars == <<provider, cancelled, runPc, inShutdown, errVars>>

\* http.Server.Serve registers the listener, unless Shutdown came first: it
\* then closes the listener and returns at once.
NeverTooLate == FALSE
StartedTooLate == inShutdown

AcceptorStarts ==
  /\ acceptor = "starting"
  /\ IF StartedTooLate
     THEN acceptor' = "stopped" /\ listener' = "closed"
     ELSE acceptor' = "serving" /\ UNCHANGED listener
  /\ UNCHANGED <<startVars, runVars, logFile, conn, detached, probe, hostVars>>

\* Accept failed for good on a listener nobody closed; Serve closes it.
AcceptorFails ==
  /\ acceptor = "serving" /\ listener = "open"
  /\ acceptor' = "failed"
  /\ listener' = "closed"
  /\ UNCHANGED <<startVars, runVars, logFile, conn, detached, probe, hostVars>>

\* Accept returned because Shutdown closed the listener.
AcceptorStops ==
  /\ acceptor = "serving" /\ listener = "closed"
  /\ acceptor' = "stopped"
  /\ UNCHANGED <<startVars, runVars, logFile, listener, conn, detached, probe, hostVars>>

\* The health check answers, times out or is cancelled; Preflight logs which.
ProbeReturns ==
  /\ probe = "probing"
  /\ probe' = "done"
  /\ WriteLog
  /\ UNCHANGED <<startVars, runVars, listener, acceptor, conn, detached, hostVars>>

-----------------------------------------------------------------------------
(***************************************************************************)
(* Connections.  net/http serves each on a goroutine that no one joins.    *)
(***************************************************************************)
SetConn(c, from, to) ==
  /\ conn[c] \in from
  /\ conn' = [conn EXCEPT ![c] = to]
  /\ UNCHANGED <<startVars, runVars, logFile, listener, acceptor, probe, hostVars>>

Accept(c) ==
  /\ acceptor = "serving" /\ listener = "open"
  /\ SetConn(c, {"none"}, "new")
  /\ UNCHANGED detached

\* A request arrives: the handler runs, whatever the server's state.
NextRequest(c) == SetConn(c, {"new", "idle"}, "active") /\ UNCHANGED detached

\* The HTTP request is over: it was answered, it only delivered a message that
\* wants no answer, or the client hung up.  A message of a session is handled
\* with a context of the session, so its handler may still be running then.
\* Keep-alive is off once Shutdown was called.
FinishRequest(c) ==
  /\ SetConn(c, {"active"}, IF inShutdown THEN "none" ELSE "idle")
  /\ detached' \in {detached, TRUE}

\* The client leaves, the idle timeout passes, or Shutdown's polling finds the
\* connection idle (or new for more than 5 s).
CloseQuietConn(c) == SetConn(c, {"new", "idle"}, "none") /\ UNCHANGED detached

handlerVars == <<startVars, runVars, listener, acceptor, conn, probe, hostVars>>

\* The last handler without a request returns.
DetachedReturns ==
  /\ detached
  /\ detached' = FALSE
  /\ UNCHANGED <<handlerVars, logFile>>

\* A handler, with or without its request, writes a record.
HandlerLogs ==
  /\ detached \/ \E c \in Conns : conn[c] = "active"
  /\ WriteLog
  /\ UNCHANGED <<handlerVars, detached>>

-----------------------------------------------------------------------------
(***************************************************************************)
(* The host.                                                               *)
(***************************************************************************)
serverVars == <<startVars, listener, provider, logFile, runPc, serveVars, probe,
                errVars>>

HostCancels ==
  /\ startPc # "refused" /\ ~cancelled
  /\ cancelled' = TRUE
  /\ UNCHANGED <<serverVars, hostVars>>

ShutdownCall(k) ==
  /\ startPc = "up" /\ caller[k] = "idle"
  /\ caller' = [caller EXCEPT ![k] = "waiting"]
  /\ Cancel
  /\ UNCHANGED <<serverVars, callerCtx>>

CallerCtxEnds(k) ==
  /\ callerCtx[k] = "live"
  /\ callerCtx' = [callerCtx EXCEPT ![k] = "ended"]
  /\ UNCHANGED <<serverVars, cancelled, caller>>

\* Shutdown's select: either case may be taken when both are ready.
ServingEnded == runPc \in {"flush", "publish", "finish", "done", "panicked"}
DoneClosed == runPc \in {"done", "panicked"}

ShutdownReturns(k) ==
  /\ caller[k] = "waiting"
  /\ \/ /\ DoneClosed
        /\ caller' = [caller EXCEPT ![k] = IF srvErr = {} THEN "nil" ELSE "err"]
     \/ /\ callerCtx[k] # "live"
        /\ caller' = [caller EXCEPT ![k] = "ctxErr"]
  /\ UNCHANGED <<serverVars, cancelled, callerCtx>>

-----------------------------------------------------------------------------
StartStep == LoadConfig \/ BindListener \/ BuildTelemetry \/ BuildLogger

RunStep == \/ RunBegin \/ ServeFailed \/ ServeCancelled
           \/ Drained \/ DrainTimesOut \/ Joined \/ ProbeJoined
           \/ \E s \in Signals : FlushProvider(s)
           \/ CloseLog \/ Publish \/ Finish

ConnStep(c) == \/ Accept(c) \/ NextRequest(c) \/ FinishRequest(c)
               \/ CloseQuietConn(c)

HandlerStep == DetachedReturns \/ HandlerLogs

HostStep(k) == ShutdownCall(k) \/ CallerCtxEnds(k) \/ ShutdownReturns(k)

Next == \/ StartStep \/ RunStep
        \/ AcceptorStarts \/ AcceptorFails \/ AcceptorStops \/ ProbeReturns
        \/ \E c \in Conns : ConnStep(c)
        \/ HandlerStep
        \/ HostCancels
        \/ \E k \in Callers : HostStep(k)

Spec == Init /\ [][Next]_vars

(***************************************************************************)
(* What the scheduler owes.  The goroutine of run is never starved, and    *)
(* its drain ends by a timer at the latest.  The accepting goroutine runs. *)
(* The probe is only sure to end once its context is done (ODAS may keep   *)
(* it waiting), and a Shutdown call that can return does.  Nothing is owed *)
(* by connections, handlers, the host or its contexts, nor by anyone once  *)
(* run has panicked, when the process ends at any moment.                  *)
(***************************************************************************)
Survives == runPc # "panicked"

Fairness ==
  /\ WF_vars(RunStep)
  /\ WF_vars(AcceptorStarts)
  /\ WF_vars(AcceptorStops)
  /\ WF_vars(Survives /\ cancelled /\ ProbeReturns)
  /\ \A k \in Callers : WF_vars(Survives /\ ShutdownReturns(k))

FairSpec == Spec /\ Fairness

-----------------------------------------------------------------------------
(***************************************************************************)
(* Properties.                                                             *)
(***************************************************************************)
StartPcs == {"config", "bind", "telemetry", "logger", "refused", "up"}
RunPcs == {"none", "begin", "serve", "draining", "join", "waitProbe", "flush",
           "publish", "finish", "done", "panicked"}
Errors == {"accept", "listenerClose", "deadline", "close"}

\* Every variable keeps to the values the comments above give it.
TypeOK ==
  /\ opts \in Setup
  /\ startPc \in StartPcs
  /\ listener \in {"unbound", "open", "closed"}
  /\ provider \in [Signals -> {"off", "running", "stopped"}]
  /\ logFile \in {"open", "closed"}
  /\ cancelled \in BOOLEAN
  /\ runPc \in RunPcs
  /\ acceptor \in {"none", "starting", "serving", "stopped", "failed"}
  /\ inShutdown \in BOOLEAN
  /\ conn \in [Conns -> {"none", "new", "idle", "active"}]
  /\ detached \in BOOLEAN
  /\ probe \in {"none", "probing", "done"}
  /\ runErr \in SUBSET Errors
  /\ srvErr \in SUBSET Errors
  /\ caller \in [Callers -> {"idle", "waiting", "nil", "err", "ctxErr"}]
  /\ callerCtx \in [Callers -> {"live", "ended"}]

\* When Start returns an error, wherever it failed, nothing it took or built
\* is left behind: no listener (given or its own), no provider, no log file,
\* no goroutine (orivmcp.go:42-44, app.go:34, telemetry.go:53).
StartFailureReleases ==
  startPc = "refused" =>
    /\ listener # "open"
    /\ \A s \in Signals : provider[s] # "running"
    /\ logFile = "closed"
    /\ runPc = "none" /\ probe = "none" /\ acceptor = "none"

\* When Done is closed, whatever stopped the server (a panic aside, which ends
\* the process) and however its stop raced with its start, the listener is
\* closed, the accepting goroutine and the probe are over, no provider runs and
\* the context is cancelled (orivmcp.go:153-154, server.go:171-172).
DoneMeansReleased ==
  runPc = "done" =>
    /\ listener = "closed" /\ acceptor \in {"stopped", "failed"} /\ probe = "done"
    /\ \A s \in Signals : provider[s] # "running"
    /\ cancelled

\* Nothing failed but the closing of the listener or of the log file: the
\* server drained in time.
StoppedCleanly ==
  /\ runPc \in {"publish", "finish", "done"}
  /\ runErr \subseteq {"listenerClose", "close"}

\* A stop that drained in time leaves no connection, and once it has closed the
\* log file only one thing can open it again: a handler that outlived its
\* request.  The probe, the accepting goroutine and requests that are still
\* served cannot (orivmcp.go:157-158, 165-167, app.go:104-120).
CleanStopIsQuiet ==
  /\ [](StoppedCleanly => \A c \in Conns : conn[c] = "none")
  /\ [][StoppedCleanly /\ logFile = "closed" /\ logFile' = "open" => detached]_vars

\* Telemetry is stopped after its users: no provider of a started server is
\* stopped while connections are accepted, while the probe runs, or while a
\* request is served on an open connection, unless the listener failed.
TelemetryOutlivesUsers ==
  startPc = "up" /\ (\E s \in Signals : provider[s] = "stopped") =>
    /\ listener = "closed" /\ acceptor \in {"stopped", "failed"} /\ probe = "done"
    /\ "accept" \in runErr \/ \A c \in Conns : conn[c] = "none"

\* A call of Shutdown that returns an answer other than its context's error
\* returns after the complete stop, and the answer is the server's final one;
\* it gives its context's error only if that context did end.  A server that
\* panicked has closed done too, and reports nothing in the moment left to it.
ShutdownTruthful ==
  \A k \in Callers :
    /\ caller[k] = "nil" => DoneClosed /\ srvErr = {}
    /\ caller[k] = "err" => runPc = "done" /\ srvErr # {}
    /\ caller[k] = "ctxErr" => callerCtx[k] # "live"

\* The server keeps the promise made to its host.
Phase == IF startPc = "refused" THEN "refused"
         ELSE IF startPc # "up" THEN "starting"
         ELSE IF runPc \in {"begin", "serve"} THEN "running"
         ELSE IF runPc = "panicked" THEN "crashed"
         ELSE IF runPc = "done" THEN "stopped" ELSE "stopping"
Cause == IF Phase \notin {"stopping", "stopped"} THEN "none"
         ELSE IF "accept" \in runErr THEN "listener" ELSE "asked"
Promise == INSTANCE ServerPromise WITH
             phase <- Phase, asked <- cancelled, cause <- Cause,
             err <- IF runPc = "done" THEN srvErr ELSE {}, caller <- caller

\* The life of the server is one the abstract specification allows: the error
\* names the cause, appears with the stop and does not change afterwards.
KeepsPromise == Promise!Spec

\* Once its context is done, a server that is up stops (orivmcp.go:66), or it
\* is cancelled because its process ends.
StopsOnceAsked == startPc = "up" /\ cancelled ~> DoneClosed

\* A failed listener stops the server by itself; the probe cannot hold it up
\* (orivmcp.go:136).
ListenerFailureStops == acceptor = "failed" ~> runPc = "done"

\* Every call of Shutdown returns, though no context ever ends (README: it
\* "returns once everything it started has stopped").
ShutdownAnswers ==
  \A k \in Callers :
    caller[k] = "waiting" ~> caller[k] \notin {"idle", "waiting"} \/ ~Survives

\* orivmcp.go:153-154: Done is closed once the server "has stopped and released
\* everything it started".
DoneMeansDisconnected ==
  runPc = "done" => \A c \in Conns : conn[c] \notin {"new", "idle", "active"}

\* orivmcp.go:165-167: Shutdown drains the requests in flight, has "the log file
\* closed" and "returns once all of that has finished", here without an error.
DoneMeansLogClosed == runPc = "done" /\ srvErr = {} => logFile = "closed"

=============================================================================
