-------------------------- MODULE LifecycleProofs --------------------------
(***************************************************************************)
(* Proofs about Lifecycle, for any sets of connections, callers and        *)
(* setups: the invariant IInv is inductive, the safety properties follow   *)
(* from it, and every step is one that ServerPromise allows.               *)
(***************************************************************************)
EXTENDS LifecycleInvariant, TLAPS

USE DEF DoneClosed, StartPcs, RunPcs, Errors, Signals, AfterServe, ListenerFailed, Quiet,
        startVars, runVars, serverVars, handlerVars, serveVars, errVars, hostVars, afterStart

-----------------------------------------------------------------------------
(* The invariant is inductive. *)

LEMMA InitInv == Init => IInv
<1>1. Init => opts \in Setup /\ opts.given \in BOOLEAN
  BY SetupsAssumption DEF Init, Setup
<1>2. Init => TypeOK
  <2>1. Init => cancelled \in BOOLEAN /\ inShutdown \in BOOLEAN /\ detached \in BOOLEAN
    BY DEF Init
  <2> QED BY <1>1, <2>1 DEF Init, TypeOK
<1>3. Init => StartInv /\ AcceptorInv /\ StopInv
  BY <1>1 DEF Init, StartInv, AcceptorInv, StopInv, ServeExited
<1>4. Init => ErrInv /\ ShutdownTruthful
  BY DEF Init, ErrInv, ShutdownTruthful
<1> QED BY <1>2, <1>3, <1>4 DEF IInv

\* Start: only an abort stops providers, and an abort leaves none running.
LEMMA StartStepInv == ASSUME IInv, StartStep PROVE IInv'
<1> USE DEF IInv, TypeOK, StartInv, AcceptorInv, StopInv, ErrInv, ShutdownTruthful,
            ServeExited
<1>1. CASE LoadConfig
  BY <1>1 DEF LoadConfig, GivenListenerReleased
<1>2. CASE BindListener
  BY <1>2 DEF BindListener
<1>3. CASE BuildTelemetry
  <2>1. PICK built \in SUBSET Signals, state \in {"off", "running", "stopped"} :
          /\ provider' = ProvidersAfter(built, state)
          /\ startPc' = "refused" => state # "running"
          /\ startPc' = "logger" => state # "stopped"
    <3>1. CASE startPc' = "logger"
      <4>1. provider' = ProvidersAfter(opts.endpoints, "running")
        BY <1>3, <3>1 DEF BuildTelemetry, AbortStart, Setup
      <4> QED BY <3>1, <4>1 DEF Setup
    <3>2. CASE UNCHANGED provider
      <4>1. provider' = ProvidersAfter({}, "off")
        BY <1>3, <3>2 DEF BuildTelemetry, ProvidersAfter
      <4> QED BY <4>1
    <3>3. CASE /\ startPc' = "refused"
               /\ \E s \in opts.endpoints :
                    provider' = ShutDownOnAbort(opts.endpoints \cap BuiltBefore(s))
      <4>1. PICK s \in opts.endpoints :
              provider' = ProvidersAfter(opts.endpoints \cap BuiltBefore(s), "stopped")
        BY <3>3 DEF ShutDownOnAbort
      <4>2. opts.endpoints \cap BuiltBefore(s) \in SUBSET Signals
        BY DEF Setup
      <4> QED BY <3>3, <4>1, <4>2
    <3>4. \/ startPc' = "logger"
          \/ UNCHANGED provider
          \/ /\ startPc' = "refused"
             /\ \E s \in opts.endpoints :
                  provider' = ShutDownOnAbort(opts.endpoints \cap BuiltBefore(s))
      BY <1>3 DEF BuildTelemetry, AbortStart
    <3> QED BY <3>1, <3>2, <3>3, <3>4
  <2>2. /\ provider' \in [Signals -> {"off", "running", "stopped"}]
        /\ startPc' = "refused" => \A s \in Signals : provider'[s] # "running"
        /\ startPc' = "logger" => \A s \in Signals : provider'[s] # "stopped"
    BY <2>1 DEF ProvidersAfter
  <2>3. /\ startPc = "telemetry"
        /\ \/ startPc' = "logger" /\ UNCHANGED <<listener, cancelled>>
           \/ startPc' = "refused" /\ cancelled' = TRUE /\ listener' = "closed"
        /\ UNCHANGED <<opts, afterStart>>
    BY <1>3 DEF BuildTelemetry, AbortStart
  <2> QED BY <2>2, <2>3
<1>4. CASE BuildLogger
  <2>1. CASE startPc' = "up"
    BY <1>4, <2>1 DEF BuildLogger, AbortStart
  <2>2. CASE startPc' = "refused"
    <3>1. /\ provider' \in [Signals -> {"off", "running", "stopped"}]
          /\ \A s \in Signals : provider'[s] # "running"
      BY <1>4, <2>2 DEF BuildLogger, ShutDownOnAbort, ProvidersAfter
    <3>2. /\ startPc = "logger" /\ cancelled' = TRUE /\ listener' = "closed"
          /\ UNCHANGED <<opts, runPc, logFile, serveVars, probe, errVars, hostVars>>
      BY <1>4, <2>2 DEF BuildLogger, AbortStart
    <3> QED BY <2>2, <3>1, <3>2
  <2> QED BY <1>4, <2>1, <2>2 DEF BuildLogger, AbortStart
<1> QED BY <1>1, <1>2, <1>3, <1>4 DEF StartStep

LEMMA RunStepInv == ASSUME IInv, RunStep PROVE IInv'
<1> USE DEF IInv, TypeOK, StartInv, AcceptorInv, StopInv, ErrInv, ShutdownTruthful,
            ServeExited
<1>1. CASE RunBegin
  BY <1>1 DEF RunBegin, WriteLog
<1>2. CASE ServeFailed
  BY <1>2 DEF ServeFailed, ServeReturns, Cancel, WriteLog
<1>3. CASE ServeCancelled
  BY <1>3 DEF ServeCancelled
<1>4. CASE Drained
  BY <1>4 DEF Drained, ConnsGone
<1>5. CASE DrainTimesOut
  BY <1>5 DEF DrainTimesOut
<1>6. CASE Joined
  BY <1>6 DEF Joined, ServeReturns, ServeErr, Cancel, WriteLog
<1>7. CASE ProbeJoined
  BY <1>7 DEF ProbeJoined, ProbeOver, WriteLog
<1>8. CASE \E s \in Signals : FlushProvider(s)
  BY <1>8 DEF FlushProvider
<1>9. CASE CloseLog
  BY <1>9 DEF CloseLog
<1>10. CASE Publish
  BY <1>10 DEF Publish, JoinedErr
<1>11. CASE Finish
  BY <1>11 DEF Finish
<1> QED
  BY <1>1, <1>2, <1>3, <1>4, <1>5, <1>6, <1>7, <1>8, <1>9, <1>10, <1>11 DEF RunStep

\* The goroutines of Serve and run, the connections and the host.
LEMMA OtherStepInv ==
  ASSUME IInv,
         \/ AcceptorStarts \/ AcceptorFails \/ AcceptorStops \/ ProbeReturns
         \/ \E c \in Conns : ConnStep(c)
         \/ HandlerStep
         \/ HostCancels
         \/ \E k \in Callers : HostStep(k)
  PROVE  IInv'
<1> USE DEF IInv, TypeOK, StartInv, AcceptorInv, StopInv, ErrInv, ShutdownTruthful,
            ServeExited
<1>1. CASE AcceptorStarts
  BY <1>1 DEF AcceptorStarts, StartedTooLate
<1>2. CASE AcceptorFails
  BY <1>2 DEF AcceptorFails
<1>3. CASE AcceptorStops
  BY <1>3 DEF AcceptorStops
<1>4. CASE ProbeReturns
  BY <1>4 DEF ProbeReturns, WriteLog
<1>5. ASSUME NEW c \in Conns, ConnStep(c) PROVE IInv'
  <2>1. CASE Accept(c)
    BY <2>1 DEF Accept, SetConn
  <2>2. CASE NextRequest(c)
    BY <2>2 DEF NextRequest, SetConn
  <2>3. CASE FinishRequest(c)
    <3>1. detached' \in BOOLEAN
      BY <2>3 DEF FinishRequest
    <3> QED BY <2>3, <3>1 DEF FinishRequest, SetConn
  <2>4. CASE CloseQuietConn(c)
    BY <2>4 DEF CloseQuietConn, SetConn
  <2> QED BY <1>5, <2>1, <2>2, <2>3, <2>4 DEF ConnStep
<1>6. CASE HandlerStep
  <2>1. CASE DetachedReturns
    <3>1. detached' \in BOOLEAN /\ detached' = FALSE
      BY <2>1 DEF DetachedReturns
    <3> QED BY <2>1, <3>1 DEF DetachedReturns
  <2>2. CASE HandlerLogs
    BY <2>2 DEF HandlerLogs, WriteLog
  <2> QED BY <1>6, <2>1, <2>2 DEF HandlerStep
<1>7. CASE HostCancels
  BY <1>7 DEF HostCancels
<1>8. ASSUME NEW k \in Callers, HostStep(k) PROVE IInv'
  <2>1. CASE ShutdownCall(k)
    BY <2>1 DEF ShutdownCall, Cancel
  <2>2. CASE CallerCtxEnds(k)
    BY <2>2 DEF CallerCtxEnds
  <2>3. CASE ShutdownReturns(k)
    BY <2>3 DEF ShutdownReturns
  <2> QED BY <1>8, <2>1, <2>2, <2>3 DEF HostStep
<1> QED BY <1>1, <1>2, <1>3, <1>4, <1>5, <1>6, <1>7, <1>8

\* The inductive invariant holds of every reachable state.
THEOREM Inductive == Spec => []IInv
<1>1. IInv /\ [Next]_vars => IInv'
  <2> SUFFICES ASSUME IInv, [Next]_vars PROVE IInv'
    OBVIOUS
  <2>1. CASE Next
    BY <2>1, StartStepInv, RunStepInv, OtherStepInv DEF Next
  <2>2. CASE UNCHANGED vars
    BY <2>2 DEF vars, IInv, TypeOK, StartInv, AcceptorInv, StopInv, ErrInv,
                ShutdownTruthful, ServeExited
  <2> QED BY <2>1, <2>2
<1> QED BY InitInv, <1>1, PTL DEF Spec

-----------------------------------------------------------------------------
(* The safety properties. *)

\* Every variable keeps to its values, whatever the host, the clients, the
\* listener and the probe do.
THEOREM TypeCorrect == Spec => []TypeOK
  BY Inductive, PTL DEF IInv

\* A Start that fails leaves nothing behind.
THEOREM NothingLeftByFailedStart == Spec => []StartFailureReleases
<1>1. IInv => StartFailureReleases
  BY DEF IInv, StartInv, StartFailureReleases
<1> QED BY <1>1, Inductive, PTL

\* When Done is closed the server has released what it started itself.
THEOREM ReleasedWhenDone == Spec => []DoneMeansReleased
<1>1. IInv => DoneMeansReleased
  BY DEF IInv, StartInv, AcceptorInv, StopInv, ServeExited, DoneMeansReleased
<1> QED BY <1>1, Inductive, PTL

\* After a stop that drained in time no connection is left, and only a handler
\* that outlived its request can open the log file again.
THEOREM QuietAfterCleanStop == Spec => CleanStopIsQuiet
<1>1. IInv => (StoppedCleanly => \A c \in Conns : conn[c] = "none")
  BY DEF IInv, StoppedCleanly, ErrInv
<1>2. IInv /\ [Next]_vars =>
        [StoppedCleanly /\ logFile = "closed" /\ logFile' = "open" => detached]_vars
  <2> SUFFICES ASSUME IInv, Next, StoppedCleanly, logFile = "closed", logFile' = "open"
               PROVE  detached
    OBVIOUS
  <2>1. /\ runPc \in {"publish", "finish", "done"} /\ startPc = "up" /\ probe = "done"
        /\ \A c \in Conns : conn[c] = "none"
    BY <1>1 DEF IInv, StoppedCleanly, StartInv, StopInv
  <2>2. ~StartStep
    BY <2>1 DEF StartStep, LoadConfig, BindListener, BuildTelemetry, BuildLogger
  <2>3. ~RunStep
    BY <2>1 DEF RunStep, RunBegin, ServeFailed, ServeCancelled, Drained, DrainTimesOut,
                Joined, ProbeJoined, FlushProvider, CloseLog, Publish, Finish
  <2>4. ~(AcceptorStarts \/ AcceptorFails \/ AcceptorStops \/ ProbeReturns)
    BY <2>1 DEF AcceptorStarts, AcceptorFails, AcceptorStops, ProbeReturns
  <2>5. ~(HostCancels \/ \E k \in Callers : HostStep(k))
    BY DEF HostCancels, HostStep, ShutdownCall, CallerCtxEnds, ShutdownReturns
  <2>6. ~\E c \in Conns : ConnStep(c)
    BY DEF ConnStep, Accept, NextRequest, FinishRequest, CloseQuietConn, SetConn
  <2>7. HandlerStep => detached
    BY <2>1 DEF HandlerStep, DetachedReturns, HandlerLogs
  <2> QED BY <2>2, <2>3, <2>4, <2>5, <2>6, <2>7 DEF Next
<1> QED BY <1>1, <1>2, Inductive, PTL DEF Spec, CleanStopIsQuiet

\* Telemetry is stopped after its users.
THEOREM TelemetryLast == Spec => []TelemetryOutlivesUsers
<1>1. IInv => TelemetryOutlivesUsers
  BY DEF IInv, StartInv, AcceptorInv, StopInv, ErrInv, ServeExited, TelemetryOutlivesUsers
<1> QED BY <1>1, Inductive, PTL

\* What Shutdown answers is true when it answers, and stays true.
THEOREM TruthfulShutdown == Spec => []ShutdownTruthful
  BY Inductive, PTL DEF IInv

-----------------------------------------------------------------------------
(* The refinement: every step is one of ServerPromise, or changes nothing  *)
(* it speaks of.                                                           *)

LEMMA InitPromise == Init => Promise!Init
  BY DEF Init, Promise!Init, Phase, Cause

LEMMA StartStepPromise == ASSUME IInv, StartStep PROVE [Promise!Next]_Promise!pvars
<1>1. /\ startPc \notin {"refused", "up"} /\ runPc = "none"
      /\ \/ UNCHANGED <<cancelled, runPc>> /\ startPc' # "up"
         \/ UNCHANGED cancelled /\ startPc' = "up" /\ runPc' = "begin"
         \/ cancelled' = TRUE /\ UNCHANGED runPc /\ startPc' = "refused"
      /\ UNCHANGED <<runErr, srvErr, caller>>
  BY DEF IInv, StartInv, StartStep, LoadConfig, BindListener, BuildTelemetry,
         BuildLogger, AbortStart
<1>2. CASE startPc' \in {"refused", "up"}
  <2>1. Promise!StartReturns
    BY <1>1, <1>2 DEF Promise!StartReturns, Phase, Cause
  <2> QED BY <2>1 DEF Promise!Next
<1>3. CASE startPc' \notin {"refused", "up"}
  BY <1>1, <1>3 DEF Phase, Cause, Promise!pvars
<1> QED BY <1>2, <1>3

\* Serve's select begins the stop, for the cause the errors will name; only
\* closing done lets the host see them.
LEMMA RunStepPromise == ASSUME IInv, RunStep PROVE [Promise!Next]_Promise!pvars
<1> USE DEF IInv, StartInv, Phase, Cause, Promise!pvars
<1>6. CASE RunBegin
  <2>1. CASE runPc' = "panicked"
    <3>1. Promise!Crash
      BY <1>6, <2>1 DEF RunBegin, Promise!Crash, ErrInv
    <3> QED BY <3>1 DEF Promise!Next
  <2> QED BY <1>6, <2>1 DEF RunBegin, ErrInv
<1>1. CASE Drained \/ DrainTimesOut \/ \E s \in Signals : FlushProvider(s)
  BY <1>1 DEF Drained, DrainTimesOut, FlushProvider, ErrInv
<1>2. CASE Joined \/ ProbeJoined \/ CloseLog \/ Publish
  BY <1>2 DEF Joined, ServeReturns, ServeErr, Cancel, ProbeJoined, CloseLog, Publish,
              StopInv, ErrInv, TypeOK
<1>3. CASE ServeFailed
  <2>1. Promise!BeginStop
    BY <1>3 DEF ServeFailed, ServeReturns, Cancel, Promise!BeginStop
  <2> QED BY <2>1 DEF Promise!Next
<1>4. CASE ServeCancelled
  <2>1. Promise!BeginStop
    BY <1>4 DEF ServeCancelled, Promise!BeginStop, ErrInv
  <2> QED BY <2>1 DEF Promise!Next
<1>5. CASE Finish
  <2>1. ListenerFailed => runErr = {"accept"} \/ runErr = {"accept", "close"}
    <3>1. ListenerFailed => runErr \subseteq {"accept", "close"} /\ "accept" \in runErr
      BY DEF TypeOK, ErrInv
    <3>2. CASE "close" \in runErr
      BY <3>1, <3>2
    <3>3. CASE "close" \notin runErr
      BY <3>1, <3>3
    <3> QED BY <3>2, <3>3
  <2>2. ~ListenerFailed => runErr \in Promise!StopErrors
    BY DEF TypeOK, ErrInv, Promise!StopErrors
  <2>3. srvErr = runErr /\ cancelled
    BY <1>5 DEF Finish, ErrInv, StopInv
  <2>4. Promise!Stop
    BY <1>5, <2>1, <2>2, <2>3 DEF Finish, Promise!Stop
  <2> QED BY <2>4 DEF Promise!Next
<1> QED BY <1>1, <1>2, <1>3, <1>4, <1>5, <1>6 DEF RunStep

LEMMA OtherStepPromise ==
  ASSUME IInv,
         \/ AcceptorStarts \/ AcceptorFails \/ AcceptorStops \/ ProbeReturns
         \/ \E c \in Conns : ConnStep(c)
         \/ HandlerStep
         \/ HostCancels
         \/ \E k \in Callers : HostStep(k)
  PROVE  [Promise!Next]_Promise!pvars
<1> USE DEF Phase, Cause, Promise!pvars
<1>1. CASE AcceptorStarts \/ AcceptorFails \/ AcceptorStops \/ ProbeReturns
  BY <1>1 DEF AcceptorStarts, AcceptorFails, AcceptorStops, ProbeReturns
<1>2. CASE HandlerStep \/ \E c \in Conns : ConnStep(c)
  BY <1>2 DEF ConnStep, Accept, NextRequest, FinishRequest, CloseQuietConn,
              HandlerStep, DetachedReturns, HandlerLogs, SetConn
<1>3. CASE HostCancels
  <2>1. Promise!Ask
    BY <1>3 DEF HostCancels, Promise!Ask
  <2> QED BY <2>1 DEF Promise!Next
<1>4. ASSUME NEW k \in Callers, HostStep(k) PROVE [Promise!Next]_Promise!pvars
  <2>1. CASE ShutdownCall(k)
    <3>1. Promise!Call(k)
      BY <2>1 DEF ShutdownCall, Cancel, Promise!Call
    <3> QED BY <3>1 DEF Promise!Next
  <2>2. CASE CallerCtxEnds(k)
    BY <2>2 DEF CallerCtxEnds
  <2>3. CASE ShutdownReturns(k)
    <3>1. DoneClosed => Phase \in {"stopped", "crashed"}
      BY DEF DoneClosed, IInv, StartInv
    <3>2. Promise!Return(k)
      BY <2>3, <3>1 DEF ShutdownReturns, Promise!Return, IInv, ErrInv, StartInv
    <3> QED BY <3>2 DEF Promise!Next
  <2> QED BY <1>4, <2>1, <2>2, <2>3 DEF HostStep
<1> QED BY <1>1, <1>2, <1>3, <1>4

\* The server keeps its promise to the host: it stops only when asked or when
\* its listener failed, Err tells which and never changes, and Shutdown gives
\* the final answer.
THEOREM PromiseKept == Spec => KeepsPromise
<1>1. IInv /\ [Next]_vars => [Promise!Next]_Promise!pvars
  <2> SUFFICES ASSUME IInv, [Next]_vars PROVE [Promise!Next]_Promise!pvars
    OBVIOUS
  <2>1. CASE Next
    BY <2>1, StartStepPromise, RunStepPromise, OtherStepPromise DEF Next
  <2>2. CASE UNCHANGED vars
    BY <2>2 DEF vars, Promise!pvars, Phase, Cause
  <2> QED BY <2>1, <2>2
<1> QED BY InitPromise, <1>1, Inductive, PTL DEF Spec, KeepsPromise, Promise!Spec

=============================================================================
