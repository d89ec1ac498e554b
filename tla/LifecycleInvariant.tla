------------------------ MODULE LifecycleInvariant -------------------------
(***************************************************************************)
(* The inductive invariant of Lifecycle.  The safety properties are not    *)
(* inductive: that nothing of a clean server is left at the end rests on   *)
(* what held when the drain ended, and that on how the accepting goroutine *)
(* and Shutdown can overtake each other.                                   *)
(***************************************************************************)
EXTENDS Lifecycle

Quiet == \A c \in Conns : conn[c] = "none"
ListenerFailed == "accept" \in runErr

\* The values of runPc once server.Serve has returned.
AfterServe == {"waitProbe", "flush", "publish", "finish", "done"}

\* Start: until the server is up nothing runs, and a listener of its own is
\* not open before it is bound.
StartInv ==
  /\ startPc # "up" =>
       /\ runPc = "none" /\ acceptor = "none" /\ probe = "none"
       /\ logFile = "closed" /\ Quiet /\ detached = FALSE
       /\ \A k \in Callers : caller[k] = "idle"
  /\ startPc = "up" => runPc # "none" /\ listener # "unbound"
  /\ startPc \in {"telemetry", "logger"} => listener # "unbound"
  /\ startPc \in {"config", "bind"} /\ ~opts.given => listener # "open"
  /\ startPc \in {"config", "bind", "telemetry"} => \A s \in Signals : provider[s] = "off"
  /\ startPc = "logger" => \A s \in Signals : provider[s] # "stopped"
  /\ startPc = "refused" =>
       /\ listener # "open"
       /\ \A s \in Signals : provider[s] # "running"

\* The accepting goroutine: it exists from RunBegin on, it closes the listener
\* when it ends, and it never serves an open listener after Shutdown.
AcceptorInv ==
  /\ acceptor = "none" <=> runPc \in {"none", "begin", "panicked"}
  /\ probe = "none" <=> runPc \in {"none", "begin"}
  /\ acceptor = "none" => ~inShutdown /\ Quiet
  /\ ServeExited => listener = "closed"
  /\ inShutdown /\ acceptor = "serving" => listener = "closed"
  /\ runPc = "join" => acceptor # "serving"
  /\ runPc \in AfterServe => ServeExited

\* The stop: what each of its stages can rely on.
StopInv ==
  /\ runPc \in {"none", "begin", "serve", "panicked"} => ~inShutdown
  /\ runPc = "panicked" => cancelled
  /\ runPc \in {"draining", "join"} => inShutdown /\ cancelled
  /\ runPc \in AfterServe => cancelled
  /\ runPc \in AfterServe \ {"waitProbe"} => probe = "done"
  /\ startPc = "up" /\ runPc \notin AfterServe \ {"waitProbe"} =>
       \A s \in Signals : provider[s] # "stopped"
  /\ runPc \in {"publish", "finish", "done"} => \A s \in Signals : provider[s] # "running"

\* The errors: what they say of the connections, and when they are published.
ErrInv ==
  /\ runPc \in {"none", "begin", "serve", "panicked"} => runErr = {}
  /\ runPc = "draining" => runErr \subseteq {"listenerClose"}
  /\ runPc = "join" => ~ListenerFailed
  /\ runPc \in AfterServe \cup {"join"} /\ ~ListenerFailed => inShutdown /\ Quiet
  /\ srvErr = IF runPc \in {"finish", "done"} THEN runErr ELSE {}
  /\ ListenerFailed => runErr \subseteq {"accept", "close"}
  /\ "deadline" \in runErr => "listenerClose" \notin runErr

\* The inductive invariant: the type invariant, the parts above and what the
\* calls of Shutdown have been told.
IInv == TypeOK /\ StartInv /\ AcceptorInv /\ StopInv /\ ErrInv /\ ShutdownTruthful

=============================================================================
