--------------------------- MODULE ServerPromise ---------------------------
(***************************************************************************)
(* What the package promises the host that embeds it: a server starts or   *)
(* is refused; a running server stops because it was asked to (its context *)
(* or Shutdown) or because its listener failed; the error it then reports  *)
(* tells the two apart and never changes; a call of Shutdown returns that  *)
(* error after the stop, or gives up with its own context's error.  A      *)
(* server whose path no ServeMux takes ends its process instead of         *)
(* running: it is cancelled, and a Shutdown that waits may still see that. *)
(***************************************************************************)
CONSTANT Callers

VARIABLES
  phase,   \* "starting", "refused", "running", "stopping", "stopped"
           \* or "crashed"
  asked,   \* the run context is done
  cause,   \* why it stops: "none" yet, "asked" or "listener"
  err,     \* what Err reports
  caller   \* per Shutdown call: "idle", "waiting" or its result

pvars == <<phase, asked, cause, err, caller>>

Init ==
  /\ phase = "starting"
  /\ asked = FALSE
  /\ cause = "none"
  /\ err = {}
  /\ caller = [k \in Callers |-> "idle"]

StartReturns ==
  /\ phase = "starting"
  /\ \/ phase' = "running" /\ UNCHANGED asked
     \/ phase' = "refused" /\ asked' \in {asked, TRUE}
  /\ UNCHANGED <<cause, err, caller>>

Ask ==
  /\ phase # "refused"
  /\ asked' = TRUE
  /\ UNCHANGED <<phase, cause, err, caller>>

BeginStop ==
  /\ phase = "running"
  /\ phase' = "stopping"
  /\ asked' = TRUE
  /\ \/ asked /\ cause' = "asked"
     \/ cause' = "listener"
  /\ UNCHANGED <<err, caller>>

\* What a server that was asked to stop may report: that its drain timed out, or
\* that closing its listener failed (never both), and that closing its log did.
StopErrors == {e \in SUBSET {"listenerClose", "deadline", "close"} :
                 ~({"listenerClose", "deadline"} \subseteq e)}

\* A listener that failed while it was served is always reported, and a server
\* that was asked to stop never blames its listener for that.
Stop ==
  /\ phase = "stopping"
  /\ phase' = "stopped"
  /\ \/ cause = "listener" /\ err' \in {{"accept"}, {"accept", "close"}}
     \/ cause = "asked" /\ err' \in StopErrors
  /\ UNCHANGED <<asked, cause, caller>>

Crash ==
  /\ phase = "running"
  /\ phase' = "crashed"
  /\ asked' = TRUE
  /\ UNCHANGED <<cause, err, caller>>

Call(k) ==
  /\ phase \notin {"starting", "refused"}
  /\ caller[k] = "idle"
  /\ caller' = [caller EXCEPT ![k] = "waiting"]
  /\ asked' = TRUE
  /\ UNCHANGED <<phase, cause, err>>

Return(k) ==
  /\ caller[k] = "waiting"
  /\ \/ /\ phase \in {"stopped", "crashed"}
        /\ caller' = [caller EXCEPT ![k] = IF err = {} THEN "nil" ELSE "err"]
     \/ caller' = [caller EXCEPT ![k] = "ctxErr"]
  /\ UNCHANGED <<phase, asked, cause, err>>

Next == \/ StartReturns \/ Ask \/ BeginStop \/ Stop \/ Crash
        \/ \E k \in Callers : Call(k) \/ Return(k)

Spec == Init /\ [][Next]_pvars

=============================================================================
