---------------------------- MODULE NodePromise ----------------------------
(***************************************************************************)
(* What a call of Node promises, whatever becomes of its reads: it returns *)
(* one result, a detail or a failure; a failure only when it met trouble   *)
(* and then nothing else; and a detail whose parent was the requirement's  *)
(* parent, and whose path led to one, at some moment of the call.  An      *)
(* empty path may also stand for a path ODAS did not send.                 *)
(***************************************************************************)
CONSTANTS Calls, Places

VARIABLES
  place,    \* where the requirement hangs now
  phase,    \* per call: "idle", "reading" or "answered"
  window,   \* per call: the places it had during the call
  trouble,  \* per call: something has failed
  result    \* per call

pvars == <<place, phase, window, trouble, result>>

NoResult == [kind |-> "none", parent |-> "root", path |-> "root"]
Failure == [kind |-> "failure", parent |-> "root", path |-> "root"]

Init ==
  /\ place \in Places
  /\ phase = [c \in Calls |-> "idle"]
  /\ window = [c \in Calls |-> {}]
  /\ trouble = [c \in Calls |-> FALSE]
  /\ result = [c \in Calls |-> NoResult]

Begin(c) ==
  /\ phase[c] = "idle"
  /\ phase' = [phase EXCEPT ![c] = "reading"]
  /\ window' = [window EXCEPT ![c] = {place}]
  /\ UNCHANGED <<place, trouble, result>>

Fail(c) ==
  /\ phase[c] = "reading"
  /\ trouble' = [trouble EXCEPT ![c] = TRUE]
  /\ UNCHANGED <<place, phase, window, result>>

Details(c) ==
  [kind : {"detail"}, parent : window[c], path : window[c] \cup {"root"}]

Answer(c) ==
  /\ phase[c] = "reading"
  /\ phase' = [phase EXCEPT ![c] = "answered"]
  /\ \E x \in IF trouble[c] THEN {Failure} ELSE Details(c) :
       result' = [result EXCEPT ![c] = x]
  /\ UNCHANGED <<place, window, trouble>>

Move(p) ==
  /\ place' = p
  /\ window' = [c \in Calls |-> IF phase[c] = "reading" THEN window[c] \cup {p}
                                ELSE window[c]]
  /\ UNCHANGED <<phase, trouble, result>>

Next ==
  \/ \E c \in Calls : Begin(c) \/ Fail(c) \/ Answer(c)
  \/ \E p \in Places : Move(p)

Spec == Init /\ [][Next]_pvars

=============================================================================
