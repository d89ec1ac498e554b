------------------------- MODULE NodeReadInvariant -------------------------
(***************************************************************************)
(* The inductive invariant of NodeRead.  What a call answers rests on what *)
(* each of its reads has gathered by then: a failure is genuine because of *)
(* the moment its read returned, a detail consistent because of the moment *)
(* ODAS answered.                                                          *)
(***************************************************************************)
EXTENDS NodeRead

Genuine == Causes \ {"context"}
MustBeLogged == {"unavailable", "malformed"}

\* Reads run only under a call that waits for them.
ReadsInv ==
  \A c \in Calls, r \in Reads :
    /\ callPc[c] = "idle" => pc[c][r] = "none"
    /\ callPc[c] = "answered" => pc[c][r] = "done"
    /\ pc[c][r] \in {"body", "done"} <=> outcome[c][r] # "none"

\* The kept failure is that of a read that is over; unless the caller left, it
\* was no cancellation, and it is on record.
FirstInv ==
  \A c \in Calls : first[c] # "none" =>
    /\ pc[c][first[c]] = "done"
    /\ ~gone[c] =>
         /\ failedBy[c][first[c]] \in Genuine
         /\ outcome[c][first[c]] \in MustBeLogged => line[c][first[c]] = "live"

\* What a reply was found to be, it says of a moment of the call.
ReplyInv ==
  \A c \in Calls, r \in Reads :
    /\ outcome[c][r] = "ok" => seen[c][r] \in window[c]
    /\ outcome[c][r] = "empty" => r = "ancestors" /\ seen[c][r] = "root"
    /\ pc[c][r] = "body" /\ outcome[c][r] \in MustBeLogged => line[c][r] = "pending"
    /\ pc[c][r] = "done" /\ first[c] = "none" => Succeeds(outcome[c][r])

WindowInv == \A c \in Calls : callPc[c] = "reading" => parentOf \in window[c]

\* The inductive invariant: what the reads of a call know and have reported,
\* at any moment of it.
IInv == TypeOK /\ ReadsInv /\ FirstInv /\ ReplyInv /\ WindowInv
=============================================================================
