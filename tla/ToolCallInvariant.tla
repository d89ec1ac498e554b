------------------------- MODULE ToolCallInvariant -------------------------
(***************************************************************************)
(* The inductive invariant of ToolCall.  None of the safety properties is  *)
(* inductive: what a handler gets rests on which tool was routed to it and *)
(* on the check it passed, that ODAS was asked in scope on the routing as  *)
(* well, and the mark on the span on when the answer was made.             *)
(***************************************************************************)
EXTENDS ToolCall

InTool == {"validate", "scope", "odas"}
Unanswered == {"arrived", "routed"} \cup InTool

\* The pipeline of a tool is entered only by a call of a tool that exists.
RoutedInv ==
  \A m \in Messages : pc[m] \in InTool =>
    request[m].method = "tools/call" /\ request[m].tool # "unknown"

\* Past the check a handler holds what the check made of the arguments, and
\* none of them is a problem.
CheckedInv ==
  \A m \in Messages : pc[m] \in {"scope", "odas"} =>
    /\ input[m] = Input(m)
    /\ \A f \in ArgFields(m) : input[m][f] # Refused

\* An answer is there exactly from when the chain has returned, and the span
\* is open until it ends.
AnswerInv ==
  \A m \in Messages :
    /\ pc[m] \in Unanswered <=> reply[m] = NoReply
    /\ pc[m] \notin Unanswered => reply[m].kind # "none"
    /\ pc[m] = "arrived" => span[m] = "none"
    /\ pc[m] \notin {"arrived", "replied"} => span[m] = "open"

\* No message ends the process the others are served in.
IInv == /\ alive = TRUE
        /\ TypeOK /\ RoutedInv /\ CheckedInv /\ AnswerInv
        /\ UnexpectedIsLogged /\ SpanTellsFailure /\ AskedInScope

=============================================================================
