----------------------------- MODULE NodeRead ------------------------------
(***************************************************************************)
(* RequirementClient.Node: one tool call reads a requirement's record and  *)
(* its ancestors from ODAS at once, over the pool of connections every     *)
(* call shares.  The first failure wins and cancels the other read; the    *)
(* caller may cancel the call; a human may give the requirement another    *)
(* parent at any moment, between the two reads too.                        *)
(*                                                                         *)
(* A path is abstracted to its last element, a parent to its id: a value   *)
(* of Parents, or "root" for no parent, an empty path and a field of a     *)
(* record that tells none.                                                 *)
(***************************************************************************)
EXTENDS OdasGet, Naturals, FiniteSets

CONSTANTS
  Calls,     \* concurrent calls of requirement_tree_node
  Parents,   \* requirements that can be the parent of the one read
  Scopes     \* what is fixed for a behaviour

(***************************************************************************)
(* calls: the calls that are made.  maxConns: HTTP_MAX_CONNECTIONS.        *)
(* answers: the replies ODAS may give.  places: where the requirement may  *)
(* hang.  maxMoves: how often humans reparent it.                          *)
(***************************************************************************)
Places == Parents \cup {"root"}

ASSUME ScopesAssumption ==
  Scopes \subseteq [calls: SUBSET Calls, maxConns: Nat \ {0}, answers: SUBSET Replies,
                    places: SUBSET Places, maxMoves: Nat]
ASSUME ParentsAssumption == "root" \notin Parents

VARIABLES
  scope,       \* one of Scopes
  base,        \* ODAS_BASE_URL: "empty", "malformed" (no request can be made
               \* of it) or "usable"
  parentOf,    \* the parent ODAS records now
  moves,       \* reparentings so far
  callPc,      \* per call: "idle", "reading" or "answered"
  gone,        \* per call: its context was cancelled by the caller
  window,      \* per call: the parents recorded while it was reading (history)
  pc,          \* per call and read: "none", "begin", "pool", "sent", "body", "done"
  outcome,     \* per call and read: what get returned, or will once read
  seen,        \* per call and read: the place the reply speaks of
  line,        \* per call and read: the error line about it ("live" and
               \* "cancelled" tell what the read's context was by then)
  first,       \* per call: the read whose error the group kept, or "none"
  failedBy     \* per call and read: "config", "reply", "network", "context",
               \* "panic" or "none"

vars == <<scope, base, parentOf, moves, callPc, gone, window, pc, outcome, seen,
          line, first, failedBy>>
odasVars == <<scope, base, parentOf, moves>>

Bases == {"empty", "malformed", "usable"}

PerRead(v) == [c \in Calls |-> [r \in Reads |-> v]]

Init ==
  /\ scope \in Scopes
  /\ base \in Bases
  /\ parentOf \in scope.places
  /\ moves = 0
  /\ callPc = [c \in Calls |-> "idle"]
  /\ gone = [c \in Calls |-> FALSE]
  /\ window = [c \in Calls |-> {}]
  /\ pc = PerRead("none")
  /\ outcome = PerRead("none")
  /\ seen = PerRead("root")
  /\ line = PerRead("none")
  /\ first = [c \in Calls |-> "none"]
  /\ failedBy = PerRead("none")

\* The context of both reads: the group's, derived from the caller's.
CtxDoneByCaller(c) == gone[c]
CtxDone(c) == gone[c] \/ first[c] # "none"

InUse == Cardinality({p \in Calls \X Reads : pc[p[1]][p[2]] \in {"sent", "body"}})

-----------------------------------------------------------------------------
(***************************************************************************)
(* One read.                                                               *)
(***************************************************************************)
\* The group keeps the first error it is given.
KeepLast(c, r) == r
KeepFirst(c, r) == IF first[c] = "none" THEN r ELSE first[c]

\* get returns to the group with outcome o; errgroup's Go keeps the error.
Return(c, r, o, cause) ==
  /\ pc' = [pc EXCEPT ![c][r] = "done"]
  /\ outcome' = [outcome EXCEPT ![c][r] = o]
  /\ IF Succeeds(o) THEN UNCHANGED <<first, failedBy>>
     ELSE /\ first' = [first EXCEPT ![c] = KeepFirst(c, r)]
          /\ failedBy' = [failedBy EXCEPT ![c][r] = cause]

\* An error line about the read, written under its context.
Log(c, r) ==
  line' = [line EXCEPT ![c][r] = IF CtxDone(c) THEN "cancelled" ELSE "live"]

readRest == <<odasVars, callPc, gone, window>>

\* The URL is checked, the request built and given to the transport, which
\* waits for a connection of the pool.
BeginRead(c, r) ==
  /\ pc[c][r] = "begin"
  /\ \/ /\ base = "usable"
        /\ pc' = [pc EXCEPT ![c][r] = "pool"]
        /\ UNCHANGED <<outcome, first, failedBy, line>>
     \/ /\ base = "empty"
        /\ Return(c, r, "unconfigured", "config")
        /\ UNCHANGED line
     \/ /\ base = "malformed"
        /\ Log(c, r)
        /\ Return(c, r, "unavailable", "config")
  /\ UNCHANGED <<readRest, seen>>

Acquire(c, r) ==
  /\ pc[c][r] = "pool"
  /\ InUse < scope.maxConns
  /\ pc' = [pc EXCEPT ![c][r] = "sent"]
  /\ UNCHANGED <<readRest, outcome, seen, line, first, failedBy>>

\* A record has three fields for its parent: the resolved object, the id, and
\* the legacy list.  The first that tells one counts.
LastTold(record) ==
  LET told == {i \in DOMAIN record : record[i] # "root"}
  IN IF told = {} THEN "root" ELSE record[CHOOSE i \in told : \A j \in told : j <= i]

ConfirmedParentID(record) ==
  LET told == {i \in DOMAIN record : record[i] # "root"}
  IN IF told = {} THEN "root" ELSE record[CHOOSE i \in told : \A j \in told : i <= j]

\* What ODAS may write there of a requirement that hangs at p: p in the first
\* field it fills, and anything in the older fields after that one.
Records(p) ==
  IF p = "root" THEN {[i \in 1..3 |-> "root"]}
  ELSE {record \in [1..3 -> Places] :
          \E i \in 1..3 : /\ record[i] = p
                         /\ \A j \in 1..3 : j < i => record[j] = "root"}

\* ODAS answers from what it records now; Do returns with the headers.
OdasAnswers(c, r, reply) ==
  /\ pc[c][r] = "sent"
  /\ pc' = [pc EXCEPT ![c][r] = "body"]
  /\ outcome' = [outcome EXCEPT ![c][r] = Outcome(reply, HasRequiredFields(r))]
  /\ \E record \in Records(parentOf) :
       seen' = [seen EXCEPT ![c][r] =
                  IF reply.payload # "valid" THEN "root"
                  ELSE IF r = "record" THEN ConfirmedParentID(record) ELSE parentOf]
  /\ line' = [line EXCEPT ![c][r] =
                 IF LogsReply(reply, HasRequiredFields(r)) THEN "pending" ELSE "none"]
  /\ UNCHANGED <<readRest, first, failedBy>>

\* Do fails: the network, the client's timeout, or the context.  Only a
\* failure under a live context is logged.
DoFails(c, r) ==
  /\ pc[c][r] \in {"pool", "sent"}
  /\ \/ /\ ~CtxDone(c)
        /\ Log(c, r)
        /\ Return(c, r, "unavailable", "network")
     \/ /\ CtxDone(c)
        /\ Return(c, r, "unavailable", "context")
        /\ UNCHANGED line
  /\ UNCHANGED <<readRest, seen>>

\* Reading the body fails for the same reasons, and is logged in any case.
BodyFails(c, r) ==
  /\ pc[c][r] = "body"
  /\ Log(c, r)
  /\ Return(c, r, "unavailable", IF CtxDone(c) THEN "context" ELSE "network")
  /\ UNCHANGED <<readRest, seen>>

\* The body is complete: the reply is judged, and logged if it is a failure.
BodyRead(c, r) ==
  /\ pc[c][r] = "body"
  /\ IF line[c][r] = "pending" THEN Log(c, r) ELSE UNCHANGED line
  /\ Return(c, r, outcome[c][r], "reply")
  /\ UNCHANGED <<readRest, seen>>

\* A panic anywhere in the read becomes its error (recovering); it is no
\* ToolError, and addTool logs it.
ReadPanics(c, r) ==
  /\ pc[c][r] \in {"begin", "pool", "sent", "body"}
  /\ Return(c, r, "panic", "panic")
  /\ line' = [line EXCEPT ![c][r] = "none"]
  /\ UNCHANGED <<readRest, seen>>

ReadStep(c, r) ==
  \/ BeginRead(c, r) \/ Acquire(c, r) \/ DoFails(c, r)
  \/ \E reply \in scope.answers : OdasAnswers(c, r, reply)
  \/ BodyFails(c, r) \/ BodyRead(c, r) \/ ReadPanics(c, r)

-----------------------------------------------------------------------------
(***************************************************************************)
(* The call, its caller, and the humans who edit the project.              *)
(***************************************************************************)
callRest == <<odasVars, gone, outcome, seen, line, first, failedBy>>

Call(c) ==
  /\ c \in scope.calls
  /\ callPc[c] = "idle"
  /\ callPc' = [callPc EXCEPT ![c] = "reading"]
  /\ pc' = [pc EXCEPT ![c] = [r \in Reads |-> "begin"]]
  /\ window' = [window EXCEPT ![c] = {parentOf}]
  /\ UNCHANGED callRest

\* group.Wait returns once both reads have; the call answers with the error
\* the group kept, or with the record and the path.
FirstReturned(c) == first[c] # "none" \/ \A r \in Reads : pc[c][r] = "done"
BothReturned(c) == \A r \in Reads : pc[c][r] = "done"

Answer(c) ==
  /\ callPc[c] = "reading"
  /\ BothReturned(c)
  /\ callPc' = [callPc EXCEPT ![c] = "answered"]
  /\ UNCHANGED <<callRest, pc, window>>

CallerLeaves(c) ==
  /\ callPc[c] = "reading" /\ ~gone[c]
  /\ gone' = [gone EXCEPT ![c] = TRUE]
  /\ UNCHANGED <<odasVars, callPc, window, pc, outcome, seen, line, first, failedBy>>

Reparent(p) ==
  /\ moves < scope.maxMoves
  /\ p # parentOf
  /\ parentOf' = p
  /\ moves' = moves + 1
  /\ window' = [c \in Calls |-> IF callPc[c] = "reading" THEN window[c] \cup {p}
                                 ELSE window[c]]
  /\ UNCHANGED <<scope, base, callPc, gone, pc, outcome, seen, line, first, failedBy>>

Next ==
  \/ \E c \in Calls : Call(c) \/ Answer(c) \/ CallerLeaves(c)
  \/ \E c \in Calls, r \in Reads : ReadStep(c, r)
  \/ \E p \in scope.places : Reparent(p)

Spec == Init /\ [][Next]_vars

(***************************************************************************)
(* A goroutine whose context is done gets to see it: the transport and the *)
(* body fail.  A call that can answer does.  Nothing else is owed: ODAS    *)
(* may never answer and the client's timeout may be set very high.         *)
(***************************************************************************)
Fairness ==
  \A c \in Calls :
    /\ WF_vars(Answer(c))
    /\ \A r \in Reads : WF_vars(BeginRead(c, r))
    /\ \A r \in Reads : WF_vars(CtxDone(c) /\ (DoFails(c, r) \/ BodyFails(c, r)))

FairSpec == Spec /\ Fairness

-----------------------------------------------------------------------------
(***************************************************************************)
(* Properties.                                                             *)
(***************************************************************************)
Failures == {"unconfigured", "rejected", "unavailable", "malformed", "panic"}
Outcomes == Failures \cup {"none", "ok", "empty"}
Causes == {"config", "reply", "network", "context", "panic"}

TypeOK ==
  /\ scope \in Scopes
  /\ base \in Bases
  /\ parentOf \in Places
  /\ moves \in 0..scope.maxMoves
  /\ callPc \in [Calls -> {"idle", "reading", "answered"}]
  /\ gone \in [Calls -> BOOLEAN]
  /\ window \in [Calls -> SUBSET Places]
  /\ pc \in [Calls -> [Reads -> {"none", "begin", "pool", "sent", "body", "done"}]]
  /\ outcome \in [Calls -> [Reads -> Outcomes]]
  /\ seen \in [Calls -> [Reads -> Places]]
  /\ line \in [Calls -> [Reads -> {"none", "pending", "live", "cancelled"}]]
  /\ first \in [Calls -> Reads \cup {"none"}]
  /\ failedBy \in [Calls -> [Reads -> Causes \cup {"none"}]]

Answered(c) == callPc[c] = "answered"
Succeeded(c) == Answered(c) /\ first[c] = "none"

\* A call that answered left no read behind: no goroutine of it holds or waits
\* for a connection of the shared pool (requirement.go:264).
NoReadOutlivesCall ==
  \A c \in Calls : Answered(c) => \A r \in Reads : pc[c][r] = "done"

\* A call answers with a failure only when ODAS, the network, the configuration
\* or a bug caused it: a read that failed because its sibling had never speaks
\* for the call (requirement.go:246-247).  A caller that left is told nothing.
FailureIsGenuine ==
  \A c \in Calls : Answered(c) /\ ~gone[c] /\ first[c] # "none" =>
    failedBy[c][first[c]] # "context"

\* A call that fails because of the service, for a caller that stayed, left an
\* error line about the very read its answer blames (base.go:303-335).
BlamedFailureIsLogged ==
  \A c \in Calls : Answered(c) /\ ~gone[c] /\ first[c] # "none" =>
    (outcome[c][first[c]] \in {"unavailable", "malformed"} => line[c][first[c]] = "live")

\* A detail is the answer of two successful reads, and of a requirement nobody
\* moved meanwhile it gives the parent it has and the path to it, whichever of
\* a record's fields told the parent and whatever the older ones still say
\* (schemas/requirement.go:236-251).
DetailConsistent ==
  \A c \in Calls : Succeeded(c) =>
    /\ outcome[c]["record"] = "ok" /\ Succeeds(outcome[c]["ancestors"])
    /\ outcome[c]["ancestors"] = "ok" /\ window[c] = {parentOf} =>
         seen[c]["record"] = parentOf /\ seen[c]["ancestors"] = parentOf

\* What the caller gets.
NoResult == [kind |-> "none", parent |-> "root", path |-> "root"]
Failed == [NoResult EXCEPT !.kind = "failure"]
Result(c) ==
  IF ~Answered(c) THEN NoResult
  ELSE IF first[c] # "none" THEN Failed
  ELSE [kind |-> "detail", parent |-> seen[c]["record"], path |-> seen[c]["ancestors"]]

Promise == INSTANCE NodePromise WITH
             place <- parentOf, phase <- callPc,
             trouble <- [c \in Calls |-> first[c] # "none"],
             result <- [c \in Calls |-> Result(c)]

\* The call keeps what Node promises its caller: a detail, each part of which
\* was so at some moment of the call, or a failure, and never both in part
\* (requirement.go:243-264).
KeepsNodePromise == Promise!Spec

\* When a read has failed, or the caller has left, the call is answered even
\* if ODAS never answers the other read (requirement.go:246-247).
FailureEndsCall ==
  \A c \in Calls : callPc[c] = "reading" /\ (gone[c] \/ first[c] # "none") ~> Answered(c)

\* schemas/requirement.go:370: the path ends "at the direct parent".
PathEndsAtParent ==
  \A c \in Calls : Succeeded(c) /\ outcome[c]["ancestors"] = "ok" =>
    seen[c]["record"] = seen[c]["ancestors"]

=============================================================================
