-------------------------- MODULE NodeReadProofs ---------------------------
(***************************************************************************)
(* Proofs about NodeRead, for any set of concurrent calls, any size of the *)
(* pool, any replies and any number of reparentings: the invariant IInv is *)
(* inductive, the safety properties follow from it, and every step is one  *)
(* that NodePromise allows.                                                *)
(***************************************************************************)
EXTENDS NodeReadInvariant, TLAPS

USE DEF Reads, Places, Genuine, MustBeLogged, Causes

Running == {"begin", "pool", "sent", "body"}

-----------------------------------------------------------------------------
(* What get makes of a reply. *)

LEMMA OutcomeFacts ==
  ASSUME NEW reply \in Replies, NEW r \in Reads
  PROVE  LET o == Outcome(reply, HasRequiredFields(r)) IN
         /\ o \in {"rejected", "unavailable", "malformed", "ok", "empty"}
         /\ o = "ok" => reply.payload = "valid"
         /\ o = "empty" => r = "ancestors" /\ reply.payload # "valid"
         /\ o \in MustBeLogged => LogsReply(reply, HasRequiredFields(r))
  BY DEF Replies, Statuses, Payloads, Outcome, Decoded, HasRequiredFields, LogsReply

\* The first field of a record that tells a parent tells the one it has.
LEMMA ParentConfirmed ==
  ASSUME NEW p \in Places, NEW record \in Records(p)
  PROVE  ConfirmedParentID(record) = p
<1>1. CASE p = "root"
  <2>1. \A i \in DOMAIN record : record[i] = "root"
    BY <1>1 DEF Records
  <2> QED BY <1>1, <2>1 DEF ConfirmedParentID
<1>2. CASE p # "root"
  <2> DEFINE told == {i \in DOMAIN record : record[i] # "root"}
             k == CHOOSE i \in told : \A j \in told : i <= j
  <2>1. record \in [1..3 -> Places]
    BY <1>2 DEF Records
  <2>2. PICK i \in 1..3 : /\ record[i] = p
                          /\ \A j \in 1..3 : j < i => record[j] = "root"
    BY <1>2 DEF Records
  <2>3. i \in told /\ told \subseteq 1..3 /\ \A j \in told : i <= j
    BY <1>2, <2>1, <2>2
  <2>4. k \in told /\ \A j \in told : k <= j
    BY <2>3
  <2>5. k = i
    BY <2>3, <2>4
  <2> QED BY <2>2, <2>3, <2>5 DEF ConfirmedParentID
<1> QED BY <1>1, <1>2

-----------------------------------------------------------------------------
(* The invariant is inductive. *)

LEMMA InitInv == Init => IInv
<1> SUFFICES ASSUME Init PROVE IInv
  OBVIOUS
<1>1. scope \in Scopes /\ scope.places \subseteq Places
  BY ScopesAssumption DEF Init
<1>2. TypeOK
  BY <1>1, ScopesAssumption DEF Init, TypeOK, PerRead, Outcomes
<1> QED BY <1>2 DEF Init, IInv, PerRead, ReadsInv, FirstInv, ReplyInv, WindowInv

\* A read that is not over belongs to a call that waits for it, and is not the
\* one whose failure the call keeps.
LEMMA RunningRead ==
  ASSUME IInv, NEW c \in Calls, NEW r \in Reads, pc[c][r] \in Running
  PROVE  callPc[c] = "reading" /\ first[c] # r
  BY DEF IInv, TypeOK, ReadsInv, FirstInv, Running

\* A read that returns keeps the invariant if its success speaks of the call's
\* time and its failure, should the call keep it, is genuine and on record.
LEMMA ReturnInv ==
  ASSUME IInv, NEW c \in Calls, NEW r \in Reads, pc[c][r] \in Running,
         NEW o \in Outcomes \ {"none"},
         NEW cause \in Causes,
         NEW l \in {"none", "pending", "live", "cancelled"},
         Return(c, r, o, cause),
         line' = [line EXCEPT ![c][r] = l],
         UNCHANGED <<readRest, seen>>,
         o = "ok" => seen[c][r] \in window[c],
         o = "empty" => r = "ancestors" /\ seen[c][r] = "root",
         ~Succeeds(o) /\ ~CtxDone(c) =>
           cause \in Genuine /\ (o \in MustBeLogged => l = "live")
  PROVE  IInv'
<1> USE DEF IInv, readRest, odasVars
<1>1. callPc[c] = "reading" /\ first[c] # r
  BY RunningRead
<1>2. /\ pc' = [pc EXCEPT ![c][r] = "done"]
      /\ outcome' = [outcome EXCEPT ![c][r] = o]
      /\ \/ Succeeds(o) /\ UNCHANGED <<first, failedBy>>
         \/ /\ ~Succeeds(o)
            /\ first' = [first EXCEPT ![c] = KeepFirst(c, r)]
            /\ failedBy' = [failedBy EXCEPT ![c][r] = cause]
  BY DEF Return
<1>3. TypeOK'
  <2>1. KeepFirst(c, r) \in Reads \cup {"none"}
    BY DEF TypeOK, KeepFirst
  <2>2. /\ first' \in [Calls -> Reads \cup {"none"}]
        /\ failedBy' \in [Calls -> [Reads -> Causes \cup {"none"}]]
    <3>1. CASE Succeeds(o)
      BY <1>2, <3>1 DEF TypeOK
    <3>2. CASE ~Succeeds(o)
      <4>1. first' = [first EXCEPT ![c] = KeepFirst(c, r)]
            /\ failedBy' = [failedBy EXCEPT ![c][r] = cause]
        BY <1>2, <3>2
      <4> QED BY <2>1, <4>1 DEF TypeOK
    <3> QED BY <3>1, <3>2
  <2>3. /\ pc' \in [Calls -> [Reads -> {"none", "begin", "pool", "sent", "body", "done"}]]
        /\ outcome' \in [Calls -> [Reads -> Outcomes]]
        /\ line' \in [Calls -> [Reads -> {"none", "pending", "live", "cancelled"}]]
    BY <1>2 DEF TypeOK
  <2> QED BY <2>2, <2>3 DEF TypeOK
<1>4. ReadsInv'
  BY <1>1, <1>2 DEF TypeOK, ReadsInv
<1>5. FirstInv'
  <2> SUFFICES ASSUME NEW d \in Calls, first'[d] # "none"
               PROVE  /\ pc'[d][first'[d]] = "done"
                      /\ ~gone'[d] =>
                           /\ failedBy'[d][first'[d]] \in Genuine
                           /\ outcome'[d][first'[d]] \in MustBeLogged =>
                                line'[d][first'[d]] = "live"
    BY DEF FirstInv
  <2>1. CASE first[d] # "none"
    <3>1. first'[d] = first[d] /\ first[d] \in Reads /\ (d = c => first[d] # r)
      BY <1>1, <1>2, <2>1 DEF TypeOK, KeepFirst
    <3>2. /\ pc'[d][first[d]] = pc[d][first[d]]
          /\ failedBy'[d][first[d]] = failedBy[d][first[d]]
          /\ outcome'[d][first[d]] = outcome[d][first[d]]
          /\ line'[d][first[d]] = line[d][first[d]]
      BY <1>2, <3>1 DEF TypeOK
    <3> QED BY <2>1, <3>1, <3>2 DEF FirstInv
  <2>2. CASE first[d] = "none"
    <3>1. d = c /\ ~Succeeds(o) /\ first'[d] = r
      BY <1>2, <2>2 DEF TypeOK, KeepFirst
    <3>2. /\ pc'[d][r] = "done" /\ outcome'[d][r] = o /\ line'[d][r] = l
          /\ failedBy'[d][r] = cause
      BY <1>2, <3>1 DEF TypeOK
    <3>3. ~gone'[d] => ~CtxDone(c)
      BY <2>2, <3>1 DEF CtxDone
    <3> QED BY <3>1, <3>2, <3>3
  <2> QED BY <2>1, <2>2
<1>6. ReplyInv'
  <2> SUFFICES ASSUME NEW d \in Calls, NEW s \in Reads
               PROVE  /\ outcome'[d][s] = "ok" => seen'[d][s] \in window'[d]
                      /\ outcome'[d][s] = "empty" => s = "ancestors" /\ seen'[d][s] = "root"
                      /\ pc'[d][s] = "body" /\ outcome'[d][s] \in MustBeLogged =>
                           line'[d][s] = "pending"
                      /\ pc'[d][s] = "done" /\ first'[d] = "none" => Succeeds(outcome'[d][s])
    BY DEF ReplyInv
  <2>1. first'[d] = "none" => first[d] = "none"
    BY <1>2 DEF TypeOK, KeepFirst
  <2>2. CASE d = c /\ s = r
    <3>1. pc'[d][s] = "done" /\ outcome'[d][s] = o
      BY <1>2, <2>2 DEF TypeOK
    <3>2. first'[d] = "none" => Succeeds(o)
      BY <1>2, <2>2 DEF TypeOK, KeepFirst
    <3> QED BY <2>2, <3>1, <3>2
  <2>3. CASE ~(d = c /\ s = r)
    <3>1. /\ pc'[d][s] = pc[d][s] /\ outcome'[d][s] = outcome[d][s]
          /\ line'[d][s] = line[d][s]
      BY <1>2, <2>3 DEF TypeOK
    <3> QED BY <2>1, <3>1 DEF ReplyInv
  <2> QED BY <2>2, <2>3
<1>7. WindowInv'
  BY DEF WindowInv
<1> QED BY <1>3, <1>4, <1>5, <1>6, <1>7
\* The steps of a read.
LEMMA ReadStepInv ==
  ASSUME IInv, NEW c \in Calls, NEW r \in Reads, ReadStep(c, r) PROVE IInv'
<1> USE DEF IInv, Running
<1>1. pc[c][r] \in Running
  BY DEF ReadStep, BeginRead, Acquire, DoFails, OdasAnswers, BodyFails, BodyRead, ReadPanics
<1>2. callPc[c] = "reading" /\ first[c] # r
  BY <1>1, RunningRead
<1>3. line[c][r] \in {"none", "pending", "live", "cancelled"}
      /\ line = [line EXCEPT ![c][r] = line[c][r]]
  BY DEF TypeOK
<1>4. CASE BeginRead(c, r)
  <2>1. CASE base = "usable"
    <3>1. /\ pc[c][r] = "begin" /\ pc' = [pc EXCEPT ![c][r] = "pool"]
          /\ UNCHANGED <<readRest, seen, line, outcome, first, failedBy>>
      BY <1>4, <2>1 DEF BeginRead
    <3> QED BY <1>2, <3>1
            DEF TypeOK, ReadsInv, FirstInv, ReplyInv, WindowInv, readRest, odasVars
  <2>2. CASE base = "empty"
    <3>1. Return(c, r, "unconfigured", "config") /\ UNCHANGED <<readRest, seen, line>>
      BY <1>4, <2>2 DEF BeginRead
    <3> QED BY <1>1, <1>3, <3>1, ReturnInv DEF Outcomes, Failures
  <2>3. CASE base = "malformed"
    <3>1. PICK l \in {"live", "cancelled"} :
            /\ Return(c, r, "unavailable", "config") /\ UNCHANGED <<readRest, seen>>
            /\ line' = [line EXCEPT ![c][r] = l]
            /\ ~CtxDone(c) => l = "live"
      BY <1>4, <2>3 DEF BeginRead, Log
    <3> QED BY <1>1, <3>1, ReturnInv DEF Outcomes, Failures
  <2> QED BY <1>4, <2>1, <2>2, <2>3 DEF BeginRead
<1>5. CASE Acquire(c, r)
  <2>1. /\ pc[c][r] = "pool" /\ pc' = [pc EXCEPT ![c][r] = "sent"]
        /\ UNCHANGED <<readRest, seen, line, outcome, first, failedBy>>
    BY <1>5 DEF Acquire
  <2> QED BY <1>2, <2>1
          DEF TypeOK, ReadsInv, FirstInv, ReplyInv, WindowInv, readRest, odasVars
<1>6. CASE DoFails(c, r)
  <2>1. CASE CtxDone(c)
    <3>1. Return(c, r, "unavailable", "context") /\ UNCHANGED <<readRest, seen, line>>
      BY <1>6, <2>1 DEF DoFails
    <3> QED BY <1>1, <1>3, <2>1, <3>1, ReturnInv DEF Outcomes, Failures
  <2>2. CASE ~CtxDone(c)
    <3>1. /\ Return(c, r, "unavailable", "network") /\ UNCHANGED <<readRest, seen>>
          /\ line' = [line EXCEPT ![c][r] = "live"]
      BY <1>6, <2>2 DEF DoFails, Log
    <3> QED BY <1>1, <3>1, ReturnInv DEF Outcomes, Failures
  <2> QED BY <2>1, <2>2
<1>7. ASSUME NEW reply \in scope.answers, OdasAnswers(c, r, reply) PROVE IInv'
  <2> DEFINE o == Outcome(reply, HasRequiredFields(r))
  <2>1. reply \in Replies
    BY <1>7, ScopesAssumption DEF TypeOK
  <2>2. /\ o \in Outcomes \ {"none"}
        /\ o = "ok" => reply.payload = "valid"
        /\ o = "empty" => r = "ancestors" /\ reply.payload # "valid"
        /\ o \in MustBeLogged => LogsReply(reply, HasRequiredFields(r))
    BY <2>1, OutcomeFacts DEF Outcomes, Failures
  <2> HIDE DEF o
  <2>3. PICK place \in Places, l \in {"pending", "none"} :
          /\ place = IF reply.payload = "valid" THEN parentOf ELSE "root"
          /\ o \in MustBeLogged => l = "pending"
          /\ pc[c][r] = "sent" /\ pc' = [pc EXCEPT ![c][r] = "body"]
          /\ outcome' = [outcome EXCEPT ![c][r] = o]
          /\ seen' = [seen EXCEPT ![c][r] = place]
          /\ line' = [line EXCEPT ![c][r] = l]
          /\ UNCHANGED <<readRest, first, failedBy>>
    BY <1>7, <2>2, ParentConfirmed DEF OdasAnswers, o, TypeOK
  <2>4. parentOf \in window[c]
    BY <1>2 DEF WindowInv
  <2>5. TypeOK' /\ ReadsInv' /\ WindowInv'
    BY <1>2, <2>2, <2>3 DEF TypeOK, ReadsInv, WindowInv, readRest, odasVars
  <2>6. FirstInv'
    BY <1>2, <2>3 DEF TypeOK, FirstInv, readRest, odasVars
  <2>7. ReplyInv'
    BY <2>2, <2>3, <2>4 DEF TypeOK, ReplyInv, readRest, odasVars
  <2> QED BY <2>5, <2>6, <2>7
<1>8. CASE BodyFails(c, r)
  <2>1. PICK l \in {"live", "cancelled"}, cause \in {"context", "network"} :
          /\ Return(c, r, "unavailable", cause) /\ UNCHANGED <<readRest, seen>>
          /\ line' = [line EXCEPT ![c][r] = l]
          /\ ~CtxDone(c) => l = "live" /\ cause = "network"
    BY <1>8 DEF BodyFails, Log
  <2> QED BY <1>1, <2>1, ReturnInv DEF Outcomes, Failures
<1>9. CASE BodyRead(c, r)
  <2>1. PICK l \in {"none", "pending", "live", "cancelled"} :
          /\ pc[c][r] = "body"
          /\ Return(c, r, outcome[c][r], "reply") /\ UNCHANGED <<readRest, seen>>
          /\ line' = [line EXCEPT ![c][r] = l]
          /\ ~CtxDone(c) /\ line[c][r] = "pending" => l = "live"
    <3>1. CASE line[c][r] = "pending"
      BY <1>9, <3>1 DEF BodyRead, Log
    <3>2. CASE line[c][r] # "pending"
      BY <1>3, <1>9, <3>2 DEF BodyRead
    <3> QED BY <3>1, <3>2
  <2>2. outcome[c][r] \in Outcomes \ {"none"}
    BY <2>1 DEF TypeOK, ReadsInv
  <2>3. /\ outcome[c][r] = "ok" => seen[c][r] \in window[c]
        /\ outcome[c][r] = "empty" => r = "ancestors" /\ seen[c][r] = "root"
        /\ outcome[c][r] \in MustBeLogged => line[c][r] = "pending"
    BY <2>1 DEF ReplyInv
  <2> QED BY <1>1, <2>1, <2>2, <2>3, ReturnInv
<1>10. CASE ReadPanics(c, r)
  <2>1. /\ Return(c, r, "panic", "panic") /\ UNCHANGED <<readRest, seen>>
        /\ line' = [line EXCEPT ![c][r] = "none"]
    BY <1>10 DEF ReadPanics
  <2> QED BY <1>1, <2>1, ReturnInv DEF Outcomes, Failures
<1> QED BY <1>4, <1>5, <1>6, <1>7, <1>8, <1>9, <1>10 DEF ReadStep
\* A call begins with its reads and ends when both are over; its caller only
\* marks the context, and a reparenting is seen by every call that reads.
LEMMA OtherStepInv ==
  ASSUME IInv,
         \/ \E c \in Calls : Call(c) \/ Answer(c) \/ CallerLeaves(c)
         \/ \E p \in scope.places : Reparent(p)
  PROVE  IInv'
<1> USE DEF IInv, callRest, odasVars
<1>1. ASSUME NEW c \in Calls, Call(c) PROVE IInv'
  <2>1. /\ callPc[c] = "idle"
        /\ callPc' = [callPc EXCEPT ![c] = "reading"]
        /\ pc' = [pc EXCEPT ![c] = [r \in Reads |-> "begin"]]
        /\ window' = [window EXCEPT ![c] = {parentOf}]
        /\ UNCHANGED callRest
    BY <1>1 DEF Call
  <2>2. first[c] = "none" /\ \A r \in Reads : outcome[c][r] = "none"
    BY <2>1 DEF TypeOK, ReadsInv, FirstInv
  <2>3. TypeOK'
    BY <2>1 DEF TypeOK
  <2>4. ReadsInv' /\ WindowInv'
    BY <2>1, <2>2 DEF TypeOK, ReadsInv, WindowInv
  <2>5. FirstInv'
    BY <2>1, <2>2 DEF TypeOK, FirstInv
  <2>6. ReplyInv'
    BY <2>1, <2>2 DEF TypeOK, ReplyInv
  <2> QED BY <2>3, <2>4, <2>5, <2>6
<1>2. ASSUME NEW c \in Calls, Answer(c) PROVE IInv'
  BY <1>2 DEF Answer, BothReturned, TypeOK, ReadsInv, FirstInv, ReplyInv, WindowInv
<1>3. ASSUME NEW c \in Calls, CallerLeaves(c) PROVE IInv'
  BY <1>3 DEF CallerLeaves, TypeOK, ReadsInv, FirstInv, ReplyInv, WindowInv
<1>4. ASSUME NEW p \in scope.places, Reparent(p) PROVE IInv'
  <2>1. p \in Places
    BY ScopesAssumption DEF TypeOK
  <2>2. \A c \in Calls : /\ window[c] \subseteq window'[c]
                         /\ callPc[c] = "reading" => p \in window'[c]
    BY <1>4 DEF Reparent, TypeOK
  <2>3. TypeOK'
    BY <1>4, <2>1, ScopesAssumption DEF Reparent, TypeOK
  <2>4. ReadsInv' /\ FirstInv' /\ ReplyInv' /\ WindowInv'
    BY <1>4, <2>2 DEF Reparent, TypeOK, ReadsInv, FirstInv, ReplyInv, WindowInv
  <2> QED BY <2>3, <2>4
<1> QED BY <1>1, <1>2, <1>3, <1>4

\* The invariant holds of every state NodeRead reaches.
THEOREM Inductive == Spec => []IInv
<1>1. IInv /\ [Next]_vars => IInv'
  <2> SUFFICES ASSUME IInv, [Next]_vars PROVE IInv'
    OBVIOUS
  <2>1. CASE Next
    BY <2>1, ReadStepInv, OtherStepInv DEF Next
  <2>2. CASE UNCHANGED vars
    BY <2>2 DEF vars, IInv, TypeOK, ReadsInv, FirstInv, ReplyInv, WindowInv
  <2> QED BY <2>1, <2>2
<1> QED BY InitInv, <1>1, PTL DEF Spec

-----------------------------------------------------------------------------
(* What follows from it. *)

\* Types of every variable.
THEOREM TypeCorrect == Spec => []TypeOK
  BY Inductive, PTL DEF IInv

\* A call that answered left no read behind.
THEOREM NothingReadsOn == Spec => []NoReadOutlivesCall
<1>1. IInv => NoReadOutlivesCall
  BY DEF IInv, ReadsInv, NoReadOutlivesCall, Answered
<1> QED BY <1>1, Inductive, PTL

\* The failure a caller is told is one that ODAS, the network or the
\* configuration caused.
THEOREM FailuresAreGenuine == Spec => []FailureIsGenuine
<1>1. IInv => FailureIsGenuine
  BY DEF IInv, FirstInv, FailureIsGenuine
<1> QED BY <1>1, Inductive, PTL

\* A failure of the service that a caller is told is on record.
THEOREM BlamesAreLogged == Spec => []BlamedFailureIsLogged
<1>1. IInv => BlamedFailureIsLogged
  BY DEF IInv, FirstInv, BlamedFailureIsLogged
<1> QED BY <1>1, Inductive, PTL

\* A detail is made of two successful reads, and agrees with a requirement
\* that was not moved.
THEOREM DetailsAreConsistent == Spec => []DetailConsistent
<1>1. IInv => DetailConsistent
  <2> SUFFICES ASSUME IInv, NEW c \in Calls, Succeeded(c)
               PROVE  /\ outcome[c]["record"] = "ok" /\ Succeeds(outcome[c]["ancestors"])
                      /\ outcome[c]["ancestors"] = "ok" /\ window[c] = {parentOf} =>
                           seen[c]["record"] = parentOf /\ seen[c]["ancestors"] = parentOf
    BY DEF DetailConsistent
  <2>1. \A r \in Reads : pc[c][r] = "done" /\ Succeeds(outcome[c][r])
    BY DEF IInv, ReadsInv, ReplyInv, Succeeded, Answered
  <2>2. \A r \in Reads : outcome[c][r] = "ok" => seen[c][r] \in window[c]
    BY DEF IInv, ReplyInv
  <2>3. outcome[c]["record"] # "empty"
    BY DEF IInv, ReplyInv
  <2> QED BY <2>1, <2>2, <2>3 DEF Succeeds
<1> QED BY <1>1, Inductive, PTL

-----------------------------------------------------------------------------
(* The refinement: every step is one of NodePromise, or changes nothing it *)
(* speaks of.                                                              *)

LEMMA InitPromise == Init => Promise!Init
<1> SUFFICES ASSUME Init PROVE Promise!Init
  OBVIOUS
<1>1. parentOf \in Places
  BY ScopesAssumption DEF Init
<1> QED BY <1>1 DEF Init, Promise!Init, Result, Answered, NoResult, Promise!NoResult

\* A read changes nothing of its call but that it may have failed.
LEMMA ReadStepPromise ==
  ASSUME IInv, NEW c \in Calls, NEW r \in Reads, ReadStep(c, r)
  PROVE  [Promise!Next]_Promise!pvars
<1>1. pc[c][r] \in Running
  BY DEF ReadStep, BeginRead, Acquire, DoFails, OdasAnswers, BodyFails, BodyRead, ReadPanics,
         Running
<1>2. callPc[c] = "reading"
  BY <1>1, RunningRead
<1>3. /\ UNCHANGED <<parentOf, callPc, window>>
      /\ \/ UNCHANGED first
         \/ first' = [first EXCEPT ![c] = KeepFirst(c, r)]
      /\ \A d \in Calls \ {c} : seen'[d] = seen[d]
  BY DEF ReadStep, BeginRead, Acquire, DoFails, OdasAnswers, BodyFails, BodyRead, ReadPanics,
         Return, readRest, odasVars, IInv, TypeOK
<1>4. \A d \in Calls : Result(d)' = Result(d)
  <2> SUFFICES ASSUME NEW d \in Calls PROVE Result(d)' = Result(d)
    OBVIOUS
  <2>1. CASE d = c
    BY <1>2, <1>3, <2>1 DEF Result, Answered, NoResult
  <2>2. CASE d # c
    <3>1. first'[d] = first[d]
      BY <1>3, <2>2 DEF IInv, TypeOK
    <3> QED BY <1>3, <2>2, <3>1 DEF Result, Answered, NoResult, Failed
  <2> QED BY <2>1, <2>2
<1> DEFINE troubleNow == [d \in Calls |-> first[d] # "none"]
<1>5. CASE [d \in Calls |-> first'[d] # "none"] = troubleNow
  BY <1>3, <1>4, <1>5 DEF Promise!pvars
<1>6. CASE [d \in Calls |-> first'[d] # "none"] # troubleNow
  <2>1. first' = [first EXCEPT ![c] = KeepFirst(c, r)]
    BY <1>3, <1>6
  <2>2. [d \in Calls |-> first'[d] # "none"] = [troubleNow EXCEPT ![c] = TRUE]
    BY <2>1 DEF IInv, TypeOK, KeepFirst
  <2>3. Promise!Fail(c)
    BY <1>2, <1>3, <1>4, <2>2 DEF Promise!Fail
  <2> QED BY <2>3 DEF Promise!Next
<1> QED BY <1>5, <1>6

\* A call that answers gives a failure, or a detail of its own time; a caller
\* that leaves changes nothing here.
LEMMA OtherStepPromise ==
  ASSUME IInv,
         \/ \E c \in Calls : Call(c) \/ Answer(c) \/ CallerLeaves(c)
         \/ \E p \in scope.places : Reparent(p)
  PROVE  [Promise!Next]_Promise!pvars
<1>1. ASSUME NEW c \in Calls, Call(c) PROVE Promise!Begin(c)
  <2>1. \A d \in Calls : Result(d)' = Result(d)
    BY <1>1 DEF Call, callRest, Result, Answered, IInv, TypeOK
  <2> QED BY <1>1, <2>1 DEF Call, callRest, odasVars, Promise!Begin
<1>2. ASSUME NEW c \in Calls, Answer(c) PROVE Promise!Answer(c)
  <2>1. /\ callPc[c] = "reading" /\ callPc' = [callPc EXCEPT ![c] = "answered"]
        /\ UNCHANGED <<parentOf, window, first, seen>>
        /\ \A r \in Reads : pc[c][r] = "done"
    BY <1>2 DEF Answer, BothReturned, callRest, odasVars
  <2>2. \A d \in Calls \ {c} : Result(d)' = Result(d)
    BY <2>1 DEF Result, Answered, Failed, NoResult, IInv, TypeOK
  <2>3. Result(c)' \in IF first[c] # "none" THEN {Promise!Failure}
                       ELSE [kind : {"detail"}, parent : window[c],
                             path : window[c] \cup {"root"}]
    <3>1. callPc'[c] = "answered"
      BY <2>1 DEF IInv, TypeOK
    <3>2. CASE first[c] # "none"
      BY <2>1, <3>1, <3>2 DEF Result, Answered, Failed, NoResult, Promise!Failure
    <3>3. CASE first[c] = "none"
      <4>1. \A r \in Reads : Succeeds(outcome[c][r])
        BY <2>1, <3>3 DEF IInv, ReplyInv
      <4>2. /\ outcome[c]["record"] # "empty"
            /\ \A r \in Reads : outcome[c][r] = "ok" => seen[c][r] \in window[c]
            /\ outcome[c]["ancestors"] = "empty" => seen[c]["ancestors"] = "root"
        BY DEF IInv, ReplyInv
      <4>3. seen[c]["record"] \in window[c] /\ seen[c]["ancestors"] \in window[c] \cup {"root"}
        BY <4>1, <4>2 DEF Succeeds
      <4>4. Result(c)' = [kind |-> "detail", parent |-> seen[c]["record"],
                          path |-> seen[c]["ancestors"]]
        BY <2>1, <3>1, <3>3 DEF Result, Answered
      <4> QED BY <3>3, <4>3, <4>4
    <3> QED BY <3>2, <3>3
  <2>4. [d \in Calls |-> Result(d)'] = [[d \in Calls |-> Result(d)] EXCEPT ![c] = Result(c)']
    BY <2>2
  <2> QED BY <2>1, <2>3, <2>4 DEF Promise!Answer, Promise!Details
<1>3. ASSUME NEW c \in Calls, CallerLeaves(c) PROVE UNCHANGED Promise!pvars
  BY <1>3 DEF CallerLeaves, odasVars, Promise!pvars, Result, Answered, NoResult, Failed
<1>4. ASSUME NEW p \in scope.places, Reparent(p) PROVE Promise!Move(p) /\ p \in Places
  <2>1. p \in Places
    BY ScopesAssumption DEF IInv, TypeOK
  <2> QED BY <1>4, <2>1 DEF Reparent, Promise!Move, Result, Answered, NoResult, Failed
<1> QED BY <1>1, <1>2, <1>3, <1>4 DEF Promise!Next

\* Whatever its reads meet, a call answers with a failure alone, or with a
\* detail whose parent, and whose path if ODAS sent one, the requirement had
\* during the call.
THEOREM PromiseKept == Spec => KeepsNodePromise
<1>1. IInv /\ [Next]_vars => [Promise!Next]_Promise!pvars
  <2> SUFFICES ASSUME IInv, [Next]_vars PROVE [Promise!Next]_Promise!pvars
    OBVIOUS
  <2>1. CASE Next
    BY <2>1, ReadStepPromise, OtherStepPromise DEF Next
  <2>2. CASE UNCHANGED vars
    BY <2>2 DEF vars, Promise!pvars, Result, Answered, NoResult, Failed
  <2> QED BY <2>1, <2>2
<1> QED BY InitPromise, <1>1, Inductive, PTL DEF Spec, KeepsNodePromise, Promise!Spec

=============================================================================
