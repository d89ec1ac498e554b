--------------------------- MODULE ListingPromise ---------------------------
(***************************************************************************)
(* What paging through a listing promises, whatever the pages and their    *)
(* sizes: while nobody edits the tree and every reply carries its payload  *)
(* (calm), each page brings matches that were not passed yet, the next     *)
(* ones in the order of the sort and at least one if any is left, and it   *)
(* says whether it was the last.  Otherwise a page still brings nothing    *)
(* but what matches when it is read.                                       *)
(***************************************************************************)
EXTENDS Integers

CONSTANT Rows   \* numbers, in the order of the sort

VARIABLES
  matches,  \* the rows that match
  passed,   \* of those, the ones behind the agent, returned or skipped by its start
  got,      \* per row: how often it was returned (2: more than once)
  walk,     \* "reading", "done" or "failed"
  calm      \* nothing has disturbed the walk, or will by its start

pvars == <<matches, passed, got, walk, calm>>

\* The first of the matches, up to some place.
Leading(S) == \A r \in S, q \in matches : q <= r => q \in S

Init ==
  /\ matches \in SUBSET Rows
  /\ passed \in SUBSET matches /\ Leading(passed)
  /\ got = [r \in Rows |-> 0]
  /\ walk = "reading"
  /\ calm \in BOOLEAN

Return(S) ==
  got' = [r \in Rows |-> IF r \notin S THEN got[r] ELSE IF got[r] = 0 THEN 1 ELSE 2]

\* The next matches.
Page(S) ==
  /\ walk = "reading" /\ calm
  /\ S \cap passed = {}
  /\ S = {} => passed = matches
  /\ Leading(passed \cup S)
  /\ passed' = passed \cup S
  /\ Return(S)
  /\ walk' = IF passed' = matches THEN "done" ELSE "reading"
  /\ UNCHANGED <<matches, calm>>

\* A page of a walk that is not calm, or without its payload.
RoughPage(S) ==
  /\ walk = "reading"
  /\ calm => S = {}
  /\ calm' = FALSE /\ passed' = {}
  /\ Return(S)
  /\ walk' \in {"reading", "done"}
  /\ UNCHANGED matches

GiveUp ==
  /\ walk = "reading" /\ walk' = "failed"
  /\ UNCHANGED <<matches, passed, got, calm>>

\* The tree is edited: other rows may match.
Disturb ==
  /\ walk = "reading"
  /\ matches' \in SUBSET Rows
  /\ calm' = FALSE /\ passed' = {}
  /\ UNCHANGED <<got, walk>>

Next ==
  \/ \E S \in SUBSET matches : Page(S) \/ RoughPage(S)
  \/ GiveUp \/ Disturb

Spec == Init /\ [][Next]_pvars
=============================================================================
