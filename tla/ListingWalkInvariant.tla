------------------------ MODULE ListingWalkInvariant ------------------------
(***************************************************************************)
(* The inductive invariant of ListingWalk.  That a walk is complete when   *)
(* it ends rests on what it has after each page: exactly the matches up to *)
(* the last rank of the windows read so far.                               *)
(***************************************************************************)
EXTENDS ListingWalk

Total == Cardinality(Matching)

\* Over a tree nobody edits only matches are returned, and they are what they
\* were.
MatchInv ==
  edits = 0 => steady = Matching /\ \A r \in Rows : got[r] > 0 => r \in Matching

\* The pages read so far have returned the matches that follow those skipped by
\* the start, up to Before(page), each once; there was a reason to ask for this
\* page, and none to ask for another.
WalkInv ==
  Calm =>
    /\ \A r \in Rows : got[r] = IF r \in Passed /\ Before(start) < Rank(r, Matching)
                                THEN 1 ELSE 0
    /\ Before(start) <= Before(page)
    /\ walk = "reading" => page = start \/ Before(page) < Total
    /\ walk = "done" => Total <= Before(page)

\* hasMore compares what the last page reached with the total, wherever an int
\* holds it.
MoreInv ==
  intact /\ edits = 0 /\ last.page * last.limit < IntSpan \div 2 =>
    (last.hasMore <=> last.page * last.limit < Total)

IInv == TypeOK /\ MatchInv /\ WalkInv /\ MoreInv

=============================================================================
