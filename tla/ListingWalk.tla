---------------------------- MODULE ListingWalk ----------------------------
(***************************************************************************)
(* An agent pages through a requirement listing (roots, children or        *)
(* search): it reads a page, keeps its rows, and while hasMore says so     *)
(* reads the page after the one the listing names.  The window is asked of *)
(* ODAS, which may apply a smaller one and says which; humans may add and  *)
(* delete requirements between two pages.                                  *)
(*                                                                         *)
(* A row is a natural number, its place in the sort by name; alt gives its *)
(* altitude, or "absent" when there is no such row under the parent.       *)
(***************************************************************************)
EXTENDS Integers, FiniteSets

CONSTANTS
  Rows,        \* the requirements that may exist
  Limits,      \* page sizes asked for (the schema admits 1..100)
  Caps,        \* page sizes ODAS is willing to apply
  StartPages,  \* the page an agent starts from (the schema sets no maximum)
  IntSpan,     \* how many values an int has (2^64)
  MaxEdits     \* how many edits humans make during the walk

ASSUME RowsAssumption == Rows \subseteq Nat /\ IsFiniteSet(Rows)
ASSUME WindowAssumption ==
  /\ Limits \subseteq Nat \ {0} /\ Caps \subseteq Nat \ {0}
  /\ StartPages \subseteq Nat \ {0}
ASSUME IntSpanAssumption == IntSpan \in Nat \ {0} /\ MaxEdits \in Nat

\* The total is an int, with room for the window that reaches past it.
ASSUME TotalAssumption == \A n \in Limits : Cardinality(Rows) + n < IntSpan \div 2

Altitudes == {"stakeholder", "system", "atomic", "unknown"}
ChildAltitudes == {"stakeholder", "system", "atomic"}

VARIABLES
  alt,     \* per row: its altitude, or "absent"
  child,   \* forChildAltitude, or "unstated"
  limit,   \* the page size asked for
  cap,     \* the page size ODAS applies at most
  start,   \* the first page asked for
  page,    \* the next page to ask for
  got,     \* per row: how often a listing returned it (2: more than once)
  last,    \* the last listing: page, limit, hasMore
  walk,    \* "reading", "done" or "failed"
  edits,   \* edits so far
  steady,  \* the rows that matched ever since the walk began (history)
  intact   \* every reply so far carried its payload (history)

vars == <<alt, child, limit, cap, start, page, got, last, walk, edits, steady, intact>>

-----------------------------------------------------------------------------
(***************************************************************************)
(* The altitude filter.                                                    *)
(***************************************************************************)
\* The altitudes that may parent a child: its own or a coarser one.
LegalParentsSwapped ==
  [stakeholder |-> {"stakeholder", "system", "atomic"},
   system      |-> {"system", "atomic"},
   atomic      |-> {"atomic"}]
LegalParentAltitudes ==
  [stakeholder |-> {"stakeholder"},
   system      |-> {"stakeholder", "system"},
   atomic      |-> {"stakeholder", "system", "atomic"}]

\* The parameter sent: none (every altitude passes) without a child altitude.
AltitudeFilter(c) == IF c = "unstated" THEN Altitudes ELSE LegalParentAltitudes[c]

Matching == {r \in Rows : alt[r] \in AltitudeFilter(child)}

-----------------------------------------------------------------------------
(***************************************************************************)
(* ODAS (external): the rows of one window of the sorted matches.          *)
(***************************************************************************)
Rank(r, S) == Cardinality({q \in S : q <= r})
Window(S, p, n) == {r \in S : (p - 1) * n < Rank(r, S) /\ Rank(r, S) <= p * n}

Smaller(a, b) == IF a < b THEN a ELSE b

\* The page size it applies.
Size == Smaller(limit, cap)

\* The payload of a listing: its rows, the total, and the window it names; 0
\* stands for a field left out.  ODAS may leave the window out only when it
\* applied the one it was asked for.
OdasPages ==
  LET Saying(p, m) == [items |-> Window(Matching, page, Size), total |-> Cardinality(Matching),
                       page |-> p, limit |-> m]
  IN  {Saying(page, Size)} \cup (IF Size = limit THEN {Saying(0, 0)} ELSE {})

\* A reply without a payload decodes to the same record with nothing in it.
EmptyPage == [items |-> {}, total |-> 0, page |-> 0, limit |-> 0]

-----------------------------------------------------------------------------
(***************************************************************************)
(* The listing made of it.                                                 *)
(***************************************************************************)
\* A product of two ints, as the machine computes it.
Times(a, b) == ((a * b + IntSpan \div 2) % IntSpan) - IntSpan \div 2

MoreOrExactlyFull(p, n, total) == Times(p, n) <= total
MoreRemain(p, n, total) == Times(p, n) < total

\* The window ODAS says it applied, falling back to the one asked for.
AppliedAsAsked(said, asked) == asked
AppliedAsSaid(said, asked) == said
Applied(said, asked) == IF said # 0 THEN said ELSE asked

ToListing(odas) ==
  LET p == Applied(odas.page, page)
      n == Applied(odas.limit, limit)
  IN  [page |-> p, limit |-> n, hasMore |-> MoreRemain(p, n, odas.total)]

-----------------------------------------------------------------------------
Init ==
  /\ alt \in [Rows -> Altitudes \cup {"absent"}]
  /\ child \in ChildAltitudes \cup {"unstated"}
  /\ limit \in Limits
  /\ cap \in Caps
  /\ start \in StartPages
  /\ page = start
  /\ got = [r \in Rows |-> 0]
  /\ last = [page |-> 0, limit |-> limit, hasMore |-> Matching # {}]
  /\ walk = "reading"
  /\ edits = 0
  /\ steady = Matching
  /\ intact = TRUE

Fixed == <<child, limit, cap, start>>

\* One call of a listing tool that succeeds, and what the agent does next.
ReadPage(odas) ==
  /\ walk = "reading"
  /\ last' = ToListing(odas)
  /\ got' = [r \in Rows |-> IF r \in odas.items THEN Smaller(got[r] + 1, 2) ELSE got[r]]
  /\ walk' = IF last'.hasMore THEN "reading" ELSE "done"
  /\ page' = last'.page + 1
  /\ UNCHANGED <<Fixed, alt, edits, steady>>

ReadPayload == \E odas \in OdasPages : ReadPage(odas) /\ UNCHANGED intact

\* The reply had no payload object (a redirect, say) and is a success still.
ReadNoPayload == ReadPage(EmptyPage) /\ intact' = FALSE

\* The call failed and the agent gave up.
ReadFails ==
  /\ walk = "reading"
  /\ walk' = "failed"
  /\ UNCHANGED <<Fixed, alt, page, got, last, edits, steady, intact>>

\* A human adds, deletes or reclassifies a requirement.
Edit(r, a) ==
  /\ edits < MaxEdits /\ walk = "reading"
  /\ a # alt[r]
  /\ alt' = [alt EXCEPT ![r] = a]
  /\ edits' = edits + 1
  /\ steady' = steady \ {r}
  /\ UNCHANGED <<Fixed, page, got, last, walk, intact>>

Next == \/ ReadPayload \/ ReadNoPayload \/ ReadFails
        \/ \E r \in Rows, a \in Altitudes \cup {"absent"} : Edit(r, a)

Spec == Init /\ [][Next]_vars

\* The agent goes on reading.
FairSpec == Spec /\ WF_vars(ReadPayload)

-----------------------------------------------------------------------------
(***************************************************************************)
(* Properties.                                                             *)
(***************************************************************************)
TypeOK ==
  /\ alt \in [Rows -> Altitudes \cup {"absent"}]
  /\ child \in ChildAltitudes \cup {"unstated"}
  /\ limit \in Limits /\ cap \in Caps /\ start \in StartPages
  /\ page \in Nat \ {0}
  /\ got \in [Rows -> 0..2]
  /\ last \in [page : Nat, limit : Nat \ {0}, hasMore : BOOLEAN]
  /\ walk \in {"reading", "done", "failed"}
  /\ edits \in 0..MaxEdits
  /\ steady \subseteq Rows
  /\ intact \in BOOLEAN

\* A walk from page 1 that ends, over a tree nobody edits, has returned every
\* matching row exactly once and nothing else, whatever window ODAS applied
\* (requirement.go:134-158).
WalkComplete ==
  walk = "done" /\ start = 1 /\ intact /\ edits = 0 =>
    \A r \in Rows : got[r] = IF r \in Matching THEN 1 ELSE 0

\* What a parent and a child altitude mean: coarser comes first.
Coarseness == [stakeholder |-> 0, system |-> 1, atomic |-> 2]

\* Every candidate offered for a child of a stated altitude may legally parent
\* it, and an unclassified one is never offered (schemas/requirement.go:66-70).
CandidatesLegal ==
  child # "unstated" /\ edits = 0 =>
    \A r \in Rows : got[r] > 0 =>
      alt[r] \in ChildAltitudes /\ Coarseness[alt[r]] <= Coarseness[child]

\* hasMore says whether a match lies beyond the page the listing names, as
\* long as an int holds the page times its limit (schemas/requirement.go:353).
HasMoreTells ==
  intact /\ edits = 0 /\ last.page * last.limit < IntSpan \div 2 =>
    (last.hasMore <=> \E r \in Matching : Rank(r, Matching) > last.page * last.limit)

\* Nothing has disturbed the walk, and it starts where an int holds what a page
\* reaches.
Calm == intact /\ edits = 0 /\ start * Size < IntSpan \div 2

\* The ranks of the pages before this one, and the matches on them.
Before(p) == (p - 1) * Size
Passed == {r \in Matching : Rank(r, Matching) <= Before(page)}

Promise == INSTANCE ListingPromise WITH
             matches <- Matching, passed <- IF Calm THEN Passed ELSE {}, calm <- Calm

\* The walk keeps what paging promises: while nothing disturbs it each page
\* brings the next matches, none twice, and says whether it was the last; and
\* no page ever brings what does not match (schemas/requirement.go:346-353).
KeepsListingPromise == Promise!Spec


\* schemas/requirement.go:346-347: the order is total and stable, "so paging
\* cannot silently skip or repeat a row".
NeverSkipsOrRepeats ==
  walk = "done" /\ start = 1 /\ intact => \A r \in steady : got[r] = 1

\* schemas/requirement.go:349: "Empty means nothing matched - a real answer,
\* not a failure."
EmptyMeansNoMatch ==
  walk = "done" /\ start = 1 /\ edits = 0 /\ (\A r \in Rows : got[r] = 0) => Matching = {}

=============================================================================
