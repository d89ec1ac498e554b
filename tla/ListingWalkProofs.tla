------------------------- MODULE ListingWalkProofs --------------------------
(***************************************************************************)
(* Proofs about ListingWalk, for any finite set of rows, windows and ints  *)
(* that hold the total: what a rank says of a set, that an int holds the   *)
(* product a listing compares, that the invariant IInv is inductive, and   *)
(* the safety properties.                                                  *)
(***************************************************************************)
EXTENDS ListingWalkInvariant, FiniteSetTheorems, TLAPS

-----------------------------------------------------------------------------
(* Ranks. *)

\* A finite set of numbers has a greatest one: among the sets of its elements
\* from some element on, one has no other within it.
LEMMA Greatest ==
  ASSUME NEW S \in SUBSET Nat, IsFiniteSet(S), S # {}
  PROVE  \E r \in S : \A q \in S : q <= r
<1> DEFINE From(r) == {q \in S : r <= q}
           Tails == {From(r) : r \in S}
<1>1. Tails \subseteq FiniteSubsetsOf(S) /\ Tails # {}
  <2>1. ASSUME NEW r \in S PROVE From(r) \in FiniteSubsetsOf(S)
    <3>1. From(r) \in SUBSET S
      OBVIOUS
    <3>2. IsFiniteSet(From(r))
      BY <3>1, FS_Subset
    <3> QED BY <3>1, <3>2 DEF FiniteSubsetsOf
  <2> QED BY <2>1
<1>2. PICK U \in Tails : \A V \in Tails : ~(<<V, U>> \in StrictSubsetOrdering(S))
  <2> HIDE DEF Tails
  <2> QED BY <1>1, WFMin, FS_StrictSubsetOrderingWellFounded
<1>3. PICK r \in S : U = From(r)
  OBVIOUS
<1>4. ASSUME NEW q \in S, ~(q <= r)
      PROVE  FALSE
  <2>1. q \in Nat /\ r \in Nat /\ r < q
    BY <1>4
  <2>2. From(q) \subseteq From(r) /\ r \in From(r) /\ r \notin From(q)
    <3>1. ASSUME NEW x \in S, q <= x PROVE r <= x
      BY <2>1, <3>1
    <3>2. r <= r /\ ~(q <= r)
      BY <2>1
    <3> HIDE DEF Tails
    <3> QED BY <3>1, <3>2
  <2>3. From(q) \in SUBSET S /\ From(r) \in SUBSET S /\ From(q) \in Tails
    OBVIOUS
  <2> HIDE DEF From, Tails
  <2>4. <<From(q), U>> \in StrictSubsetOrdering(S)
    BY <1>3, <2>2, <2>3 DEF StrictSubsetOrdering
  <2> QED BY <1>2, <2>3, <2>4
<1> QED BY <1>4

\* And a least one, by the sets of its elements up to some element.
LEMMA Least ==
  ASSUME NEW S \in SUBSET Nat, IsFiniteSet(S), S # {}
  PROVE  \E r \in S : \A q \in S : r <= q
<1> DEFINE UpTo(r) == {q \in S : q <= r}
           Heads == {UpTo(r) : r \in S}
<1>1. Heads \subseteq FiniteSubsetsOf(S) /\ Heads # {}
  <2>1. ASSUME NEW r \in S PROVE UpTo(r) \in FiniteSubsetsOf(S)
    <3>1. UpTo(r) \in SUBSET S
      OBVIOUS
    <3>2. IsFiniteSet(UpTo(r))
      BY <3>1, FS_Subset
    <3> QED BY <3>1, <3>2 DEF FiniteSubsetsOf
  <2> QED BY <2>1
<1>2. PICK U \in Heads : \A V \in Heads : ~(<<V, U>> \in StrictSubsetOrdering(S))
  <2> HIDE DEF Heads
  <2> QED BY <1>1, WFMin, FS_StrictSubsetOrderingWellFounded
<1>3. PICK r \in S : U = UpTo(r)
  OBVIOUS
<1>4. ASSUME NEW q \in S, ~(r <= q)
      PROVE  FALSE
  <2>1. q \in Nat /\ r \in Nat /\ q < r
    BY <1>4
  <2>2. UpTo(q) \subseteq UpTo(r) /\ r \in UpTo(r) /\ r \notin UpTo(q)
    <3>1. ASSUME NEW x \in S, x <= q PROVE x <= r
      BY <2>1, <3>1
    <3>2. r <= r /\ ~(r <= q)
      BY <2>1
    <3> HIDE DEF Heads
    <3> QED BY <3>1, <3>2
  <2>3. UpTo(q) \in SUBSET S /\ UpTo(r) \in SUBSET S /\ UpTo(q) \in Heads
    OBVIOUS
  <2> HIDE DEF UpTo, Heads
  <2>4. <<UpTo(q), U>> \in StrictSubsetOrdering(S)
    BY <1>3, <2>2, <2>3 DEF StrictSubsetOrdering
  <2> QED BY <1>2, <2>3, <2>4
<1> QED BY <1>4

\* The rank of an element counts from 1 to the size of the set.
LEMMA RankBounds ==
  ASSUME NEW S \in SUBSET Nat, IsFiniteSet(S), NEW r \in S
  PROVE  Rank(r, S) \in 1..Cardinality(S)
<1> DEFINE below == {q \in S : q <= r}
<1>1. IsFiniteSet(below) /\ Cardinality(below) <= Cardinality(S)
  BY FS_Subset
<1>2. below # {}
  BY DEF Rank
<1>3. Cardinality(below) \in Nat /\ Cardinality(S) \in Nat /\ Cardinality(below) # 0
  BY <1>1, <1>2, FS_CardinalityType, FS_EmptySet
<1> QED BY <1>1, <1>3 DEF Rank

\* A number is short of the size of the set exactly when some element ranks
\* beyond it.
LEMMA BeyondRank ==
  ASSUME NEW S \in SUBSET Nat, IsFiniteSet(S), NEW x \in Nat
  PROVE  x < Cardinality(S) <=> \E r \in S : Rank(r, S) > x
<1>1. Cardinality(S) \in Nat
  BY FS_CardinalityType
<1>2. ASSUME NEW r \in S, Rank(r, S) > x
      PROVE  x < Cardinality(S)
  BY <1>1, <1>2, RankBounds
<1>3. ASSUME x < Cardinality(S)
      PROVE  \E r \in S : Rank(r, S) > x
  <2>1. S # {}
    BY <1>3, FS_EmptySet
  <2>2. PICK r \in S : \A q \in S : q <= r
    BY <2>1, Greatest
  <2>3. {q \in S : q <= r} = S
    BY <2>2
  <2> QED BY <1>3, <2>3 DEF Rank
<1> QED BY <1>2, <1>3

\* Ranks follow the order.
LEMMA RankMonotone ==
  ASSUME NEW S \in SUBSET Nat, IsFiniteSet(S), NEW q \in S, NEW r \in S, q <= r
  PROVE  Rank(q, S) <= Rank(r, S)
<1> DEFINE upTo(x) == {y \in S : y <= x}
<1>1. IsFiniteSet(upTo(r))
  BY FS_Subset
<1>2. upTo(q) \subseteq upTo(r)
  <2>1. ASSUME NEW y \in S, y <= q PROVE y <= r
    <3>1. y \in Nat /\ q \in Nat /\ r \in Nat
      OBVIOUS
    <3> QED BY <2>1, <3>1
  <2> QED BY <2>1
<1>3. Cardinality(upTo(q)) <= Cardinality(upTo(r))
  BY <1>1, <1>2, FS_Subset
<1> QED BY <1>3 DEF Rank

\* No rank is left out: one past any that some element exceeds is taken.
LEMMA NextRank ==
  ASSUME NEW S \in SUBSET Nat, IsFiniteSet(S), NEW x \in Nat, x < Cardinality(S)
  PROVE  \E r \in S : Rank(r, S) = x + 1
<1> DEFINE beyond == {r \in S : Rank(r, S) > x}
<1>1. beyond # {}
  BY BeyondRank
<1>2. PICK m \in beyond : \A q \in beyond : m <= q
  <2>1. beyond \in SUBSET Nat /\ IsFiniteSet(beyond)
    BY FS_Subset
  <2> HIDE DEF beyond
  <2> QED BY <1>1, <2>1, Least
<1> DEFINE below == {q \in S : q < m}
<1>3. below \subseteq S /\ IsFiniteSet(below) /\ Cardinality(below) \in Nat
  BY FS_Subset, FS_CardinalityType
<1>4. Cardinality(below) <= x
  <2>1. CASE below = {}
    BY <2>1, FS_EmptySet
  <2>2. CASE below # {}
    <3>1. PICK g \in below : \A q \in below : q <= g
      <4>1. below \in SUBSET Nat
        OBVIOUS
      <4> HIDE DEF below
      <4> QED BY <1>3, <2>2, <4>1, Greatest
    <3>2. g \in S /\ g \in Nat /\ m \in Nat /\ g < m
      OBVIOUS
    <3>3. Rank(g, S) <= x
      <4>1. g \notin beyond
        BY <1>2, <3>2
      <4>2. Rank(g, S) \in 1..Cardinality(S) /\ Cardinality(S) \in Nat
        BY <3>2, RankBounds, FS_CardinalityType
      <4> QED BY <3>2, <4>1, <4>2
    <3>4. {q \in S : q <= g} = below
      <4>1. ASSUME NEW q \in S PROVE q <= g <=> q < m
        <5>1. q \in Nat
          OBVIOUS
        <5> QED BY <3>1, <3>2, <5>1
      <4> QED BY <4>1
    <3> QED BY <3>3, <3>4 DEF Rank
  <2> QED BY <2>1, <2>2
<1>5. {q \in S : q <= m} = below \cup {m} /\ m \notin below
  <2>1. ASSUME NEW q \in S PROVE q <= m <=> q < m \/ q = m
    <3>1. q \in Nat /\ m \in Nat
      OBVIOUS
    <3> QED BY <3>1
  <2>2. m \in S /\ ~(m < m)
    OBVIOUS
  <2> QED BY <2>1, <2>2
<1>6. Rank(m, S) = Cardinality(below) + 1
  <2> HIDE DEF below
  <2> QED BY <1>3, <1>5, FS_AddElement DEF Rank
<1> QED BY <1>3, <1>4, <1>6

-----------------------------------------------------------------------------
(* Ints. *)

\* A product an int holds comes out as it is.
LEMMA TimesHolds ==
  ASSUME NEW a \in Nat, NEW b \in Nat, a * b < IntSpan \div 2
  PROVE  Times(a, b) = a * b
<1> DEFINE x == a * b
           h == IntSpan \div 2
<1>1. x \in Nat
  OBVIOUS
<1>2. h \in Nat /\ 2 * h <= IntSpan /\ IntSpan \in Nat \ {0}
  BY IntSpanAssumption
<1>3. x + h \in Nat /\ x + h < IntSpan
  BY <1>1, <1>2
<1>4. (x + h) % IntSpan = x + h
  BY <1>2, <1>3
<1> QED BY <1>1, <1>2, <1>4 DEF Times

\* The page and the limit a listing names are numbers, and the limit is not 0.
LEMMA ListingType ==
  ASSUME TypeOK, NEW odas, odas \in OdasPages \/ odas = EmptyPage
  PROVE  /\ ToListing(odas) \in [page : Nat \ {0}, limit : Nat \ {0}, hasMore : BOOLEAN]
         /\ ToListing(odas).page = page
         /\ odas \in OdasPages =>
              /\ odas.items = Window(Matching, page, Size)
              /\ ToListing(odas).limit = Size
              /\ ToListing(odas).hasMore <=> Times(page, Size) < Total
         /\ odas.items \subseteq Matching
<1>1. page \in Nat \ {0} /\ limit \in Nat \ {0} /\ cap \in Nat \ {0}
  BY WindowAssumption DEF TypeOK
<1>2. Size \in Nat \ {0} /\ (Size = limit \/ Size = cap)
  BY <1>1 DEF Size, Smaller
<1>3. ASSUME NEW p, NEW n, p \in {page, 0}, n = Size \/ (n = 0 /\ Size = limit)
      PROVE  Applied(p, page) = page /\ Applied(n, limit) = Size
  BY <1>1, <1>2, <1>3 DEF Applied
<1>4. CASE odas \in OdasPages
  <2>1. /\ odas.page \in {page, 0} /\ odas.total = Total
        /\ odas.items = Window(Matching, page, Size)
        /\ odas.limit = Size \/ (odas.limit = 0 /\ Size = limit)
    BY <1>4 DEF OdasPages, Size, Total
  <2>2. Applied(odas.page, page) = page /\ Applied(odas.limit, limit) = Size
    BY <1>3, <2>1
  <2>3. odas.items \subseteq Matching
    BY <2>1 DEF Window
  <2>4. ToListing(odas) = [page |-> page, limit |-> Size,
                           hasMore |-> Times(page, Size) < Total]
    BY <2>1, <2>2 DEF ToListing, MoreRemain
  <2>5. (Times(page, Size) < Total) \in BOOLEAN
    OBVIOUS
  <2>6. ToListing(odas) \in [page : Nat \ {0}, limit : Nat \ {0}, hasMore : BOOLEAN]
    BY <1>1, <1>2, <2>4, <2>5
  <2>7. ToListing(odas).page = page /\ ToListing(odas).limit = Size
    BY <2>4
  <2>8. ToListing(odas).hasMore <=> Times(page, Size) < Total
    <3> DEFINE more == Times(page, Size) < Total
    <3>1. ToListing(odas) = [page |-> page, limit |-> Size, hasMore |-> more]
      BY <2>4
    <3> HIDE DEF more
    <3>2. ToListing(odas).hasMore = more
      BY <3>1
    <3> QED BY <3>2 DEF more
  <2> QED BY <2>1, <2>3, <2>6, <2>7, <2>8
<1>5. CASE odas = EmptyPage
  <2>1. odas.page = 0 /\ odas.limit = 0 /\ odas.items = {} /\ odas.total = 0
    BY <1>5 DEF EmptyPage
  <2>2. ToListing(odas) = [page |-> page, limit |-> limit, hasMore |-> Times(page, limit) < 0]
    BY <2>1 DEF ToListing, Applied, MoreRemain
  <2> QED BY <1>1, <1>4, <2>1, <2>2
<1> QED BY <1>4, <1>5

-----------------------------------------------------------------------------
(* The invariant is inductive. *)

\* The matches are finitely many numbers, and the window is not empty.
LEMMA MatchingType ==
  ASSUME TypeOK
  PROVE  /\ Matching \in SUBSET Nat /\ Matching \subseteq Rows /\ IsFiniteSet(Matching)
         /\ Total \in Nat /\ Total <= Cardinality(Rows) /\ Cardinality(Rows) \in Nat
         /\ Size \in Nat \ {0} /\ Size <= limit
         /\ page \in Nat \ {0} /\ start \in Nat \ {0}
         /\ limit \in Limits /\ limit \in Nat \ {0}
<1>1. Matching \subseteq Rows
  BY DEF Matching
<1>2. IsFiniteSet(Matching) /\ Total <= Cardinality(Rows)
  BY <1>1, RowsAssumption, FS_Subset DEF Total
<1>3. Total \in Nat /\ Cardinality(Rows) \in Nat
  BY <1>2, RowsAssumption, FS_CardinalityType DEF Total
<1>4. /\ page \in Nat \ {0} /\ limit \in Limits /\ limit \in Nat \ {0}
      /\ cap \in Nat \ {0} /\ start \in Nat \ {0}
  BY WindowAssumption DEF TypeOK
<1>5. Size \in Nat \ {0} /\ Size <= limit
  BY <1>4 DEF Size, Smaller
<1> QED BY <1>1, <1>2, <1>3, <1>4, <1>5, RowsAssumption

\* Where a page ends: a whole window past the pages before it.
LEMMA BeforeNext ==
  ASSUME TypeOK, NEW p \in Nat \ {0}
  PROVE  /\ Before(p) \in Nat /\ Before(p + 1) = p * Size
         /\ p * Size \in Nat /\ p * Size = Before(p) + Size
         /\ p = 1 => Before(p) = 0
<1>1. Size \in Nat \ {0}
  BY MatchingType
<1>2. (p - 1) * Size = p * Size - Size /\ p * Size \in Nat /\ p + 1 - 1 = p
  BY <1>1
<1>3. (p - 1) * Size \in Nat
  BY <1>1
<1>4. p = 1 => (p - 1) * Size = 0
  BY <1>1
<1> QED BY <1>1, <1>2, <1>3, <1>4 DEF Before

LEMMA InitInv == Init => IInv
<1> SUFFICES ASSUME Init PROVE IInv
  OBVIOUS
<1> DEFINE some == Matching # {}
<1>1. /\ last.page = 0 /\ last.limit = limit /\ last.hasMore = some
      /\ last \in [page : Nat, limit : Nat \ {0}, hasMore : BOOLEAN]
  <2>1. some \in BOOLEAN /\ last = [page |-> 0, limit |-> limit, hasMore |-> some]
    BY DEF Init
  <2>2. limit \in Nat \ {0}
    BY WindowAssumption DEF Init
  <2> HIDE DEF some
  <2> QED BY <2>1, <2>2
<1>2. TypeOK
  <2>1. page \in Nat \ {0} /\ edits \in 0..MaxEdits /\ got \in [Rows -> 0..2]
    BY WindowAssumption, IntSpanAssumption DEF Init
  <2>2. Matching \subseteq Rows
    BY DEF Matching
  <2> QED BY <1>1, <2>1, <2>2 DEF Init, TypeOK
<1>3. MatchInv
  BY DEF Init, MatchInv
<1>4. WalkInv
  <2>1. page = start /\ Before(start) \in Nat /\ walk = "reading" /\ got = [r \in Rows |-> 0]
    BY <1>2, BeforeNext, MatchingType DEF Init
  <2>2. ASSUME NEW r \in Passed
        PROVE  ~(Before(start) < Rank(r, Matching))
    <3>1. r \in Matching /\ Rank(r, Matching) <= Before(start)
      BY <2>1 DEF Passed
    <3>2. Rank(r, Matching) \in Nat
      BY <1>2, <3>1, MatchingType, RankBounds
    <3> QED BY <2>1, <3>1, <3>2
  <2> QED BY <2>1, <2>2 DEF WalkInv
<1>5. MoreInv
  <2>1. last.page * last.limit = 0
    BY <1>1, <1>2, MatchingType
  <2>2. Matching # {} <=> 0 < Total
    BY <1>2, MatchingType, FS_EmptySet DEF Total
  <2> QED BY <1>1, <2>1, <2>2 DEF MoreInv
<1> QED BY <1>2, <1>3, <1>4, <1>5 DEF IInv

\* A reply of any kind keeps the types, and returns matches only.
LEMMA ReadPageInv ==
  ASSUME IInv, NEW odas, odas \in OdasPages \/ odas = EmptyPage,
         ReadPage(odas), intact' \in BOOLEAN
  PROVE  TypeOK' /\ MatchInv'
<1>1. /\ walk = "reading" /\ last' = ToListing(odas) /\ page' = last'.page + 1
      /\ got' = [r \in Rows |-> IF r \in odas.items THEN Smaller(got[r] + 1, 2) ELSE got[r]]
      /\ walk' \in {"reading", "done"}
      /\ UNCHANGED <<child, limit, cap, start, alt, edits, steady>>
  BY DEF ReadPage, Fixed
<1>2. /\ last' \in [page : Nat \ {0}, limit : Nat \ {0}, hasMore : BOOLEAN]
      /\ last'.page = page /\ odas.items \subseteq Matching
  BY <1>1, ListingType DEF IInv
<1>3. got' \in [Rows -> 0..2]
  BY <1>1 DEF IInv, TypeOK, Smaller
<1>4. page' \in Nat \ {0}
  BY <1>1, <1>2 DEF IInv, TypeOK
<1>5. TypeOK'
  BY <1>1, <1>2, <1>3, <1>4 DEF IInv, TypeOK
<1>6. Matching' = Matching
  BY <1>1 DEF Matching
<1>7. MatchInv'
  BY <1>1, <1>2, <1>6 DEF IInv, MatchInv
<1> QED BY <1>5, <1>7

\* An int holds what a page of a calm walk reaches.
LEMMA ReachHolds ==
  ASSUME TypeOK, Calm, page = start \/ Before(page) < Total
  PROVE  page * Size < IntSpan \div 2
<1>1. CASE page = start
  BY <1>1 DEF Calm
<1>2. CASE Before(page) < Total
  <2>1. /\ Before(page) \in Nat /\ page * Size = Before(page) + Size
        /\ Size \in Nat \ {0} /\ Size <= limit /\ limit \in Limits /\ limit \in Nat
        /\ Total \in Nat /\ Total <= Cardinality(Rows) /\ Cardinality(Rows) \in Nat
    BY BeforeNext, MatchingType
  <2>2. Cardinality(Rows) + limit < IntSpan \div 2 /\ IntSpan \div 2 \in Nat
    BY <2>1, TotalAssumption, IntSpanAssumption
  <2> HIDE DEF Size, Before
  <2> QED BY <1>2, <2>1, <2>2
<1> QED BY <1>1, <1>2

\* A window returns the matches that follow the pages before it, each once.
LEMMA ReadPayloadInv ==
  ASSUME IInv, ReadPayload
  PROVE  IInv'
<1>1. PICK odas \in OdasPages : ReadPage(odas) /\ UNCHANGED intact
  BY DEF ReadPayload
<1>2. TypeOK' /\ MatchInv'
  BY <1>1, ReadPageInv DEF IInv, TypeOK
<1>3. /\ walk = "reading" /\ last' = ToListing(odas) /\ page' = last'.page + 1
      /\ got' = [r \in Rows |-> IF r \in odas.items THEN Smaller(got[r] + 1, 2) ELSE got[r]]
      /\ walk' = IF last'.hasMore THEN "reading" ELSE "done"
      /\ UNCHANGED <<child, limit, cap, start, alt, edits, steady, intact>>
  BY <1>1 DEF ReadPage, Fixed
<1>4. /\ last'.page = page /\ last'.limit = Size /\ page' = page + 1
      /\ last'.hasMore <=> Times(page, Size) < Total
      /\ odas.items = Window(Matching, page, Size)
  BY <1>3, ListingType DEF IInv
<1>5. Matching' = Matching /\ Total' = Total /\ Size' = Size
  BY <1>3 DEF Matching, Total, Size
<1>6. /\ Before(page)' = page * Size /\ Before(start)' = Before(start) /\ (Calm' <=> Calm)
      /\ Passed' = {r \in Matching : Rank(r, Matching) <= page * Size}
  <2>1. Before(page)' = (page' - 1) * Size'
    BY DEF Before
  <2>2. page' - 1 = page
    BY <1>4, MatchingType DEF IInv
  <2>3. Before(page)' = page * Size
    BY <1>5, <2>1, <2>2
  <2>4. Before(start)' = Before(start) /\ (Calm' <=> Calm)
    BY <1>3, <1>5 DEF Before, Calm
  <2> QED BY <1>5, <2>3, <2>4 DEF Passed
<1>7. MoreInv'
  <2>1. page * Size < IntSpan \div 2 => Times(page, Size) = page * Size
    BY MatchingType, TimesHolds DEF IInv
  <2> QED BY <1>3, <1>4, <1>5, <2>1 DEF MoreInv
<1>8. WalkInv'
  <2> SUFFICES ASSUME Calm
               PROVE  /\ \A r \in Rows :
                           got'[r] = IF /\ r \in Matching /\ Rank(r, Matching) <= page * Size
                                        /\ Before(start) < Rank(r, Matching)
                                     THEN 1 ELSE 0
                      /\ Before(start) <= page * Size
                      /\ walk' = "reading" => page * Size < Total
                      /\ walk' = "done" => Total <= page * Size
    BY <1>3, <1>5, <1>6 DEF WalkInv
  <2>1. /\ \A r \in Rows : got[r] = IF r \in Passed /\ Before(start) < Rank(r, Matching)
                                    THEN 1 ELSE 0
        /\ Before(start) <= Before(page)
        /\ page = start \/ Before(page) < Total
    BY <1>3 DEF IInv, WalkInv
  <2>2. /\ Before(page) \in Nat /\ page * Size \in Nat /\ page * Size = Before(page) + Size
        /\ Before(start) \in Nat /\ Size \in Nat \ {0} /\ Total \in Nat
    BY BeforeNext, MatchingType DEF IInv
  <2>3. Times(page, Size) = page * Size
    BY <2>1, ReachHolds, MatchingType, TimesHolds DEF IInv
  <2>4. ASSUME NEW r \in Rows
        PROVE  got'[r] = IF /\ r \in Matching /\ Rank(r, Matching) <= page * Size
                            /\ Before(start) < Rank(r, Matching)
                         THEN 1 ELSE 0
    <3>1. r \in odas.items <=> r \in Matching /\ Before(page) < Rank(r, Matching)
                               /\ Rank(r, Matching) <= page * Size
      BY <1>4 DEF Window, Before
    <3>2. r \in Matching => Rank(r, Matching) \in Nat
      BY MatchingType, RankBounds DEF IInv
    <3>3. got'[r] = IF r \in odas.items THEN Smaller(got[r] + 1, 2) ELSE got[r]
      BY <1>3
    <3>4. r \in Passed <=> r \in Matching /\ Rank(r, Matching) <= Before(page)
      BY DEF Passed
    <3> QED BY <2>1, <2>2, <3>1, <3>2, <3>3, <3>4 DEF Smaller
  <2> QED BY <1>3, <1>4, <2>1, <2>2, <2>3, <2>4
<1> QED BY <1>2, <1>7, <1>8 DEF IInv

LEMMA StepInv == IInv /\ [Next]_vars => IInv'
<1> SUFFICES ASSUME IInv, [Next]_vars PROVE IInv'
  OBVIOUS
<1>1. CASE ReadPayload
  BY <1>1, ReadPayloadInv
<1>2. CASE ReadNoPayload
  <2>1. TypeOK' /\ MatchInv'
    BY <1>2, ReadPageInv DEF ReadNoPayload
  <2> QED BY <1>2, <2>1 DEF ReadNoPayload, IInv, WalkInv, Calm, MoreInv
<1>3. CASE ReadFails \/ UNCHANGED vars
  <2>1. /\ UNCHANGED <<child, limit, cap, start, alt, page, got, last, edits, steady, intact>>
        /\ walk' \in {walk, "failed"}
    BY <1>3 DEF ReadFails, Fixed, vars
  <2>2. /\ Matching' = Matching /\ Total' = Total /\ Passed' = Passed /\ (Calm' <=> Calm)
        /\ Before(page)' = Before(page) /\ Before(start)' = Before(start)
    BY <2>1 DEF Matching, Total, Passed, Before, Size, Calm
  <2>3. TypeOK' /\ MatchInv' /\ MoreInv'
    BY <2>1, <2>2 DEF IInv, TypeOK, MatchInv, MoreInv
  <2>4. WalkInv'
    BY <2>1, <2>2 DEF IInv, TypeOK, WalkInv
  <2> QED BY <2>3, <2>4 DEF IInv
<1>4. ASSUME NEW r \in Rows, NEW a \in Altitudes \cup {"absent"}, Edit(r, a)
      PROVE  IInv'
  <2>1. /\ alt' = [alt EXCEPT ![r] = a] /\ steady' = steady \ {r}
        /\ edits' = edits + 1 /\ edits < MaxEdits
        /\ UNCHANGED <<child, limit, cap, start, page, got, last, walk, intact>>
    BY <1>4 DEF Edit, Fixed
  <2>2. edits' \in 0..MaxEdits /\ edits' # 0
    BY <2>1, IntSpanAssumption DEF IInv, TypeOK
  <2>3. TypeOK'
    BY <2>1, <2>2 DEF IInv, TypeOK
  <2> QED BY <2>2, <2>3 DEF IInv, MatchInv, WalkInv, Calm, MoreInv
<1> QED BY <1>1, <1>2, <1>3, <1>4 DEF Next

-----------------------------------------------------------------------------
(* What follows from it. *)

\* After each page of a walk over a tree nobody edits the agent has exactly the
\* matches up to the last rank of the windows read.
THEOREM Inductive == Spec => []IInv
BY InitInv, StepInv, PTL DEF Spec

\* Every variable has its type, whatever the rows and the windows.
THEOREM TypeCorrect == Spec => []TypeOK
<1>1. IInv => TypeOK
  BY DEF IInv
<1> QED BY <1>1, Inductive, PTL

\* A walk from page 1 that ends has returned every match exactly once and
\* nothing else, however many rows match and whatever window ODAS applies
\* (requirement.go:134-158).
THEOREM AlwaysComplete == Spec => []WalkComplete
<1>1. IInv => WalkComplete
  <2> SUFFICES ASSUME IInv, walk = "done", start = 1, intact, edits = 0, NEW r \in Rows
               PROVE  got[r] = IF r \in Matching THEN 1 ELSE 0
    BY DEF WalkComplete
  <2>1. Calm
    <3>1. Cardinality(Rows) + limit < IntSpan \div 2 /\ IntSpan \div 2 \in Nat
      BY MatchingType, TotalAssumption, IntSpanAssumption DEF IInv
    <3>2. 1 * Size = Size
      BY MatchingType DEF IInv
    <3>3. start * Size < IntSpan \div 2
      BY <3>1, <3>2, MatchingType DEF IInv
    <3> QED BY <3>3 DEF Calm
  <2>2. /\ got[r] = IF r \in Passed /\ Before(start) < Rank(r, Matching) THEN 1 ELSE 0
        /\ Total <= Before(page)
    BY <2>1 DEF IInv, WalkInv
  <2>3. r \in Matching => Rank(r, Matching) \in 1..Total
    BY MatchingType, RankBounds DEF IInv, Total
  <2>4. Before(page) \in Nat /\ Before(start) = 0 /\ Total \in Nat
    BY BeforeNext, MatchingType DEF IInv
  <2> QED BY <2>2, <2>3, <2>4 DEF Passed
<1> QED BY <1>1, Inductive, PTL

\* Every row a listing offers a child of a stated altitude may legally parent
\* it (schemas/requirement.go:66-70).
THEOREM CandidatesAlwaysLegal == Spec => []CandidatesLegal
<1>1. IInv => CandidatesLegal
  <2> SUFFICES ASSUME IInv, child # "unstated", edits = 0, NEW r \in Rows, got[r] > 0
               PROVE  alt[r] \in ChildAltitudes /\ Coarseness[alt[r]] <= Coarseness[child]
    BY DEF CandidatesLegal
  <2>1. child \in ChildAltitudes
    BY DEF IInv, TypeOK
  <2>2. alt[r] \in LegalParentAltitudes[child]
    BY DEF IInv, MatchInv, Matching, AltitudeFilter
  <2> QED BY <2>1, <2>2 DEF ChildAltitudes, LegalParentAltitudes, Coarseness
<1> QED BY <1>1, Inductive, PTL

\* hasMore is true exactly when some match ranks beyond the page the listing
\* names, wherever an int holds the page times its limit
\* (schemas/requirement.go:353).
THEOREM HasMoreAlwaysTells == Spec => []HasMoreTells
<1>1. IInv => HasMoreTells
  <2> SUFFICES ASSUME IInv, intact, edits = 0, last.page * last.limit < IntSpan \div 2
               PROVE  last.hasMore <=>
                        \E r \in Matching : Rank(r, Matching) > last.page * last.limit
    BY DEF HasMoreTells
  <2>1. last.page * last.limit \in Nat
    BY DEF IInv, TypeOK
  <2>2. last.hasMore <=> last.page * last.limit < Total
    BY DEF IInv, MoreInv
  <2> QED BY <2>1, <2>2, MatchingType, BeyondRank DEF IInv, Total
<1> QED BY <1>1, Inductive, PTL

\* Where nobody edits the tree, paging skips and repeats nothing, as the
\* comment on the listing says (schemas/requirement.go:346-347): the edits are
\* all its claim leaves out.
THEOREM UneditedNeverSkips == Spec => [](edits = 0 => NeverSkipsOrRepeats)
<1>1. IInv /\ WalkComplete => (edits = 0 => NeverSkipsOrRepeats)
  BY DEF IInv, TypeOK, MatchInv, WalkComplete, NeverSkipsOrRepeats
<1> QED BY <1>1, Inductive, AlwaysComplete, PTL

\* Where every reply carries its payload, a walk that returned nothing means
\* that nothing matches (schemas/requirement.go:349).
THEOREM IntactEmptyMeansNoMatch == Spec => [](intact => EmptyMeansNoMatch)
<1>1. WalkComplete => (intact => EmptyMeansNoMatch)
  BY DEF WalkComplete, EmptyMeansNoMatch, Matching
<1> QED BY <1>1, AlwaysComplete, PTL

-----------------------------------------------------------------------------
(* A walk keeps what paging promises. *)

\* The rows on the pages before come first in the order.
LEMMA PassedLeads ==
  ASSUME TypeOK, NEW r \in Passed, NEW q \in Matching, q <= r
  PROVE  q \in Passed
<1>1. r \in Matching /\ Rank(r, Matching) <= Before(page)
  BY DEF Passed
<1>2. Rank(q, Matching) <= Rank(r, Matching)
  BY <1>1, MatchingType, RankMonotone
<1>3. Rank(q, Matching) \in Nat /\ Rank(r, Matching) \in Nat /\ Before(page) \in Nat
  BY <1>1, MatchingType, RankBounds, BeforeNext
<1> QED BY <1>1, <1>2, <1>3 DEF Passed

\* Counting a row once more, up to twice.
LEMMA CountsUp ==
  ASSUME TypeOK, NEW S
  PROVE  [r \in Rows |-> IF r \in S THEN Smaller(got[r] + 1, 2) ELSE got[r]]
           = [r \in Rows |-> IF r \notin S THEN got[r] ELSE IF got[r] = 0 THEN 1 ELSE 2]
<1>1. \A r \in Rows : Smaller(got[r] + 1, 2) = IF got[r] = 0 THEN 1 ELSE 2
  BY DEF TypeOK, Smaller
<1> QED BY <1>1

LEMMA InitPromise == Init => Promise!Init
<1> SUFFICES ASSUME Init PROVE Promise!Init
  OBVIOUS
<1>1. TypeOK
  BY InitInv DEF IInv
<1>2. Matching \in SUBSET Rows /\ Passed \in SUBSET Matching
  BY DEF Matching, Passed
<1>3. \A r \in Passed, q \in Matching : q <= r => q \in Passed
  BY <1>1, PassedLeads
<1>4. Calm \in BOOLEAN
  BY DEF Calm
<1> QED BY <1>2, <1>3, <1>4 DEF Init, Promise!Init, Promise!Leading

\* A page of a calm walk brings the next matches and says whether it is the
\* last.
LEMMA CalmPagePromise ==
  ASSUME IInv, ReadPayload, Calm
  PROVE  Promise!Next
<1> DEFINE S == Window(Matching, page, Size)
<1>1. PICK odas \in OdasPages : ReadPage(odas) /\ UNCHANGED intact
  BY DEF ReadPayload
<1>2. /\ walk = "reading" /\ last' = ToListing(odas) /\ page' = last'.page + 1
      /\ got' = [r \in Rows |-> IF r \in odas.items THEN Smaller(got[r] + 1, 2) ELSE got[r]]
      /\ walk' = IF last'.hasMore THEN "reading" ELSE "done"
      /\ UNCHANGED <<child, limit, cap, start, alt, edits, steady, intact>>
  BY <1>1 DEF ReadPage, Fixed
<1>3. /\ page' = page + 1 /\ odas.items = S
      /\ last'.hasMore <=> Times(page, Size) < Total
  BY <1>2, ListingType DEF IInv
<1>4. Matching' = Matching /\ Size' = Size /\ (Calm' <=> Calm)
  BY <1>2 DEF Matching, Size, Calm
<1>5. /\ Before(page) \in Nat /\ page * Size \in Nat /\ page * Size = Before(page) + Size
      /\ Size \in Nat \ {0} /\ Total \in Nat /\ Matching \in SUBSET Nat /\ IsFiniteSet(Matching)
  BY BeforeNext, MatchingType DEF IInv
<1>6. \A r \in Matching : Rank(r, Matching) \in Nat
  BY <1>5, RankBounds
<1>7. S = {r \in Matching : Before(page) < Rank(r, Matching) /\ Rank(r, Matching) <= page * Size}
  BY DEF Window, Before
<1>8. Passed' = {r \in Matching : Rank(r, Matching) <= page * Size}
  <2>1. page' - 1 = page
    BY <1>3, MatchingType DEF IInv
  <2>2. Before(page)' = page * Size
    BY <1>4, <2>1 DEF Before
  <2> QED BY <1>4, <2>2 DEF Passed
<1>9. Passed' = Passed \cup S /\ S \cap Passed = {}
  <2>1. ASSUME NEW r \in Matching
        PROVE  /\ r \in Passed <=> Rank(r, Matching) <= Before(page)
               /\ r \in S <=> ~(Rank(r, Matching) <= Before(page)) /\ Rank(r, Matching) <= page * Size
               /\ r \in Passed' <=> Rank(r, Matching) <= page * Size
               /\ Rank(r, Matching) <= Before(page) => Rank(r, Matching) <= page * Size
    <3>1. /\ r \in Passed <=> Rank(r, Matching) <= Before(page)
          /\ r \in Passed' <=> Rank(r, Matching) <= page * Size
      BY <1>8 DEF Passed
    <3>2. r \in S <=> Before(page) < Rank(r, Matching) /\ Rank(r, Matching) <= page * Size
      BY <1>7
    <3> HIDE DEF S
    <3> QED BY <1>5, <1>6, <3>1, <3>2
  <2>2. Passed \subseteq Matching /\ S \subseteq Matching /\ Passed' \subseteq Matching
    BY <1>7, <1>8 DEF Passed
  <2> HIDE DEF S
  <2> QED BY <2>1, <2>2
<1>10. S = {} => Passed = Matching
  <2> SUFFICES ASSUME NEW r \in Matching, r \notin Passed
               PROVE  S # {}
    BY DEF Passed
  <2>1. Before(page) < Total
    BY <1>5, <1>6, BeyondRank DEF Passed, Total
  <2>2. PICK q \in Matching : Rank(q, Matching) = Before(page) + 1
    BY <1>5, <2>1, NextRank DEF Total
  <2> QED BY <1>5, <1>7, <2>2
<1>11. \A r \in Passed', q \in Matching : q <= r => q \in Passed'
  <2> SUFFICES ASSUME NEW r \in Passed', NEW q \in Matching, q <= r
               PROVE  q \in Passed'
    OBVIOUS
  <2>1. r \in Matching /\ Rank(q, Matching) <= Rank(r, Matching)
    BY <1>5, <1>8, RankMonotone
  <2> QED BY <1>5, <1>6, <1>8, <2>1
<1>12. walk' = IF Passed' = Matching THEN "done" ELSE "reading"
  <2>1. Times(page, Size) = page * Size
    BY <1>2, ReachHolds, MatchingType, TimesHolds DEF IInv, WalkInv
  <2>2. page * Size < Total <=> \E r \in Matching : Rank(r, Matching) > page * Size
    BY <1>5, BeyondRank DEF Total
  <2>3. page * Size < Total <=> Passed' # Matching
    <3>1. ASSUME NEW r \in Matching
          PROVE  Rank(r, Matching) > page * Size <=> r \notin Passed'
      BY <1>5, <1>6, <1>8
    <3>2. Passed' \subseteq Matching
      BY <1>8
    <3> QED BY <2>2, <3>1, <3>2
  <2> QED BY <1>2, <1>3, <2>1, <2>3
<1>13. got' = [r \in Rows |-> IF r \notin S THEN got[r] ELSE IF got[r] = 0 THEN 1 ELSE 2]
  BY <1>2, <1>3, CountsUp DEF IInv
<1>14. S \in SUBSET Matching
  BY <1>7
<1>15. Promise!Page(S)
  BY <1>2, <1>4, <1>9, <1>10, <1>11, <1>12, <1>13
     DEF Promise!Page, Promise!Leading, Promise!Return
<1> QED BY <1>14, <1>15 DEF Promise!Next

\* Any other page brings nothing but matches.
LEMMA RoughPagePromise ==
  ASSUME IInv, NEW odas, odas \in OdasPages \/ odas = EmptyPage,
         ReadPage(odas), ~Calm', odas = EmptyPage \/ ~Calm
  PROVE  Promise!Next
<1>1. /\ walk = "reading" /\ walk' \in {"reading", "done"} /\ Matching' = Matching
      /\ got' = [r \in Rows |-> IF r \in odas.items THEN Smaller(got[r] + 1, 2) ELSE got[r]]
  BY DEF ReadPage, Fixed, Matching
<1>2. odas.items \in SUBSET Matching /\ (Calm => odas.items = {})
  BY ListingType DEF IInv, EmptyPage
<1>3. got' = [r \in Rows |-> IF r \notin odas.items THEN got[r]
                             ELSE IF got[r] = 0 THEN 1 ELSE 2]
  BY <1>1, CountsUp DEF IInv
<1>4. Promise!RoughPage(odas.items)
  BY <1>1, <1>2, <1>3 DEF Promise!RoughPage, Promise!Return
<1> QED BY <1>2, <1>4 DEF Promise!Next

\* Every page of a walk brings matches only; while nothing disturbs the walk
\* they are the next ones, at least one if any is left, none twice, and the
\* page says whether it was the last (schemas/requirement.go:346-353).
THEOREM PromiseKept == Spec => KeepsListingPromise
<1>1. IInv /\ [Next]_vars => [Promise!Next]_Promise!pvars
  <2> SUFFICES ASSUME IInv, [Next]_vars PROVE [Promise!Next]_Promise!pvars
    OBVIOUS
  <2>1. CASE ReadPayload
    <3>1. CASE Calm
      BY <2>1, <3>1, CalmPagePromise
    <3>2. CASE ~Calm
      <4>1. PICK odas \in OdasPages : ReadPage(odas) /\ UNCHANGED intact
        BY <2>1 DEF ReadPayload
      <4>2. ~Calm'
        BY <3>2, <4>1 DEF ReadPage, Fixed, Calm, Size
      <4> QED BY <3>2, <4>1, <4>2, RoughPagePromise
    <3> QED BY <3>1, <3>2
  <2>2. CASE ReadNoPayload
    <3>1. ReadPage(EmptyPage) /\ ~Calm'
      BY <2>2 DEF ReadNoPayload, Calm
    <3> QED BY <3>1, RoughPagePromise
  <2>3. CASE ReadFails
    <3>1. Matching' = Matching /\ Passed' = Passed /\ (Calm' <=> Calm)
      BY <2>3 DEF ReadFails, Fixed, Matching, Passed, Before, Size, Calm
    <3>2. Promise!GiveUp
      BY <2>3, <3>1 DEF ReadFails, Promise!GiveUp
    <3> QED BY <3>2 DEF Promise!Next
  <2>4. ASSUME NEW r \in Rows, NEW a \in Altitudes \cup {"absent"}, Edit(r, a)
        PROVE  [Promise!Next]_Promise!pvars
    <3>1. edits' # 0
      BY <2>4, IntSpanAssumption DEF Edit, IInv, TypeOK
    <3>2. ~Calm' /\ Matching' \in SUBSET Rows /\ walk = "reading" /\ UNCHANGED <<got, walk>>
      BY <2>4, <3>1 DEF Edit, Calm, Matching
    <3>3. Promise!Disturb
      BY <3>2 DEF Promise!Disturb
    <3> QED BY <3>3 DEF Promise!Next
  <2>5. CASE UNCHANGED vars
    <3>1. Matching' = Matching /\ Passed' = Passed /\ (Calm' <=> Calm) /\ UNCHANGED <<got, walk>>
      BY <2>5 DEF vars, Matching, Passed, Before, Size, Calm
    <3> QED BY <3>1 DEF Promise!pvars
  <2> QED BY <2>1, <2>2, <2>3, <2>4, <2>5 DEF Next
<1> QED BY InitPromise, <1>1, Inductive, PTL DEF Spec, KeepsListingPromise, Promise!Spec
=============================================================================
