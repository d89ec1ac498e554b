--------------------------- MODULE MCListingWalk ---------------------------
(***************************************************************************)
(* Instances of ListingWalk for TLC.  An int of 64 values stands for one   *)
(* of 2^64: pages up to 31 are the ints an argument may hold.              *)
(***************************************************************************)
EXTENDS ListingWalkInvariant

ThreeRows == 1..3
FarPages == {1, 11, 31}
=============================================================================
