---------------------------- MODULE MCNodeRead -----------------------------
(***************************************************************************)
(* Instances of NodeRead for TLC: one call against everything ODAS may     *)
(* answer while the requirement moves, and two calls that share a pool of  *)
(* one connection, for which replies are told apart only by whether they   *)
(* succeed.                                                                *)
(***************************************************************************)
EXTENDS NodeReadInvariant

GoodOrBroken == {[status |-> "2xx", payload |-> "valid", traced |-> FALSE],
                 [status |-> "5xx", payload |-> "absent", traced |-> TRUE]}

FirstCall == CHOOSE c \in Calls : TRUE
OneCall == [calls |-> {FirstCall}, maxConns |-> 2, answers |-> Replies,
            places |-> Places, maxMoves |-> 2]
SharedPool == [calls |-> Calls, maxConns |-> 1, answers |-> GoodOrBroken,
               places |-> {"root"}, maxMoves |-> 0]

BothScopes == {OneCall, SharedPool}
OneCallScope == {OneCall}
=============================================================================
