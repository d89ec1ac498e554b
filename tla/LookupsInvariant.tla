-------------------------- MODULE LookupsInvariant --------------------------
(***************************************************************************)
(* The inductive invariant of Lookups.  What a tool answered is judged     *)
(* where it is answered, so those two properties are inductive; that a     *)
(* walk is not lost rests on what the agent holds and where it stands      *)
(* question by question.                                                   *)
(***************************************************************************)
EXTENDS Lookups

WorldInv == world \in Worlds /\ (stage # "start" => way # "none")

\* A tree that is walked in memory was decoded whole.
HeldInv == stage = "question" /\ way = "whole" => Published("DecisionTree", held)

\* The question to ask next is one of the tree, or its root by its alias.
AtInv ==
  stage = "question" /\ Undisturbed /\ Walkable(Walked)
  => \/ at.text \in DOMAIN Walked.fields["nodes"].fields
     \/ way = "calls" /\ at = rootNodeID

\* The invariant of the proofs; every property follows from it.
IInv == TypeOK /\ WorldInv /\ AnswersConform /\ AnswersWhole /\ HeldInv /\ AtInv /\ NeverLost
=============================================================================
