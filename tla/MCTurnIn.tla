------------------------------ MODULE MCTurnIn ------------------------------
(***************************************************************************)
(* A phone that makes two things and asks to be turned in at least twice.  *)
(***************************************************************************)
EXTENDS TurnIn, TLC

AnyOrder == Permutations(Thing) \cup Permutations(Ask)
=============================================================================
