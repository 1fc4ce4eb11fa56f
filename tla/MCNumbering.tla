----------------------------- MODULE MCNumbering ----------------------------
(***************************************************************************)
(* Phones of one project that are cut blocks of two from one series.       *)
(***************************************************************************)
EXTENDS Numbering, TLC

AnyOrder == Permutations(Phone) \cup Permutations(Sync)
=============================================================================
