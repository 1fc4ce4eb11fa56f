----------------------------- MODULE MCHandOver -----------------------------
(***************************************************************************)
(* Three monitors, the phone the first's: handed over, or taken back.      *)
(***************************************************************************)
EXTENDS HandOver, TLC

CONSTANTS ana, sam, kim

AnyRecord == Permutations(Record)
=============================================================================
