---------------------------- MODULE MCPhotoFiles ----------------------------
(***************************************************************************)
(* Three files of one phone: one swapped after its capture, one that is no *)
(* image, and behind them the one to be kept.                              *)
(***************************************************************************)
EXTENDS PhotoFiles

Lengths == <<3, 1, 3>>
=============================================================================
