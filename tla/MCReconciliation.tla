-------------------------- MODULE MCReconciliation --------------------------
(***************************************************************************)
(* Two tickets that read each other (two loads of one truck whose loading  *)
(* times overlap) and a setup change that touches both; or one ticket.     *)
(***************************************************************************)
EXTENDS Reconciliation, TLC

CONSTANTS t1, t2

Pair == [t \in {t1, t2} |-> {t1, t2} \ {t}]
OneReads == [t \in {t1, t2} |-> {t2} \ {t}]
WorkersAlike == Permutations(Worker)
BothMove == {{t1, t2}}
NoMove == {}
OneMoves == {{t1}}
Alone == [t \in {t1} |-> {}]
AnyOrder == Permutations(Ticket) \cup Permutations(Worker)
=============================================================================
