--------------------------- MODULE MCCertifications ---------------------------
(***************************************************************************)
(* Two certifications made under one certificate number, and a photograph  *)
(* of one, in syncs that may overlap, of a project that may be closed.     *)
(***************************************************************************)
EXTENDS SyncServer, TLC

CONSTANTS first, second, picture, n1, n2

Certificates == {first, second}
OnePhoto == {picture}
NoReceipt == [r \in Record |-> {}]
OfTheFirst == [x \in Photo |-> first]
Numbers == {n1, n2}
SameNumber == [r \in Record |-> n1]
EitherRequest == Permutations(Request)

Sent == {<<first, picture>>, <<second>>}
=============================================================================
