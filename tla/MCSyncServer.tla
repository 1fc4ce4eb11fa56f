---------------------------- MODULE MCSyncServer ----------------------------
(***************************************************************************)
(* Two tickets made under one number, one with a photograph and one a      *)
(* disposal with its scale receipt, sent in any syncs that may overlap.    *)
(***************************************************************************)
EXTENDS SyncServer, TLC

CONSTANTS a, b, receipt, picture, n1, n2

Records == {a, b, receipt}
TwoTickets == {a, b}
OnePhoto == {picture}
Numbers == {n1, n2}
Numbered == [r \in Record |-> IF r = receipt THEN NoNumber ELSE n1]
ItsReceipt == [r \in Record |-> IF r = b THEN Record \cap {receipt} ELSE {}]
OfTheFirst == [x \in Photo |-> a]
OfTheSecond == [x \in Photo |-> b]
TheReceipt == {receipt}
TheSecond == {b}
EitherRequest == Permutations(Request)

\* What is sent together: a receipt ahead of its disposal, and records before
\* photographs (`Sync.received`).
Sent == {<<a, picture>>, <<receipt, b>>}
SentWithout == {<<a>>, <<b, picture>>}
=============================================================================
