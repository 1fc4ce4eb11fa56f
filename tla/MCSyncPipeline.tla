--------------------------- MODULE MCSyncPipeline ---------------------------
(***************************************************************************)
(* A phone that makes a ticket (a disposal with its scale receipt, where   *)
(* there is one) and a photograph of it, and another phone's ticket under  *)
(* the same number.                                                        *)
(***************************************************************************)
EXTENDS SyncPipeline, TLC

CONSTANTS receipt, ticket, other, picture, n1, n2

WithReceipt == {receipt, ticket}
WithAnother == {ticket, other}
OnePicture == {picture}
ItsReceipt == [r \in Record |-> IF r = ticket THEN Record \cap {receipt} ELSE {}]
OfTheTicket == [x \in Photo |-> ticket]
Numbers == {n1, n2}
Numbered == [r \in Record |-> IF r = receipt THEN NoNumber ELSE n1]
TheReceipt == {receipt}
TheTicket == {ticket}
TheOther == {other}
DisposalThenPicture == << <<receipt, ticket>>, <<picture>> >>
TicketThenPicture == << <<ticket>>, <<picture>> >>
EitherRequest == Permutations(Request)

\* Any order of things, none twice: what a sync could carry.
AnySync == UNION {{f \in [1 .. n -> Thing] : \A i, j \in 1 .. n : f[i] = f[j] => i = j} :
                   n \in 1 .. 3}
=============================================================================
