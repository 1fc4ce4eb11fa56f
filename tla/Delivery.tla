------------------------------ MODULE Delivery ------------------------------
(***************************************************************************)
(* What a phone and the server promise of everything sealed on the phone,  *)
(* whatever is lost, repeated or overtaken on the way: the phone keeps a   *)
(* thing until the server has saved it, tells its monitor that it was not  *)
(* saved only when it is on the server for a person, and what is saved     *)
(* stays saved (REQ-308c; AC-05-20, 46; ADR-022, 470).                     *)
(***************************************************************************)
CONSTANT Thing

VARIABLES
  phone,    \* [Thing -> what the phone has of it]
  server    \* [Thing -> what the server has of it]

deliveryVars == <<phone, server>>

DeliveryTypeOK ==
  /\ phone \in [Thing -> {"unmade", "waiting", "shown", "dropped"}]
  /\ server \in [Thing -> {"absent", "forAPerson", "saved"}]

DeliveryInit ==
  /\ phone = [x \in Thing |-> "unmade"]
  /\ server = [x \in Thing |-> "absent"]

\* Things sealed on the phone together.
Sealed(things) ==
  /\ \A x \in things : phone[x] = "unmade"
  /\ phone' = [x \in Thing |-> IF x \in things THEN "waiting" ELSE phone[x]]
  /\ UNCHANGED server

\* Sealed on the phone anew, what the phone was told of them lost.
SealedAgain(things) ==
  /\ \A x \in things : phone[x] # "unmade"
  /\ phone' = [x \in Thing |-> IF x \in things THEN "waiting" ELSE phone[x]]
  /\ UNCHANGED server

\* The server takes one: for a person, or saved.
Taken(x) ==
  /\ \/ server[x] = "absent" /\ server' = [server EXCEPT ![x] = "forAPerson"]
     \/ server[x] # "saved" /\ server' = [server EXCEPT ![x] = "saved"]
  /\ UNCHANGED phone

\* The phone learns of some it holds, each as the server has it.
Learned(things, stored) ==
  /\ stored \subseteq things
  /\ \A x \in things : phone[x] \in {"waiting", "shown"} /\ server[x] # "absent"
  /\ \A x \in stored : server[x] = "saved"
  /\ phone' = [x \in Thing |-> IF x \in stored THEN "dropped"
                               ELSE IF x \in things THEN "shown" ELSE phone[x]]
  /\ UNCHANGED server

DeliveryNext ==
  \/ \E things \in SUBSET Thing : Sealed(things) \/ SealedAgain(things)
  \/ \E x \in Thing : Taken(x)
  \/ \E things \in SUBSET Thing : \E stored \in SUBSET things : Learned(things, stored)

DeliverySpec == DeliveryInit /\ [][DeliveryNext]_deliveryVars

\* What the phone let go of, the server saved.
DroppedIsSaved == \A x \in Thing : phone[x] = "dropped" => server[x] = "saved"
=============================================================================
