---------------------------- MODULE SyncPipeline ----------------------------
(***************************************************************************)
(* One phone and the server: every sync the outbox sends is a request the  *)
(* server works in its own time.  A request or its answer may be lost, the *)
(* phone may stop waiting while the server still works, and the phone's    *)
(* next sync then overlaps the one it gave up on.                          *)
(***************************************************************************)
EXTENDS SyncServer, PhoneOutbox

CONSTANTS
  NoRequest,   \* the phone waits for no answer
  Elsewhere    \* SUBSET Record: made on other phones

ASSUME PipelineAssumption ==
  /\ NoRequest \notin Request
  /\ Elsewhere \subseteq Record \ {x \in Record : \E i \in DOMAIN Captures : x \in ToSet(Captures[i])}

VARIABLE awaiting   \* the request the phone waits for

vars == <<serverVars, phoneVars, awaiting>>

PipelineTypeOK ==
  /\ ServerTypeOK /\ PhoneTypeOK
  /\ awaiting \in Request \cup {NoRequest}

PipelineInit == ServerInit /\ PhoneInit /\ awaiting = NoRequest

\* The phone's next sync, and the request it is to the server.
PhoneSends(q) ==
  /\ NextSyncGoes
  /\ Arrives(q, sending')
  /\ awaiting' = q

\* The answer comes to the phone that waits for it.
AnswerComes ==
  /\ awaiting # NoRequest
  /\ Answered(awaiting)
  /\ AnswerTaken(work[awaiting].told)
  /\ awaiting' = NoRequest

\* The phone stops waiting: no signal, an answer lost, the app closed.
GivesUp ==
  /\ awaiting # NoRequest
  /\ NoAnswer
  /\ awaiting' = NoRequest
  /\ UNCHANGED serverVars

\* The app is closed half way through a submit, and opened again.
Reopened ==
  /\ SealedAgain
  /\ awaiting' = NoRequest
  /\ UNCHANGED serverVars

\* An answer nobody waits for.
AnswerDropped(q) ==
  /\ q # awaiting
  /\ Answered(q)
  /\ UNCHANGED <<phoneVars, awaiting>>

\* Another phone's record of the same number is saved.
SavedElsewhere(r) ==
  /\ r \in Elsewhere
  /\ ~IsSaved(r) /\ ~NumberTaken(OwnNumber[r]) /\ Stands(r)
  /\ row' = [row EXCEPT ![r] = OwnNumber[r]]
  /\ ledger' = [ledger EXCEPT ![r] = "SAVED"]
  /\ UNCHANGED <<photoOn, quarantined, held, lacking, isOpen, work, phoneVars, awaiting>>

PhoneAlone ==
  (Capture \/ Noted \/ RunStarts \/ StoreRead \/ RunEnds) /\ UNCHANGED <<serverVars, awaiting>>

ServerAlone ==
  /\ \/ \E q \in Request : Works(q) \/ Fails(q)
     \/ Review
     \/ Around
  /\ UNCHANGED <<phoneVars, awaiting>>

PipelineNext ==
  \/ PhoneAlone
  \/ ServerAlone
  \/ \E q \in Request : PhoneSends(q) \/ AnswerDropped(q)
  \/ AnswerComes
  \/ GivesUp
  \/ Reopened
  \/ \E r \in Elsewhere : SavedElsewhere(r)

PipelineSpec == PipelineInit /\ [][PipelineNext]_vars

-----------------------------------------------------------------------------
(* Fairness.  The server works what it has begun and the phone goes on     *)
(* with its run; occasions to sync recur (the app to the front, a          *)
(* connection, a sign-in).  The signal is poor, not gone: of answers asked *)
(* for again and again some come, and the server does not fail for ever,   *)
(* nor take longer than the phone waits, nor the app close half way        *)
(* through a submit.                                                       *)

\* The run under way goes on; one that ended begins again.
RunGoesOn ==
  \/ (RunStarts \/ StoreRead \/ RunEnds) /\ UNCHANGED <<serverVars, awaiting>>
  \/ \E q \in Request : PhoneSends(q)
  \/ awaiting # NoRequest /\ work[awaiting] = Idle /\ GivesUp

\* The server goes on with a request it has, and is rid of one nobody waits for.
RequestGoesOn(q) == AnswerDropped(q) \/ (Works(q) /\ UNCHANGED <<phoneVars, awaiting>>)

Fairness ==
  /\ \A q \in Request : WF_vars(RequestGoesOn(q))
  /\ WF_vars(RunGoesOn)
  /\ SF_vars(AnswerComes)
  /\ <>[][~(\E q \in Request : Fails(q)) /\ ~(GivesUp /\ Busy(awaiting)) /\ ~Reopened]_vars

FairPipeline == PipelineSpec /\ Fairness

-----------------------------------------------------------------------------
(* What is asked of the two together.                                      *)

\* What the phone dropped is on the server, and what it shows a person was turned
\* away is there for a person: whichever answer, of whichever try, told it so.
PhoneKnowsRight == \A x \in Thing : Backed(x, kept[x])

\* outbox.ts sends: "the photographs' records whose records are not left for a later
\* sync": a photograph is not refused for a record the phone has yet to send.
PhotographAfterRecord ==
  \A p \in Photo : kept[p] = "OWNER_NOT_SAVED" => kept[Owner[p]] # Waiting

\* What makes that inductive.  What was submitted, and nothing else, is in the store.
SubmittedIsKept ==
  /\ ~noted => captured > 0
  /\ \A x \in Thing : kept[x] # Unmade <=> \E i \in 1 .. captured : x \in ToSet(Captures[i])

\* The list, the read and the sync under way hold only what is not said to be stored,
\* and the phone waits for an answer while, and only while, a sync is under way.
OnlyNotStoredGoes ==
  /\ listed \subseteq NotStored /\ found \subseteq NotStored /\ ToSet(sending) \subseteq NotStored
  /\ sending # << >> <=> awaiting # NoRequest
  /\ sending # << >> => phase = "syncing"
  /\ found # {} => phase = "reading"

\* The request the phone waits for answers everything the sync carried.
AllOfItAnswered ==
  awaiting # NoRequest /\ work[awaiting] # Idle =>
    \A x \in ToSet(sending) : x \in ToSet(work[awaiting].todo) \/ work[awaiting].told[x] # Nothing

\* Another phone's record is never sent from here, so never held here or quarantined.
ElsewhereApart ==
  \A r \in Elsewhere :
    /\ quarantined[r] = "no" /\ held[r] = "no"
    /\ \A q \in Request : r \notin ToSet(work[q].todo)

PipelineInv ==
  /\ PipelineTypeOK /\ ServerInv /\ PhoneKnowsRight
  /\ SubmittedIsKept /\ OnlyNotStoredGoes /\ AllOfItAnswered /\ ElsewhereApart

\* The pipeline is a delivery, each thing where the store and the tables say.
OnPhone == [x \in Thing |-> IF kept[x] \in {Unmade, Waiting} THEN kept[x]
                            ELSE IF kept[x] \in StoredAnswer THEN "dropped" ELSE "shown"]

OnServer ==
  [x \in Thing |->
     IF (x \in Record /\ IsSaved(x)) \/ (x \in Photo /\ photoOn[x] # "nowhere") THEN "saved"
     ELSE IF held[x] # "no" \/ (x \in Record /\ quarantined[x] # "no") THEN "forAPerson"
     ELSE "absent"]

Promise == INSTANCE Delivery WITH phone <- OnPhone, server <- OnServer
ImplementsDelivery == Promise!DeliverySpec

\* Everything sealed is told of in the end: a time comes when nothing sealed waits.
AllTold ==
  (\E x \in Thing \ Elsewhere : kept[x] = Waiting) ~> (\A x \in Thing \ Elsewhere : kept[x] # Waiting)

\* A record a person saved leaves the phone's list in the end: sent again once a
\* time the store is read, it is answered already saved (ADR-470 (3)).
SavingLearned ==
  \A r \in Record \ Elsewhere :
    kept[r] \notin {Unmade, Waiting} /\ IsSaved(r) ~> kept[r] \in StoredAnswer

\* A photograph refused for its record goes again once its record is saved, and is
\* answered anew (AC-11-32).
PhotographFollows ==
  \A p \in Photo :
    kept[p] = "OWNER_NOT_SAVED" /\ IsSaved(Owner[p]) ~> kept[p] # "OWNER_NOT_SAVED"
=============================================================================
