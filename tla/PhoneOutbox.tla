---------------------------- MODULE PhoneOutbox -----------------------------
(***************************************************************************)
(* What the phone holds to send, and its half of a sync                    *)
(* (apps/field/src/phone/{outbox,sync}.ts).                                *)
(*                                                                         *)
(* The store holds every thing sealed on the phone with what it was last   *)
(* answered; the outbox in memory lists those not said to be stored, and   *)
(* is filled from the store at the start of every run.  A run sends one    *)
(* sync at a time until nothing more goes, or stops where no answer comes. *)
(* The app may be closed at any moment: nothing but the store outlives it, *)
(* and what follows is a run begun over.  A ticket's own note that it was  *)
(* sealed is a change of its own: closed before it, it is sealed again.    *)
(***************************************************************************)
EXTENDS SyncThings, SequencesExt

CONSTANTS
  Captures,       \* what the monitor submits, in order: each sealed together
  RecordsAtMost,  \* how many records a sync carries
  PhotosAtMost    \* how many photographs' records

ASSUME OutboxAssumption ==
  /\ Captures \in Seq(Seq(Thing))
  \* Each kept under the id it was made under, once.
  /\ \A i, j \in DOMAIN Captures : ToSet(Captures[i]) \cap ToSet(Captures[j]) # {} => i = j
  /\ RecordsAtMost \in Nat \ {0} /\ PhotosAtMost \in Nat \ {0}

VARIABLES
  captured,  \* how many of the captures were submitted
  noted,     \* whether the ticket says the last of them is sealed
  kept,      \* [Thing -> what the store says of it]
  listed,    \* SUBSET Thing: the outbox's own list
  again,     \* SUBSET Thing: kept ones sent again since the store was read
  phase,     \* what the run under way does
  found,     \* SUBSET Thing: what the read under way found in the store
  sending    \* the sync that waits for its answer

phoneVars == <<captured, noted, kept, listed, again, phase, found, sending>>

Unmade == "unmade"    \* not on the phone (not yet captured, or another's)
Waiting == "waiting"  \* sealed, and not answered

\* What the store holds that the server has not said it stored.
NotStored == {x \in Thing : kept[x] \notin {Unmade} \cup StoredAnswer}

PhoneTypeOK ==
  /\ captured \in 0 .. Len(Captures) /\ noted \in BOOLEAN
  /\ kept \in [Thing -> Answer \cup {Unmade, Waiting}]
  /\ listed \subseteq Thing /\ again \subseteq Thing /\ found \subseteq Thing
  /\ phase \in {"resting", "reading", "syncing"}
  /\ sending \in Seq(Thing)

PhoneInit ==
  /\ captured = 0 /\ noted = TRUE
  /\ kept = [x \in Thing |-> Unmade]
  /\ listed = {} /\ again = {} /\ found = {}
  /\ phase = "resting"
  /\ sending = << >>

-----------------------------------------------------------------------------
(* The next sync, as it goes on the wire (`sends`).                        *)

\* The store hands back what it keeps in the order it was sealed.
Sealed == FlattenSeq(Captures)

InOrderKept(things) ==
  LET first[n \in 0 .. Len(Sealed)] ==
        IF n = 0 THEN << >>
        ELSE IF Sealed[n] \in things THEN Append(first[n - 1], Sealed[n]) ELSE first[n - 1]
  IN  first[Len(Sealed)]

WaitingNow == {x \in listed : kept[x] = Waiting}

\* (Mutants: a record answered never goes again; a photograph answered never does.)
OnlyPhotosAgain ==
  {x \in listed \ again : x \in Photo /\ kept[x] = "OWNER_NOT_SAVED"}
OnlyRecordsAgain == {x \in listed \ again : x \in Record /\ kept[x] # Waiting}

\* Kept not stored, and not sent since the store was read: a record whatever it
\* was answered, a photograph only where its record wasn't saved.
GoesAgain ==
  {x \in listed \ again : kept[x] # Waiting /\ (x \in Record \/ kept[x] = "OWNER_NOT_SAVED")}

\* A scale receipt is put ahead of the first disposal that points at it.
PutInTurn(ordered, r) ==
  LET pointing == {i \in DOMAIN ordered : r \in PointsAt[ordered[i]]} IN
  IF pointing = {} THEN Append(ordered, r)
  ELSE InsertAt(ordered, CHOOSE i \in pointing : \A j \in pointing : i <= j, r)

\* What waits first, then what goes again.
RecordsInTurn ==
  FoldLeft(PutInTurn, << >>,
           InOrderKept(WaitingNow \cap Record) \o InOrderKept(GoesAgain \cap Record))

FirstOf(things, most) == SubSeq(things, 1, IF Len(things) < most THEN Len(things) ELSE most)

RecordsGoing == FirstOf(RecordsInTurn, RecordsAtMost)

\* Waiting records left for a later sync: their photographs are left with them.
StaysWithRecord(p) == Owner[p] \in WaitingNow /\ Owner[p] \notin ToSet(RecordsGoing)

PhotosGoing ==
  FirstOf(InOrderKept({p \in WaitingNow \cap Photo : ~StaysWithRecord(p)})
            \o InOrderKept({p \in GoesAgain \cap Photo : ~StaysWithRecord(p)}), PhotosAtMost)

Sends == RecordsGoing \o PhotosGoing

-----------------------------------------------------------------------------

\* The monitor submits: sealed in the store together, and listed.
Capture ==
  /\ noted /\ captured < Len(Captures)
  /\ captured' = captured + 1
  /\ noted' = FALSE
  /\ LET made == ToSet(Captures[captured + 1]) IN
     /\ kept' = [x \in Thing |-> IF x \in made THEN Waiting ELSE kept[x]]
     /\ listed' = listed \cup made
  /\ UNCHANGED <<again, phase, found, sending>>

\* The ticket's own note of it: submitting, or the photograph kept.
Noted ==
  /\ ~noted
  /\ noted' = TRUE
  /\ UNCHANGED <<captured, kept, listed, again, phase, found, sending>>

\* The app closed before that note and opened again: whatever it was doing is gone, the
\* outbox is what the store holds, and what was sealed is sealed anew, its answer lost.
SealedAgain ==
  LET made == ToSet(Captures[captured]) IN
  /\ ~noted
  /\ kept' = [x \in Thing |-> IF x \in made THEN Waiting ELSE kept[x]]
  /\ listed' = NotStored \cup made
  /\ again' = {} /\ found' = {}
  /\ phase' = "resting"
  /\ sending' = << >>
  /\ UNCHANGED <<captured, noted>>

\* A run begins (a connection found, a sign-in, the monitor's asking, the app back
\* to the front) and reads the store, which is not one step with using it.
RunStarts ==
  /\ phase = "resting"
  /\ phase' = "reading"
  /\ found' = NotStored
  /\ UNCHANGED <<captured, noted, kept, listed, again, sending>>

StoreRead ==
  /\ phase = "reading"
  /\ phase' = "syncing"
  /\ listed' = found
  /\ again' = {}
  /\ found' = {}
  /\ UNCHANGED <<captured, noted, kept, sending>>

NextSyncGoes ==
  /\ phase = "syncing"
  /\ sending = << >>
  /\ sending' = Sends
  /\ sending' # << >>
  /\ UNCHANGED <<captured, noted, kept, listed, again, phase, found>>

\* (A mutant: any answer that it is kept at all taken for stored.)
KeptTakenForStored(told) ==
  LET answered == ToSet(sending)
      nowStored == {x \in answered : told[x] \in StoredAnswer \cup {"QUARANTINED"}} IN
  /\ sending # << >>
  /\ kept' = [x \in Thing |-> IF x \in nowStored THEN "SAVED"
                               ELSE IF x \in answered THEN told[x] ELSE kept[x]]
  /\ listed' = listed \ nowStored
  /\ again' = again \cup answered
  /\ sending' = << >>
  /\ UNCHANGED <<captured, noted, phase, found>>

\* Its answer, every change it makes kept together: only what is stored leaves the
\* list, and a photograph kept for its record goes again once that is stored.
AnswerTaken(told) ==
  LET answered == ToSet(sending)
      nowStored == {x \in answered : told[x] \in StoredAnswer} IN
  /\ sending # << >>
  /\ kept' = [x \in Thing |-> IF x \in answered THEN told[x] ELSE kept[x]]
  /\ listed' = listed \ nowStored
  /\ again' = (again \cup answered) \ {p \in listed \cap Photo : Owner[p] \in nowStored}
  /\ sending' = << >>
  /\ UNCHANGED <<captured, noted, phase, found>>

\* No answer, nothing marked: the run stops, or, told to wait, goes on after it.
NoAnswer ==
  /\ sending # << >>
  /\ sending' = << >>
  /\ phase' \in {"resting", "syncing"}
  /\ UNCHANGED <<captured, noted, kept, listed, again, found>>

RunEnds ==
  /\ phase = "syncing"
  /\ sending = << >>
  /\ Sends = << >>
  /\ phase' = "resting"
  /\ UNCHANGED <<captured, noted, kept, listed, again, found, sending>>
=============================================================================
