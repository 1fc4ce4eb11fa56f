------------------------------- MODULE TurnIn -------------------------------
(***************************************************************************)
(* "Sync and turn in": the phone syncs everything as the master user, asks *)
(* to be turned in naming all it still holds, and wipes when the server    *)
(* says so (apps/field/src/phone/{turn-in,outbox,sync}.ts,                 *)
(* apps/api/src/phone/turn-ins.ts).                                        *)
(*                                                                         *)
(* The server's turn-in is a read of what it lacks and then a piece of     *)
(* work that revokes the phone's key; its answer may be lost, and the      *)
(* phone may have stopped waiting before either.  The phone keeps a mark   *)
(* of a turn-in it has no answer to, and takes a proof by its key alone    *)
(* refused after that for the answer.  The server refuses one for more     *)
(* than a revoked key, and says to nobody why                              *)
(* (apps/api/src/phone/phone-proofs.ts).                                   *)
(***************************************************************************)
CONSTANTS
  Thing,    \* what the phone may make: records, reports, photographs with their files
  Ask,      \* turn-ins asked, that the server may be working at once
  NoAsk     \* the phone waits for no answer

ASSUME TurnInAssumption == NoAsk \notin Ask

VARIABLES
  made,     \* SUBSET Thing: everything submitted on the phone
  late,     \* SUBSET Thing: of that, what was made while a turn-in had no answer (for
            \*   the properties: nothing reads it)
  has,      \* SUBSET Thing: what the server would find (saved, or kept for a person)
  listed,   \* SUBSET Thing: what the phone holds that it wasn't told is stored
  asked,    \* the mark of a turn-in with no answer, kept in the store
  wiped,    \* whether the phone is erased: as told, or for a proof refused
  revoked,  \* whether the server revoked the phone's key: it is turned in
  act,      \* where the master user's act is
  challenge,  \* the server's challenge the phone is to sign, and whether it can still be taken
  toSend,   \* SUBSET Thing: what the act has still to send
  turnIn,   \* [Ask -> the turn-in as the server works it]
  waitsFor  \* the turn-in the phone waits for

phoneVars == <<made, late, listed, asked, wiped, act, challenge, toSend, waitsFor>>
serverVars == <<has, revoked, turnIn>>
vars == <<phoneVars, serverVars>>

Stage == {"none", "sent", "found", "turnedIn", "lacking", "refused"}
Act == {"none", "provingByKey", "provingByPasscode", "syncing", "marked", "waiting"}

TurnInWork == [stage : Stage, names : SUBSET Thing]
Unasked == [stage |-> "none", names |-> {}]

TurnInTypeOK ==
  /\ made \subseteq Thing /\ late \subseteq made /\ has \subseteq Thing
  /\ listed \subseteq made /\ toSend \subseteq listed
  /\ asked \in BOOLEAN /\ wiped \in {"no", "told", "refused"} /\ revoked \in BOOLEAN
  /\ act \in Act
  /\ challenge \in {"none", "good", "over"}
  /\ turnIn \in [Ask -> TurnInWork]
  /\ waitsFor \in Ask \cup {NoAsk}

TurnInInit ==
  /\ made = {} /\ late = {} /\ has = {} /\ listed = {} /\ toSend = {}
  /\ asked = FALSE /\ wiped = "no" /\ revoked = FALSE
  /\ act = "none" /\ challenge = "none"
  /\ turnIn = [k \in Ask |-> Unasked]
  /\ waitsFor = NoAsk

-----------------------------------------------------------------------------
(* The monitor, while no act of the master user's holds the sync.          *)

\* No turn-in is without its answer: no mark, and none the server still has.
Answered == ~asked /\ \A k \in Ask : turnIn[k].stage = "none"

Capture(x) ==
  /\ act = "none" /\ wiped = "no"
  /\ x \notin made
  /\ made' = made \cup {x}
  /\ late' = IF Answered THEN late ELSE late \cup {x}
  /\ listed' = listed \cup {x}
  /\ UNCHANGED <<asked, wiped, act, challenge, toSend, waitsFor, serverVars>>

\* One thing sent by a proven phone: the server has it or not, and the phone is told
\* it is stored, or keeps it (held for a person, its file resting, or no answer).
Sent(x) ==
  \/ has' \in {has, has \cup {x}} /\ UNCHANGED listed
  \/ has' = has \cup {x} /\ listed' = listed \ {x}

\* A run of the monitor's own; every session ended with the turn-in.
MonitorSends(x) ==
  /\ act = "none" /\ wiped = "no" /\ ~revoked
  /\ x \in listed
  /\ Sent(x)
  /\ UNCHANGED <<made, late, asked, wiped, act, challenge, toSend, waitsFor, revoked, turnIn>>

-----------------------------------------------------------------------------
(* The act on the phone (`PhoneTurnIn.turnedInBy`).                        *)

Begins ==
  /\ act = "none" /\ wiped = "no"
  /\ act' = IF asked THEN "provingByKey" ELSE "provingByPasscode"
  /\ UNCHANGED <<made, late, listed, asked, wiped, challenge, toSend, waitsFor, serverVars>>

\* A turn-in with no answer: the key alone is asked after first (`PhoneIdentity.asPhone`),
\* over the server's challenge, unless the phone's token of before is still good.
ChallengeComes ==
  /\ act = "provingByKey" /\ challenge = "none"
  /\ challenge' = "good"
  /\ UNCHANGED <<made, late, listed, asked, wiped, act, toSend, waitsFor, serverVars>>

\* It runs out before its proof is there, or the phone proved itself with a later one
\* (`PhoneProofs.prove`: NO_CHALLENGE, SPENT).
ChallengeOver ==
  /\ challenge = "good"
  /\ challenge' = "over"
  /\ UNCHANGED <<made, late, listed, asked, wiped, act, toSend, waitsFor, serverVars>>

\* Whether the proof is refused, for whichever reason: the phone is told PHONE_NOT_PROVEN.
NotProven == challenge # "none" /\ (revoked \/ challenge = "over")

\* (A mutant: the passcode's proof refused is taken so too, no turn-in asked.)
AnyProofRefused ==
  /\ \/ act = "provingByKey" /\ NotProven
     \/ act = "provingByPasscode" /\ revoked
  /\ wiped' = "refused"
  /\ listed' = {}
  /\ act' = "none" /\ challenge' = "none"
  /\ UNCHANGED <<made, late, asked, toSend, waitsFor, serverVars>>

\* Refused, the phone takes itself to be turned in, and wipes (`turnedInUnanswered`).
KeyRefused ==
  /\ act = "provingByKey" /\ NotProven
  /\ wiped' = "refused"
  /\ listed' = {}
  /\ act' = "none" /\ challenge' = "none"
  /\ UNCHANGED <<made, late, asked, toSend, waitsFor, serverVars>>

\* Proven, the turn-in is taken not to have happened.
KeyProven ==
  /\ act = "provingByKey" /\ ~revoked /\ challenge # "over"
  /\ asked' = FALSE
  /\ act' = "provingByPasscode" /\ challenge' = "none"
  /\ UNCHANGED <<made, late, listed, wiped, toSend, waitsFor, serverVars>>

\* The passcode beside the key taken: everything the store holds is to go.
PasscodeTaken ==
  /\ act = "provingByPasscode" /\ ~revoked
  /\ act' = "syncing"
  /\ toSend' = listed
  /\ UNCHANGED <<made, late, listed, asked, wiped, challenge, waitsFor, serverVars>>

\* Sent in their turn, each answered before the next.
MasterSends(x) ==
  /\ act = "syncing" /\ ~revoked
  /\ x \in toSend
  /\ Sent(x)
  /\ toSend' = toSend \ {x}
  /\ UNCHANGED <<made, late, asked, wiped, act, challenge, waitsFor, revoked, turnIn>>

Marks ==
  /\ act = "syncing" /\ toSend = {}
  /\ asked' = TRUE
  /\ act' = "marked"
  /\ UNCHANGED <<made, late, listed, wiped, challenge, toSend, waitsFor, serverVars>>

\* Asked, under every name it holds (`PhoneOutbox.turnsIn`).
AsksToBeTurnedIn(k) ==
  /\ act = "marked"
  /\ turnIn[k].stage = "none"
  /\ turnIn' = [turnIn EXCEPT ![k] = [stage |-> "sent", names |-> listed]]
  /\ waitsFor' = k
  /\ act' = "waiting"
  /\ UNCHANGED <<made, late, listed, asked, wiped, challenge, toSend, has, revoked>>

\* Told to wipe (`turnInAnswered`); or told what is lacking, or refused: all is kept
\* and the mark with it let go.
AnswerComes ==
  /\ waitsFor # NoAsk
  /\ \/ /\ turnIn[waitsFor].stage = "turnedIn"
        /\ wiped' = "told" /\ listed' = {}
        /\ UNCHANGED asked
     \/ /\ turnIn[waitsFor].stage \in {"lacking", "refused"}
        /\ asked' = FALSE
        /\ UNCHANGED <<wiped, listed>>
  /\ turnIn' = [turnIn EXCEPT ![waitsFor] = Unasked]
  /\ act' = "none"
  /\ waitsFor' = NoAsk
  /\ UNCHANGED <<made, late, challenge, toSend, has, revoked>>

\* No answer, a refusal, a passcode not taken or the app closed: the act is over where
\* it was, everything kept, and the mark with it.
ActStops ==
  /\ act # "none"
  /\ act' = "none" /\ challenge' = "none"
  /\ toSend' = {}
  /\ waitsFor' = NoAsk
  /\ UNCHANGED <<made, late, listed, asked, wiped, serverVars>>

-----------------------------------------------------------------------------
(* The server (`TurnIns.turnIn`).                                          *)

\* (A mutant: turned in on the phone's word, what it names not looked up.)
ChecksNothing(k) ==
  /\ turnIn[k].stage = "sent"
  /\ turnIn' = [turnIn EXCEPT ![k] =
       IF revoked THEN [stage |-> "refused", names |-> {}] ELSE [@ EXCEPT !.stage = "found"]]
  /\ UNCHANGED <<has, revoked, phoneVars>>

\* What the call comes to, the phone proven and the passcode checked: named back is
\* what isn't there (`notOnTheServer`).
Checks(k) ==
  /\ turnIn[k].stage = "sent"
  /\ \/ /\ ~revoked
        /\ turnIn' = [turnIn EXCEPT ![k] =
             [stage |-> IF turnIn[k].names \subseteq has THEN "found" ELSE "lacking",
              names |-> turnIn[k].names]]
     \/ turnIn' = [turnIn EXCEPT ![k] = [stage |-> "refused", names |-> {}]]
  /\ UNCHANGED <<has, revoked, phoneVars>>

\* The piece of work, the phone's row held: refused where it was turned in already.
TurnsIn(k) ==
  /\ turnIn[k].stage = "found"
  /\ revoked' = TRUE
  /\ turnIn' = [turnIn EXCEPT ![k] =
       [stage |-> IF revoked THEN "refused" ELSE "turnedIn", names |-> turnIn[k].names]]
  /\ UNCHANGED <<has, phoneVars>>

\* The request, the work or the answer lost.
Lost(k) ==
  /\ turnIn[k].stage # "none"
  /\ turnIn' = [turnIn EXCEPT ![k] = Unasked]
  /\ UNCHANGED <<has, revoked, phoneVars>>

TurnInNext ==
  \/ \E x \in Thing : Capture(x) \/ MonitorSends(x) \/ MasterSends(x)
  \/ Begins \/ ChallengeComes \/ ChallengeOver \/ KeyRefused \/ KeyProven \/ PasscodeTaken \/ Marks
  \/ AnswerComes \/ ActStops
  \/ \E k \in Ask : AsksToBeTurnedIn(k) \/ Checks(k) \/ TurnsIn(k) \/ Lost(k)

TurnInSpec == TurnInInit /\ [][TurnInNext]_vars

-----------------------------------------------------------------------------
(* What is asked of it.                                                    *)

\* turn-ins.ts: "Nothing is wiped before the server has it" (ADR-096), and so it is of a
\* wipe the server ordered: whatever else was asked before, and whatever of that is still
\* at work or commits late.
ToldLosesNothing == wiped = "told" => made \subseteq has

\* However a phone that was turned in came to wipe, told so or for its key refused, all it
\* had made before a turn-in without its answer is on the server.
TurnedInKeptTheEarlier == wiped # "no" /\ revoked => made \ late \subseteq has

\* outbox.ts: "only a turn-in that found everything on the server revokes a key so", so a
\* phone that wiped for its key refused was turned in.
WipedOnlyTurnedIn == wiped # "no" => revoked

\* And what is turned in has lost nothing, what was made since it asked included.
TurnedInLosesNothing == wiped # "no" /\ revoked => made \subseteq has

\* turn-ins.ts: a phone whose key is revoked was told to wipe, or will take the refusal
\* of its key for that: it wipes, waits for its answer, or has its mark.
TurnedInLearns == revoked => wiped # "no" \/ asked

\* What makes the first two inductive.  What the phone made, it was told is stored or holds;
StoredIsThere == wiped = "no" => made \ listed \subseteq has

\* the act's own order;
ActHolds ==
  /\ act \in {"provingByKey", "marked", "waiting"} => asked
  /\ waitsFor # NoAsk <=> act = "waiting"
  /\ toSend # {} => act = "syncing"
  /\ wiped # "no" => act = "none"

\* a turn-in under way has found what it names, leaves unnamed of the earlier only what the
\* server has, and of everything while the phone waits for it;
NamesEverything ==
  \A k \in Ask :
    /\ turnIn[k].stage \in {"sent", "found"} => (made \ late) \ turnIn[k].names \subseteq has
    /\ turnIn[k].stage \in {"found", "turnedIn"} => turnIn[k].names \subseteq has
    /\ k = waitsFor /\ turnIn[k].stage \in {"sent", "found", "turnedIn"}
         => made \ turnIn[k].names \subseteq has

\* and a turned in phone that could yet take its key's refusal for an answer has its earlier kept.
MarkedKeptTheEarlier == revoked /\ (asked \/ act = "syncing") => made \ late \subseteq has

TurnInInv ==
  /\ TurnInTypeOK /\ ActHolds /\ StoredIsThere /\ NamesEverything /\ MarkedKeptTheEarlier
  /\ ToldLosesNothing /\ TurnedInKeptTheEarlier
=============================================================================
