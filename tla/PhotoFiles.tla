----------------------------- MODULE PhotoFiles -----------------------------
(***************************************************************************)
(* Photographs' files on their way from a phone to the object store        *)
(* (apps/field/src/phone/{outbox,sync}.ts; apps/api/src/media/             *)
(* {photo-files,receiving}.ts): sent in parts, each at an offset, from     *)
(* where the server last said it stands; held in the API process's memory  *)
(* until whole, then kept under the fingerprint taken at capture, or set   *)
(* aside.  The records of the photographs are the server's already.        *)
(*                                                                         *)
(* A request the phone gave up on may still be served, later than one sent *)
(* after it.  Bytes are counted, not named.  One API process: another      *)
(* would hold parts of its own.  Left out: being told to wait, which       *)
(* changes nothing.                                                        *)
(***************************************************************************)
EXTENDS Naturals, SequencesExt, FiniteSetsExt

CONSTANTS
  File,       \* a phone's files: 1..n, the first to go first
  Length,     \* [File -> its bytes]
  Swapped,    \* the files that aren't as they were fingerprinted
  NotImage,   \* the files whose first bytes are no image's
  PartMost,   \* the most a part holds
  Room,       \* MEDIA_RECEIVING_BYTES_AT_MOST, no less than a file's bytes may be
  InARun,     \* notMatchedInARun
  Slot,       \* requests under way at once
  NoRequest,  \* the phone waits for no answer
  Unknown,    \* where the server stands with a file isn't known
  MaxFaults   \* bound: answers lost, failures, restarts of the app and of the process

ASSUME PhotoFilesAssumption ==
  /\ File \subseteq Nat /\ File # {} /\ IsFiniteSet(File)
  /\ Length \in [File -> Nat \ {0}]
  /\ Swapped \subseteq File /\ NotImage \subseteq File
  /\ PartMost \in Nat \ {0} /\ InARun \in Nat \ {0} /\ MaxFaults \in Nat
  /\ Room \in Nat /\ \A f \in File : Length[f] <= Room
  /\ NoRequest \notin Slot /\ Unknown \notin Nat

VARIABLES
  has,         \* SUBSET File: on the phone
  begun,       \* SUBSET File: the store's note that a part of it has gone
  from,        \* [File -> where the phone goes on from, or Unknown]
  resting,     \* SUBSET File: not sent again in this run
  notMatched,  \* [File -> times so answered in this run]
  running,     \* a run sends the files
  awaits,      \* the request whose answer the phone waits for
  request,     \* [Slot -> a request]
  held,        \* Seq(File): files held in part, the longest waiting first
  received,    \* [File -> the bytes of it held]
  placed,      \* [File -> what its place in the store holds]
  setAside,    \* SUBSET File: a row says what arrived in its stead
  uploaded,    \* SUBSET File: its upload time is written
  faults

phone == <<has, begun, from, resting, notMatched, running>>
memory == <<held, received>>
stored == <<placed, setAside, uploaded>>
vars == <<phone, awaits, request, memory, stored, faults>>

Matches == File \ Swapped
Offset == 0 .. Room

\* A request, as far as the server has come with it; `kept`: its file is at its place.
Stage == {"free", "sent", "looked", "whole", "kept", "answered"}
Answers == {"none", "KEPT", "RECEIVING", "NOT_MATCHED", "TURNED_AWAY", "FAILED"}
Request == [stage : Stage, asks : BOOLEAN, file : File, offset : Offset, size : Offset,
            answer : Answers, stands : Offset]
Free == [stage |-> "free", asks |-> FALSE, file |-> CHOOSE f \in File : TRUE, offset |-> 0,
         size |-> 0, answer |-> "none", stands |-> 0]

PhotoTypeOK ==
  /\ has \subseteq File /\ begun \subseteq has /\ resting \subseteq has
  /\ from \in [File -> Offset \cup {Unknown}]
  /\ notMatched \in [File -> 0 .. InARun]
  /\ running \in BOOLEAN
  /\ awaits \in Slot \cup {NoRequest} /\ (awaits # NoRequest => running)
  /\ request \in [Slot -> Request]
  /\ IsInjective(held) /\ ToSet(held) = {f \in File : received[f] > 0}
  /\ \A f \in File : received[f] \in 0 .. Length[f] - 1
  /\ placed \in [File -> {"nothing", "itsFile", "another"}]
  /\ setAside \subseteq File /\ uploaded \subseteq File
  /\ faults \in 0 .. MaxFaults

PhotoInit ==
  /\ has = File /\ begun = {} /\ resting = {}
  /\ from = [f \in File |-> 0] /\ notMatched = [f \in File |-> 0]
  /\ running = FALSE /\ awaits = NoRequest
  /\ request = [s \in Slot |-> Free]
  /\ held = << >> /\ received = [f \in File |-> 0]
  /\ placed = [f \in File |-> "nothing"] /\ setAside = {} /\ uploaded = {}
  /\ faults = 0

(***************************************************************************)
(* The phone                                                               *)
(***************************************************************************)

\* A run reads the store: what rested goes again, and where a file stood is remembered.
RunStarts ==
  /\ ~running /\ has # {}
  /\ running' = TRUE
  /\ resting' = {} /\ notMatched' = [f \in File |-> 0]
  /\ UNCHANGED <<has, begun, from, awaits, request, memory, stored, faults>>

\* The first file not resting whose place is known; or isn't, where it is asked after.
GoingNext(asking) ==
  LET going == {f \in has \ resting : (from[f] = Unknown) = asking}
  IN  {f \in going : \A g \in going : f <= g}

Goes(r) ==
  \E s \in Slot :
    /\ request[s].stage = "free"
    /\ request' = [request EXCEPT ![s] = r]
    /\ awaits' = s
    /\ UNCHANGED <<phone, memory, stored, faults>>

\* A question goes before any part.
Asks ==
  /\ running /\ awaits = NoRequest
  /\ \E f \in GoingNext(TRUE) :
       Goes([Free EXCEPT !.stage = "sent", !.asks = TRUE, !.file = f])

\* A part, of whatever size the signal lets.
SendsPart ==
  /\ running /\ awaits = NoRequest /\ GoingNext(TRUE) = {}
  /\ \E f \in GoingNext(FALSE) : \E n \in 1 .. PartMost :
       /\ n <= Length[f] - from[f]
       /\ Goes([Free EXCEPT !.stage = "sent", !.file = f, !.offset = from[f], !.size = n])

RunEnds ==
  /\ running /\ awaits = NoRequest /\ has \subseteq resting
  /\ running' = FALSE
  /\ UNCHANGED <<has, begun, from, resting, notMatched, awaits, request, memory, stored, faults>>

\* A file dropped, its bytes and its note together.
Dropped(f) ==
  /\ has' = has \ {f} /\ begun' = begun \ {f} /\ resting' = resting \ {f}
  /\ UNCHANGED <<from, notMatched>>

\* A part answered, or not: of it something has gone, and it goes on from where it stands.
GoesOn(r, at) ==
  /\ begun' = IF r.asks THEN begun ELSE begun \cup {r.file}
  /\ from' = [from EXCEPT ![r.file] = at]
  /\ UNCHANGED has

\* (A mutant: a file not matched sent again for as long as it isn't.)
NeverTooOften(times) == FALSE
TooOften(times) == times >= InARun

\* Not matched: again from its first byte, and twice so it rests until the next run.
SentOver(r) ==
  LET times == notMatched[r.file] + 1 IN
  /\ GoesOn(r, 0)
  /\ notMatched' = [notMatched EXCEPT ![r.file] = IF times > InARun THEN @ ELSE times]
  /\ resting' = IF TooOften(times) THEN resting \cup {r.file} ELSE resting

Unanswered(r) == GoesOn(r, from[r.file]) /\ running' = FALSE /\ UNCHANGED <<resting, notMatched>>

Answered ==
  LET r == request[awaits] IN
  /\ awaits # NoRequest /\ r.stage = "answered"
  /\ awaits' = NoRequest
  /\ request' = [request EXCEPT ![awaits] = Free]
  /\ \/ r.answer = "KEPT" /\ Dropped(r.file) /\ UNCHANGED running
     \/ /\ r.answer = "RECEIVING" /\ GoesOn(r, r.stands)
        /\ UNCHANGED <<resting, notMatched, running>>
     \/ r.answer = "NOT_MATCHED" /\ SentOver(r) /\ UNCHANGED running
     \/ /\ r.answer = "TURNED_AWAY" /\ resting' = resting \cup {r.file}
        /\ UNCHANGED <<has, begun, from, notMatched, running>>
     \/ r.answer = "FAILED" /\ Unanswered(r)
  /\ UNCHANGED <<memory, stored, faults>>

Fault == faults < MaxFaults /\ faults' = faults + 1

\* No answer in time: the run stops, and the request is lost or still on its way.
GivesUp ==
  /\ Fault /\ awaits # NoRequest
  /\ Unanswered(request[awaits])
  /\ awaits' = NoRequest
  /\ request' \in {request, [request EXCEPT ![awaits] = Free]}
  /\ UNCHANGED <<memory, stored>>

\* The app closed and opened again: what it knew of where the server stood is gone.
Reopens ==
  /\ Fault
  /\ from' = [f \in File |-> IF f \in begun THEN Unknown ELSE 0]
  /\ resting' = {} /\ notMatched' = [f \in File |-> 0]
  /\ running' = FALSE /\ awaits' = NoRequest
  /\ UNCHANGED <<has, begun, request, memory, stored>>

(***************************************************************************)
(* The server                                                              *)
(***************************************************************************)
To(s, r) == request' = [request EXCEPT ![s] = r]
Answer(s, a, at) == To(s, [request[s] EXCEPT !.stage = "answered", !.answer = a, !.stands = at])

\* What nobody waits for goes nowhere.
Unheard(s) ==
  /\ request[s].stage = "answered" /\ awaits # s
  /\ To(s, Free)
  /\ UNCHANGED <<phone, awaits, memory, stored, faults>>

\* Where a file stands: whether it is kept is read before what is held of it.
Looks(s) ==
  LET r == request[s] IN
  /\ r.stage = "sent" /\ r.asks
  /\ IF r.file \in uploaded THEN Answer(s, "KEPT", 0) ELSE To(s, [r EXCEPT !.stage = "looked"])
  /\ UNCHANGED <<phone, awaits, memory, stored, faults>>

Tells(s) ==
  LET r == request[s] IN
  /\ r.stage = "looked"
  /\ Answer(s, "RECEIVING", received[r.file])
  /\ UNCHANGED <<phone, awaits, memory, stored, faults>>

\* A first part is told by its first bytes.
TurnsAway(s) ==
  LET r == request[s] IN
  /\ r.stage = "sent" /\ ~r.asks /\ r.offset = 0 /\ r.file \in NotImage
  /\ Answer(s, "TURNED_AWAY", 0)
  /\ UNCHANGED <<phone, awaits, memory, stored, faults>>

\* One piece of work at a time for one file.
OneAtATime(s) ==
  \A o \in Slot \ {s} : request[o].stage \in {"whole", "kept"} => request[o].file # request[s].file

MayTake(s) ==
  LET r == request[s] IN
  /\ r.stage = "sent" /\ ~r.asks /\ ~(r.offset = 0 /\ r.file \in NotImage)
  /\ OneAtATime(s)

HeldBut(f) == RemoveFirst(held, f)

\* (A mutant: its bytes counted as gone, its place among those held kept.)
CountedGone(f) == received' = [received EXCEPT ![f] = 0] /\ UNCHANGED held
LetGo(f) ==
  /\ held' = HeldBut(f)
  /\ received' = [received EXCEPT ![f] = 0]

AlreadyKept(s) ==
  /\ MayTake(s) /\ request[s].file \in uploaded
  /\ LetGo(request[s].file)
  /\ Answer(s, "KEPT", 0)
  /\ UNCHANGED <<phone, awaits, stored, faults>>

\* What was held of the file as a part comes: one from the first byte starts it again.
HeldBefore(r) == IF r.offset = 0 THEN 0 ELSE received[r.file]

Bytes(files, rec) == MapThenSumSet(LAMBDA f : rec[f], files)

\* The longest waiting let go until what is held fits: the files kept, in their order.
\* (A mutant: none let go.)
AllHeld(order, rec) == order
WithinBound(order, rec) ==
  LET fits == {n \in 0 .. Len(order) - 1 :
                 Bytes(ToSet(SubSeq(order, n + 1, Len(order))), rec) <= Room}
  IN  SubSeq(order, 1 + Min(fits), Len(order))

\* A part goes on where the last ended; any other changes nothing, and is told where it stands.
Takes(s) ==
  LET r == request[s]
      now == HeldBefore(r) + r.size
  IN
  /\ MayTake(s) /\ r.file \notin uploaded
  /\ IF r.offset # HeldBefore(r)
       THEN Answer(s, "RECEIVING", received[r.file]) /\ UNCHANGED memory
     ELSE IF now = Length[r.file]
       THEN LetGo(r.file) /\ To(s, [r EXCEPT !.stage = "whole"])
     ELSE LET rec == [received EXCEPT ![r.file] = now]
          IN  /\ held' = WithinBound(Append(HeldBut(r.file), r.file), rec)
              /\ received' = [f \in File |-> IF f \in ToSet(held') THEN rec[f] ELSE 0]
              /\ Answer(s, "RECEIVING", now)
  /\ UNCHANGED <<phone, awaits, stored, faults>>

\* Whole, and another than was fingerprinted: set aside with a row of its own, then said so.
SetsAside(s) ==
  LET r == request[s] IN
  /\ r.stage = "whole" /\ r.file \in Swapped
  /\ setAside' = setAside \cup {r.file}
  /\ Answer(s, "NOT_MATCHED", 0)
  /\ UNCHANGED <<phone, awaits, memory, placed, uploaded, faults>>

\* (A mutant: whatever arrives whole is kept as the photograph's.)
IsFingerprinted(f) == TRUE
Fingerprinted(f) == f \in Matches

\* Whole, and the one fingerprinted: put at its place unless something is there, and what is
\* there read back.
Keeps(s) ==
  LET r == request[s] IN
  /\ r.stage = "whole" /\ Fingerprinted(r.file)
  /\ placed' = [placed EXCEPT ![r.file] =
       IF @ # "nothing" THEN @ ELSE IF r.file \in Matches THEN "itsFile" ELSE "another"]
  /\ To(s, [r EXCEPT !.stage = "kept"])
  /\ UNCHANGED <<phone, awaits, memory, setAside, uploaded, faults>>

\* Its upload time, written once.
WritesTime(s) ==
  LET r == request[s] IN
  /\ r.stage = "kept"
  /\ uploaded' = uploaded \cup {r.file}
  /\ Answer(s, "KEPT", 0)
  /\ UNCHANGED <<phone, awaits, memory, placed, setAside, faults>>

\* The store or the database fails: what was whole is let go already.
Fails(s) ==
  /\ Fault /\ request[s].stage \in {"whole", "kept"}
  /\ Answer(s, "FAILED", 0)
  /\ UNCHANGED <<phone, awaits, memory, stored>>

\* The process stops: everything it held in part, and every answer it owed.
ProcessStops ==
  /\ Fault
  /\ held' = << >> /\ received' = [f \in File |-> 0]
  /\ request' = [s \in Slot |->
       IF request[s].stage \in {"free", "answered"} THEN request[s]
       ELSE [request[s] EXCEPT !.stage = "answered", !.answer = "FAILED"]]
  /\ UNCHANGED <<phone, awaits, stored>>

Serves(s) ==
  \/ Unheard(s) \/ Looks(s) \/ Tells(s) \/ TurnsAway(s) \/ AlreadyKept(s) \/ Takes(s)
  \/ SetsAside(s) \/ Keeps(s) \/ WritesTime(s)

Sends == RunStarts \/ Asks \/ SendsPart \/ RunEnds \/ Answered

PhotoNext == Sends \/ GivesUp \/ Reopens \/ (\E s \in Slot : Serves(s) \/ Fails(s)) \/ ProcessStops

\* Runs begin again and again and a run goes on, the server serves what reaches it, and the
\* faults come to an end.
FairPhotos ==
  /\ PhotoInit /\ [][PhotoNext]_vars
  /\ WF_vars(Sends)
  /\ \A s \in Slot : WF_vars(Serves(s))

(***************************************************************************)
(* Properties                                                              *)
(***************************************************************************)

\* The phone lets a file's bytes go only once the one it fingerprinted is at its place and its
\* upload is written, however late or often a part of it arrived (outbox.ts: "Kept: the file goes
\* from the phone").
DroppedIsKept == \A f \in File \ has : placed[f] = "itsFile" /\ f \in uploaded

\* What is held in memory of files in part stays within its bound, late parts included
\* (receiving.ts: "until what is held is within the bound").
HeldWithinRoom == Bytes(File, received) <= Room

\* Every file that is as it was fingerprinted is kept in the end and leaves the phone, and one
\* that isn't comes to be set aside for a person: one that never matches, or is turned away, holds
\* up none behind it.
AllKept ==
  \A f \in File \ NotImage :
    IF f \in Swapped THEN <>(f \in setAside) ELSE <>[](f \in uploaded /\ f \notin has)
=============================================================================
