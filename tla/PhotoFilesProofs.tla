-------------------------- MODULE PhotoFilesProofs --------------------------
(***************************************************************************)
(* A phone lets a photograph's file go only once the server has it, and    *)
(* what the server holds in part keeps within its room: for any number of  *)
(* files, requests under way and faults, and any sizes.                    *)
(***************************************************************************)
EXTENDS PhotoFiles, Folding

\* What is where, but for the order files are held in.
Typed ==
  /\ has \subseteq File /\ uploaded \subseteq File
  /\ from \in [File -> Nat \cup {Unknown}]
  /\ \A f \in File : from[f] # Unknown => from[f] <= Length[f]
  /\ received \in [File -> Nat] /\ \A f \in File : received[f] <= Length[f]
  /\ awaits \in Slot \cup {NoRequest}
  /\ request \in [Slot -> Request]
  /\ \A s \in Slot : request[s].stands <= Length[request[s].file]
                     /\ request[s].offset + request[s].size <= Length[request[s].file]
  /\ placed \in [File -> {"nothing", "itsFile", "another"}]

\* The chain from the phone's dropping a file back to the store's having it: dropped on an
\* answer, answered by the upload time, written when its file is at its place.
Chain ==
  /\ File \ has \subseteq uploaded
  /\ \A s \in Slot : request[s].answer = "KEPT" => request[s].file \in uploaded
  /\ \A f \in uploaded : placed[f] = "itsFile"
  /\ \A s \in Slot : request[s].stage = "kept" => placed[request[s].file] = "itsFile"
  /\ \A f \in File : placed[f] # "another"

PhotoInv == Typed /\ Chain

\* A request's fields, a request moved on, and one sent.
LEMMA Fields ==
  ASSUME NEW r \in Request
  PROVE  /\ r.file \in File /\ r.stage \in Stage /\ r.answer \in Answers
         /\ r.offset \in Offset /\ r.size \in Offset /\ r.stands \in Offset
         /\ r.offset \in Nat /\ r.size \in Nat /\ r.stands \in Nat
  BY PhotoFilesAssumption DEF Request, Offset

Told(r, a, at) == [r EXCEPT !.stage = "answered", !.answer = a, !.stands = at]
Come(r, stage) == [r EXCEPT !.stage = stage]
Part(f, at, n) == [Free EXCEPT !.stage = "sent", !.file = f, !.offset = at, !.size = n]
Question(f) == [Free EXCEPT !.stage = "sent", !.asks = TRUE, !.file = f]

LEMMA ToldFields ==
  ASSUME NEW r \in Request, NEW a \in Answers, NEW at \in Offset
  PROVE  /\ Told(r, a, at) \in Request /\ Told(r, a, at).file = r.file
         /\ Told(r, a, at).stage = "answered" /\ Told(r, a, at).answer = a
         /\ Told(r, a, at).stands = at /\ Told(r, a, at).offset = r.offset
         /\ Told(r, a, at).size = r.size
  BY DEF Told, Request, Stage

LEMMA ComeFields ==
  ASSUME NEW r \in Request, NEW stage \in Stage
  PROVE  /\ Come(r, stage) \in Request /\ Come(r, stage).file = r.file
         /\ Come(r, stage).stage = stage /\ Come(r, stage).answer = r.answer
         /\ Come(r, stage).stands = r.stands /\ Come(r, stage).offset = r.offset
         /\ Come(r, stage).size = r.size
  BY DEF Come, Request

LEMMA FreeFields ==
  /\ Free \in Request /\ Free.stage = "free" /\ Free.answer = "none" /\ Free.file \in File
  /\ Free.offset = 0 /\ Free.size = 0 /\ Free.stands = 0
  BY PhotoFilesAssumption DEF Free, Request, Stage, Answers, Offset

LEMMA FreeFits ==
  Free.stands <= Length[Free.file] /\ Free.offset + Free.size <= Length[Free.file]
<1>1. Length[Free.file] \in Nat
  BY FreeFields, PhotoFilesAssumption
<1> QED
  BY <1>1, FreeFields

LEMMA PartFields ==
  ASSUME NEW f \in File, NEW at \in Offset, NEW n \in Offset
  PROVE  /\ Part(f, at, n) \in Request /\ Part(f, at, n).file = f
         /\ Part(f, at, n).stage = "sent" /\ Part(f, at, n).answer = "none"
         /\ Part(f, at, n).stands = 0 /\ Part(f, at, n).offset = at /\ Part(f, at, n).size = n
  BY FreeFields DEF Part, Request, Stage

LEMMA QuestionFields ==
  ASSUME NEW f \in File
  PROVE  /\ Question(f) \in Request /\ Question(f).file = f
         /\ Question(f).stage = "sent" /\ Question(f).answer = "none"
         /\ Question(f).stands = 0 /\ Question(f).offset = 0 /\ Question(f).size = 0
  BY FreeFields DEF Question, Request, Stage

\* Nothing is at its place, and nothing is gone from the phone.
LEMMA PhotoInitHolds == PhotoInit => PhotoInv
<1> SUFFICES ASSUME PhotoInit PROVE PhotoInv
  OBVIOUS
<1> USE PhotoFilesAssumption
<1>1. \A s \in Slot : request[s] = Free
  BY DEF PhotoInit
<1>2. Typed
  BY <1>1, FreeFields DEF PhotoInit, Typed
<1>3. Chain
  BY <1>1, FreeFields DEF PhotoInit, Chain
<1> QED
  BY <1>2, <1>3 DEF PhotoInv

\* A request moved on as it may be keeps the requests' types, and the chain of what they say.
LEMMA Requests ==
  ASSUME PhotoInv, NEW s \in Slot, NEW r \in Request,
         request' = [request EXCEPT ![s] = r],
         r.stands <= Length[r.file], r.offset + r.size <= Length[r.file],
         r.answer = "KEPT" => r.file \in uploaded',
         r.stage = "kept" => placed'[r.file] = "itsFile",
         has' = has, from' = from, awaits' \in Slot \cup {NoRequest},
         received' \in [File -> Nat], \A f \in File : received'[f] <= Length[f],
         uploaded \subseteq uploaded', uploaded' \subseteq File,
         \A f \in uploaded' : placed'[f] = "itsFile",
         placed' \in [File -> {"nothing", "itsFile"}],
         \A f \in File : placed[f] = "itsFile" => placed'[f] = "itsFile"
  PROVE  PhotoInv'
<1>1. /\ request' \in [Slot -> Request]
      /\ \A o \in Slot : request'[o] = IF o = s THEN r ELSE request[o]
  BY DEF PhotoInv, Typed
<1>2. r.file \in File /\ \A o \in Slot : request[o].file \in File
  BY Fields DEF PhotoInv, Typed
<1>3. Typed'
  BY <1>1, <1>2, Fields, PhotoFilesAssumption DEF PhotoInv, Typed
<1>4. Chain'
  BY <1>1, <1>2 DEF PhotoInv, Typed, Chain
<1> QED
  BY <1>3, <1>4 DEF PhotoInv

\* ... and where nothing is put, written or dropped, it is enough that a file is said to be kept
\* that is.
LEMMA RequestMoves ==
  ASSUME PhotoInv, NEW s \in Slot, NEW r \in Request,
         request' = [request EXCEPT ![s] = r],
         r.stands <= Length[r.file], r.offset + r.size <= Length[r.file],
         r.answer = "KEPT" => r.file \in uploaded, r.stage # "kept",
         has' = has, from' = from, uploaded' = uploaded, placed' = placed,
         awaits' \in Slot \cup {NoRequest},
         received' \in [File -> Nat], \A f \in File : received'[f] <= Length[f]
  PROVE  PhotoInv'
<1>1. /\ uploaded \subseteq File /\ \A f \in uploaded : placed[f] = "itsFile"
      /\ placed \in [File -> {"nothing", "itsFile"}]
  BY DEF PhotoInv, Typed, Chain
<1> QED
  BY <1>1, Requests

\* What the invariant says of one request, and of what is held.
LEMMA OfARequest ==
  ASSUME PhotoInv, NEW s \in Slot
  PROVE  /\ request[s] \in Request
         /\ request[s].file \in File /\ request[s].offset \in Nat /\ request[s].size \in Nat
         /\ request[s].stands \in Nat
         /\ Length[request[s].file] \in Nat /\ 0 <= Length[request[s].file]
         /\ request[s].stands <= Length[request[s].file]
         /\ request[s].offset + request[s].size <= Length[request[s].file]
         /\ request[s].answer = "KEPT" => request[s].file \in uploaded
         /\ request[s].stage = "kept" => placed[request[s].file] = "itsFile"
<1>1. request[s] \in Request
  BY DEF PhotoInv, Typed
<1>2. /\ request[s].stands <= Length[request[s].file]
      /\ request[s].offset + request[s].size <= Length[request[s].file]
  BY DEF PhotoInv, Typed
<1>3. /\ request[s].answer = "KEPT" => request[s].file \in uploaded
      /\ request[s].stage = "kept" => placed[request[s].file] = "itsFile"
  BY DEF PhotoInv, Chain
<1>4. request[s].file \in File /\ request[s].offset \in Nat /\ request[s].size \in Nat
      /\ request[s].stands \in Nat
  BY <1>1, Fields
<1>5. Length[request[s].file] \in Nat
  BY <1>4, PhotoFilesAssumption
<1>6. 0 <= Length[request[s].file]
  BY <1>5
<1> QED
  BY <1>1, <1>2, <1>3, <1>4, <1>5, <1>6

LEMMA OfWhatIsHeld ==
  ASSUME PhotoInv
  PROVE  /\ received \in [File -> Nat] /\ awaits \in Slot \cup {NoRequest}
         /\ \A f \in File : /\ received[f] <= Length[f] /\ received[f] \in Offset
                            /\ Length[f] \in Nat /\ Length[f] <= Room
         /\ 0 \in Offset
<1>1. /\ received \in [File -> Nat] /\ awaits \in Slot \cup {NoRequest}
      /\ \A f \in File : received[f] <= Length[f]
  BY DEF PhotoInv, Typed
<1>2. Room \in Nat /\ \A f \in File : Length[f] \in Nat /\ Length[f] <= Room
  BY PhotoFilesAssumption
<1> QED
  BY <1>1, <1>2 DEF Offset

\* An answer given, or a request come further, moves the invariant on.
LEMMA AnswerMoves ==
  ASSUME PhotoInv, NEW s \in Slot, NEW a \in Answers, NEW at \in Offset,
         Answer(s, a, at), at <= Length[request[s].file],
         a = "KEPT" => request[s].file \in uploaded,
         UNCHANGED <<has, from, awaits, uploaded, placed>>,
         received' \in [File -> Nat], \A f \in File : received'[f] <= Length[f]
  PROVE  PhotoInv'
<1>1. request' = [request EXCEPT ![s] = Told(request[s], a, at)]
  BY DEF Answer, To, Told
<1>2. Told(request[s], a, at) \in Request /\ Told(request[s], a, at).file = request[s].file
      /\ Told(request[s], a, at).stage # "kept" /\ Told(request[s], a, at).answer = a
      /\ Told(request[s], a, at).stands = at
      /\ Told(request[s], a, at).offset + Told(request[s], a, at).size <= Length[request[s].file]
  <2>1. request[s] \in Request /\ request[s].offset + request[s].size <= Length[request[s].file]
    BY OfARequest
  <2> QED
    BY <2>1, ToldFields
<1>3. awaits' \in Slot \cup {NoRequest}
  BY OfWhatIsHeld
<1> QED
  BY <1>1, <1>2, <1>3, RequestMoves

LEMMA ComesTo ==
  ASSUME PhotoInv, NEW s \in Slot, NEW stage \in Stage \ {"kept"},
         To(s, Come(request[s], stage)), UNCHANGED <<has, from, awaits, uploaded, placed>>,
         received' \in [File -> Nat], \A f \in File : received'[f] <= Length[f]
  PROVE  PhotoInv'
<1>1. request' = [request EXCEPT ![s] = Come(request[s], stage)]
  BY DEF To
<1>2. Come(request[s], stage) \in Request /\ Come(request[s], stage).file = request[s].file
      /\ Come(request[s], stage).stage # "kept"
      /\ (Come(request[s], stage).answer = "KEPT" => request[s].file \in uploaded)
      /\ Come(request[s], stage).stands <= Length[request[s].file]
      /\ Come(request[s], stage).offset + Come(request[s], stage).size
           <= Length[request[s].file]
  <2>1. request[s] \in Request /\ request[s].offset + request[s].size <= Length[request[s].file]
        /\ request[s].stands <= Length[request[s].file]
        /\ (request[s].answer = "KEPT" => request[s].file \in uploaded)
    BY OfARequest
  <2> QED
    BY <2>1, ComeFields
<1>3. awaits' \in Slot \cup {NoRequest}
  BY OfWhatIsHeld
<1> QED
  BY <1>1, <1>2, <1>3, RequestMoves

\* What a part may leave the server holding of a file, and what it is told then.
LEMMA TakesHolds ==
  ASSUME PhotoInv, NEW s \in Slot, Takes(s)
  PROVE  PhotoInv'
<1> DEFINE r == request[s]
           now == HeldBefore(r) + r.size
<1>1. has' = has /\ from' = from /\ awaits' = awaits /\ uploaded' = uploaded /\ placed' = placed
  BY DEF Takes, phone, stored
<1>2. r.answer # "KEPT"
  BY OfARequest DEF Takes
<1>3. HeldBefore(r) \in Nat
  BY OfARequest, OfWhatIsHeld DEF HeldBefore
<1>4. CASE r.offset # HeldBefore(r)
  <2>1. Answer(s, "RECEIVING", received[r.file]) /\ received' = received
    BY <1>4 DEF Takes, memory
  <2>2. received[r.file] \in Offset /\ received[r.file] <= Length[r.file] /\ "RECEIVING" \in Answers
    BY OfARequest, OfWhatIsHeld DEF Answers
  <2> QED
    BY <1>1, <2>1, <2>2, OfWhatIsHeld, AnswerMoves
<1>5. CASE r.offset = HeldBefore(r) /\ now = Length[r.file]
  <2>1. LetGo(r.file) /\ To(s, Come(r, "whole"))
    BY <1>5 DEF Takes, Come
  <2>2. received' \in [File -> Nat] /\ \A f \in File : received'[f] <= Length[f]
    <3>1. r.file \in File /\ 0 <= Length[r.file]
      BY OfARequest
    <3>2. received' = [received EXCEPT ![r.file] = 0]
      BY <2>1 DEF LetGo
    <3> QED
      BY <3>1, <3>2, OfWhatIsHeld
  <2>3. "whole" \in Stage \ {"kept"}
    BY DEF Stage
  <2> QED
    BY <1>1, <2>1, <2>2, <2>3, ComesTo
<1>6. CASE r.offset = HeldBefore(r) /\ now # Length[r.file]
  <2>1. r.size \in Nat /\ r.offset \in Nat /\ r.offset + r.size <= Length[r.file]
        /\ Length[r.file] \in Nat /\ Length[r.file] <= Room /\ Room \in Nat
    BY OfARequest, OfWhatIsHeld, PhotoFilesAssumption
  <2>a. now = r.offset + r.size
    BY <1>6
  <2>b. now \in Nat /\ now <= Length[r.file] /\ now \in Offset /\ "RECEIVING" \in Answers
    BY <2>1, <2>a DEF Answers, Offset
  <2> DEFINE rec == [received EXCEPT ![r.file] = now]
             order == WithinBound(Append(HeldBut(r.file), r.file), rec)
  <2>2. /\ received' = [f \in File |-> IF f \in ToSet(order) THEN rec[f] ELSE 0]
        /\ Answer(s, "RECEIVING", now)
    BY <1>6 DEF Takes
  <2>3. rec \in [File -> Nat] /\ \A f \in File : rec[f] <= Length[f]
    BY <2>b, OfARequest, OfWhatIsHeld
  <2> HIDE DEF rec, order
  <2>4. received' \in [File -> Nat] /\ \A f \in File : received'[f] <= Length[f]
    BY <2>2, <2>3, OfWhatIsHeld
  <2> QED
    BY <1>1, <2>b, <2>2, <2>4, AnswerMoves
<1> QED
  BY <1>4, <1>5, <1>6

\* An answer taken in: a file leaves the phone on "kept" alone.
LEMMA AnsweredHolds ==
  ASSUME PhotoInv, Answered
  PROVE  PhotoInv'
<1> DEFINE r == request[awaits]
<1>1. awaits \in Slot
  BY OfWhatIsHeld DEF Answered
<1>2. /\ r.file \in File /\ r.stands \in Nat /\ r.stands <= Length[r.file]
      /\ 0 <= Length[r.file]
      /\ r.answer = "KEPT" => r.file \in uploaded
  BY <1>1, OfARequest
<1>3. /\ request' \in [Slot -> Request]
      /\ \A o \in Slot : request'[o] = IF o = awaits THEN Free ELSE request[o]
  BY <1>1, FreeFields DEF Answered, PhotoInv, Typed
<1>4. received' = received /\ uploaded' = uploaded /\ placed' = placed /\ awaits' = NoRequest
  BY DEF Answered, memory, stored
<1>5. from \in [File -> Nat \cup {Unknown}]
      /\ \A f \in File : from[f] # Unknown => from[f] <= Length[f]
  BY DEF PhotoInv, Typed
<1>6. \/ r.answer = "KEPT" /\ has' = has \ {r.file} /\ from' = from
      \/ \E at \in Nat : at <= Length[r.file] /\ from' = [from EXCEPT ![r.file] = at] /\ has' = has
      \/ from' = from /\ has' = has
  <2>1. CASE r.answer = "KEPT" /\ Dropped(r.file)
    BY <2>1 DEF Dropped
  <2>2. ASSUME NEW at \in Nat, at <= Length[r.file], GoesOn(r, at)
        PROVE  from' = [from EXCEPT ![r.file] = at] /\ has' = has
    BY <2>2 DEF GoesOn
  <2>3. CASE SentOver(r)
    <3>1. GoesOn(r, 0) /\ 0 <= Length[r.file]
      BY <1>2, <2>3 DEF SentOver
    <3> QED
      BY <2>2, <3>1
  <2>4. CASE has' = has /\ from' = from
    BY <2>4
  <2>5. CASE Unanswered(r)
    BY <1>2, <1>5, <2>5 DEF Unanswered, GoesOn
  <2>6. GoesOn(r, r.stands) =>
          \E at \in Nat : at <= Length[r.file] /\ from' = [from EXCEPT ![r.file] = at] /\ has' = has
    BY <1>2, <2>2
  <2> QED
    BY <2>1, <2>3, <2>4, <2>5, <2>6 DEF Answered
<1>7. from' \in [File -> Nat \cup {Unknown}]
      /\ \A f \in File : from'[f] # Unknown => from'[f] <= Length[f]
  BY <1>2, <1>5, <1>6
<1>8. Typed'
  <2>1. has' \subseteq File
    BY <1>6 DEF PhotoInv, Typed
  <2>2. \A o \in Slot : request'[o].stands <= Length[request'[o].file]
                       /\ request'[o].offset + request'[o].size <= Length[request'[o].file]
    BY <1>3, FreeFits, OfARequest
  <2> QED
    BY <1>3, <1>4, <1>7, <2>1, <2>2 DEF PhotoInv, Typed
<1>9. Chain'
  <2>1. File \ has' \subseteq uploaded
    BY <1>2, <1>6 DEF PhotoInv, Chain
  <2> QED
    BY <1>3, <1>4, <2>1, FreeFields DEF PhotoInv, Chain
<1> QED
  BY <1>8, <1>9 DEF PhotoInv

\* A question or a part sent takes a free slot.
LEMMA GoesHolds ==
  ASSUME PhotoInv, Asks \/ SendsPart
  PROVE  PhotoInv'
<1>1. CASE Asks
  <2>1. PICK f \in GoingNext(TRUE) : Goes([Free EXCEPT !.stage = "sent", !.asks = TRUE, !.file = f])
    BY <1>1 DEF Asks
  <2>2. f \in File
    BY DEF GoingNext, PhotoInv, Typed
  <2>3. PICK s \in Slot :
          /\ request' = [request EXCEPT ![s] = Question(f)] /\ awaits' = s
          /\ UNCHANGED <<has, from, received, uploaded, placed>>
    BY <2>1 DEF Goes, Question, phone, memory, stored
  <2>4. Question(f) \in Request /\ Question(f).file = f /\ Question(f).stands <= Length[f]
        /\ Question(f).offset + Question(f).size <= Length[f]
        /\ Question(f).answer # "KEPT" /\ Question(f).stage # "kept"
    BY <2>2, QuestionFields, OfWhatIsHeld
  <2> QED
    BY <2>3, <2>4, OfWhatIsHeld, RequestMoves
<1>2. CASE SendsPart
  <2>1. PICK f \in GoingNext(FALSE), n \in 1 .. PartMost :
          /\ n <= Length[f] - from[f]
          /\ Goes([Free EXCEPT !.stage = "sent", !.file = f, !.offset = from[f], !.size = n])
    BY <1>2 DEF SendsPart
  <2>2. f \in File /\ from[f] \in Nat
    BY DEF GoingNext, PhotoInv, Typed
  <2>3. n \in Nat /\ from[f] \in Offset /\ n \in Offset /\ from[f] + n <= Length[f]
    BY <2>1, <2>2, OfWhatIsHeld, PhotoFilesAssumption DEF Offset
  <2>4. PICK s \in Slot :
          /\ request' = [request EXCEPT ![s] = Part(f, from[f], n)] /\ awaits' = s
          /\ UNCHANGED <<has, from, received, uploaded, placed>>
    BY <2>1 DEF Goes, Part, phone, memory, stored
  <2>5. Part(f, from[f], n) \in Request /\ Part(f, from[f], n).file = f
        /\ Part(f, from[f], n).stands <= Length[f]
        /\ Part(f, from[f], n).offset + Part(f, from[f], n).size <= Length[f]
        /\ Part(f, from[f], n).answer # "KEPT" /\ Part(f, from[f], n).stage # "kept"
    BY <2>2, <2>3, PartFields, OfWhatIsHeld
  <2> QED
    BY <2>4, <2>5, OfWhatIsHeld, RequestMoves
<1> QED
  BY <1>1, <1>2

\* Every step of the phone and the server keeps the invariant.
LEMMA PhotoStepHolds ==
  ASSUME PhotoInv, [PhotoNext]_vars
  PROVE  PhotoInv'
<1>1. CASE RunStarts \/ RunEnds
  BY <1>1 DEF RunStarts, RunEnds, PhotoInv, Typed, Chain, memory, stored
<1>2. CASE Asks \/ SendsPart
  BY <1>2, GoesHolds
<1>3. CASE Answered
  BY <1>3, AnsweredHolds
<1>4. CASE GivesUp
  <2>1. awaits \in Slot
    BY <1>4, OfWhatIsHeld DEF GivesUp
  <2>2. request[awaits].file \in File /\ from \in [File -> Nat \cup {Unknown}]
    BY <2>1, OfARequest DEF PhotoInv, Typed
  <2>3. UNCHANGED <<has, received, uploaded, placed>> /\ awaits' = NoRequest /\ from' = from
    BY <1>4, <2>2 DEF GivesUp, Unanswered, GoesOn, memory, stored
  <2>4. /\ request' \in [Slot -> Request]
        /\ \A o \in Slot : request'[o] = request[o] \/ request'[o] = Free
    BY <1>4, <2>1, FreeFields DEF GivesUp, PhotoInv, Typed
  <2>5. Typed'
    <3>1. \A o \in Slot : request'[o].stands <= Length[request'[o].file]
                         /\ request'[o].offset + request'[o].size <= Length[request'[o].file]
      BY <2>4, FreeFits, OfARequest
    <3> QED
      BY <2>3, <2>4, <3>1 DEF PhotoInv, Typed
  <2>6. Chain'
    BY <2>3, <2>4, FreeFields DEF PhotoInv, Chain
  <2> QED
    BY <2>5, <2>6 DEF PhotoInv
<1>5. CASE Reopens
  <2>1. UNCHANGED <<has, request, received, uploaded, placed>> /\ awaits' = NoRequest
    BY <1>5 DEF Reopens, memory, stored
  <2>2. from' \in [File -> Nat \cup {Unknown}]
        /\ \A f \in File : from'[f] # Unknown => from'[f] <= Length[f]
    BY <1>5, PhotoFilesAssumption DEF Reopens
  <2>3. Typed'
    BY <2>1, <2>2 DEF PhotoInv, Typed
  <2>4. Chain'
    BY <2>1 DEF PhotoInv, Chain
  <2> QED
    BY <2>3, <2>4 DEF PhotoInv
<1>6. ASSUME NEW s \in Slot, Unheard(s) PROVE PhotoInv'
  <2>1. request' = [request EXCEPT ![s] = Free]
        /\ UNCHANGED <<has, from, awaits, received, uploaded, placed>>
    BY <1>6 DEF Unheard, To, phone, memory, stored
  <2> QED
    BY <2>1, FreeFits, FreeFields, OfWhatIsHeld, RequestMoves
<1>7. ASSUME NEW s \in Slot, Looks(s) PROVE PhotoInv'
  <2>1. CASE request[s].file \in uploaded
    <3>1. Answer(s, "KEPT", 0) /\ UNCHANGED <<has, from, awaits, received, uploaded, placed>>
      BY <1>7, <2>1 DEF Looks, phone, memory, stored
    <3>2. "KEPT" \in Answers /\ 0 <= Length[request[s].file]
      BY OfARequest DEF Answers
    <3> QED
      BY <2>1, <3>1, <3>2, OfWhatIsHeld, AnswerMoves
  <2>2. CASE request[s].file \notin uploaded
    <3>1. To(s, Come(request[s], "looked"))
          /\ UNCHANGED <<has, from, awaits, received, uploaded, placed>>
      BY <1>7, <2>2 DEF Looks, Come, phone, memory, stored
    <3>2. "looked" \in Stage \ {"kept"}
      BY DEF Stage
    <3> QED
      BY <3>1, <3>2, OfWhatIsHeld, ComesTo
  <2> QED
    BY <2>1, <2>2
<1>8. ASSUME NEW s \in Slot, Tells(s) PROVE PhotoInv'
  <2>1. Answer(s, "RECEIVING", received[request[s].file])
        /\ UNCHANGED <<has, from, awaits, received, uploaded, placed>>
    BY <1>8 DEF Tells, phone, memory, stored
  <2>2. "RECEIVING" \in Answers /\ received[request[s].file] \in Offset /\ received[request[s].file] <= Length[request[s].file]
    BY OfARequest, OfWhatIsHeld DEF Answers
  <2> QED
    BY <2>1, <2>2, OfWhatIsHeld, AnswerMoves
<1>9. ASSUME NEW s \in Slot, TurnsAway(s) PROVE PhotoInv'
  <2>1. Answer(s, "TURNED_AWAY", 0)
        /\ UNCHANGED <<has, from, awaits, received, uploaded, placed>>
    BY <1>9 DEF TurnsAway, phone, memory, stored
  <2>2. "TURNED_AWAY" \in Answers /\ 0 <= Length[request[s].file]
    BY OfARequest DEF Answers
  <2> QED
    BY <2>1, <2>2, OfWhatIsHeld, AnswerMoves
<1>10. ASSUME NEW s \in Slot, AlreadyKept(s) PROVE PhotoInv'
  <2>1. received' \in [File -> Nat] /\ \A f \in File : received'[f] <= Length[f]
    <3>1. request[s].file \in File /\ 0 <= Length[request[s].file]
      BY OfARequest
    <3>2. received' = [received EXCEPT ![request[s].file] = 0]
      BY <1>10 DEF AlreadyKept, LetGo
    <3> QED
      BY <3>1, <3>2, OfWhatIsHeld
  <2>2. Answer(s, "KEPT", 0) /\ request[s].file \in uploaded
        /\ UNCHANGED <<has, from, awaits, uploaded, placed>>
    BY <1>10 DEF AlreadyKept, phone, stored
  <2>3. "KEPT" \in Answers /\ 0 <= Length[request[s].file]
    BY OfARequest DEF Answers
  <2> QED
    BY <2>1, <2>2, <2>3, OfWhatIsHeld, AnswerMoves
<1>11. ASSUME NEW s \in Slot, Takes(s) PROVE PhotoInv'
  BY <1>11, TakesHolds
<1>12. ASSUME NEW s \in Slot, SetsAside(s) \/ Fails(s) PROVE PhotoInv'
  <2>1. \E a \in {"NOT_MATCHED", "FAILED"} : Answer(s, a, 0)
    BY <1>12 DEF SetsAside, Fails
  <2>2. UNCHANGED <<has, from, awaits, received, uploaded, placed>>
    BY <1>12 DEF SetsAside, Fails, phone, memory, stored
  <2>3. {"NOT_MATCHED", "FAILED"} \subseteq Answers /\ 0 <= Length[request[s].file]
    BY OfARequest DEF Answers
  <2> QED
    BY <2>1, <2>2, <2>3, OfWhatIsHeld, AnswerMoves
<1>13. ASSUME NEW s \in Slot, Keeps(s) PROVE PhotoInv'
  <2>1. request[s].file \in Matches
    BY <1>13 DEF Keeps, Fingerprinted
  <2>2. placed \in [File -> {"nothing", "itsFile"}] /\ uploaded \subseteq File
        /\ \A f \in uploaded : placed[f] = "itsFile"
    BY DEF PhotoInv, Typed, Chain
  <2>3. /\ placed' \in [File -> {"nothing", "itsFile"}] /\ placed'[request[s].file] = "itsFile"
        /\ \A f \in File : placed[f] = "itsFile" => placed'[f] = "itsFile"
    BY <1>13, <2>1, <2>2, OfARequest DEF Keeps
  <2>4. /\ request' = [request EXCEPT ![s] = Come(request[s], "kept")]
        /\ UNCHANGED <<has, from, awaits, received, uploaded>>
    BY <1>13 DEF Keeps, To, Come, phone, memory
  <2> DEFINE q == Come(request[s], "kept")
  <2>5. q \in Request /\ q.file = request[s].file /\ q.stands <= Length[q.file]
        /\ q.offset + q.size <= Length[q.file] /\ (q.answer = "KEPT" => q.file \in uploaded)
    <3>1. request[s] \in Request /\ request[s].offset + request[s].size <= Length[request[s].file]
          /\ request[s].stands <= Length[request[s].file] /\ "kept" \in Stage
          /\ (request[s].answer = "KEPT" => request[s].file \in uploaded)
      BY OfARequest DEF Stage
    <3> QED
      BY <3>1, ComeFields
  <2>6. \A f \in uploaded' : placed'[f] = "itsFile"
    BY <2>2, <2>3, <2>4
  <2> HIDE DEF q
  <2>7. request' = [request EXCEPT ![s] = q]
    BY <2>4 DEF q
  <2> QED
    BY <2>2, <2>3, <2>4, <2>5, <2>6, <2>7, OfWhatIsHeld, Requests
<1>14. ASSUME NEW s \in Slot, WritesTime(s) PROVE PhotoInv'
  <2>1. placed \in [File -> {"nothing", "itsFile"}] /\ uploaded \subseteq File
        /\ \A f \in uploaded : placed[f] = "itsFile"
    BY DEF PhotoInv, Typed, Chain
  <2>2. /\ Answer(s, "KEPT", 0) /\ uploaded' = uploaded \cup {request[s].file}
        /\ UNCHANGED <<has, from, awaits, received, placed>> /\ "KEPT" \in Answers
        /\ placed[request[s].file] = "itsFile"
    BY <1>14, OfARequest DEF WritesTime, Answers, phone, memory
  <2> DEFINE q == Told(request[s], "KEPT", 0)
  <2>3. request' = [request EXCEPT ![s] = q]
    BY <2>2 DEF Answer, To, Told
  <2>4. q \in Request /\ q.file = request[s].file /\ q.stands <= Length[q.file]
        /\ q.offset + q.size <= Length[q.file] /\ q.stage # "kept"
    <3>1. request[s] \in Request /\ 0 <= Length[request[s].file] /\ 0 \in Offset
          /\ request[s].offset + request[s].size <= Length[request[s].file]
      BY OfARequest, OfWhatIsHeld
    <3>2. "KEPT" \in Answers
      BY DEF Answers
    <3> QED
      BY <3>1, <3>2, ToldFields
  <2> HIDE DEF q
  <2> QED
    BY <2>1, <2>2, <2>3, <2>4, OfARequest, OfWhatIsHeld, Requests
<1>15. CASE ProcessStops
  <2> DEFINE moved(s) == [request[s] EXCEPT !.stage = "answered", !.answer = "FAILED"]
  <2>1. \A s \in Slot :
          /\ moved(s) \in Request /\ moved(s).file = request[s].file
          /\ moved(s).stage = "answered" /\ moved(s).answer = "FAILED"
          /\ moved(s).stands = request[s].stands /\ moved(s).offset = request[s].offset
          /\ moved(s).size = request[s].size
    BY OfARequest DEF Request, Stage, Answers
  <2>2. \A s \in Slot : request'[s] = request[s] \/ request'[s] = moved(s)
    BY <1>15 DEF ProcessStops
  <2>3. request' \in [Slot -> Request]
    <3>1. request' = [s \in Slot |-> IF request[s].stage \in {"free", "answered"} THEN request[s]
                                     ELSE moved(s)]
      BY <1>15 DEF ProcessStops
    <3> HIDE DEF moved
    <3> QED
      BY <2>1, <3>1, OfARequest
  <2>4. UNCHANGED <<has, from, awaits, uploaded, placed>> /\ received' = [f \in File |-> 0]
    BY <1>15 DEF ProcessStops, phone, stored
  <2> HIDE DEF moved
  <2>5. Typed'
    <3>1. \A s \in Slot : request'[s].stands <= Length[request'[s].file]
                         /\ request'[s].offset + request'[s].size <= Length[request'[s].file]
      BY <2>1, <2>2, OfARequest
    <3>2. received' \in [File -> Nat] /\ \A f \in File : received'[f] <= Length[f]
      BY <2>4, OfWhatIsHeld
    <3> QED
      BY <2>3, <2>4, <3>1, <3>2 DEF PhotoInv, Typed
  <2>6. Chain'
    BY <2>1, <2>2, <2>4 DEF PhotoInv, Chain
  <2> QED
    BY <2>5, <2>6 DEF PhotoInv
<1>16. CASE UNCHANGED vars
  BY <1>16 DEF vars, phone, memory, stored, PhotoInv, Typed, Chain
<1> QED
  BY <1>1, <1>2, <1>3, <1>4, <1>5, <1>6, <1>7, <1>8, <1>9, <1>10, <1>11, <1>12, <1>13, <1>14,
     <1>15, <1>16 DEF PhotoNext, Sends, Serves

\* Whatever is lost, comes late or stops, the phone drops no file but on its being kept.
THEOREM DroppedIsAlwaysKept == FairPhotos => []DroppedIsKept
<1>1. PhotoInv => DroppedIsKept
  BY DEF PhotoInv, Typed, Chain, DroppedIsKept
<1> QED
  BY <1>1, PhotoInitHolds, PhotoStepHolds, PTL DEF FairPhotos

-----------------------------------------------------------------------------
(* What is held in part.                                                   *)

\* The files held are those of which something is, each once, none of them whole, and
\* together they fit; a part carries something.
Parts ==
  /\ held \in Seq(File) /\ IsInjective(held)
  /\ ToSet(held) = {f \in File : received[f] > 0}
  /\ \A f \in File : received[f] < Length[f]
  /\ HeldWithinRoom
  /\ \A s \in Slot : request[s].stage = "sent" /\ ~request[s].asks => request[s].size > 0

\* What is held of files, as a sum.
LEMMA BytesAreSum == \A files, rec : Bytes(files, rec) = SumOf(rec, files)
  BY DEF Bytes, SumOf

\* Nothing of a file held takes nothing of the room.
LEMMA LetGoKeeps ==
  ASSUME PhotoInv, Parts, NEW f \in File, LetGo(f)
  PROVE  /\ held' \in Seq(File) /\ IsInjective(held')
         /\ ToSet(held') = {g \in File : received'[g] > 0}
         /\ \A g \in File : received'[g] < Length[g]
         /\ HeldWithinRoom'
<1>1. /\ held' = RemoveFirst(held, f) /\ received \in [File -> Nat]
      /\ received' = [received EXCEPT ![f] = 0]
  BY OfWhatIsHeld DEF LetGo, HeldBut
<1>2. \A g \in File : received'[g] = IF g = f THEN 0 ELSE received[g]
  BY <1>1
<1>3. /\ held' \in Seq(File) /\ IsInjective(held')
      /\ ToSet(held') = ToSet(held) \ {f}
  BY <1>1, RemoveFirstIs DEF Parts
<1>4. ToSet(held') = {g \in File : received'[g] > 0}
  BY <1>2, <1>3 DEF Parts
<1>5. \A g \in File : received'[g] < Length[g]
  BY <1>2, PhotoFilesAssumption DEF Parts
<1>6. HeldWithinRoom'
  <2>1. \A g \in File : received'[g] \in Nat /\ received[g] \in Nat /\ received'[g] <= received[g]
    BY <1>1, <1>2
  <2>2. SumOf(received', File) <= SumOf(received, File)
    BY <2>1, SumMonotone, PhotoFilesAssumption
  <2>3. SumOf(received', File) \in Nat /\ SumOf(received, File) \in Nat
    BY <2>1, SumSplits, PhotoFilesAssumption
  <2>4. SumOf(received, File) <= Room
    BY BytesAreSum DEF Parts, HeldWithinRoom
  <2>5. SumOf(received', File) <= Room
    BY <2>2, <2>3, <2>4, PhotoFilesAssumption
  <2> QED BY <2>5, BytesAreSum DEF HeldWithinRoom
<1> QED BY <1>3, <1>4, <1>5, <1>6

\* Of files held in some order, with one just come put last: those left fit, that one among
\* them, and no other file is.
LEMMA WithinBoundFits ==
  ASSUME NEW rec \in [File -> Nat], NEW order \in Seq(File), IsInjective(order),
         Len(order) \in Nat \ {0}, NEW f \in File, order[Len(order)] = f, rec[f] <= Room
  PROVE  /\ WithinBound(order, rec) \in Seq(File) /\ IsInjective(WithinBound(order, rec))
         /\ ToSet(WithinBound(order, rec)) \subseteq ToSet(order)
         /\ SumOf(rec, ToSet(WithinBound(order, rec))) <= Room
<1> DEFINE l == Len(order)
           left(n) == SubSeq(order, n + 1, l)
           fits == {n \in 0 .. l - 1 : SumOf(rec, ToSet(left(n))) <= Room}
           m == Min(fits)
<1>1. l - 1 \in fits
  <2>1. l - 1 \in 0 .. l - 1
    OBVIOUS
  <2>2. ToSet(left(l - 1)) = {f}
    BY <2>1, SuffixIs
  <2>3. SumOf(rec, {f}) = rec[f]
    <3>1. IsFiniteSet({f}) /\ \A x \in {f} : rec[x] \in Nat
      BY FS_Singleton
    <3>2. SumOf(rec, {}) = 0 /\ SumOf(rec, {f}) = rec[f] + SumOf(rec, {f} \ {f})
      BY <3>1, SumSplits
    <3>3. {f} \ {f} = {} /\ rec[f] \in Nat
      OBVIOUS
    <3>4. SumOf(rec, {f}) = rec[f] + 0
      BY <3>2, <3>3
    <3> HIDE DEF left, fits, m
    <3> QED BY <3>3, <3>4
  <2> QED BY <2>1, <2>2, <2>3
<1>2. fits \in SUBSET Nat
  OBVIOUS
<1>3. m \in fits
  <2> HIDE DEF fits
  <2>1. \E i \in fits : \A j \in fits : i <= j
    BY <1>1, <1>2, LeastIsOne
  <2> QED BY <2>1 DEF Min
<1>4. WithinBound(order, rec) = left(m)
  <2>1. fits = {n \in 0 .. Len(order) - 1 :
                  Bytes(ToSet(SubSeq(order, n + 1, Len(order))), rec) <= Room}
    BY BytesAreSum
  <2>2. WithinBound(order, rec) = SubSeq(order, 1 + m, l)
    <3> HIDE DEF fits
    <3> QED BY <2>1 DEF WithinBound
  <2>3. 1 + m = m + 1
    BY <1>3
  <2> HIDE DEF m
  <2> QED BY <2>2, <2>3
<1>5. m \in 0 .. Len(order) - 1 /\ SumOf(rec, ToSet(left(m))) <= Room
  BY <1>3
<1> HIDE DEF m
<1> QED BY <1>4, <1>5, SuffixIs

\* A part taken: what is held is as the room allows, whatever is let go for it.
LEMMA TakesParts ==
  ASSUME PhotoInv, Parts, NEW s \in Slot, Takes(s)
  PROVE  /\ held' \in Seq(File) /\ IsInjective(held')
         /\ ToSet(held') = {f \in File : received'[f] > 0}
         /\ \A f \in File : received'[f] < Length[f]
         /\ HeldWithinRoom'
<1> DEFINE r == request[s]
           now == HeldBefore(r) + r.size
<1>1. CASE r.offset # HeldBefore(r)
  <2>1. held' = held /\ received' = received
    BY <1>1 DEF Takes, memory
  <2> QED BY <2>1 DEF Parts, HeldWithinRoom
<1>2. CASE r.offset = HeldBefore(r) /\ now = Length[r.file]
  BY <1>2, LetGoKeeps, OfARequest DEF Takes
<1>3. CASE r.offset = HeldBefore(r) /\ now # Length[r.file]
  <2> DEFINE f == r.file
             rec == [received EXCEPT ![f] = now]
             before == Append(HeldBut(f), f)
             order == WithinBound(before, rec)
  <2>1. /\ held' = order
        /\ received' = [g \in File |-> IF g \in ToSet(order) THEN rec[g] ELSE 0]
    BY <1>3 DEF Takes
  <2>2. f \in File /\ r.offset \in Nat /\ r.size \in Nat /\ r.size > 0
        /\ r.offset + r.size <= Length[f] /\ Length[f] \in Nat /\ Length[f] <= Room /\ Room \in Nat
    BY OfARequest, OfWhatIsHeld, PhotoFilesAssumption DEF Takes, MayTake, Parts
  <2>3. now = r.offset + r.size
    BY <1>3
  <2>4. now \in Nat /\ 0 < now /\ now < Length[f] /\ now <= Room
    BY <1>3, <2>2, <2>3
  <2> HIDE DEF now
  <2>5. /\ rec \in [File -> Nat]
        /\ \A g \in File : rec[g] = IF g = f THEN now ELSE received[g]
    BY <2>2, <2>4, OfWhatIsHeld
  <2>6. /\ HeldBut(f) \in Seq(File) /\ IsInjective(HeldBut(f))
        /\ ToSet(HeldBut(f)) = ToSet(held) \ {f}
    BY RemoveFirstIs DEF HeldBut, Parts
  <2>7. /\ before \in Seq(File) /\ IsInjective(before) /\ ToSet(before) = ToSet(held) \cup {f}
        /\ Len(before) \in Nat \ {0} /\ before[Len(before)] = f
    <3>1. f \notin ToSet(HeldBut(f))
      BY <2>6
    <3>2. (ToSet(held) \ {f}) \cup {f} = ToSet(held) \cup {f}
      OBVIOUS
    <3> HIDE DEF f
    <3> QED BY <2>2, <2>6, <3>1, <3>2, AppendIs
  <2> HIDE DEF rec, before, f
  <2>8. /\ order \in Seq(File) /\ IsInjective(order) /\ ToSet(order) \subseteq ToSet(before)
        /\ SumOf(rec, ToSet(order)) <= Room
    BY <2>2, <2>4, <2>5, <2>7, WithinBoundFits
  <2> HIDE DEF order
  <2>9. \A g \in ToSet(order) : g \in File /\ rec[g] > 0
    BY <2>2, <2>4, <2>5, <2>7, <2>8 DEF Parts
  <2>10. ToSet(held') = {g \in File : received'[g] > 0}
    BY <2>1, <2>9
  <2>11. \A g \in File : received'[g] < Length[g]
    BY <2>1, <2>4, <2>5, PhotoFilesAssumption DEF Parts
  <2>12. HeldWithinRoom'
    <3>1. SumOf(received', File) = SumOf(rec, ToSet(order))
      <4>1. ToSet(order) \in SUBSET File
        BY <2>9
      <4>2. \A g \in File : rec[g] \in Nat
                         /\ received'[g] = IF g \in ToSet(order) THEN rec[g] ELSE 0
        BY <2>1, <2>5
      <4> QED BY <4>1, <4>2, SumWhereNotNone, PhotoFilesAssumption
    <3> QED BY <2>8, <3>1, BytesAreSum DEF HeldWithinRoom
  <2> QED BY <2>1, <2>8, <2>10, <2>11, <2>12
<1> QED BY <1>1, <1>2, <1>3

\* What a step of the server makes of a request: one further on, of the same file; or none, of one
\* nobody waits for.
LEMMA ServedMoves ==
  ASSUME PhotoInv, NEW s \in Slot, Serves(s) \/ Fails(s)
  PROVE  /\ \E q \in Request : /\ request' = [request EXCEPT ![s] = q]
                               /\ q.stage # "sent" /\ (q.file = request[s].file \/ s # awaits)
         /\ UNCHANGED <<has, begun, from, resting, notMatched, running, awaits>>
<1>1. ASSUME NEW a \in Answers, NEW at \in Offset, Answer(s, a, at)
      PROVE  \E q \in Request : /\ request' = [request EXCEPT ![s] = q]
                                /\ q.stage # "sent" /\ (q.file = request[s].file \/ s # awaits)
  <2>1. request' = [request EXCEPT ![s] = Told(request[s], a, at)]
    BY <1>1 DEF Answer, To, Told
  <2>2. /\ Told(request[s], a, at) \in Request /\ Told(request[s], a, at).stage = "answered"
        /\ Told(request[s], a, at).file = request[s].file
    BY OfARequest, ToldFields
  <2> QED BY <2>1, <2>2
<1>2. ASSUME NEW stage \in Stage, stage # "sent", To(s, [request[s] EXCEPT !.stage = stage])
      PROVE  \E q \in Request : /\ request' = [request EXCEPT ![s] = q]
                                /\ q.stage # "sent" /\ (q.file = request[s].file \/ s # awaits)
  <2>1. request' = [request EXCEPT ![s] = Come(request[s], stage)]
    BY <1>2 DEF To, Come
  <2>2. /\ Come(request[s], stage) \in Request /\ Come(request[s], stage).stage = stage
        /\ Come(request[s], stage).file = request[s].file
    BY OfARequest, ComeFields
  <2> QED BY <1>2, <2>1, <2>2
<1>3. \/ \E a \in Answers, at \in Offset : Answer(s, a, at)
      \/ \E stage \in Stage : stage # "sent" /\ To(s, [request[s] EXCEPT !.stage = stage])
      \/ Unheard(s)
  <2>1. /\ 0 \in Offset /\ received[request[s].file] \in Offset
        /\ Answers = {"none", "KEPT", "RECEIVING", "NOT_MATCHED", "TURNED_AWAY", "FAILED"}
        /\ {"looked", "whole", "kept"} \subseteq Stage
    BY OfARequest, OfWhatIsHeld DEF Answers, Stage
  <2>2. CASE Looks(s)
    BY <2>1, <2>2 DEF Looks
  <2>3. CASE Takes(s)
    <3> DEFINE now == HeldBefore(request[s]) + request[s].size
    <3>1. request[s].offset = HeldBefore(request[s]) => now \in Offset
      <4>1. /\ request[s].offset \in Nat /\ request[s].size \in Nat /\ Room \in Nat
            /\ request[s].offset + request[s].size <= Length[request[s].file]
            /\ Length[request[s].file] \in Nat /\ Length[request[s].file] <= Room
        BY OfARequest, OfWhatIsHeld, PhotoFilesAssumption
      <4> QED BY <4>1 DEF Offset
    <3>2. \/ Answer(s, "RECEIVING", received[request[s].file])
          \/ To(s, [request[s] EXCEPT !.stage = "whole"])
          \/ request[s].offset = HeldBefore(request[s]) /\ Answer(s, "RECEIVING", now)
      BY <2>3 DEF Takes
    <3> QED BY <2>1, <3>1, <3>2
  <2>4. CASE Keeps(s)
    BY <2>1, <2>4 DEF Keeps
  <2>5. CASE Tells(s)
    BY <2>1, <2>5 DEF Tells
  <2>6. CASE TurnsAway(s) \/ AlreadyKept(s) \/ SetsAside(s) \/ WritesTime(s) \/ Fails(s)
    BY <2>1, <2>6 DEF TurnsAway, AlreadyKept, SetsAside, WritesTime, Fails
  <2> QED BY <2>2, <2>3, <2>4, <2>5, <2>6 DEF Serves
<1>4. Unheard(s) => \E q \in Request : /\ request' = [request EXCEPT ![s] = q]
                                        /\ q.stage # "sent" /\ (q.file = request[s].file \/ s # awaits)
  <2>1. Unheard(s) => request' = [request EXCEPT ![s] = Free] /\ s # awaits
    BY DEF Unheard, To
  <2>2. Free \in Request /\ Free.stage # "sent"
    BY FreeFields
  <2> QED BY <2>1, <2>2
<1>5. \E q \in Request : /\ request' = [request EXCEPT ![s] = q]
                         /\ q.stage # "sent" /\ (q.file = request[s].file \/ s # awaits)
  BY <1>1, <1>2, <1>3, <1>4
<1>6. UNCHANGED <<has, begun, from, resting, notMatched, running, awaits>>
  BY DEF Serves, Unheard, Looks, Tells, TurnsAway, AlreadyKept, Takes, SetsAside, Keeps,
         WritesTime, Fails, phone
<1> QED BY <1>5, <1>6

\* Every step keeps what is held as it should be.
LEMMA PartsStep ==
  ASSUME PhotoInv, Parts, [PhotoNext]_vars
  PROVE  Parts'
<1>1. /\ held' \in Seq(File) /\ IsInjective(held')
      /\ ToSet(held') = {f \in File : received'[f] > 0}
      /\ \A f \in File : received'[f] < Length[f]
      /\ HeldWithinRoom'
  <2>1. CASE UNCHANGED memory
    BY <2>1 DEF memory, Parts, HeldWithinRoom
  <2>2. ASSUME NEW s \in Slot, AlreadyKept(s) PROVE <1>1!:
    <3>1. request[s].file \in File /\ LetGo(request[s].file)
      BY <2>2, OfARequest DEF AlreadyKept
    <3> QED BY <3>1, LetGoKeeps
  <2>3. ASSUME NEW s \in Slot, Takes(s) PROVE <1>1!:
    BY <2>3, TakesParts
  <2>4. CASE ProcessStops
    <3>1. held' = << >> /\ received' = [f \in File |-> 0]
      BY <2>4 DEF ProcessStops
    <3>2. held' \in Seq(File) /\ IsInjective(held') /\ ToSet(held') = {}
      BY <3>1 DEF ToSet, IsInjective
    <3>3. \A f \in File : received'[f] = 0 /\ 0 < Length[f]
      BY <3>1, PhotoFilesAssumption
    <3>4. SumOf(received', File) = 0
      BY <3>3, SumOfNone, PhotoFilesAssumption
    <3>5. HeldWithinRoom'
      BY <3>4, BytesAreSum, PhotoFilesAssumption DEF HeldWithinRoom
    <3> QED BY <3>2, <3>3, <3>5
  <2>5. \/ UNCHANGED memory \/ ProcessStops
        \/ \E s \in Slot : AlreadyKept(s) \/ Takes(s)
    BY DEF PhotoNext, Sends, RunStarts, Asks, SendsPart, Goes, RunEnds, Answered, GivesUp, Reopens,
           Serves, Unheard, Looks, Tells, TurnsAway, SetsAside, Keeps, WritesTime, Fails, vars
  <2> QED BY <2>1, <2>2, <2>3, <2>4, <2>5
<1>2. \A o \in Slot : request'[o].stage = "sent" /\ ~request'[o].asks => request'[o].size > 0
  <2>1. \A o \in Slot : request[o].stage = "sent" /\ ~request[o].asks => request[o].size > 0
    BY DEF Parts
  <2>2. request \in [Slot -> Request]
    BY DEF PhotoInv, Typed
  <2>3. CASE request' = request
    BY <2>1, <2>3
  <2>4. CASE Asks
    <3>1. PICK f \in GoingNext(TRUE), s \in Slot :
            request' = [request EXCEPT ![s] = [Free EXCEPT !.stage = "sent", !.asks = TRUE, !.file = f]]
      BY <2>4 DEF Asks, Goes
    <3>2. [Free EXCEPT !.stage = "sent", !.asks = TRUE, !.file = f].asks = TRUE
      BY DEF Free
    <3> QED BY <2>1, <2>2, <3>1, <3>2
  <2>5. CASE SendsPart
    <3>1. PICK f \in GoingNext(FALSE), n \in 1 .. PartMost, s \in Slot :
            request' = [request EXCEPT ![s] = Part(f, from[f], n)]
      BY <2>5 DEF SendsPart, Goes, Part
    <3>2. Part(f, from[f], n).size = n /\ n > 0
      BY PhotoFilesAssumption DEF Part, Free
    <3> QED BY <2>1, <2>2, <3>1, <3>2
  <2>6. CASE Answered \/ GivesUp
    <3>1. \A o \in Slot : request'[o] = request[o] \/ request'[o] = Free
      BY <2>2, <2>6 DEF Answered, GivesUp
    <3> QED BY <2>1, <3>1, FreeFields
  <2>7. ASSUME NEW s \in Slot, Serves(s) \/ Fails(s)
        PROVE  \A o \in Slot : request'[o].stage = "sent" /\ ~request'[o].asks
                              => request'[o].size > 0
    <3>1. PICK q \in Request : request' = [request EXCEPT ![s] = q] /\ q.stage # "sent"
      BY <2>7, ServedMoves
    <3> QED BY <2>1, <2>2, <3>1
  <2>8. CASE ProcessStops
    <3>1. \A o \in Slot : request'[o] = request[o] \/ request'[o].stage = "answered"
      <4>1. \A o \in Slot : [request[o] EXCEPT !.stage = "answered", !.answer = "FAILED"].stage
                              = "answered"
        BY <2>2 DEF Request
      <4> QED BY <2>8, <4>1 DEF ProcessStops
    <3> QED BY <2>1, <3>1
  <2>9. RunStarts \/ RunEnds \/ Reopens \/ UNCHANGED vars => request' = request
    BY DEF RunStarts, RunEnds, Reopens, vars
  <2> QED BY <2>3, <2>4, <2>5, <2>6, <2>7, <2>8, <2>9 DEF PhotoNext, Sends
<1> QED BY <1>1, <1>2 DEF Parts

\* Nothing is held at first, and nothing is on its way.
LEMMA PartsInit == PhotoInit => Parts
<1> SUFFICES ASSUME PhotoInit PROVE Parts
  OBVIOUS
<1>1. held = << >> /\ received = [f \in File |-> 0] /\ \A s \in Slot : request[s] = Free
  BY DEF PhotoInit
<1>2. held \in Seq(File) /\ IsInjective(held) /\ ToSet(held) = {}
  BY <1>1 DEF ToSet, IsInjective
<1>3. \A f \in File : received[f] = 0 /\ 0 < Length[f]
  BY <1>1, PhotoFilesAssumption
<1>4. SumOf(received, File) = 0
  BY <1>3, SumOfNone, PhotoFilesAssumption
<1>5. HeldWithinRoom
  BY <1>4, BytesAreSum, PhotoFilesAssumption DEF HeldWithinRoom
<1> QED BY <1>1, <1>2, <1>3, <1>5, FreeFields DEF Parts

\* Late parts, parts twice, restarts: what is held in memory of files in part stays within its
\* bound, whatever their number and sizes.
THEOREM HeldAlwaysFits == FairPhotos => []HeldWithinRoom
<1>1. Parts => HeldWithinRoom
  BY DEF Parts
<1>2. PhotoInv /\ Parts /\ [PhotoNext]_vars => PhotoInv' /\ Parts'
  BY PhotoStepHolds, PartsStep
<1> QED
  BY <1>1, <1>2, PhotoInitHolds, PartsInit, PTL DEF FairPhotos

-----------------------------------------------------------------------------
(* What the phone notes of a run.                                          *)

\* A request waited for is of a file still on the phone: none but its answer drops it.
PhoneSide ==
  /\ begun \subseteq has /\ resting \subseteq has
  /\ notMatched \in [File -> 0 .. InARun]
  /\ running \in BOOLEAN
  /\ awaits # NoRequest => running /\ request[awaits].file \in has
  /\ setAside \subseteq File /\ faults \in 0 .. MaxFaults

\* Counts within their bounds.
LEMMA Counts ==
  /\ 0 \in 0 .. InARun /\ 0 \in 0 .. MaxFaults
  /\ [f \in File |-> 0] \in [File -> 0 .. InARun]
  /\ \A n \in 0 .. InARun : (n + 1 > InARun) \/ n + 1 \in 0 .. InARun
  /\ \A n \in 0 .. MaxFaults : n < MaxFaults => n + 1 \in 0 .. MaxFaults
<1>1. 0 \in 0 .. InARun /\ 0 \in 0 .. MaxFaults
  BY PhotoFilesAssumption
<1>2. [f \in File |-> 0] \in [File -> 0 .. InARun]
  BY <1>1
<1> QED BY <1>1, <1>2, PhotoFilesAssumption

LEMMA PhoneSideInit == PhotoInit => PhoneSide
<1> SUFFICES ASSUME PhotoInit PROVE PhoneSide
  OBVIOUS
<1>1. notMatched \in [File -> 0 .. InARun] /\ faults \in 0 .. MaxFaults
  BY Counts DEF PhotoInit
<1> QED BY <1>1 DEF PhotoInit, PhoneSide

\* An answer taken in, and a run that ends without one.
LEMMA AnsweredSide ==
  ASSUME PhotoInv, PhoneSide, Answered
  PROVE  PhoneSide'
<1> DEFINE r == request[awaits]
<1>1. awaits \in Slot /\ awaits # NoRequest
  BY OfWhatIsHeld DEF Answered
<1>2. r.file \in has /\ r.file \in File /\ running
  BY <1>1, OfARequest DEF PhoneSide
<1>3. awaits' = NoRequest /\ setAside' = setAside /\ faults' = faults
  BY DEF Answered, stored
<1>4. \A at : GoesOn(r, at) => has' = has /\ begun' \subseteq has
  BY <1>2 DEF GoesOn, PhoneSide
<1>5. begun' \subseteq has' /\ resting' \subseteq has' /\ notMatched' \in [File -> 0 .. InARun]
      /\ running' \in BOOLEAN
  <2>1. begun \subseteq has /\ resting \subseteq has /\ notMatched \in [File -> 0 .. InARun]
        /\ running = TRUE
    BY <1>2 DEF PhoneSide
  <2>2. CASE Dropped(r.file) /\ UNCHANGED running
    BY <2>1, <2>2 DEF Dropped
  <2>3. CASE GoesOn(r, r.stands) /\ UNCHANGED <<resting, notMatched, running>>
    BY <1>4, <2>1, <2>3
  <2>4. CASE SentOver(r) /\ UNCHANGED running
    <3>1. has' = has /\ begun' \subseteq has /\ resting' \subseteq has
      BY <1>2, <1>4, <2>1, <2>4 DEF SentOver
    <3>2. notMatched' \in [File -> 0 .. InARun]
      <4> DEFINE times == notMatched[r.file] + 1
      <4>1. notMatched' = [notMatched EXCEPT ![r.file] = IF times > InARun THEN notMatched[r.file]
                                                         ELSE times]
        BY <1>2, <2>1, <2>4 DEF SentOver
      <4>2. notMatched[r.file] \in 0 .. InARun
        BY <1>2, <2>1
      <4>3. (IF times > InARun THEN notMatched[r.file] ELSE times) \in 0 .. InARun
        BY <4>2, Counts
      <4> HIDE DEF times
      <4> QED BY <1>2, <2>1, <4>1, <4>3
    <3> QED BY <2>1, <2>4, <3>1, <3>2
  <2>5. CASE resting' = resting \cup {r.file} /\ UNCHANGED <<has, begun, from, notMatched, running>>
    BY <1>2, <2>1, <2>5
  <2>6. CASE Unanswered(r)
    BY <1>4, <2>1, <2>6 DEF Unanswered
  <2> QED BY <2>2, <2>3, <2>4, <2>5, <2>6 DEF Answered
<1> QED BY <1>3, <1>5 DEF PhoneSide

LEMMA PhoneSideStep ==
  ASSUME PhotoInv, PhoneSide, [PhotoNext]_vars
  PROVE  PhoneSide'
<1> USE PhotoFilesAssumption
<1>1. CASE RunStarts \/ RunEnds
  <2>1. /\ UNCHANGED <<has, begun, awaits, setAside, faults>>
        /\ running' \in BOOLEAN
        /\ (resting' = {} /\ notMatched' = [f \in File |-> 0] /\ running')
             \/ (resting' = resting /\ notMatched' = notMatched /\ awaits = NoRequest)
    BY <1>1 DEF RunStarts, RunEnds, stored
  <2>2. request' = request
    BY <1>1 DEF RunStarts, RunEnds
  <2>3. notMatched' \in [File -> 0 .. InARun]
    BY <2>1, Counts DEF PhoneSide
  <2> QED BY <2>1, <2>2, <2>3 DEF PhoneSide
<1>2. CASE Asks \/ SendsPart
  <2>1. /\ begun' = begun /\ resting' = resting /\ has' = has /\ notMatched' = notMatched
        /\ setAside' = setAside /\ faults' = faults /\ running' = running /\ running
    BY <1>2 DEF Asks, SendsPart, Goes, phone, stored
  <2>2. \E s \in Slot, f \in has, q \in Request :
          request' = [request EXCEPT ![s] = q] /\ q.file = f /\ awaits' = s
    <3>1. CASE Asks
      <4>1. PICK f \in GoingNext(TRUE), s \in Slot :
              request' = [request EXCEPT ![s] = Question(f)] /\ awaits' = s
        BY <3>1 DEF Asks, Goes, Question
      <4>2. f \in has /\ f \in File
        BY DEF GoingNext, PhotoInv, Typed
      <4> QED BY <4>1, <4>2, QuestionFields
    <3>2. CASE SendsPart
      <4>1. PICK f \in GoingNext(FALSE), n \in 1 .. PartMost, s \in Slot :
              /\ n <= Length[f] - from[f]
              /\ request' = [request EXCEPT ![s] = Part(f, from[f], n)] /\ awaits' = s
        BY <3>2 DEF SendsPart, Goes, Part
      <4>2. f \in has /\ f \in File /\ from[f] \in Nat
        BY DEF GoingNext, PhotoInv, Typed
      <4>3. n \in Offset /\ from[f] \in Offset
        BY <4>1, <4>2, OfWhatIsHeld DEF Offset
      <4>4. Part(f, from[f], n) \in Request /\ Part(f, from[f], n).file = f
        BY <4>2, <4>3, PartFields
      <4> HIDE DEF Part
      <4> QED BY <4>1, <4>2, <4>4
    <3> QED BY <1>2, <3>1, <3>2
  <2>3. request'[awaits'].file \in has
    BY <2>2 DEF PhotoInv, Typed
  <2> QED BY <2>1, <2>3 DEF PhoneSide
<1>3. CASE Answered
  BY <1>3, AnsweredSide
<1>4. CASE GivesUp
  <2>1. /\ awaits' = NoRequest /\ running' = FALSE /\ setAside' = setAside
        /\ faults' = faults + 1 /\ faults < MaxFaults
        /\ UNCHANGED <<has, resting, notMatched>>
    BY <1>4 DEF GivesUp, Fault, Unanswered, GoesOn, stored
  <2>2. begun' \subseteq has
    BY <1>4 DEF GivesUp, Unanswered, GoesOn, PhoneSide
  <2>3. faults' \in 0 .. MaxFaults
    BY <2>1, Counts DEF PhoneSide
  <2> QED BY <2>1, <2>2, <2>3 DEF PhoneSide
<1>5. CASE Reopens
  <2>1. /\ awaits' = NoRequest /\ running' = FALSE /\ resting' = {}
        /\ notMatched' = [f \in File |-> 0] /\ UNCHANGED <<has, begun, setAside>>
        /\ faults' = faults + 1 /\ faults < MaxFaults
    BY <1>5 DEF Reopens, Fault, stored
  <2>2. faults' \in 0 .. MaxFaults /\ notMatched' \in [File -> 0 .. InARun]
    BY <2>1, Counts DEF PhoneSide
  <2> QED BY <2>1, <2>2 DEF PhoneSide
<1>6. ASSUME NEW s \in Slot, Serves(s) \/ Fails(s) PROVE PhoneSide'
  <2>1. PICK q \in Request : /\ request' = [request EXCEPT ![s] = q]
                             /\ (q.file = request[s].file \/ s # awaits)
    BY <1>6, ServedMoves
  <2>2. UNCHANGED <<has, begun, from, resting, notMatched, running, awaits>>
    BY <1>6, ServedMoves
  <2>3. awaits # NoRequest => request'[awaits].file = request[awaits].file
    <3>1. request \in [Slot -> Request] /\ (awaits # NoRequest => awaits \in Slot)
      BY DEF PhotoInv, Typed
    <3> QED BY <2>1, <3>1
  <2>4. setAside' \subseteq File
    <3>1. setAside' = setAside \/ setAside' = setAside \cup {request[s].file}
      BY <1>6 DEF Serves, Unheard, Looks, Tells, TurnsAway, AlreadyKept, Takes, SetsAside, Keeps,
                  WritesTime, Fails, stored
    <3>2. request[s].file \in File /\ setAside \subseteq File
      BY OfARequest DEF PhoneSide
    <3> QED BY <3>1, <3>2
  <2>5. faults' \in 0 .. MaxFaults
    <3>1. faults' = faults \/ (faults < MaxFaults /\ faults' = faults + 1)
      BY <1>6 DEF Serves, Unheard, Looks, Tells, TurnsAway, AlreadyKept, Takes, SetsAside, Keeps,
                  WritesTime, Fails, Fault
    <3> QED BY <3>1, Counts DEF PhoneSide
  <2> QED BY <2>2, <2>3, <2>4, <2>5 DEF PhoneSide
<1>7. CASE ProcessStops
  <2>1. \A s \in Slot : request'[s].file = request[s].file
    <3>1. \A s \in Slot : [request[s] EXCEPT !.stage = "answered", !.answer = "FAILED"].file
                            = request[s].file
      BY OfARequest DEF Request
    <3> QED BY <1>7, <3>1 DEF ProcessStops
  <2>2. UNCHANGED <<has, begun, resting, notMatched, running, awaits, setAside>>
        /\ faults < MaxFaults /\ faults' = faults + 1
    BY <1>7 DEF ProcessStops, Fault, phone, stored
  <2>3. faults' \in 0 .. MaxFaults
    BY <2>2, Counts DEF PhoneSide
  <2> QED BY <2>1, <2>2, <2>3, OfWhatIsHeld DEF PhoneSide
<1>8. CASE UNCHANGED vars
  BY <1>8 DEF vars, phone, stored, PhoneSide
<1> QED BY <1>1, <1>2, <1>3, <1>4, <1>5, <1>6, <1>7, <1>8 DEF PhotoNext, Sends

\* Every variable has its type: no place beyond a file's end, no count past its bound, a whole
\* file never among those held in part, none held twice.
THEOREM PhotoTypes == FairPhotos => []PhotoTypeOK
<1>1. PhotoInv /\ Parts /\ PhoneSide => PhotoTypeOK
  <2> SUFFICES ASSUME PhotoInv, Parts, PhoneSide PROVE PhotoTypeOK
    OBVIOUS
  <2>1. from \in [File -> Offset \cup {Unknown}]
    <3>1. /\ from \in [File -> Nat \cup {Unknown}]
          /\ \A f \in File : from[f] # Unknown => from[f] <= Length[f]
      BY DEF PhotoInv, Typed
    <3>2. \A f \in File : from[f] \in Offset \cup {Unknown}
      BY <3>1, PhotoFilesAssumption DEF Offset
    <3> QED BY <3>1, <3>2
  <2>2. \A f \in File : received[f] \in 0 .. Length[f] - 1
    BY OfWhatIsHeld DEF Parts
  <2> QED BY <2>1, <2>2 DEF PhotoTypeOK, PhotoInv, Typed, Parts, PhoneSide
<1>2. PhotoInv /\ Parts /\ PhoneSide /\ [PhotoNext]_vars => PhotoInv' /\ Parts' /\ PhoneSide'
  BY PhotoStepHolds, PartsStep, PhoneSideStep
<1> QED
  BY <1>1, <1>2, PhotoInitHolds, PartsInit, PhoneSideInit, PTL DEF FairPhotos

=============================================================================
