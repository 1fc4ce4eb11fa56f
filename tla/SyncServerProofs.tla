-------------------------- MODULE SyncServerProofs --------------------------
(***************************************************************************)
(* What the server's half of a sync keeps, for any number of records,      *)
(* photographs, numbers and overlapping requests.                          *)
(***************************************************************************)
EXTENDS SyncServer, SequenceTheorems, TLAPS

\* The first of what a request still has to do is one of the things sent.
LEMMA CurrentThing ==
  ASSUME ServerTypeOK, NEW q \in Request, Busy(q)
  PROVE  /\ Current(q) \in Thing
         /\ Tail(work[q].todo) \in Seq(Thing)
<1>1. work[q].todo \in Seq(Thing) /\ work[q].todo # << >>
  BY DEF ServerTypeOK, Working, Busy
<1> QED BY <1>1, HeadTailProperties DEF Current

\* A read comes to the next read or to one of the choices.
LEMMA AskedType == ASSUME NEW x, NEW asking PROVE Asked(x, asking) \in Asking \cup Choice
BY DEF Asked, RecordAsked, PhotoAsked, Asking, Choice

\* Whatever is told of a thing, the request is still one.
LEMMA ToldType ==
  ASSUME ServerTypeOK, NEW q \in Request, Busy(q), NEW answer \in Answer, Told(q, answer)
  PROVE  work' \in [Request -> Working]
<1>1. Current(q) \in Thing /\ Tail(work[q].todo) \in Seq(Thing)
  BY CurrentThing
<1>2. work[q].told \in [Thing -> Answer \cup {Nothing}]
  BY DEF ServerTypeOK, Working
<1>3. [work[q].told EXCEPT ![Current(q)] = answer] \in [Thing -> Answer \cup {Nothing}]
  BY <1>2
<1>4. [todo |-> Tail(work[q].todo), choice |-> Unread, tries |-> 0,
       told |-> [work[q].told EXCEPT ![Current(q)] = answer]] \in Working
  BY <1>1, <1>3 DEF Working, TakesAtMost, Unread, Asking
<1> QED BY <1>4 DEF Told, ServerTypeOK

\* Every step keeps the types.
LEMMA TypeStep == ServerTypeOK /\ [ServerNext]_serverVars => ServerTypeOK'
<1> SUFFICES ASSUME ServerTypeOK, [ServerNext]_serverVars PROVE ServerTypeOK'
  OBVIOUS
<1> USE ThingsAssumption, NumbersAssumption
<1>1. ASSUME NEW q \in Request, ReadNext(q) PROVE ServerTypeOK'
  <2> DEFINE asked == Asked(Current(q), work[q].choice)
  <2>1. asked \in Asking \cup Choice
    BY AskedType
  <2>2. [work[q] EXCEPT !.choice = asked] \in Working
    <3>1. work[q] \in Working
      BY DEF ServerTypeOK
    <3>2. [work[q] EXCEPT !.choice = asked]
            = [todo |-> work[q].todo, choice |-> asked,
               tries |-> work[q].tries, told |-> work[q].told]
      BY <3>1 DEF Working
    <3> QED BY <2>1, <3>1, <3>2 DEF Working
  <2> QED BY <1>1, <2>2 DEF ReadNext, ServerTypeOK, tables
<1>2. ASSUME NEW q \in Request, AnswerAlready(q) PROVE ServerTypeOK'
  <2>1. PICK answer \in Answer : Told(q, answer)
    BY <1>2 DEF AnswerAlready, Answer
  <2>2. work' \in [Request -> Working]
    BY <1>2, <2>1, ToldType DEF AnswerAlready
  <2> QED BY <1>2, <2>2 DEF AnswerAlready, ServerTypeOK, tables
<1>3. ASSUME NEW q \in Request, SaveRecord(q) PROVE ServerTypeOK'
  <2>1. Told(q, "SAVED") /\ Busy(q) /\ "SAVED" \in Answer
    BY <1>3 DEF SaveRecord, Answer
  <2>2. work' \in [Request -> Working]
    BY <2>1, ToldType
  <2>3. row' \in [Record -> Number \cup {NoNumber, NotSaved}]
    <3>1. row' = [row EXCEPT ![Current(q)] = OwnNumber[Current(q)]]
      BY <1>3 DEF SaveRecord
    <3>2. CASE Current(q) \in Record
      BY <3>1, <3>2 DEF ServerTypeOK
    <3>3. CASE Current(q) \notin Record
      BY <3>1, <3>3 DEF ServerTypeOK
    <3> QED BY <3>2, <3>3
  <2>4. ledger' \in [Thing -> {"none", "SAVED", "QUARANTINED"}]
    BY <1>3 DEF SaveRecord, ServerTypeOK
  <2> QED BY <1>3, <2>2, <2>3, <2>4 DEF SaveRecord, ServerTypeOK
<1>4. ASSUME NEW q \in Request, QuarantineRecord(q) PROVE ServerTypeOK'
  <2>1. Told(q, "QUARANTINED") /\ Busy(q) /\ "QUARANTINED" \in Answer
    BY <1>4 DEF QuarantineRecord, Answer
  <2>2. work' \in [Request -> Working]
    BY <2>1, ToldType
  <2> QED BY <1>4, <2>2 DEF QuarantineRecord, ServerTypeOK
<1>5. ASSUME NEW q \in Request, TakeAgain(q) PROVE ServerTypeOK'
  <2>1. work[q] \in Working /\ work[q].tries < 2
    BY <1>5 DEF TakeAgain, ServerTypeOK, TakesAtMost
  <2>2. work[q].tries + 1 \in 0 .. 2
    BY <2>1 DEF Working, TakesAtMost
  <2>3. [todo |-> work[q].todo, choice |-> "ownRow", tries |-> work[q].tries + 1,
         told |-> work[q].told] \in Working
    BY <2>1, <2>2 DEF Working, TakesAtMost, Asking
  <2> QED BY <1>5, <2>3 DEF TakeAgain, ServerTypeOK, tables
<1>6. ASSUME NEW q \in Request, HoldRecord(q) PROVE ServerTypeOK'
  <2>1. Told(q, "NOT_SAVED") /\ Busy(q) /\ "NOT_SAVED" \in Answer
    BY <1>6 DEF HoldRecord, Answer
  <2>2. work' \in [Request -> Working]
    BY <2>1, ToldType
  <2> QED BY <1>6, <2>2 DEF HoldRecord, HoldsForAPerson, ServerTypeOK
<1>7. ASSUME NEW q \in Request, SavePhoto(q) PROVE ServerTypeOK'
  <2>1. Told(q, "SAVED") /\ Busy(q) /\ "SAVED" \in Answer
    BY <1>7 DEF SavePhoto, Answer
  <2>2. Place[work[q].choice] \in {"record", "quarantined", "held"}
    BY <1>7 DEF SavePhoto, Place
  <2>3. work' \in [Request -> Working]
    BY <2>1, ToldType
  <2> QED BY <1>7, <2>2, <2>3 DEF SavePhoto, ServerTypeOK
<1>8. ASSUME NEW q \in Request, HoldPhoto(q) PROVE ServerTypeOK'
  <2>1. PICK answer \in Answer : Told(q, answer)
    BY <1>8 DEF HoldPhoto, Answer
  <2>2. work' \in [Request -> Working]
    BY <1>8, <2>1, ToldType DEF HoldPhoto
  <2> QED BY <1>8, <2>2 DEF HoldPhoto, HoldsForAPerson, ServerTypeOK
<1>9. ASSUME NEW q \in Request, Fails(q) \/ MetOnceTooOften(q) \/ Answered(q) PROVE ServerTypeOK'
  <2>1. Idle \in Working
    BY DEF Idle, Working, TakesAtMost, Unread, Asking
  <2> QED BY <1>9, <2>1 DEF Fails, MetOnceTooOften, Answered, ServerTypeOK, tables
<1>10. ASSUME NEW q \in Request, NEW things \in Batches, Arrives(q, things)
       PROVE ServerTypeOK'
  <2>1. things \in Seq(Thing)
    OBVIOUS
  <2>2. [work[q] EXCEPT !.todo = things] \in Working
    <3>1. work[q] \in Working
      BY DEF ServerTypeOK
    <3>2. [work[q] EXCEPT !.todo = things]
            = [todo |-> things, choice |-> work[q].choice, tries |-> work[q].tries,
               told |-> work[q].told]
      BY <3>1 DEF Working
    <3> QED BY <2>1, <3>1, <3>2 DEF Working
  <2> QED BY <1>10, <2>2 DEF Arrives, ServerTypeOK, tables
<1>11. CASE Review
  BY <1>11 DEF Review, Renumber, SecondCopy, SaveHeldRecord, SaveHeldPhoto, CloseHeld,
               ServerTypeOK, Thing
<1>12. CASE Around
  BY <1>12 DEF Around, Mended, ProjectCloses, ProjectReopens, ServerTypeOK, tables
<1>13. CASE UNCHANGED serverVars
  BY <1>13 DEF serverVars, ServerTypeOK
<1> QED
  BY <1>1, <1>2, <1>3, <1>4, <1>5, <1>6, <1>7, <1>8, <1>9, <1>10, <1>11, <1>12, <1>13
  DEF ServerNext, Works

-----------------------------------------------------------------------------
(* What a step may do to the tables.                                       *)

\* What each table's step may not do: a row, once there, is never changed, and
\* what is quarantined, held or beside a photograph never is not.
NothingTakenBack ==
  /\ \A r \in Record : IsSaved(r) => row'[r] = row[r]
  /\ \A r \in Record : quarantined[r] # "no" => quarantined'[r] # "no"
  /\ \A x \in Thing : held[x] # "no" => held'[x] # "no"
  /\ \A p \in Photo : photoOn[p] # "nowhere" => photoOn'[p] # "nowhere"

\* A record's row is written under the number given, which none holds.
RowWritten(r, n) ==
  /\ row' = [row EXCEPT ![r] = n]
  /\ n \in Number => ~NumberTaken(n) /\ ~IsSaved(r)
  /\ n = NoNumber <=> OwnNumber[r] = NoNumber
  /\ IsSaved(r) => row[r] = n
  /\ ledger'[r] = "SAVED" \/ quarantined'[r] = "renumbered" \/ held'[r] = "saved"

\* What a request saves, quarantines or holds as a record is a record.
LEMMA CurrentRecord ==
  ASSUME ServerTypeOK, ChoicesHold, NEW q \in Request, Busy(q)
  PROVE  /\ work[q].choice \in {"save", "quarantine", "refuse", "inQuarantine"}
              => Current(q) \in Record
         /\ work[q].choice \in {"onRecord", "onQuarantined", "onHeld", "ownerNotSaved"}
              => Current(q) \in Photo
<1>1. Current(q) \in Thing /\ ChoiceHolds(Current(q), work[q].choice)
  BY CurrentThing DEF ChoicesHold
<1> QED BY <1>1 DEF ChoiceHolds, Asking, Thing

\* A step leaves the rows as they are or writes one.
LEMMA RowStep ==
  ASSUME ServerTypeOK, RowsByNumber, ChoicesHold, ServerNext
  PROVE  row' = row \/ \E r \in Record, n \in Number \cup {NoNumber} : RowWritten(r, n)
<1> USE ThingsAssumption, NumbersAssumption
<1>1. ASSUME NEW q \in Request, SaveRecord(q)
      PROVE RowWritten(Current(q), OwnNumber[Current(q)]) /\ Current(q) \in Record
  <2>1. Current(q) \in Record
    BY <1>1, CurrentRecord DEF SaveRecord, Unread
  <2>2. ~IsSaved(Current(q)) /\ ~NumberTaken(OwnNumber[Current(q)])
    BY <1>1 DEF SaveRecord, MeetsAnother
  <2>3. OwnNumber[Current(q)] \in Number \cup {NoNumber}
    BY <2>1
  <2>4. ledger'[Current(q)] = "SAVED"
    BY <1>1, <2>1 DEF SaveRecord, ServerTypeOK, Thing
  <2> QED BY <1>1, <2>1, <2>2, <2>3, <2>4 DEF SaveRecord, RowWritten
<1>2. ASSUME NEW r \in Record, NEW n \in Number \cup {NoNumber}, Renumber(r, n)
      PROVE RowWritten(r, n)
  <2>1. OwnNumber[r] \in Number
    BY <1>2 DEF Renumber, RowsByNumber
  <2>2. quarantined'[r] = "renumbered"
    BY <1>2 DEF Renumber, ServerTypeOK
  <2> QED BY <1>2, <2>1, <2>2 DEF Renumber, RowWritten
<1>3. ASSUME NEW r \in Record, NEW n \in Number \cup {NoNumber}, SaveHeldRecord(r, n)
      PROVE RowWritten(r, n)
  <2>1. held'[r] = "saved"
    BY <1>3 DEF SaveHeldRecord, ServerTypeOK, Thing
  <2>2. CASE n \in Number
    BY <1>3, <2>1, <2>2 DEF SaveHeldRecord, RowWritten
  <2>3. CASE n = NoNumber
    BY <1>3, <2>1, <2>3 DEF SaveHeldRecord, RowWritten, RowsByNumber
  <2> QED BY <2>2, <2>3
<1>4. CASE row' = row
  BY <1>4
<1> QED
  BY <1>1, <1>2, <1>3, <1>4
  DEF ServerNext, Works, Review, Around, ReadNext, AnswerAlready, QuarantineRecord, TakeAgain,
      HoldRecord, SavePhoto, HoldPhoto, MetOnceTooOften, Fails, Answered, Arrives, SecondCopy, SaveHeldPhoto,
      CloseHeld, Mended, ProjectCloses, ProjectReopens, tables

\* The other tables grow: whichever action writes one.
LEMMA Grows ==
  ASSUME ServerTypeOK, RowsByNumber, ChoicesHold, ServerNext
  PROVE  NothingTakenBack
<1> USE ThingsAssumption, NumbersAssumption
<1>1. ASSUME NEW r \in Record, IsSaved(r) PROVE row'[r] = row[r]
  <2>1. CASE row' = row
    BY <2>1
  <2>2. ASSUME NEW s \in Record, NEW n \in Number \cup {NoNumber}, RowWritten(s, n)
        PROVE row'[r] = row[r]
    BY <1>1, <2>2 DEF RowWritten, ServerTypeOK
  <2> QED BY <2>1, <2>2, RowStep
<1>2. ASSUME NEW r \in Record, quarantined[r] # "no" PROVE quarantined'[r] # "no"
  BY <1>2
  DEF ServerNext, Works, Review, Around, ReadNext, AnswerAlready, SaveRecord, QuarantineRecord,
      TakeAgain, HoldRecord, SavePhoto, HoldPhoto, MetOnceTooOften, Fails, Answered, Arrives, Renumber, SecondCopy,
      SaveHeldRecord, SaveHeldPhoto, CloseHeld, Mended, ProjectCloses, ProjectReopens, tables,
      ServerTypeOK
<1>3. ASSUME NEW x \in Thing, held[x] # "no" PROVE held'[x] # "no"
  BY <1>3
  DEF ServerNext, Works, Review, Around, ReadNext, AnswerAlready, SaveRecord, QuarantineRecord,
      TakeAgain, HoldRecord, SavePhoto, HoldPhoto, MetOnceTooOften, Fails, Answered, Arrives, Renumber, SecondCopy,
      SaveHeldRecord, SaveHeldPhoto, CloseHeld, Mended, ProjectCloses, ProjectReopens, tables,
      ServerTypeOK, HoldsForAPerson
<1>4. ASSUME NEW p \in Photo, photoOn[p] # "nowhere" PROVE photoOn'[p] # "nowhere"
  <2>1. CASE photoOn' = photoOn
    BY <1>4, <2>1
  <2>2. ASSUME NEW q \in Request, SavePhoto(q) PROVE photoOn'[p] # "nowhere"
    BY <1>4, <2>2 DEF SavePhoto, ServerTypeOK
  <2>3. ASSUME NEW r \in Record, NEW n, Renumber(r, n) \/ SaveHeldRecord(r, n)
        PROVE photoOn'[p] # "nowhere"
    BY <1>4, <2>3 DEF Renumber, SaveHeldRecord
  <2>4. ASSUME NEW o \in Photo, SaveHeldPhoto(o) PROVE photoOn'[p] # "nowhere"
    BY <1>4, <2>4 DEF SaveHeldPhoto, ServerTypeOK
  <2> QED
    BY <2>1, <2>2, <2>3, <2>4
    DEF ServerNext, Works, Review, Around, ReadNext, AnswerAlready, SaveRecord,
        QuarantineRecord, TakeAgain, HoldRecord, HoldPhoto, MetOnceTooOften, Fails, Answered, Arrives,
        SecondCopy, CloseHeld, Mended, ProjectCloses, ProjectReopens, tables
<1> QED BY <1>1, <1>2, <1>3, <1>4 DEF NothingTakenBack

\* What a request was answered is unchanged or true of the tables after the step.
LEMMA ToldStep ==
  ASSUME ServerTypeOK, RowsByNumber, ChoicesHold, ServerNext, NEW q \in Request, NEW x \in Thing
  PROVE  work'[q].told[x] = work[q].told[x] \/ Backed(x, work[q].told[x])'
<1> USE ThingsAssumption, NumbersAssumption
<1> DEFINE Right == work'[q].told[x] = work[q].told[x] \/ Backed(x, work[q].told[x])'
<1>1. ASSUME NEW s \in Request, Busy(s), NEW answer \in Answer, Told(s, answer),
             NEW c \in Thing, c = Current(s), Backed(c, answer)'
      PROVE Right
  <2>1. CASE q # s \/ x # c
    BY <1>1, <2>1 DEF Told, ServerTypeOK, Working
  <2>2. CASE q = s /\ x = c
    <3>1. work'[q].told[x] = answer
      BY <1>1, <2>2 DEF Told, ServerTypeOK, Working
    <3> QED BY <1>1, <2>2, <3>1
  <2> QED BY <2>1, <2>2
<1>2. ASSUME work' = work PROVE Right
  BY <1>2
<1>3. ASSUME NEW s \in Request, AnswerAlready(s) PROVE Right
  <2>1. Busy(s) /\ Current(s) \in Thing /\ ChoiceHolds(Current(s), work[s].choice)
    BY <1>3, CurrentThing DEF AnswerAlready, ChoicesHold, Unread
  <2>2. CASE work[s].choice = "already" /\ Told(s, "ALREADY_SAVED")
    <3>1. Backed(Current(s), "ALREADY_SAVED")
      BY <2>1, <2>2 DEF ChoiceHolds, Backed, StoredAnswer
    <3>2. ASSUME NEW c \in Thing, c = Current(s) PROVE Backed(c, "ALREADY_SAVED")'
      BY <1>3, <3>1, <3>2 DEF AnswerAlready, Backed, tables, IsSaved
    <3> QED BY <1>1, <2>1, <2>2, <3>2 DEF Answer
  <2>3. CASE work[s].choice = "inQuarantine" /\ Told(s, "QUARANTINED")
    <3>1. Current(s) \in Record /\ quarantined[Current(s)] # "no"
      BY <2>1, <2>3 DEF ChoiceHolds, Asking
    <3>2. ASSUME NEW c \in Thing, c = Current(s) PROVE Backed(c, "QUARANTINED")'
      BY <1>3, <3>1, <3>2 DEF AnswerAlready, Backed, tables, StoredAnswer
    <3> QED BY <1>1, <2>1, <2>3, <3>2 DEF Answer
  <2> QED BY <1>3, <2>2, <2>3 DEF AnswerAlready
<1>4. ASSUME NEW s \in Request, SaveRecord(s) PROVE Right
  <2>1. Current(s) \in Record /\ Busy(s) /\ Told(s, "SAVED")
    BY <1>4, CurrentRecord DEF SaveRecord, Unread
  <2>2. ASSUME NEW c \in Thing, c = Current(s) PROVE Backed(c, "SAVED")'
    <3>1. row'[c] = OwnNumber[c]
      BY <1>4, <2>1, <2>2 DEF SaveRecord, ServerTypeOK
    <3>2. OwnNumber[c] \in Number \cup {NoNumber}
      BY <2>1, <2>2
    <3> QED BY <2>1, <2>2, <3>1, <3>2 DEF Backed, IsSaved
  <2> QED BY <1>1, <2>1, <2>2 DEF Answer, Thing
<1>5. ASSUME NEW s \in Request, QuarantineRecord(s) PROVE Right
  <2>1. Current(s) \in Record /\ Busy(s) /\ Told(s, "QUARANTINED")
    BY <1>5, CurrentRecord DEF QuarantineRecord, Unread
  <2>2. ASSUME NEW c \in Thing, c = Current(s) PROVE Backed(c, "QUARANTINED")'
    BY <1>5, <2>1, <2>2 DEF QuarantineRecord, Backed, StoredAnswer, ServerTypeOK
  <2> QED BY <1>1, <2>1, <2>2 DEF Answer, Thing
<1>6. ASSUME NEW s \in Request, NEW answer \in {"NOT_SAVED", "OWNER_NOT_SAVED"}, Busy(s),
             NEW c \in Thing, c = Current(s), HoldsForAPerson(c), Told(s, answer)
      PROVE Right
  <2>1. Backed(c, answer)'
    BY <1>6 DEF HoldsForAPerson, Backed, StoredAnswer, ServerTypeOK
  <2> QED BY <1>1, <1>6, <2>1 DEF Answer
<1>7. ASSUME NEW s \in Request, HoldRecord(s) \/ HoldPhoto(s) PROVE Right
  <2>1. Busy(s) /\ Current(s) \in Thing /\ HoldsForAPerson(Current(s))
    BY <1>7, CurrentThing DEF HoldRecord, HoldPhoto
  <2>2. PICK answer \in {"NOT_SAVED", "OWNER_NOT_SAVED"} : Told(s, answer)
    BY <1>7 DEF HoldRecord, HoldPhoto
  <2> QED BY <1>6, <2>1, <2>2
<1>8. ASSUME NEW s \in Request, SavePhoto(s) PROVE Right
  <2>1. Current(s) \in Photo /\ Busy(s) /\ Told(s, "SAVED")
    BY <1>8, CurrentThing, CurrentRecord DEF SavePhoto, Place, Unread
  <2>2. ASSUME NEW c \in Thing, c = Current(s) PROVE Backed(c, "SAVED")'
    BY <1>8, <2>1, <2>2 DEF SavePhoto, Place, Backed, ServerTypeOK
  <2> QED BY <1>1, <2>1, <2>2 DEF Answer, Thing
<1>9. ASSUME NEW s \in Request, ReadNext(s) \/ TakeAgain(s) \/ (\E b \in Batches : Arrives(s, b))
      PROVE Right
  <2>1. CASE q # s
    BY <1>9, <2>1 DEF ReadNext, TakeAgain, Arrives, ServerTypeOK
  <2>2. CASE q = s /\ ReadNext(s)
    BY <2>2 DEF ReadNext, ServerTypeOK, Working
  <2>3. CASE q = s /\ TakeAgain(s)
    BY <2>3 DEF TakeAgain, ServerTypeOK
  <2>4. CASE q = s /\ \E b \in Batches : Arrives(s, b)
    BY <2>4 DEF Arrives, ServerTypeOK, Working
  <2> QED BY <1>9, <2>1, <2>2, <2>3, <2>4
<1>10. ASSUME NEW s \in Request, Fails(s) \/ MetOnceTooOften(s) \/ Answered(s) PROVE Right
  <2>1. CASE q # s
    BY <1>10, <2>1 DEF Fails, MetOnceTooOften, Answered, ServerTypeOK
  <2>2. CASE q = s
    <3>1. work'[q].told[x] = Nothing
      BY <1>10, <2>2 DEF Fails, MetOnceTooOften, Answered, Idle, ServerTypeOK
    <3> QED BY <3>1 DEF Backed, Nothing, StoredAnswer
  <2> QED BY <2>1, <2>2
<1>11. CASE Review \/ Around
  BY <1>2, <1>11 DEF Review, Around, Renumber, SecondCopy, SaveHeldRecord, SaveHeldPhoto,
                     CloseHeld, Mended, ProjectCloses, ProjectReopens
<1> QED
  BY <1>3, <1>4, <1>5, <1>7, <1>8, <1>9, <1>10, <1>11 DEF ServerNext, Works

\* What a request read stays as it is, is to be read anew, or is read now.
LEMMA ChoiceStep ==
  ASSUME ServerTypeOK, ServerNext, NEW q \in Request
  PROVE  \/ work'[q] = work[q]
         \/ work'[q].choice \in Asking
         \/ /\ UNCHANGED tables
            /\ work'[q].todo = work[q].todo
            /\ work'[q].choice = Asked(Current(q), work[q].choice)
            /\ Busy(q)
<1> USE DEF Asking, Unread
<1> DEFINE Right == \/ work'[q] = work[q]
                    \/ work'[q].choice \in Asking
                    \/ /\ UNCHANGED tables
                       /\ work'[q].todo = work[q].todo
                       /\ work'[q].choice = Asked(Current(q), work[q].choice)
                       /\ Busy(q)
<1>1. ASSUME NEW s \in Request, NEW answer, Told(s, answer) PROVE Right
  BY <1>1 DEF Told, ServerTypeOK
<1>2. ASSUME NEW s \in Request, ReadNext(s) PROVE Right
  BY <1>2 DEF ReadNext, ServerTypeOK, Working
<1>3. ASSUME NEW s \in Request, TakeAgain(s) PROVE Right
  BY <1>3 DEF TakeAgain, ServerTypeOK
<1>4. ASSUME NEW s \in Request, Fails(s) \/ MetOnceTooOften(s) \/ Answered(s) PROVE Right
  BY <1>4 DEF Fails, MetOnceTooOften, Answered, Idle, ServerTypeOK
<1>5. ASSUME NEW s \in Request, NEW b \in Batches, Arrives(s, b) PROVE Right
  BY <1>5 DEF Arrives, Idle, ServerTypeOK, Working
<1>6. CASE Review \/ Around
  BY <1>6 DEF Review, Around, Renumber, SecondCopy, SaveHeldRecord, SaveHeldPhoto,
              CloseHeld, Mended, ProjectCloses, ProjectReopens
<1>7. ASSUME NEW s \in Request, AnswerAlready(s) \/ HoldPhoto(s) PROVE Right
  BY <1>1, <1>7 DEF AnswerAlready, HoldPhoto
<1>8. ASSUME NEW s \in Request,
             SaveRecord(s) \/ QuarantineRecord(s) \/ HoldRecord(s) \/ SavePhoto(s)
      PROVE Right
  BY <1>1, <1>8 DEF SaveRecord, QuarantineRecord, HoldRecord, SavePhoto
<1> QED
  BY <1>2, <1>3, <1>4, <1>5, <1>6, <1>7, <1>8 DEF ServerNext, Works

-----------------------------------------------------------------------------
(* Each part of the invariant is kept.                                     *)

\* What a read comes to is so as it is read.
LEMMA ReadRight ==
  ASSUME ServerTypeOK, RowsByNumber, LedgerAgrees, NEW x \in Thing, NEW asking
  PROVE  ChoiceHolds(x, Asked(x, asking))
<1> USE ThingsAssumption, NumbersAssumption DEF Asking
<1>1. CASE x \in Record
  <2>1. NumberTaken(OwnNumber[x]) =>
          OwnNumber[x] \in Number /\ \E s \in Record : row[s] = OwnNumber[x]
    BY <1>1 DEF NumberTaken
  <2>2. Asked(x, asking) = RecordAsked(x, asking)
    BY <1>1 DEF Asked
  <2>3. ledger[x] = "SAVED" => IsSaved(x)
    BY <1>1 DEF LedgerAgrees
  <2> QED BY <1>1, <2>1, <2>2, <2>3 DEF RecordAsked, ChoiceHolds
<1>2. CASE x \in Photo
  <2>1. Asked(x, asking) = PhotoAsked(x, asking) /\ x \notin Record
    BY <1>2 DEF Asked
  <2>2. ledger[x] = "SAVED" => photoOn[x] # "nowhere"
    BY <1>2 DEF LedgerAgrees
  <2> QED BY <1>2, <2>1, <2>2 DEF PhotoAsked, ChoiceHolds
<1> QED BY <1>1, <1>2 DEF Thing

\* Nothing rests on what is still to be asked.
LEMMA StillAsking == ASSUME NEW x, NEW choice \in Asking PROVE ChoiceHolds(x, choice)
BY DEF ChoiceHolds, Asking

\* A choice that holds is not undone by what is never taken back.
LEMMA ChoiceStays ==
  ASSUME ServerTypeOK, NothingTakenBack, NEW x \in Thing, NEW choice, ChoiceHolds(x, choice)
  PROVE  ChoiceHolds(x, choice)'
<1> USE ThingsAssumption, NumbersAssumption
<1>1. \A r \in Record : IsSaved(r) => IsSaved(r)'
  BY DEF NothingTakenBack, IsSaved
<1>2. CASE x \in Record
  <2>1. \A s \in Record, n \in Number : row[s] = n => row'[s] = n
    BY DEF NothingTakenBack, IsSaved
  <2> QED BY <1>1, <1>2, <2>1 DEF ChoiceHolds, NothingTakenBack
<1>3. CASE x \in Photo
  <2>1. x \notin Record /\ Owner[x] \in Record /\ Owner[x] \in Thing
    BY <1>3 DEF Thing
  <2> QED BY <1>1, <1>3, <2>1 DEF ChoiceHolds, NothingTakenBack
<1> QED BY <1>2, <1>3 DEF Thing

LEMMA ChoicesHoldStep ==
  ServerInv /\ ServerNext => ChoicesHold'
<1> SUFFICES ASSUME ServerInv, ServerNext, NEW q \in Request, Busy(q)'
             PROVE  ChoiceHolds(Current(q), work[q].choice)'
  BY DEF ChoicesHold
<1>1. NothingTakenBack
  BY Grows DEF ServerInv
<1>2. ASSUME NEW c, Busy(q), Current(q) \in Thing, ChoiceHolds(Current(q), c),
             work'[q].todo = work[q].todo, work'[q].choice = c
      PROVE  ChoiceHolds(Current(q), work[q].choice)'
  <2>1. ASSUME NEW x \in Thing, NEW d, x = Current(q), d = c PROVE ChoiceHolds(x, d)'
    BY <1>1, <1>2, <2>1, ChoiceStays DEF ServerInv
  <2>2. Current(q)' = Current(q)
    BY <1>2 DEF Current
  <2> QED BY <1>2, <2>1, <2>2
<1>3. CASE work'[q] = work[q]
  <2>1. Busy(q) /\ Current(q) \in Thing /\ ChoiceHolds(Current(q), work[q].choice)
    BY <1>3, CurrentThing DEF Busy, ChoicesHold, ServerInv
  <2> QED BY <1>2, <1>3, <2>1
<1>4. CASE /\ work'[q].todo = work[q].todo
           /\ work'[q].choice = Asked(Current(q), work[q].choice)
           /\ Busy(q)
  <2>1. Current(q) \in Thing
    BY <1>4, CurrentThing DEF ServerInv
  <2>2. ChoiceHolds(Current(q), Asked(Current(q), work[q].choice))
    BY <2>1, ReadRight DEF ServerInv
  <2> QED BY <1>2, <1>4, <2>1, <2>2
<1>5. CASE work'[q].choice \in Asking
  BY <1>5 DEF ChoiceHolds, Asking
<1> QED BY <1>3, <1>4, <1>5, ChoiceStep DEF ServerInv

LEMMA AnswersBackedStep == ServerInv /\ ServerNext => AnswersBacked'
<1> USE ThingsAssumption, NumbersAssumption
<1> SUFFICES ASSUME ServerInv, ServerNext, NEW q \in Request, NEW x \in Thing
             PROVE  Backed(x, work[q].told[x])'
  BY DEF AnswersBacked
<1>1. CASE work'[q].told[x] = work[q].told[x]
  <2>1. Backed(x, work[q].told[x]) /\ NothingTakenBack
    BY Grows DEF ServerInv, AnswersBacked
  <2>2. \A r \in Record : IsSaved(r) => IsSaved(r)'
    BY <2>1 DEF NothingTakenBack, IsSaved
  <2> QED BY <1>1, <2>1, <2>2 DEF Backed, NothingTakenBack, Thing
<1> QED BY <1>1, ToldStep DEF ServerInv

LEMMA NumberHeldOnceStep == ServerInv /\ ServerNext => NumberHeldOnce'
<1> USE ThingsAssumption, NumbersAssumption
<1> SUFFICES ASSUME ServerInv, ServerNext PROVE NumberHeldOnce'
  OBVIOUS
<1>1. CASE row' = row
  BY <1>1 DEF ServerInv, NumberHeldOnce
<1>2. ASSUME NEW r \in Record, NEW n \in Number \cup {NoNumber}, RowWritten(r, n)
      PROVE NumberHeldOnce'
  <2>1. \A s \in Record : row'[s] = IF s = r THEN n ELSE row[s]
    BY <1>2 DEF RowWritten, ServerInv, ServerTypeOK
  <2>2. n \in Number => \A s \in Record : row[s] # n
    BY <1>2 DEF RowWritten, NumberTaken
  <2> QED BY <2>1, <2>2 DEF ServerInv, NumberHeldOnce
<1> QED BY <1>1, <1>2, RowStep DEF ServerInv

\* A record goes to quarantine for another's row, or for its own that a person saved.
LEMMA QuarantineStep ==
  ASSUME ServerInv, ServerNext, NEW r \in Record, quarantined[r] = "no", quarantined'[r] # "no"
  PROVE  /\ OwnNumber[r] \in Number
         /\ \E s \in Record : row[s] = OwnNumber[r] /\ (s = r => held[r] = "saved")
<1> USE ThingsAssumption, NumbersAssumption
<1>1. PICK q \in Request : QuarantineRecord(q)
  BY DEF ServerInv, ServerTypeOK, ServerNext, Works, Review, Around, ReadNext, AnswerAlready,
         SaveRecord, TakeAgain, HoldRecord, SavePhoto, HoldPhoto, MetOnceTooOften, Fails, Answered, Arrives,
         Renumber, SecondCopy, SaveHeldRecord, SaveHeldPhoto, CloseHeld, Mended, ProjectCloses,
         ProjectReopens, tables
<1>2. r = Current(q)
  BY <1>1 DEF QuarantineRecord, ServerInv, ServerTypeOK
<1>3. ChoiceHolds(r, "quarantine")
  BY <1>1, <1>2 DEF QuarantineRecord, ServerInv, ChoicesHold
<1>4. PICK s \in Record : row[s] = OwnNumber[r] /\ OwnNumber[r] \in Number
  BY <1>3 DEF ChoiceHolds
<1>5. CASE s = r
  <2>1. IsSaved(r) /\ ledger[r] = "none"
    BY <1>1, <1>2, <1>4, <1>5 DEF QuarantineRecord, MeetsAnother, IsSaved
  <2>2. held[r] = "saved"
    BY <2>1 DEF ServerInv, LedgerAgrees
  <2> QED BY <1>4, <1>5, <2>2
<1> QED BY <1>4, <1>5

\* What a person saved stays saved.
LEMMA SavedByAPersonStays ==
  ASSUME ServerTypeOK, ServerNext, NEW x \in Thing, held[x] = "saved"
  PROVE  held'[x] = "saved"
BY DEF ServerNext, Works, Review, Around, ReadNext, AnswerAlready, SaveRecord, QuarantineRecord,
       TakeAgain, HoldRecord, SavePhoto, HoldPhoto, MetOnceTooOften, Fails, Answered, Arrives,
       Renumber, SecondCopy, SaveHeldRecord, SaveHeldPhoto, CloseHeld, Mended, ProjectCloses,
       ProjectReopens, tables, ServerTypeOK, HoldsForAPerson

LEMMA RowsByNumberStep == ServerInv /\ ServerNext => RowsByNumber'
<1> USE ThingsAssumption, NumbersAssumption
<1> SUFFICES ASSUME ServerInv, ServerNext, NEW r \in Record
             PROVE  /\ (IsSaved(r) => (row[r] = NoNumber <=> OwnNumber[r] = NoNumber))'
                    /\ (quarantined[r] # "no")' => OwnNumber[r] \in Number
  BY DEF RowsByNumber
<1>1. (IsSaved(r) => (row[r] = NoNumber <=> OwnNumber[r] = NoNumber))'
  <2>1. CASE row' = row
    BY <2>1 DEF ServerInv, RowsByNumber, IsSaved
  <2>2. ASSUME NEW s \in Record, NEW n \in Number \cup {NoNumber}, RowWritten(s, n)
        PROVE (IsSaved(r) => (row[r] = NoNumber <=> OwnNumber[r] = NoNumber))'
    BY <2>2 DEF RowWritten, ServerInv, ServerTypeOK, RowsByNumber, IsSaved
  <2> QED BY <2>1, <2>2, RowStep DEF ServerInv
<1>2. (quarantined[r] # "no")' => OwnNumber[r] \in Number
  BY QuarantineStep DEF ServerInv, RowsByNumber
<1> QED BY <1>1, <1>2

LEMMA QuarantinedByAnotherStep == ServerInv /\ ServerNext => QuarantinedByAnother'
<1> USE ThingsAssumption, NumbersAssumption
<1> SUFFICES ASSUME ServerInv, ServerNext, NEW r \in Record, quarantined'[r] # "no"
             PROVE  \E s \in Record : row'[s] = OwnNumber[r] /\ (s = r => held'[r] = "saved")
  BY DEF QuarantinedByAnother
<1>1. PICK s \in Record : /\ row[s] = OwnNumber[r] /\ OwnNumber[r] \in Number
                          /\ s = r => held[r] = "saved"
  <2>1. CASE quarantined[r] = "no"
    BY <2>1, QuarantineStep
  <2>2. CASE quarantined[r] # "no"
    BY <2>2 DEF ServerInv, QuarantinedByAnother, RowsByNumber
  <2> QED BY <2>1, <2>2
<1>2. row'[s] = row[s]
  BY <1>1, Grows DEF ServerInv, IsSaved, NothingTakenBack
<1>3. held[r] = "saved" => held'[r] = "saved"
  BY SavedByAPersonStays DEF ServerInv, Thing
<1> QED BY <1>1, <1>2, <1>3

LEMMA LedgerAgreesStep == ServerInv /\ ServerNext => LedgerAgrees'
<1> USE ThingsAssumption, NumbersAssumption
<1> SUFFICES ASSUME ServerInv, ServerNext PROVE LedgerAgrees'
  OBVIOUS
<1> USE DEF Thing, IsSaved
<1>1. ASSUME NEW q \in Request, SaveRecord(q) PROVE LedgerAgrees'
  <2>1. Current(q) \in Record /\ OwnNumber[Current(q)] \in Number \cup {NoNumber}
    BY <1>1, CurrentRecord DEF SaveRecord, ServerInv, Unread
  <2>2. /\ row' = [row EXCEPT ![Current(q)] = OwnNumber[Current(q)]]
        /\ ledger' = [ledger EXCEPT ![Current(q)] = "SAVED"]
        /\ UNCHANGED <<photoOn, quarantined, held>>
        /\ ledger[Current(q)] = "none"
    BY <1>1 DEF SaveRecord, MeetsAnother
  <2> QED BY <2>1, <2>2 DEF ServerInv, ServerTypeOK, LedgerAgrees
<1>2. ASSUME NEW q \in Request, QuarantineRecord(q) PROVE LedgerAgrees'
  <2>1. Current(q) \in Record
    BY <1>2, CurrentRecord DEF QuarantineRecord, ServerInv, Unread
  <2>2. /\ quarantined' = [quarantined EXCEPT ![Current(q)] = "waiting"]
        /\ ledger' = [ledger EXCEPT ![Current(q)] = "QUARANTINED"]
        /\ UNCHANGED <<row, photoOn, held>>
        /\ ledger[Current(q)] = "none"
    BY <1>2 DEF QuarantineRecord, MeetsAnother
  <2> QED BY <2>1, <2>2 DEF ServerInv, ServerTypeOK, LedgerAgrees
<1>3. ASSUME NEW q \in Request, SavePhoto(q) PROVE LedgerAgrees'
  <2>1. Current(q) \in Photo /\ Place[work[q].choice] # "nowhere"
    BY <1>3, CurrentRecord DEF SavePhoto, ServerInv, Unread, Place
  <2> QED BY <1>3, <2>1 DEF SavePhoto, ServerInv, ServerTypeOK, LedgerAgrees
<1>4. ASSUME NEW q \in Request, HoldRecord(q) \/ HoldPhoto(q) PROVE LedgerAgrees'
  <2>1. /\ UNCHANGED <<row, photoOn, ledger, quarantined>>
        /\ \A x \in Thing : held[x] = "saved" => held'[x] = "saved"
    BY <1>4 DEF HoldRecord, HoldPhoto, HoldsForAPerson, ServerInv, ServerTypeOK
  <2> QED BY <2>1 DEF ServerInv, LedgerAgrees
<1>5. ASSUME NEW r \in Record, NEW n \in Number \cup {NoNumber}, Renumber(r, n)
      PROVE LedgerAgrees'
  <2>1. \A p \in Photo : photoOn'[p] # "nowhere" => photoOn[p] # "nowhere"
    BY <1>5 DEF Renumber, ServerInv, ServerTypeOK
  <2>2. \A p \in Photo : photoOn[p] # "nowhere" => photoOn'[p] # "nowhere"
    BY <1>5 DEF Renumber
  <2>3. /\ row' = [row EXCEPT ![r] = n]
        /\ quarantined' = [quarantined EXCEPT ![r] = "renumbered"]
        /\ UNCHANGED <<ledger, held>>
        /\ quarantined[r] = "waiting" /\ n \in Number
    BY <1>5 DEF Renumber
  <2> QED BY <2>1, <2>2, <2>3 DEF ServerInv, ServerTypeOK, LedgerAgrees
<1>6. ASSUME NEW r \in Record, NEW n \in Number \cup {NoNumber}, SaveHeldRecord(r, n)
      PROVE LedgerAgrees'
  <2>1. \A p \in Photo : photoOn'[p] # "nowhere" => photoOn[p] # "nowhere"
    BY <1>6 DEF SaveHeldRecord, ServerInv, ServerTypeOK
  <2>2. \A p \in Photo : photoOn[p] # "nowhere" => photoOn'[p] # "nowhere"
    BY <1>6 DEF SaveHeldRecord
  <2>3. /\ row' = [row EXCEPT ![r] = n]
        /\ held' = [held EXCEPT ![r] = "saved"]
        /\ UNCHANGED <<ledger, quarantined>>
    BY <1>6 DEF SaveHeldRecord
  <2> QED BY <2>1, <2>2, <2>3 DEF ServerInv, ServerTypeOK, LedgerAgrees
<1>7. ASSUME NEW p \in Photo, SaveHeldPhoto(p) PROVE LedgerAgrees'
  BY <1>7 DEF SaveHeldPhoto, ServerInv, ServerTypeOK, LedgerAgrees
<1>8. ASSUME NEW r \in Record, SecondCopy(r) PROVE LedgerAgrees'
  BY <1>8 DEF SecondCopy, ServerInv, ServerTypeOK, LedgerAgrees
<1>9. ASSUME NEW x \in Thing, CloseHeld(x) PROVE LedgerAgrees'
  BY <1>9 DEF CloseHeld, ServerInv, ServerTypeOK, LedgerAgrees
<1>10. CASE UNCHANGED tables
  BY <1>10 DEF tables, ServerInv, LedgerAgrees
<1> QED
  BY <1>1, <1>2, <1>3, <1>4, <1>5, <1>6, <1>7, <1>8, <1>9, <1>10
  DEF ServerNext, Works, Review, Around, ReadNext, AnswerAlready, TakeAgain, MetOnceTooOften, Fails, Answered,
      Arrives, Mended, ProjectCloses, ProjectReopens, tables

\* A photograph's row is put on what its reads found, which is still there, and
\* is moved only to a record saved in the same piece of work.
LEMMA PhotographOnSomethingStep == ServerInv /\ ServerNext => PhotographOnSomething'
<1> USE ThingsAssumption, NumbersAssumption
<1> SUFFICES ASSUME ServerInv, ServerNext, NEW p \in Photo
             PROVE  /\ photoOn'[p] = "record" => IsSaved(Owner[p])'
                    /\ photoOn'[p] = "quarantined" => quarantined'[Owner[p]] # "no"
                    /\ photoOn'[p] = "held" => held'[Owner[p]] # "no"
  BY DEF PhotographOnSomething
<1> DEFINE Right == /\ photoOn'[p] = "record" => IsSaved(Owner[p])'
                    /\ photoOn'[p] = "quarantined" => quarantined'[Owner[p]] # "no"
                    /\ photoOn'[p] = "held" => held'[Owner[p]] # "no"
<1>1. /\ Owner[p] \in Record /\ Owner[p] \in Thing /\ p \notin Record
      /\ IsSaved(Owner[p]) => IsSaved(Owner[p])'
      /\ quarantined[Owner[p]] # "no" => quarantined'[Owner[p]] # "no"
      /\ held[Owner[p]] # "no" => held'[Owner[p]] # "no"
  BY Grows DEF ServerInv, NothingTakenBack, IsSaved, Thing
<1>2. CASE photoOn'[p] = photoOn[p]
  BY <1>1, <1>2 DEF ServerInv, PhotographOnSomething
<1>3. ASSUME NEW q \in Request, SavePhoto(q), p = Current(q) PROVE Right
  <2>1. ChoiceHolds(p, work[q].choice) /\ p \in Thing
    BY <1>3, CurrentThing DEF SavePhoto, Place, ServerInv, ChoicesHold, Unread, Thing
  <2>2. photoOn'[p] = Place[work[q].choice]
    BY <1>3 DEF SavePhoto, ServerInv, ServerTypeOK
  <2>3. work[q].choice \in {"onRecord", "onQuarantined", "onHeld"}
    BY <1>3 DEF SavePhoto, Place
  <2> QED BY <1>1, <2>1, <2>2, <2>3 DEF ChoiceHolds, Place
<1>4. ASSUME NEW r \in Record, NEW n \in Number \cup {NoNumber}, Renumber(r, n) PROVE Right
  <2>1. row'[r] = n /\ n \in Number
    BY <1>4 DEF Renumber, ServerInv, ServerTypeOK
  <2>2. CASE Owner[p] = r /\ photoOn[p] = "quarantined"
    BY <1>4, <2>1, <2>2 DEF Renumber, IsSaved
  <2>3. CASE ~(Owner[p] = r /\ photoOn[p] = "quarantined")
    BY <1>2, <1>4, <2>3 DEF Renumber
  <2> QED BY <2>2, <2>3
<1>5. ASSUME NEW r \in Record, NEW n \in Number \cup {NoNumber}, SaveHeldRecord(r, n)
      PROVE Right
  <2>1. row'[r] = n /\ n # NotSaved
    BY <1>5 DEF SaveHeldRecord, ServerInv, ServerTypeOK
  <2>2. CASE Owner[p] = r /\ photoOn[p] = "held"
    BY <1>5, <2>1, <2>2 DEF SaveHeldRecord, IsSaved
  <2>3. CASE ~(Owner[p] = r /\ photoOn[p] = "held")
    BY <1>2, <1>5, <2>3 DEF SaveHeldRecord
  <2> QED BY <2>2, <2>3
<1>6. ASSUME SaveHeldPhoto(p) PROVE Right
  <2>1. CASE photoOn' = photoOn
    BY <1>2, <2>1
  <2>2. CASE quarantined[Owner[p]] # "no" /\ photoOn'[p] = "quarantined"
    BY <1>1, <2>2
  <2>3. CASE IsSaved(Owner[p]) /\ photoOn'[p] = "record"
    BY <1>1, <2>3
  <2> QED BY <1>6, <2>1, <2>2, <2>3 DEF SaveHeldPhoto, ServerInv, ServerTypeOK
<1>7. ASSUME NEW q \in Request, SavePhoto(q), p # Current(q) PROVE Right
  BY <1>2, <1>7 DEF SavePhoto, ServerInv, ServerTypeOK
<1>8. ASSUME NEW o \in Photo, SaveHeldPhoto(o), o # p PROVE Right
  BY <1>2, <1>8 DEF SaveHeldPhoto, ServerInv, ServerTypeOK
<1>9. CASE photoOn' = photoOn
  BY <1>2, <1>9
<1> QED
  BY <1>3, <1>4, <1>5, <1>6, <1>7, <1>8, <1>9
  DEF ServerNext, Works, Review, Around, ReadNext, AnswerAlready, SaveRecord, QuarantineRecord,
      TakeAgain, HoldRecord, HoldPhoto, MetOnceTooOften, Fails, Answered, Arrives, SecondCopy, CloseHeld, Mended,
      ProjectCloses, ProjectReopens, tables

-----------------------------------------------------------------------------
(* The theorems.                                                           *)

LEMMA ServerInvInit == ServerInit => ServerInv
<1> USE ThingsAssumption, NumbersAssumption
<1> SUFFICES ASSUME ServerInit PROVE ServerInv
  OBVIOUS
<1>1. Idle \in Working
  BY DEF Idle, Working, TakesAtMost, Unread, Asking
<1>2. ServerTypeOK
  <2>1. \A x \in Thing, q \in Request : work[q] = Idle
    BY DEF ServerInit
  <2> QED BY <1>1 DEF ServerInit, ServerTypeOK
<1>3. \A r \in Record : ~IsSaved(r) /\ row[r] \notin Number
  BY DEF ServerInit, IsSaved
<1>4. \A q \in Request : ~Busy(q) /\ \A x \in Thing : work[q].told[x] = Nothing
  BY DEF ServerInit, Busy, Idle
<1>5. AnswersBacked
  BY <1>4 DEF AnswersBacked, Backed, Nothing, StoredAnswer
<1>6. ChoicesHold /\ NumberHeldOnce
  BY <1>3, <1>4 DEF ChoicesHold, NumberHeldOnce
<1>7. RowsByNumber /\ QuarantinedByAnother
  BY <1>3 DEF RowsByNumber, QuarantinedByAnother, ServerInit
<1>8. LedgerAgrees /\ PhotographOnSomething
  BY <1>3 DEF LedgerAgrees, PhotographOnSomething, ServerInit, Thing
<1> QED BY <1>2, <1>5, <1>6, <1>7, <1>8 DEF ServerInv

LEMMA ServerInvStutter == ServerInv /\ UNCHANGED serverVars => ServerInv'
BY DEF ServerInv, serverVars, ServerTypeOK, NumberHeldOnce, RowsByNumber, ChoicesHold, ChoiceHolds,
       AnswersBacked, Backed, LedgerAgrees, QuarantinedByAnother, PhotographOnSomething, IsSaved,
       Busy, Current

\* What every step keeps.
LEMMA ServerInvStep == ServerInv /\ ServerNext => ServerInv'
BY TypeStep, NumberHeldOnceStep, RowsByNumberStep, ChoicesHoldStep, AnswersBackedStep,
   LedgerAgreesStep, QuarantinedByAnotherStep, PhotographOnSomethingStep
DEF ServerInv

\* The server's tables and the requests it works are always of their types.
THEOREM ServerTypes == ServerSpec => []ServerTypeOK
<1>1. ServerInit => ServerTypeOK
  BY ServerInvInit DEF ServerInv
<1>2. ServerTypeOK /\ [ServerNext]_serverVars => ServerTypeOK'
  BY TypeStep
<1> QED BY <1>1, <1>2, PTL DEF ServerSpec

\* The whole invariant: a number is one record's, an answer given is true of the
\* tables, the ledger and the tables agree, a record is quarantined for another's row
\* (or for its own that a person saved), a photograph belongs to what is there
\* (`Sync.received` and `Intake`, a statement a step, under overlapping requests, and
\* the reviewer's acts).
THEOREM ServerSafe == ServerSpec => []ServerInv
<1>1. ServerInv /\ [ServerNext]_serverVars => ServerInv'
  BY ServerInvStep, ServerInvStutter
<1> QED BY ServerInvInit, <1>1, PTL DEF ServerSpec

\* Two rows never hold one number, whatever races (intake.ts fieldEvent and roe,
\* quarantine-review.ts renumber, held-review.ts save).
THEOREM NumbersHeldOnce == ServerSpec => []NumberHeldOnce
<1>1. ServerInv => NumberHeldOnce
  BY DEF ServerInv
<1> QED BY ServerSafe, <1>1, PTL

\* What a request answers is there and stays there (sync.ts record, photo,
\* certification, held).
THEOREM EveryAnswerBacked == ServerSpec => []AnswersBacked
<1>1. ServerInv => AnswersBacked
  BY DEF ServerInv
<1> QED BY ServerSafe, <1>1, PTL

\* The idempotency ledger says what the tables hold (ledger.ts ledgerRow).
THEOREM LedgerAlwaysAgrees == ServerSpec => []LedgerAgrees
<1>1. ServerInv => LedgerAgrees
  BY DEF ServerInv
<1> QED BY ServerSafe, <1>1, PTL

\* A retry never meets a row its own sync saved as a duplicate number (KD-56), however the
\* statements of the two interleave: the ledger's key refuses it.  The row a person saved of
\* the record held is in no ledger, and is the one exception.
THEOREM RetryNeverQuarantined == ServerSpec => []QuarantinedByAnother
<1>1. ServerInv => QuarantinedByAnother
  BY DEF ServerInv
<1> QED BY ServerSafe, <1>1, PTL

\* A photograph's row belongs to a record saved, quarantined or held.
THEOREM PhotographsOnSomething == ServerSpec => []PhotographOnSomething
<1>1. ServerInv => PhotographOnSomething
  BY DEF ServerInv
<1> QED BY ServerSafe, <1>1, PTL

\* A row saved is never written over by a retry, a later record or a reviewer.
THEOREM RowsNeverWrittenOver == ServerSpec => NeverWrittenOver
<1>1. ServerInv /\ [ServerNext]_serverVars =>
        [\A r \in Record : IsSaved(r) => row'[r] = row[r]]_serverVars
  BY Grows DEF ServerInv, NothingTakenBack
<1> QED BY ServerSafe, <1>1, PTL DEF ServerSpec, NeverWrittenOver

\* A record there stands on what it points at, save where a person saved it as corrected:
\* a row comes only where the receipt's is there, and none is ever taken back.
LEMMA DisposalStep ==
  ServerInv /\ DisposalOnItsReceipt /\ [ServerNext]_serverVars => DisposalOnItsReceipt'
<1> USE ThingsAssumption, NumbersAssumption
<1>1. ASSUME DisposalOnItsReceipt, UNCHANGED serverVars PROVE DisposalOnItsReceipt'
  BY <1>1 DEF DisposalOnItsReceipt, serverVars, IsSaved
<1>2. ASSUME ServerInv, DisposalOnItsReceipt, ServerNext,
             NEW r \in Record, IsSaved(r)', held'[r] # "saved", NEW s \in PointsAt[r]
      PROVE  IsSaved(s)'
  <2>1. NothingTakenBack /\ s \in Record /\ r \in Thing
    BY <1>2, Grows DEF ServerInv, Thing
  <2>2. SUFFICES IsSaved(s)
    BY <2>1 DEF NothingTakenBack, IsSaved
  <2>3. held[r] # "saved"
    BY <1>2, <2>1
    DEF ServerNext, Works, Review, Around, ReadNext, AnswerAlready, SaveRecord, QuarantineRecord,
        TakeAgain, HoldRecord, SavePhoto, HoldPhoto, MetOnceTooOften, Fails, Answered, Arrives,
        Renumber, SecondCopy, SaveHeldRecord, SaveHeldPhoto, CloseHeld, Mended, ProjectCloses,
        ProjectReopens, tables, ServerInv, ServerTypeOK, HoldsForAPerson
  <2>4. CASE IsSaved(r)
    BY <1>2, <2>3, <2>4 DEF DisposalOnItsReceipt
  <2>5. CASE ~IsSaved(r)
    <3>1. row'[r] # row[r]
      BY <1>2, <2>5 DEF IsSaved
    <3>2. ASSUME NEW q \in Request, SaveRecord(q) PROVE IsSaved(s)
      <4>1. Current(q) = r
        BY <3>1, <3>2 DEF SaveRecord, ServerInv, ServerTypeOK
      <4> QED BY <3>2, <4>1 DEF SaveRecord, Stands
    <3>3. ASSUME NEW t \in Record, NEW n, Renumber(t, n) PROVE IsSaved(s)
      <4>1. t = r
        BY <3>1, <3>3 DEF Renumber, ServerInv, ServerTypeOK
      <4> QED BY <3>3, <4>1 DEF Renumber, Stands
    <3>4. ASSUME NEW t \in Record, NEW n, SaveHeldRecord(t, n) PROVE IsSaved(s)
      <4>1. t = r
        BY <3>1, <3>4 DEF SaveHeldRecord, ServerInv, ServerTypeOK
      <4> QED BY <1>2, <2>1, <3>4, <4>1 DEF SaveHeldRecord, ServerInv, ServerTypeOK
    <3> QED
      BY <1>2, <3>1, <3>2, <3>3, <3>4
      DEF ServerNext, Works, Review, Around, ReadNext, AnswerAlready, QuarantineRecord, TakeAgain,
          HoldRecord, SavePhoto, HoldPhoto, MetOnceTooOften, Fails, Answered, Arrives, SecondCopy,
          SaveHeldPhoto, CloseHeld, Mended, ProjectCloses, ProjectReopens, tables
  <2> QED BY <2>4, <2>5
<1>3. ServerInv /\ DisposalOnItsReceipt /\ ServerNext => DisposalOnItsReceipt'
  BY <1>2 DEF DisposalOnItsReceipt
<1> QED BY <1>1, <1>3

\* A disposal is never there without the scale receipt it points at, however the two came,
\* unless a person saved it as corrected (intake.ts, held-review.ts save).
THEOREM DisposalsOnTheirReceipts == ServerSpec => []DisposalOnItsReceipt
<1>1. ServerInit => DisposalOnItsReceipt
  BY NumbersAssumption DEF ServerInit, DisposalOnItsReceipt, IsSaved
<1> QED BY ServerSafe, DisposalStep, <1>1, PTL DEF ServerSpec
=============================================================================
