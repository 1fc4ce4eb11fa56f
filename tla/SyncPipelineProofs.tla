------------------------- MODULE SyncPipelineProofs -------------------------
(***************************************************************************)
(* What one phone and the server keep together, for any number of things   *)
(* captured, of overlapping requests and of tries, whatever is lost on the *)
(* way; and that it is a delivery.                                         *)
(***************************************************************************)
EXTENDS SyncPipeline, SyncServerProofs, Folding

-----------------------------------------------------------------------------
(* The next sync: what the folds behind it come to.                        *)

\* What things are asked for in the order kept is of those things.
LEMMA InOrderKeptType == ASSUME NEW things PROVE InOrderKept(things) \in Seq(things)
<1> DEFINE n == Len(Sealed)
           T == Seq(things)
           Add(ordered, k) == IF Sealed[k] \in things THEN Append(ordered, Sealed[k]) ELSE ordered
           G == [k \in 1 .. n |-> [ordered \in T |-> Add(ordered, k)]]
           To(f, k) == IF k = 0 THEN << >> ELSE Add(f[k - 1], k)
           Is(f) == f = [k \in 0 .. n |-> To(f, k)]
           first == CHOOSE f : Is(f)
<1>1. n \in Nat
  BY OutboxAssumption, FlattenSeqType, LenProperties DEF Sealed
<1>2. << >> \in T /\ \A k : \A ordered \in T : Add(ordered, k) \in T
  BY AppendProperties
<1>3. G \in [1 .. n -> [T -> T]]
  <2> HIDE DEF T, Add, n
  <2> QED BY <1>2
<1>4. PICK f \in [0 .. n -> T] : Steps(f, n, << >>, G)
  <2> HIDE DEF T, G, n
  <2> QED BY <1>1, <1>2, <1>3, StepsExist
<1>5. Is(f)
  <2>1. ASSUME NEW k \in 0 .. n PROVE f[k] = To(f, k)
    <3>1. CASE k = 0
      BY <1>4, <3>1 DEF Steps
    <3>2. CASE k # 0
      <4>1. k \in 1 .. n /\ k - 1 \in 0 .. n
        BY <1>1, <3>2
      <4>2. f[k] = G[k][f[k - 1]] /\ f[k - 1] \in T
        <5> HIDE DEF T, G, n
        <5> QED BY <1>4, <4>1 DEF Steps
      <4>3. G[k][f[k - 1]] = Add(f[k - 1], k)
        <5> HIDE DEF T, Add, n
        <5> QED BY <4>1, <4>2
      <4> QED BY <3>2, <4>2, <4>3
    <3> QED BY <3>1, <3>2
  <2> HIDE DEF To, n, T
  <2> QED BY <1>4, <2>1
<1>6. Is(first)
  <2> HIDE DEF Is
  <2> QED BY <1>5
<1>7. \A k \in 0 .. n : first[k] = To(first, k)
  <2> HIDE DEF To, first, n
  <2> QED BY <1>6
<1> DEFINE P == {k \in Nat : k <= n => first[k] \in T}
<1>8. 0 \in P
  <2> HIDE DEF first, T
  <2> QED BY <1>1, <1>2, <1>7
<1>9. ASSUME NEW k \in Nat, k \in P PROVE k + 1 \in P
  <2>1. SUFFICES ASSUME k + 1 <= n PROVE first[k + 1] \in T
    <3> HIDE DEF first, T, n
    <3> QED OBVIOUS
  <2>2. k + 1 \in 0 .. n /\ k + 1 # 0 /\ (k + 1) - 1 = k /\ k <= n
    BY <1>1, <2>1
  <2>3. first[k + 1] = Add(first[k], k + 1) /\ first[k] \in T
    <3> HIDE DEF first, T, n, Add
    <3> QED BY <1>7, <1>9, <2>2
  <2> HIDE DEF first, T, n, Add
  <2> QED BY <1>2, <2>3
<1>10. first[n] \in T
  <2>1. Nat \subseteq P
    <3> HIDE DEF P
    <3> QED BY <1>8, <1>9, NatSetInduction
  <2> HIDE DEF first, T, n
  <2> QED BY <1>1, <2>1
<1> QED BY <1>10 DEF InOrderKept

\* A record put in its turn: the others' order kept, none lost and none come by.
LEMMA PutInTurnType ==
  ASSUME NEW A, NEW ordered \in Seq(A), NEW r \in A
  PROVE  PutInTurn(ordered, r) \in Seq(A)
<1> DEFINE pointing == {i \in DOMAIN ordered : r \in PointsAt[ordered[i]]}
<1>1. DOMAIN ordered = 1 .. Len(ordered) /\ pointing \in SUBSET Nat
  BY LenProperties
<1>2. CASE pointing = {}
  BY <1>2, AppendProperties DEF PutInTurn
<1>3. CASE pointing # {}
  <2>1. \E i \in pointing : \A j \in pointing : i <= j
    <3> HIDE DEF pointing
    <3> QED BY <1>1, <1>3, LeastIsOne
  <2>2. (CHOOSE i \in pointing : \A j \in pointing : i <= j) \in 1 .. Len(ordered)
    <3>1. pointing \subseteq 1 .. Len(ordered)
      BY <1>1
    <3> HIDE DEF pointing
    <3> QED BY <2>1, <3>1
  <2> QED BY <1>3, <2>2, InsertAtType DEF PutInTurn
<1> QED BY <1>2, <1>3

\* What is put in turn, one after another, is of what there was to put.
LEMMA InTurnType ==
  ASSUME NEW A, NEW made \in Seq(A)
  PROVE  FoldLeft(PutInTurn, << >>, made) \in Seq(A)
<1> DEFINE n == Len(made)
           T == Seq(A)
           G == [i \in 1 .. n |-> [ordered \in T |-> PutInTurn(ordered, made[i])]]
           Is(f) == f = [d \in SUBSET (1 .. n) |->
                           IF d = {} THEN << >> ELSE PutInTurn(f[d \ {Max(d)}], made[Max(d)])]
           iter == CHOOSE f : Is(f)
<1>1. /\ n \in Nat /\ IsFiniteSet(1 .. n) /\ DOMAIN made = 1 .. n
      /\ \A i \in 1 .. n : made[i] \in A
  BY FS_Interval, ElementOfSeq
<1>2. \A d \in SUBSET (1 .. n) : d # {} => Max(d) \in d
  BY <1>1, MaxIsOne
<1>3. << >> \in T /\ \A x \in A : \A ordered \in T : PutInTurn(ordered, x) \in T
  BY PutInTurnType
<1>4. G \in [1 .. n -> [T -> T]]
  <2> HIDE DEF T, n
  <2> QED BY <1>1, <1>3
<1>5. PICK f \in [SUBSET (1 .. n) -> T] : FoldsLeft(f, n, << >>, G)
  <2> HIDE DEF T, G, n
  <2> QED BY <1>1, <1>3, <1>4, FoldLeftExists
<1>6. Is(f)
  <2>1. ASSUME NEW d \in SUBSET (1 .. n), d # {}
        PROVE f[d] = PutInTurn(f[d \ {Max(d)}], made[Max(d)])
    <3>1. Max(d) \in 1 .. n /\ d \ {Max(d)} \in SUBSET (1 .. n)
      BY <1>2, <2>1
    <3> HIDE DEF T, n
    <3> QED BY <1>5, <2>1, <3>1 DEF FoldsLeft
  <2>2. f[{}] = << >>
    BY <1>5 DEF FoldsLeft
  <2> HIDE DEF n, T
  <2> QED BY <2>1, <2>2
<1>7. Is(iter)
  <2> HIDE DEF Is
  <2> QED BY <1>6
<1>8. iter[1 .. n] \in T
  <2> DEFINE C == [d \in SUBSET (1 .. n) |-> Max(d)]
  <2>1. ChoosesFrom(C, 1 .. n)
    BY <1>2 DEF ChoosesFrom
  <2>2. iter[{}] \in T
    <3> HIDE DEF T, iter, n
    <3> QED BY <1>3, <1>7
  <2>3. ASSUME NEW d \in SUBSET (1 .. n), d # {}, iter[d \ {C[d]}] \in T
        PROVE iter[d] \in T
    <3>1. iter[d] = PutInTurn(iter[d \ {Max(d)}], made[Max(d)])
      <4> HIDE DEF T, iter, n
      <4> QED BY <1>7, <2>3
    <3>2. made[Max(d)] \in A
      BY <1>1, <1>2, <2>3
    <3> HIDE DEF T, iter, n
    <3> QED BY <1>3, <2>3, <3>1, <3>2
  <2> HIDE DEF T, C, iter, n
  <2> QED BY <1>1, <2>1, <2>2, <2>3, FoldType
<1> QED BY <1>1, <1>8 DEF FoldLeft, MapThenFoldSet

\* The first of some things.
LEMMA FirstOfType ==
  ASSUME NEW A, NEW things \in Seq(A), NEW most \in Nat
  PROVE  FirstOf(things, most) \in Seq(A)
<1>1. Len(things) \in Nat /\ \A i \in 1 .. Len(things) : things[i] \in A
  BY ElementOfSeq, LenProperties
<1> DEFINE n == IF Len(things) < most THEN Len(things) ELSE most
<1>2. n \in Int /\ \A i \in 1 .. n : things[i] \in A
  BY <1>1
<1>3. SubSeq(things, 1, n) \in Seq(A)
  <2> HIDE DEF n
  <2> QED BY <1>2, SubSeqProperties
<1> QED BY <1>3 DEF FirstOf

\* A sync carries only what is listed and not said to be stored: what waits, or goes again.
LEMMA SendsType == Sends \in Seq(WaitingNow \cup GoesAgain)
<1> DEFINE Going == WaitingNow \cup GoesAgain
<1>1. ASSUME NEW A, NEW B, A \subseteq B, NEW s \in Seq(A) PROVE s \in Seq(B)
  BY <1>1
<1>2. ASSUME NEW W \in SUBSET Going PROVE InOrderKept(W) \in Seq(Going)
  BY <1>1, InOrderKeptType
<1>3. RecordsGoing \in Seq(Going)
  <2>1. InOrderKept(WaitingNow \cap Record) \o InOrderKept(GoesAgain \cap Record) \in Seq(Going)
    BY <1>2, ConcatProperties
  <2>2. RecordsInTurn \in Seq(Going)
    BY <2>1, InTurnType DEF RecordsInTurn
  <2> QED BY <2>2, FirstOfType, OutboxAssumption DEF RecordsGoing
<1>4. PhotosGoing \in Seq(Going)
  <2> DEFINE W(things) == {p \in things \cap Photo : ~StaysWithRecord(p)}
  <2>1. InOrderKept(W(WaitingNow)) \o InOrderKept(W(GoesAgain)) \in Seq(Going)
    <3>1. W(WaitingNow) \in SUBSET Going /\ W(GoesAgain) \in SUBSET Going
      OBVIOUS
    <3> HIDE DEF W, Going
    <3> QED BY <1>2, <3>1, ConcatProperties
  <2> QED BY <2>1, FirstOfType, OutboxAssumption DEF PhotosGoing
<1> QED BY <1>3, <1>4, ConcatProperties DEF Sends

\* So, while the list holds only what is not said to be stored, does the sync.
LEMMA SendsNotStored ==
  ASSUME listed \subseteq NotStored
  PROVE  Sends \in Seq(Thing) /\ ToSet(Sends) \subseteq NotStored
<1>1. WaitingNow \cup GoesAgain \subseteq NotStored /\ NotStored \subseteq Thing
  BY DEF WaitingNow, GoesAgain, NotStored
<1>2. \A i \in DOMAIN Sends : Sends[i] \in WaitingNow \cup GoesAgain
  BY SendsType, ElementOfSeq, LenProperties
<1>3. Sends \in Seq(Thing)
  <2> DEFINE A == WaitingNow \cup GoesAgain
  <2>1. A \subseteq Thing /\ Sends \in Seq(A)
    BY <1>1, SendsType
  <2> HIDE DEF A
  <2> QED BY <2>1
<1> QED BY <1>1, <1>2, <1>3 DEF ToSet

-----------------------------------------------------------------------------
(* The server's half, with a phone before it.                              *)

\* A sync of any things that arrives leaves the server's invariant.
LEMMA ArrivalKeeps ==
  ASSUME ServerInv, NEW q \in Request, NEW things \in Seq(Thing), Arrives(q, things)
  PROVE  ServerInv' /\ NothingTakenBack
<1>1. work[q] = Idle /\ work' = [work EXCEPT ![q].todo = things]
  BY DEF Arrives
<1>2. UNCHANGED <<row, photoOn, ledger, quarantined, held, lacking, isOpen>>
  BY DEF Arrives, tables
<1>3. work'[q] = [Idle EXCEPT !.todo = things] /\ \A p \in Request \ {q} : work'[p] = work[p]
  BY <1>1 DEF ServerInv, ServerTypeOK
<1>4. work'[q] = [todo |-> things, choice |-> Unread, tries |-> 0,
                  told |-> [x \in Thing |-> Nothing]]
  BY <1>3 DEF Idle
<1>5. work'[q] \in Working
  BY <1>4 DEF Working, TakesAtMost, Unread, Asking
<1>6. ServerTypeOK'
  BY <1>1, <1>2, <1>5 DEF ServerInv, ServerTypeOK
<1>7. ChoicesHold'
  <2>1. ASSUME NEW p \in Request, Busy(p)'
        PROVE ChoiceHolds(Current(p), work[p].choice)'
    <3>1. CASE p = q
      BY <1>4, <3>1 DEF ChoiceHolds, Unread, Asking
    <3>2. CASE p # q
      <4>1. Busy(p) /\ work'[p] = work[p]
        BY <1>3, <2>1, <3>2 DEF Busy
      <4> QED BY <1>2, <4>1 DEF ServerInv, ChoicesHold, ChoiceHolds, Current, IsSaved
    <3> QED BY <3>1, <3>2
  <2> QED BY <2>1 DEF ChoicesHold
<1>8. AnswersBacked'
  <2>1. ASSUME NEW p \in Request, NEW x \in Thing PROVE work'[p].told[x] \in {work[p].told[x], Nothing}
    BY <1>3, <1>4
  <2>2. \A x \in Thing : \A a : Backed(x, a) => Backed(x, a)'
    BY <1>2 DEF Backed, IsSaved
  <2>3. \A x \in Thing : Backed(x, Nothing)
    BY DEF Backed, Nothing, StoredAnswer
  <2> QED BY <2>1, <2>2, <2>3 DEF ServerInv, AnswersBacked
<1>9. NumberHeldOnce' /\ RowsByNumber' /\ LedgerAgrees' /\ QuarantinedByAnother' /\ PhotographOnSomething'
  BY <1>2 DEF ServerInv, NumberHeldOnce, RowsByNumber, LedgerAgrees, QuarantinedByAnother,
              PhotographOnSomething, IsSaved
<1> QED BY <1>2, <1>6, <1>7, <1>8, <1>9 DEF ServerInv, NothingTakenBack

\* What an answer says of a thing stays true where nothing is taken back.
LEMMA BackedStays ==
  ASSUME NothingTakenBack, NEW x \in Thing, NEW answer, Backed(x, answer)
  PROVE  Backed(x, answer)'
BY DEF NothingTakenBack, Backed, IsSaved, Thing

\* And what a choice was read from.
LEMMA ChoiceHoldsStays ==
  ASSUME NothingTakenBack, NEW x \in Thing, NEW choice, ChoiceHolds(x, choice)
  PROVE  ChoiceHolds(x, choice)'
<1> USE ThingsAssumption, NumbersAssumption
<1>1. CASE x \in Record
  BY <1>1 DEF NothingTakenBack, ChoiceHolds, IsSaved, Thing
<1>2. CASE x \notin Record
  <2>1. x \in Photo /\ Owner[x] \in Record /\ Owner[x] \in Thing
    BY <1>2 DEF Thing
  <2> QED BY <1>2, <2>1 DEF NothingTakenBack, ChoiceHolds, IsSaved
<1> QED BY <1>1, <1>2

\* Another phone's record, saved under a number none holds.
LEMMA ElsewhereKeeps ==
  ASSUME ServerInv, ElsewhereApart, NEW r \in Elsewhere, SavedElsewhere(r)
  PROVE  ServerInv' /\ NothingTakenBack
<1> USE ThingsAssumption, NumbersAssumption
<1>1. r \in Record /\ OwnNumber[r] \in Number \cup {NoNumber} /\ quarantined[r] = "no"
  BY PipelineAssumption DEF ElsewhereApart
<1>2. /\ ~IsSaved(r) /\ ~NumberTaken(OwnNumber[r])
      /\ row' = [row EXCEPT ![r] = OwnNumber[r]]
      /\ ledger' = [ledger EXCEPT ![r] = "SAVED"]
      /\ UNCHANGED <<photoOn, quarantined, held, lacking, isOpen, work>>
  BY DEF SavedElsewhere
<1>3. /\ \A s \in Record : row'[s] = IF s = r THEN OwnNumber[r] ELSE row[s]
      /\ \A x \in Thing : ledger'[x] = IF x = r THEN "SAVED" ELSE ledger[x]
  BY <1>1, <1>2 DEF ServerInv, ServerTypeOK
<1>4. NothingTakenBack
  BY <1>2, <1>3 DEF NothingTakenBack, IsSaved
<1>5. ServerTypeOK'
  BY <1>1, <1>2 DEF ServerInv, ServerTypeOK
<1>6. NumberHeldOnce'
  BY <1>2, <1>3 DEF ServerInv, NumberHeldOnce, NumberTaken
<1>7. RowsByNumber'
  BY <1>1, <1>2, <1>3 DEF ServerInv, RowsByNumber, IsSaved
<1>8. ChoicesHold'
  <2>1. ASSUME NEW q \in Request, Busy(q)
        PROVE ChoiceHolds(Current(q), work[q].choice)'
    <3>1. Current(q) \in Thing /\ ChoiceHolds(Current(q), work[q].choice)
      BY <2>1, CurrentThing DEF ServerInv, ChoicesHold
    <3>2. Current(q)' = Current(q) /\ work' = work
      BY <1>2 DEF Current
    <3>3. ASSUME NEW c \in Thing, ChoiceHolds(c, work[q].choice)
          PROVE ChoiceHolds(c, work[q].choice)'
      BY <1>4, <3>2, <3>3, ChoiceHoldsStays
    <3> QED BY <3>1, <3>2, <3>3
  <2> QED BY <1>2, <2>1 DEF ChoicesHold, Busy
<1>9. AnswersBacked'
  <2>1. \A q \in Request, x \in Thing : Backed(x, work[q].told[x])
    BY DEF ServerInv, AnswersBacked
  <2>2. \A q \in Request, x \in Thing : Backed(x, work[q].told[x])'
    BY <1>2, <1>4, <2>1, BackedStays
  <2> QED BY <2>2 DEF AnswersBacked
<1>10. LedgerAgrees'
  BY <1>1, <1>2, <1>3 DEF ServerInv, LedgerAgrees, IsSaved, Thing
<1>11. QuarantinedByAnother'
  <2>1. ASSUME NEW t \in Record, quarantined[t] # "no"
        PROVE  \E s \in Record : row'[s] = OwnNumber[t] /\ (s = t => held'[t] = "saved")
    <3>1. PICK s \in Record : /\ row[s] = OwnNumber[t] /\ OwnNumber[t] \in Number
                              /\ s = t => held[t] = "saved"
      BY <2>1 DEF ServerInv, QuarantinedByAnother, RowsByNumber
    <3>2. row'[s] = row[s]
      BY <1>2, <1>3, <3>1 DEF IsSaved
    <3> QED BY <1>2, <3>1, <3>2
  <2> QED BY <1>2, <2>1 DEF QuarantinedByAnother
<1>12. PhotographOnSomething'
  BY <1>1, <1>2, <1>3 DEF ServerInv, PhotographOnSomething, IsSaved
<1> QED BY <1>4, <1>5, <1>6, <1>7, <1>8, <1>9, <1>10, <1>11, <1>12 DEF ServerInv

\* Every step of the pipeline keeps the server's invariant and takes nothing back.
LEMMA ServerHalf ==
  PipelineInv /\ [PipelineNext]_vars => ServerInv' /\ NothingTakenBack
<1> SUFFICES ASSUME PipelineInv, [PipelineNext]_vars PROVE ServerInv' /\ NothingTakenBack
  OBVIOUS
<1>1. ServerInv /\ listed \subseteq NotStored /\ ElsewhereApart
  BY DEF PipelineInv, OnlyNotStoredGoes
<1>2. ASSUME ServerNext PROVE ServerInv' /\ NothingTakenBack
  BY <1>1, <1>2, ServerInvStep, Grows DEF ServerInv
<1>3. ASSUME UNCHANGED serverVars PROVE ServerInv' /\ NothingTakenBack
  BY <1>1, <1>3, ServerInvStutter DEF serverVars, NothingTakenBack
<1>4. ASSUME NEW q \in Request, PhoneSends(q) PROVE ServerInv' /\ NothingTakenBack
  <2>1. Arrives(q, Sends)
    BY <1>4 DEF PhoneSends, NextSyncGoes
  <2> QED BY <1>1, <2>1, ArrivalKeeps, SendsNotStored
<1>5. ASSUME NEW r \in Elsewhere, SavedElsewhere(r) PROVE ServerInv' /\ NothingTakenBack
  BY <1>1, <1>5, ElsewhereKeeps
<1>6. ASSUME NEW q \in Request, Answered(q) PROVE ServerNext
  BY <1>6 DEF ServerNext
<1>7. CASE ServerAlone
  BY <1>2, <1>7 DEF ServerAlone, ServerNext
<1>8. CASE AnswerComes
  <2>1. awaiting \in Request
    BY <1>8 DEF AnswerComes, PipelineInv, PipelineTypeOK
  <2> QED BY <1>2, <1>6, <1>8, <2>1 DEF AnswerComes
<1>9. ASSUME NEW q \in Request, AnswerDropped(q) PROVE ServerInv' /\ NothingTakenBack
  BY <1>2, <1>6, <1>9 DEF AnswerDropped
<1>10. CASE PhoneAlone \/ GivesUp \/ Reopened
  BY <1>3, <1>10 DEF PhoneAlone, GivesUp, Reopened
<1>11. CASE UNCHANGED vars
  BY <1>3, <1>11 DEF vars
<1> QED BY <1>4, <1>5, <1>7, <1>8, <1>9, <1>10, <1>11 DEF PipelineNext

-----------------------------------------------------------------------------
(* A request, from its arrival to its answer.                              *)

\* The things of a sequence: its first, and those of the rest.
LEMMA ToSetTail ==
  ASSUME NEW A, NEW s \in Seq(A), s # << >>
  PROVE  ToSet(s) = {Head(s)} \cup ToSet(Tail(s))
<1>1. /\ Len(s) \in Nat \ {0} /\ DOMAIN s = 1 .. Len(s)
      /\ Tail(s) \in Seq(A) /\ Len(Tail(s)) = Len(s) - 1
      /\ \A i \in 1 .. Len(Tail(s)) : Tail(s)[i] = s[i + 1]
      /\ Head(s) = s[1]
  BY HeadTailProperties, EmptySeq, LenProperties
<1>2. DOMAIN Tail(s) = 1 .. Len(s) - 1
  BY <1>1, LenProperties
<1>3. ASSUME NEW i \in 1 .. Len(s) PROVE s[i] \in {Head(s)} \cup ToSet(Tail(s))
  <2>1. CASE i = 1
    BY <1>1, <2>1
  <2>2. CASE i # 1
    <3>1. i - 1 \in 1 .. Len(s) - 1 /\ (i - 1) + 1 = i
      BY <1>1, <2>2
    <3>2. Tail(s)[i - 1] = s[i]
      BY <1>1, <3>1
    <3> QED BY <1>2, <3>1, <3>2 DEF ToSet
  <2> QED BY <2>1, <2>2
<1>4. ASSUME NEW i \in 1 .. Len(s) - 1 PROVE Tail(s)[i] \in ToSet(s)
  <2>1. i + 1 \in 1 .. Len(s) /\ Tail(s)[i] = s[i + 1]
    BY <1>1
  <2> QED BY <1>1, <2>1 DEF ToSet
<1>5. Head(s) \in ToSet(s)
  BY <1>1 DEF ToSet
<1> QED BY <1>1, <1>2, <1>3, <1>4, <1>5 DEF ToSet

\* Of a request nothing more is asked than was, and until it is gone what it was asked
\* is answered or still to do.
GoesOn(q) ==
  /\ ToSet(work'[q].todo) \subseteq ToSet(work[q].todo)
  /\ work'[q] # Idle =>
       /\ work[q] # Idle
       /\ \A x \in ToSet(work[q].todo) : x \in ToSet(work'[q].todo) \/ work'[q].told[x] # Nothing
       /\ \A x \in Thing : work[q].told[x] # Nothing => work'[q].told[x] # Nothing

LEMMA IdleIsNotBusy ==
  /\ ToSet(Idle.todo) = {} /\ Idle.todo = << >>
  /\ \A q : Busy(q) => work[q] # Idle
BY DEF Idle, ToSet, Busy

\* A request left as it is, and one that is gone.
LEMMA LeftOrGone ==
  ASSUME NEW q \in Request, work'[q] = work[q] \/ work'[q] = Idle
  PROVE  GoesOn(q)
<1>1. CASE work'[q] = work[q]
  BY <1>1 DEF GoesOn
<1>2. CASE work'[q] = Idle
  BY <1>2, IdleIsNotBusy DEF GoesOn
<1> QED BY <1>1, <1>2

\* One thing of it answered.
LEMMA ToldGoesOn ==
  ASSUME ServerTypeOK, NEW s \in Request, NEW q \in Request, Busy(s), NEW answer \in Answer,
         Told(s, answer)
  PROVE  GoesOn(q)
<1>1. CASE q # s
  BY <1>1, LeftOrGone DEF Told, ServerTypeOK
<1>2. CASE q = s
  <2>1. work[s].todo \in Seq(Thing) /\ work[s].todo # << >> /\ Current(s) \in Thing
    BY CurrentThing DEF ServerTypeOK, Working, Busy
  <2>2. ToSet(work[s].todo) = {Current(s)} \cup ToSet(Tail(work[s].todo))
    BY <2>1, ToSetTail DEF Current
  <2>3. work'[s] = [todo |-> Tail(work[s].todo), choice |-> Unread, tries |-> 0,
                    told |-> [work[s].told EXCEPT ![Current(s)] = answer]]
    BY DEF Told, ServerTypeOK
  <2>4. \A x \in Thing : work'[s].told[x] = IF x = Current(s) THEN answer ELSE work[s].told[x]
    BY <2>3 DEF ServerTypeOK, Working
  <2>5. answer # Nothing
    BY DEF Answer, Nothing
  <2> QED BY <1>2, <2>1, <2>2, <2>3, <2>4, <2>5, IdleIsNotBusy DEF GoesOn
<1> QED BY <1>1, <1>2

\* So it is with every step the server takes of itself.
LEMMA RequestsGoOn ==
  ASSUME ServerTypeOK, NEW q \in Request,
         (\E s \in Request : Works(s) \/ Fails(s) \/ Answered(s)) \/ Review \/ Around
  PROVE  GoesOn(q)
<1>1. ASSUME NEW s \in Request, NEW answer \in Answer, Busy(s), Told(s, answer) PROVE GoesOn(q)
  BY <1>1, ToldGoesOn
<1>2. CASE work' = work
  BY <1>2, LeftOrGone
<1>3. ASSUME NEW s \in Request, ReadNext(s) PROVE GoesOn(q)
  <2>1. work'[q] = IF q = s THEN [work[s] EXCEPT !.choice = Asked(Current(s), work[s].choice)]
                   ELSE work[q]
    BY <1>3 DEF ReadNext, ServerTypeOK
  <2>2. work'[q].todo = work[q].todo /\ work'[q].told = work[q].told
    BY <2>1 DEF ServerTypeOK, Working
  <2>3. q = s => work[q] # Idle
    BY <1>3, IdleIsNotBusy DEF ReadNext
  <2>4. work'[q] # Idle => work[q] # Idle
    BY <2>1, <2>3
  <2> QED BY <2>2, <2>4 DEF GoesOn
<1>4. ASSUME NEW s \in Request, TakeAgain(s) PROVE GoesOn(q)
  <2>1. work'[q] = IF q = s THEN [todo |-> work[s].todo, choice |-> "ownRow",
                                 tries |-> work[s].tries + 1, told |-> work[s].told] ELSE work[q]
    BY <1>4 DEF TakeAgain, ServerTypeOK
  <2>2. work'[q].todo = work[q].todo /\ work'[q].told = work[q].told
    BY <2>1
  <2>3. q = s => work[q] # Idle
    BY <1>4, IdleIsNotBusy DEF TakeAgain
  <2>4. work'[q] # Idle => work[q] # Idle
    BY <2>1, <2>3
  <2> QED BY <2>2, <2>4 DEF GoesOn
<1>5. ASSUME NEW s \in Request, work' = [work EXCEPT ![s] = Idle] PROVE GoesOn(q)
  BY <1>5, LeftOrGone DEF ServerTypeOK
<1>6. ASSUME NEW s \in Request, AnswerAlready(s) PROVE GoesOn(q)
  BY <1>1, <1>6 DEF AnswerAlready, Answer
<1>7. ASSUME NEW s \in Request, SaveRecord(s) \/ SavePhoto(s) PROVE GoesOn(q)
  BY <1>1, <1>7 DEF SaveRecord, SavePhoto, Answer
<1>8. ASSUME NEW s \in Request, QuarantineRecord(s) \/ HoldRecord(s) \/ HoldPhoto(s) PROVE GoesOn(q)
  BY <1>1, <1>8 DEF QuarantineRecord, HoldRecord, HoldPhoto, Answer
<1>9. ASSUME NEW s \in Request, MetOnceTooOften(s) \/ Fails(s) \/ Answered(s) PROVE GoesOn(q)
  BY <1>5, <1>9 DEF MetOnceTooOften, Fails, Answered
<1>10. Review \/ Around => work' = work
  BY DEF Review, Renumber, SecondCopy, SaveHeldRecord, SaveHeldPhoto, CloseHeld, Around, Mended,
         ProjectCloses, ProjectReopens
<1> QED BY <1>2, <1>3, <1>4, <1>6, <1>7, <1>8, <1>9, <1>10 DEF Works

-----------------------------------------------------------------------------
(* The phone's half, with the server before it.                            *)

\* What is submitted is of the things there are.
LEMMA CapturesType ==
  /\ Len(Captures) \in Nat /\ DOMAIN Captures = 1 .. Len(Captures)
  /\ \A i \in 1 .. Len(Captures) : ToSet(Captures[i]) \subseteq Thing
<1>1. Captures \in Seq(Seq(Thing))
  BY OutboxAssumption
<1>2. ASSUME NEW i \in 1 .. Len(Captures) PROVE ToSet(Captures[i]) \subseteq Thing
  <2>1. Captures[i] \in Seq(Thing)
    BY <1>1, <1>2, ElementOfSeq
  <2>2. ASSUME NEW s \in Seq(Thing) PROVE ToSet(s) \subseteq Thing
    BY DEF ToSet
  <2> QED BY <2>1, <2>2
<1> QED BY <1>1, <1>2, LenProperties

\* The answer the phone waits for says something true of everything the sync carried.
LEMMA AnswerIsWhole ==
  ASSUME PipelineInv, AnswerComes
  PROVE  /\ awaiting \in Request /\ phase = "syncing" /\ found = {}
         /\ ToSet(sending) \subseteq NotStored
         /\ \A x \in ToSet(sending) :
              x \in Thing /\ work[awaiting].told[x] \in Answer /\ Backed(x, work[awaiting].told[x])
<1>1. awaiting \in Request /\ awaiting # NoRequest
  BY DEF PipelineInv, PipelineTypeOK, AnswerComes
<1>2. work[awaiting] # Idle /\ work[awaiting].todo = << >>
  BY DEF AnswerComes, Answered, Busy
<1>3. work[awaiting].told \in [Thing -> Answer \cup {Nothing}]
  BY <1>1 DEF PipelineInv, ServerInv, ServerTypeOK, Working
<1>4. ASSUME NEW x \in ToSet(sending) PROVE x \in Thing /\ work[awaiting].told[x] # Nothing
  <2>1. x \in ToSet(work[awaiting].todo) \/ work[awaiting].told[x] # Nothing
    BY <1>1, <1>2 DEF PipelineInv, AllOfItAnswered
  <2>2. x \in Thing
    BY DEF PipelineInv, OnlyNotStoredGoes, NotStored
  <2> QED BY <1>2, <2>1, <2>2, IdleIsNotBusy DEF Idle
<1>5. ASSUME NEW x \in ToSet(sending) PROVE Backed(x, work[awaiting].told[x])
  BY <1>1, <1>4 DEF PipelineInv, ServerInv, AnswersBacked
<1>6. phase = "syncing" /\ found = {} /\ ToSet(sending) \subseteq NotStored
  BY DEF PipelineInv, OnlyNotStoredGoes, AnswerComes, AnswerTaken
<1> QED BY <1>1, <1>3, <1>4, <1>5, <1>6

\* What the store says of a thing: as before, sealed, or what the answer says of it.
LEMMA KeptStep ==
  ASSUME PipelineInv, [PipelineNext]_vars, NEW x \in Thing
  PROVE  \/ kept'[x] = kept[x]
         \/ kept'[x] = Waiting
         \/ /\ AnswerComes /\ x \in ToSet(sending)
            /\ kept'[x] = work[awaiting].told[x]
<1>1. CASE AnswerComes
  BY <1>1 DEF AnswerComes, AnswerTaken
<1>2. CASE PhoneAlone
  BY <1>2 DEF PhoneAlone, Capture, Noted, RunStarts, StoreRead, RunEnds
<1>3. CASE Reopened
  BY <1>3 DEF Reopened, SealedAgain
<1>4. CASE GivesUp
  BY <1>4 DEF GivesUp, NoAnswer
<1>5. CASE \E q \in Request : PhoneSends(q)
  BY <1>5 DEF PhoneSends, NextSyncGoes
<1>6. CASE ServerAlone \/ (\E q \in Request : AnswerDropped(q)) \/ UNCHANGED vars
           \/ \E r \in Elsewhere : SavedElsewhere(r)
  BY <1>6 DEF ServerAlone, AnswerDropped, SavedElsewhere, phoneVars, vars
<1> QED BY <1>1, <1>2, <1>3, <1>4, <1>5, <1>6 DEF PipelineNext

\* So what the phone was told stays true.
LEMMA PhoneKnowsRightStep ==
  PipelineInv /\ [PipelineNext]_vars => PhoneKnowsRight'
<1> SUFFICES ASSUME PipelineInv, [PipelineNext]_vars, NEW x \in Thing
             PROVE  Backed(x, kept[x])'
  BY DEF PhoneKnowsRight
<1>1. NothingTakenBack
  BY ServerHalf
<1>2. CASE kept'[x] = kept[x]
  <2>1. Backed(x, kept[x])
    BY DEF PipelineInv, PhoneKnowsRight
  <2>2. ASSUME NEW a, a = kept[x] PROVE Backed(x, a)'
    BY <1>1, <2>1, <2>2, BackedStays
  <2> QED BY <1>2, <2>1, <2>2 DEF Backed
<1>3. CASE kept'[x] = Waiting
  BY <1>3 DEF Backed, Waiting, StoredAnswer
<1>4. CASE /\ AnswerComes /\ x \in ToSet(sending)
           /\ kept'[x] = work[awaiting].told[x]
  <2>1. Backed(x, work[awaiting].told[x])
    BY <1>4, AnswerIsWhole
  <2>2. ASSUME NEW a, a = work[awaiting].told[x] PROVE Backed(x, a)'
    BY <1>1, <2>1, <2>2, BackedStays
  <2> QED BY <1>4, <2>2 DEF Backed
<1> QED BY <1>2, <1>3, <1>4, KeptStep

\* The phone's variables stay of their types.
LEMMA PhoneTypeStep ==
  PipelineInv /\ [PipelineNext]_vars => PhoneTypeOK' /\ awaiting' \in Request \cup {NoRequest}
<1> SUFFICES ASSUME PipelineInv, [PipelineNext]_vars
             PROVE  PhoneTypeOK' /\ awaiting' \in Request \cup {NoRequest}
  OBVIOUS
<1>1. PhoneTypeOK /\ awaiting \in Request \cup {NoRequest} /\ NotStored \subseteq Thing
  BY DEF PipelineInv, PipelineTypeOK, NotStored
<1>2. CASE UNCHANGED <<phoneVars, awaiting>>
  BY <1>1, <1>2 DEF phoneVars, PhoneTypeOK
<1>3. << >> \in Seq(Thing)
  OBVIOUS
<1>4. CASE Capture /\ UNCHANGED awaiting
  <2>1. captured + 1 \in 1 .. Len(Captures) /\ ToSet(Captures[captured + 1]) \subseteq Thing
    BY <1>1, <1>4, CapturesType DEF Capture, PhoneTypeOK
  <2>2. captured' \in 0 .. Len(Captures)
    <3>1. captured' = captured + 1 /\ captured \in 0 .. Len(Captures) /\ captured < Len(Captures)
      BY <1>1, <1>4 DEF Capture, PhoneTypeOK
    <3>2. Len(Captures) \in Nat
      BY CapturesType
    <3> QED BY <3>1, <3>2
  <2>4. noted' \in BOOLEAN /\ listed' \subseteq Thing
    BY <1>1, <1>4, <2>1 DEF Capture, PhoneTypeOK
  <2>3. kept' \in [Thing -> Answer \cup {Unmade, Waiting}]
    BY <1>1, <1>4 DEF Capture, PhoneTypeOK
  <2> QED BY <1>1, <1>4, <2>2, <2>3, <2>4 DEF Capture, PhoneTypeOK
<1>5. CASE (Noted \/ RunStarts \/ StoreRead \/ RunEnds) /\ UNCHANGED awaiting
  BY <1>1, <1>5 DEF Noted, RunStarts, StoreRead, RunEnds, PhoneTypeOK
<1>6. ASSUME NEW q \in Request, PhoneSends(q)
      PROVE  PhoneTypeOK' /\ awaiting' \in Request \cup {NoRequest}
  <2>1. Sends \in Seq(Thing)
    BY SendsNotStored DEF PipelineInv, OnlyNotStoredGoes
  <2> QED BY <1>1, <1>6, <2>1 DEF PhoneSends, NextSyncGoes, PhoneTypeOK
<1>7. CASE AnswerComes
  <2>1. \A x \in ToSet(sending) : x \in Thing /\ work[awaiting].told[x] \in Answer
    BY <1>7, AnswerIsWhole
  <2>2. kept' \in [Thing -> Answer \cup {Unmade, Waiting}]
    BY <1>1, <1>7, <2>1 DEF AnswerComes, AnswerTaken, PhoneTypeOK
  <2> QED BY <1>1, <1>3, <1>7, <2>1, <2>2 DEF AnswerComes, AnswerTaken, PhoneTypeOK
<1>8. CASE GivesUp
  BY <1>1, <1>3, <1>8 DEF GivesUp, NoAnswer, PhoneTypeOK
<1>9. CASE Reopened
  <2>1. ToSet(Captures[captured]) \subseteq Thing
    BY <1>1, <1>9, CapturesType DEF Reopened, SealedAgain, PipelineInv, SubmittedIsKept, PhoneTypeOK
  <2>2. kept' \in [Thing -> Answer \cup {Unmade, Waiting}]
    BY <1>1, <1>9 DEF Reopened, SealedAgain, PhoneTypeOK
  <2> QED BY <1>1, <1>3, <1>9, <2>1, <2>2 DEF Reopened, SealedAgain, PhoneTypeOK
<1> QED BY <1>2, <1>4, <1>5, <1>6, <1>7, <1>8, <1>9
        DEF PipelineNext, PhoneAlone, ServerAlone, AnswerDropped, SavedElsewhere, vars

\* What was submitted is still what is kept.
LEMMA SubmittedIsKeptStep ==
  PipelineInv /\ [PipelineNext]_vars => SubmittedIsKept'
<1> SUFFICES ASSUME PipelineInv, [PipelineNext]_vars PROVE SubmittedIsKept'
  OBVIOUS
<1>1. SubmittedIsKept /\ captured \in 0 .. Len(Captures) /\ Len(Captures) \in Nat
  BY CapturesType DEF PipelineInv, PipelineTypeOK, PhoneTypeOK
<1>2. CASE UNCHANGED <<captured, noted, kept>>
  BY <1>1, <1>2 DEF SubmittedIsKept
<1>3. CASE Capture
  <2>1. captured' = captured + 1 /\ captured \in Nat
        /\ 1 .. captured + 1 = (1 .. captured) \cup {captured + 1}
    BY <1>1, <1>3 DEF Capture
  <2>2. ASSUME NEW x \in Thing
        PROVE  kept'[x] # Unmade <=> \E i \in 1 .. captured + 1 : x \in ToSet(Captures[i])
    <3>1. kept'[x] = IF x \in ToSet(Captures[captured + 1]) THEN Waiting ELSE kept[x]
      BY <1>3 DEF Capture
    <3>2. kept[x] # Unmade <=> \E i \in 1 .. captured : x \in ToSet(Captures[i])
      BY <1>1 DEF SubmittedIsKept
    <3>3. Waiting # Unmade
      BY DEF Waiting, Unmade
    <3> QED BY <2>1, <3>1, <3>2, <3>3
  <2>3. captured' > 0
    BY <2>1
  <2> QED BY <2>1, <2>2, <2>3 DEF SubmittedIsKept
<1>4. CASE Noted
  BY <1>1, <1>4 DEF Noted, SubmittedIsKept
<1>5. CASE AnswerComes
  <2>1. ASSUME NEW x \in Thing PROVE kept'[x] # Unmade <=> kept[x] # Unmade
    <3>1. CASE x \notin ToSet(sending)
      BY <1>5, <3>1 DEF AnswerComes, AnswerTaken
    <3>2. CASE x \in ToSet(sending)
      <4>1. kept'[x] \in Answer /\ kept[x] # Unmade
        BY <1>5, <3>2, AnswerIsWhole DEF AnswerComes, AnswerTaken, NotStored
      <4> QED BY <4>1 DEF Answer, Unmade
    <3> QED BY <3>1, <3>2
  <2> QED BY <1>1, <1>5, <2>1 DEF SubmittedIsKept, AnswerComes, AnswerTaken
<1>6. CASE Reopened
  <2>1. captured \in 1 .. captured
    BY <1>1, <1>6 DEF Reopened, SealedAgain, SubmittedIsKept
  <2>2. ASSUME NEW x \in Thing PROVE kept'[x] # Unmade <=> kept[x] # Unmade
    <3>1. kept'[x] = IF x \in ToSet(Captures[captured]) THEN Waiting ELSE kept[x]
      BY <1>6 DEF Reopened, SealedAgain
    <3>2. x \in ToSet(Captures[captured]) => kept[x] # Unmade
      BY <1>1, <2>1 DEF SubmittedIsKept
    <3>3. Waiting # Unmade
      BY DEF Waiting, Unmade
    <3> QED BY <3>1, <3>2, <3>3
  <2> QED BY <1>1, <1>6, <2>2 DEF SubmittedIsKept, Reopened, SealedAgain
<1> QED BY <1>2, <1>3, <1>4, <1>5, <1>6
        DEF PipelineNext, PhoneAlone, RunStarts, StoreRead, RunEnds, ServerAlone, PhoneSends,
            NextSyncGoes, AnswerDropped, GivesUp, NoAnswer, SavedElsewhere, phoneVars, vars

\* The list, the read and the sync under way never gain what is said to be stored.
LEMMA OnlyNotStoredGoesStep ==
  PipelineInv /\ [PipelineNext]_vars => OnlyNotStoredGoes'
<1> SUFFICES ASSUME PipelineInv, [PipelineNext]_vars PROVE OnlyNotStoredGoes'
  OBVIOUS
<1>1. /\ listed \subseteq NotStored /\ found \subseteq NotStored /\ ToSet(sending) \subseteq NotStored
      /\ sending # << >> <=> awaiting # NoRequest
      /\ sending # << >> => phase = "syncing"
      /\ found # {} => phase = "reading"
  BY DEF PipelineInv, OnlyNotStoredGoes
<1>2. ToSet(<< >>) = {} /\ NotStored \subseteq Thing
  BY DEF ToSet, NotStored
<1>3. CASE UNCHANGED <<phoneVars, awaiting>>
  BY <1>1, <1>3 DEF phoneVars, OnlyNotStoredGoes, NotStored
<1>4. CASE Capture /\ UNCHANGED awaiting
  <2>1. ToSet(Captures[captured + 1]) \subseteq Thing
    <3>1. captured + 1 \in 1 .. Len(Captures)
      BY <1>4, CapturesType DEF Capture, PipelineInv, PipelineTypeOK, PhoneTypeOK
    <3> QED BY <3>1, CapturesType
  <2>2. NotStored' = NotStored \cup ToSet(Captures[captured + 1])
    BY <1>4, <2>1 DEF Capture, NotStored, Waiting, Unmade, StoredAnswer
  <2> QED BY <1>1, <1>4, <2>2 DEF Capture, OnlyNotStoredGoes
<1>5. CASE (Noted \/ RunStarts \/ StoreRead \/ RunEnds) /\ UNCHANGED awaiting
  <2>1. NotStored' = NotStored
    BY <1>5 DEF Noted, RunStarts, StoreRead, RunEnds, NotStored
  <2>2. RunStarts => sending = << >> /\ found = {}
    BY <1>1 DEF RunStarts
  <2>3. StoreRead => sending = << >>
    BY <1>1 DEF StoreRead
  <2>4. RunEnds => found = {}
    BY <1>1 DEF RunEnds
  <2> QED BY <1>1, <1>2, <1>5, <2>1, <2>2, <2>3, <2>4
          DEF Noted, RunStarts, StoreRead, RunEnds, OnlyNotStoredGoes
<1>6. ASSUME NEW q \in Request, PhoneSends(q) PROVE OnlyNotStoredGoes'
  <2>1. ToSet(Sends) \subseteq NotStored
    BY <1>1, SendsNotStored
  <2>2. NotStored' = NotStored /\ q # NoRequest
    BY <1>6, PipelineAssumption DEF PhoneSends, NextSyncGoes, NotStored
  <2> QED BY <1>1, <1>6, <2>1, <2>2 DEF PhoneSends, NextSyncGoes, OnlyNotStoredGoes
<1>7. CASE AnswerComes
  <2>1. \A x \in Thing : kept'[x] = IF x \in ToSet(sending) THEN work[awaiting].told[x] ELSE kept[x]
    BY <1>7 DEF AnswerComes, AnswerTaken
  <2>2. ASSUME NEW x \in listed, ~(x \in ToSet(sending) /\ work[awaiting].told[x] \in StoredAnswer)
        PROVE  x \in NotStored'
    <3>1. CASE x \in ToSet(sending)
      BY <1>7, <2>1, <2>2, <3>1, AnswerIsWhole DEF NotStored, Answer, Unmade
    <3>2. CASE x \notin ToSet(sending)
      BY <1>1, <1>2, <2>1, <3>2 DEF NotStored
    <3> QED BY <3>1, <3>2
  <2>3. listed' \subseteq NotStored'
    BY <1>7, <2>2 DEF AnswerComes, AnswerTaken
  <2> QED BY <1>2, <1>7, <2>3, AnswerIsWhole DEF AnswerComes, AnswerTaken, OnlyNotStoredGoes
<1>8. CASE GivesUp
  <2>1. found = {} /\ NotStored' = NotStored
    BY <1>1, <1>8 DEF GivesUp, NoAnswer, NotStored
  <2> QED BY <1>1, <1>2, <1>8, <2>1 DEF GivesUp, NoAnswer, OnlyNotStoredGoes
<1>9. CASE Reopened
  <2>1. ToSet(Captures[captured]) \subseteq Thing
    BY <1>9, CapturesType
       DEF Reopened, SealedAgain, PipelineInv, PipelineTypeOK, SubmittedIsKept, PhoneTypeOK
  <2>2. NotStored' = NotStored \cup ToSet(Captures[captured])
    BY <1>9, <2>1 DEF Reopened, SealedAgain, NotStored, Waiting, Unmade, StoredAnswer
  <2> QED BY <1>2, <1>9, <2>2 DEF Reopened, SealedAgain, OnlyNotStoredGoes
<1> QED BY <1>3, <1>4, <1>5, <1>6, <1>7, <1>8, <1>9
        DEF PipelineNext, PhoneAlone, ServerAlone, AnswerDropped, SavedElsewhere, vars

\* What the sync carried is still to be answered or is, until the phone waits no more.
LEMMA AllOfItAnsweredStep ==
  PipelineInv /\ [PipelineNext]_vars => AllOfItAnswered'
<1> SUFFICES ASSUME PipelineInv, [PipelineNext]_vars PROVE AllOfItAnswered'
  OBVIOUS
<1>1. AllOfItAnswered /\ ServerTypeOK /\ awaiting \in Request \cup {NoRequest}
      /\ ToSet(sending) \subseteq Thing
  BY DEF PipelineInv, PipelineTypeOK, OnlyNotStoredGoes, NotStored
<1>2. CASE awaiting' = NoRequest
  BY <1>2 DEF AllOfItAnswered
<1>3. CASE UNCHANGED <<sending, awaiting>> /\ (awaiting \in Request => GoesOn(awaiting))
  BY <1>1, <1>3 DEF AllOfItAnswered, GoesOn
<1>4. ASSUME NEW q \in Request, PhoneSends(q) PROVE AllOfItAnswered'
  <2>1. work'[q].todo = Sends /\ sending' = Sends /\ awaiting' = q
    BY <1>1, <1>4 DEF PhoneSends, NextSyncGoes, Arrives, ServerTypeOK, Working
  <2> QED BY <2>1 DEF AllOfItAnswered
<1>5. ASSUME UNCHANGED <<sending, awaiting, work>> PROVE AllOfItAnswered'
  BY <1>1, <1>5 DEF AllOfItAnswered
<1>6. ASSUME UNCHANGED <<sending, awaiting>>,
             (\E s \in Request : Works(s) \/ Fails(s) \/ Answered(s)) \/ Review \/ Around
      PROVE  AllOfItAnswered'
  BY <1>1, <1>3, <1>6, RequestsGoOn
<1>7. CASE PhoneAlone \/ UNCHANGED vars \/ \E r \in Elsewhere : SavedElsewhere(r)
  BY <1>5, <1>7 DEF PhoneAlone, Capture, Noted, RunStarts, StoreRead, RunEnds, SavedElsewhere,
                    serverVars, phoneVars, vars
<1>8. CASE ServerAlone \/ \E q \in Request : AnswerDropped(q)
  BY <1>6, <1>8 DEF ServerAlone, AnswerDropped, phoneVars
<1>9. CASE AnswerComes \/ GivesUp \/ Reopened
  BY <1>2, <1>9 DEF AnswerComes, GivesUp, Reopened
<1> QED BY <1>4, <1>7, <1>8, <1>9 DEF PipelineNext

\* Nothing is held or quarantined of itself: the server works on it, of some request.
LEMMA HeldOfARequest ==
  ASSUME ServerTypeOK, NEW r \in Record, ServerNext,
         \/ held[r] = "no" /\ held'[r] # "no"
         \/ quarantined[r] = "no" /\ quarantined'[r] # "no"
  PROVE  \E q \in Request : r \in ToSet(work[q].todo)
<1>1. \E q \in Request : Busy(q) /\ r = Current(q)
  <2>1. ASSUME NEW q \in Request, QuarantineRecord(q) \/ HoldRecord(q) \/ HoldPhoto(q)
        PROVE  Busy(q) /\ r = Current(q)
    BY <2>1 DEF QuarantineRecord, HoldRecord, HoldPhoto, HoldsForAPerson, ServerTypeOK, Thing
  <2>2. ASSUME UNCHANGED <<held, quarantined>> PROVE FALSE
    BY <2>2
  <2>3. ASSUME NEW q \in Request, NEW things \in Batches, Arrives(q, things) PROVE FALSE
    BY <2>2, <2>3 DEF Arrives, tables
  <2>4. ASSUME NEW s \in Record, NEW n, Renumber(s, n) \/ SaveHeldRecord(s, n) \/ SecondCopy(s)
        PROVE  FALSE
    BY <2>4 DEF Renumber, SaveHeldRecord, SecondCopy, ServerTypeOK, Thing
  <2>5. ASSUME NEW x \in Thing, CloseHeld(x) \/ SaveHeldPhoto(x) PROVE FALSE
    BY <2>5 DEF CloseHeld, SaveHeldPhoto, ServerTypeOK, Thing
  <2>6. CASE Around
    BY <2>2, <2>6 DEF Around, Mended, ProjectCloses, ProjectReopens, tables
  <2>7. CASE Review
    BY <2>4, <2>5, <2>7 DEF Review, Thing
  <2>8. ASSUME NEW q \in Request,
               \/ Works(q) \/ Fails(q) \/ Answered(q)
               \/ \E things \in Batches : Arrives(q, things)
        PROVE  Busy(q) /\ r = Current(q)
    <3>1. CASE \E things \in Batches : Arrives(q, things)
      BY <2>3, <3>1
    <3>2. CASE Works(q) \/ Fails(q) \/ Answered(q)
      BY <2>1, <2>2, <3>2 DEF Works, ReadNext, AnswerAlready, SaveRecord, TakeAgain, SavePhoto,
                              MetOnceTooOften, Fails, Answered, tables
    <3> QED BY <2>8, <3>1, <3>2
  <2> QED BY <2>6, <2>7, <2>8 DEF ServerNext
<1>2. PICK q \in Request : Busy(q) /\ r = Current(q)
  BY <1>1
<1>3. work[q].todo \in Seq(Thing) /\ work[q].todo # << >>
  BY <1>2 DEF Busy, ServerTypeOK, Working
<1>4. r \in ToSet(work[q].todo)
  BY <1>2, <1>3, ToSetTail DEF Current
<1> QED BY <1>4

\* Another phone's record is not sent from here.
LEMMA ElsewhereApartStep ==
  PipelineInv /\ [PipelineNext]_vars => ElsewhereApart'
<1> SUFFICES ASSUME PipelineInv, [PipelineNext]_vars, NEW r \in Elsewhere
             PROVE  /\ quarantined'[r] = "no" /\ held'[r] = "no"
                    /\ \A q \in Request : r \notin ToSet(work'[q].todo)
  BY DEF ElsewhereApart
<1>1. ServerTypeOK /\ r \in Record /\ quarantined[r] = "no" /\ held[r] = "no"
      /\ \A q \in Request : r \notin ToSet(work[q].todo)
  BY PipelineAssumption DEF PipelineInv, PipelineTypeOK, ElsewhereApart
<1>2. ASSUME UNCHANGED <<quarantined, held, work>> PROVE ElsewhereApart'
  BY <1>2 DEF PipelineInv, ElsewhereApart
<1>3. ASSUME NEW q \in Request, PhoneSends(q)
      PROVE  /\ quarantined'[r] = "no" /\ held'[r] = "no"
             /\ \A p \in Request : r \notin ToSet(work'[p].todo)
  <2>1. UNCHANGED <<quarantined, held>> /\ work' = [work EXCEPT ![q].todo = Sends]
    BY <1>3 DEF PhoneSends, NextSyncGoes, Arrives, tables
  <2>2. r \notin NotStored
    <3>1. captured \in 0 .. Len(Captures)
      BY DEF PipelineInv, PipelineTypeOK, PhoneTypeOK
    <3>2. ~\E i \in 1 .. captured : r \in ToSet(Captures[i])
      BY <3>1, CapturesType, PipelineAssumption
    <3> QED BY <3>2 DEF PipelineInv, SubmittedIsKept, NotStored
  <2>3. r \notin ToSet(Sends)
    BY <2>2, SendsNotStored DEF PipelineInv, OnlyNotStoredGoes
  <2>4. \A p \in Request : work'[p].todo = IF p = q THEN Sends ELSE work[p].todo
    BY <1>1, <2>1 DEF ServerTypeOK, Working
  <2> QED BY <1>1, <2>1, <2>3, <2>4
<1>4. ASSUME (\E s \in Request : Works(s) \/ Fails(s) \/ Answered(s)) \/ Review \/ Around
      PROVE  /\ quarantined'[r] = "no" /\ held'[r] = "no"
             /\ \A q \in Request : r \notin ToSet(work'[q].todo)
  <2>1. ServerNext
    BY <1>4 DEF ServerNext
  <2>2. quarantined'[r] = "no" /\ held'[r] = "no"
    BY <1>1, <2>1, HeldOfARequest
  <2>3. ASSUME NEW q \in Request PROVE r \notin ToSet(work'[q].todo)
    BY <1>1, <1>4, RequestsGoOn DEF GoesOn
  <2> QED BY <2>2, <2>3
<1>5. awaiting # NoRequest => awaiting \in Request
  BY DEF PipelineInv, PipelineTypeOK
<1>6. CASE ServerAlone \/ AnswerComes \/ \E q \in Request : AnswerDropped(q)
  BY <1>4, <1>5, <1>6 DEF ServerAlone, AnswerComes, AnswerDropped
<1>7. CASE PhoneAlone \/ GivesUp \/ Reopened \/ UNCHANGED vars
           \/ \E s \in Elsewhere : SavedElsewhere(s)
  BY <1>2, <1>7 DEF PhoneAlone, GivesUp, Reopened, SavedElsewhere, serverVars, vars,
                    ElsewhereApart
<1> QED BY <1>3, <1>6, <1>7 DEF PipelineNext

-----------------------------------------------------------------------------

LEMMA PipelineInvInit == PipelineInit => PipelineInv
<1> SUFFICES ASSUME PipelineInit PROVE PipelineInv
  OBVIOUS
<1>1. ServerInv /\ PhoneInit /\ awaiting = NoRequest
  BY ServerInvInit DEF PipelineInit
<1>2. PipelineTypeOK
  BY <1>1, CapturesType DEF PipelineTypeOK, ServerInv, PhoneInit, PhoneTypeOK
<1>3. PhoneKnowsRight
  BY <1>1 DEF PhoneInit, PhoneKnowsRight, Backed, Unmade, StoredAnswer
<1>4. SubmittedIsKept
  BY <1>1 DEF PhoneInit, SubmittedIsKept
<1>5. OnlyNotStoredGoes
  BY <1>1 DEF PhoneInit, OnlyNotStoredGoes, ToSet
<1>6. AllOfItAnswered
  BY <1>1 DEF AllOfItAnswered
<1>7. ElsewhereApart
  <2>1. \A q \in Request : work[q] = Idle
    BY DEF PipelineInit, ServerInit
  <2>2. \A r \in Elsewhere : r \in Record /\ r \in Thing
    BY PipelineAssumption DEF Thing
  <2> QED BY <2>1, <2>2, IdleIsNotBusy DEF PipelineInit, ServerInit, ElsewhereApart
<1> QED BY <1>1, <1>2, <1>3, <1>4, <1>5, <1>6, <1>7 DEF PipelineInv

LEMMA PipelineInvStep == PipelineInv /\ [PipelineNext]_vars => PipelineInv'
BY ServerHalf, PhoneTypeStep, PhoneKnowsRightStep, SubmittedIsKeptStep, OnlyNotStoredGoesStep,
   AllOfItAnsweredStep, ElsewhereApartStep DEF PipelineInv, PipelineTypeOK, ServerInv

\* What one phone and the server keep together: their types, what each answer says being
\* so, and what makes that inductive.
THEOREM PipelineSafe == PipelineSpec => []PipelineInv
BY PipelineInvInit, PipelineInvStep, PTL DEF PipelineSpec

\* The phone's half and the server's, and the request waited for, are of their types
\* (SyncPipeline's PipelineTypeOK).
THEOREM PipelineTypes == PipelineSpec => []PipelineTypeOK
<1>1. PipelineInv => PipelineTypeOK
  BY DEF PipelineInv
<1> QED BY <1>1, PipelineSafe, PTL

\* What the phone dropped the server has saved, and what it shows a person was turned away
\* is there for a person, whatever was lost, retried, overtaken or answered twice.
THEOREM PhoneAlwaysKnowsRight == PipelineSpec => []PhoneKnowsRight
<1>1. PipelineInv => PhoneKnowsRight
  BY DEF PipelineInv
<1> QED BY <1>1, PipelineSafe, PTL

-----------------------------------------------------------------------------
(* The pipeline is a delivery.                                             *)

Stored(x) == (x \in Record /\ IsSaved(x)) \/ (x \in Photo /\ photoOn[x] # "nowhere")
ForAPerson(x) == held[x] # "no" \/ (x \in Record /\ quarantined[x] # "no")

\* A step that moves at most this one thing on the server.
MovesOnly(c) ==
  \A x \in Thing \ {c} : (Stored(x)' <=> Stored(x)) /\ (ForAPerson(x)' <=> ForAPerson(x))

\* A write of one row moves the one thing whose row it is; the photographs that a person
\* moves with a record were stored before.
LEMMA OneRowMoves ==
  ASSUME ServerTypeOK, NEW c \in Thing,
         \A r \in Record \ {c} : row'[r] = row[r] /\ (quarantined'[r] = "no" <=> quarantined[r] = "no"),
         \A x \in Thing \ {c} : held'[x] = "no" <=> held[x] = "no",
         \A p \in Photo \ {c} : photoOn'[p] = "nowhere" <=> photoOn[p] = "nowhere"
  PROVE  MovesOnly(c)
BY DEF MovesOnly, Stored, ForAPerson, IsSaved, Thing

\* Each of the server's writes is of one.
LEMMA ServerMovesOne ==
  ASSUME ServerTypeOK, ChoicesHold, ServerNext
  PROVE  \/ UNCHANGED tables
         \/ \E c \in Thing : MovesOnly(c)
<1> USE ThingsAssumption
<1>1. ASSUME NEW q \in Request, SaveRecord(q) \/ QuarantineRecord(q) PROVE MovesOnly(Current(q))
  <2>1. Current(q) \in Record
    BY <1>1, CurrentRecord DEF SaveRecord, QuarantineRecord, Unread
  <2>2. /\ UNCHANGED <<photoOn, held>> /\ Current(q) \in Thing
        /\ \A r \in Record \ {Current(q)} : row'[r] = row[r] /\ quarantined'[r] = quarantined[r]
    BY <1>1, <2>1 DEF SaveRecord, QuarantineRecord, ServerTypeOK, Thing
  <2> QED BY <2>2, OneRowMoves
<1>2. ASSUME NEW q \in Request, HoldRecord(q) \/ SavePhoto(q) \/ HoldPhoto(q)
      PROVE  MovesOnly(Current(q))
  <2>1. /\ UNCHANGED <<row, quarantined>>
        /\ \A x \in Thing \ {Current(q)} : held'[x] = held[x]
        /\ \A p \in Photo \ {Current(q)} : photoOn'[p] = photoOn[p]
    BY <1>2 DEF HoldRecord, SavePhoto, HoldPhoto, HoldsForAPerson, ServerTypeOK
  <2>2. Busy(q)
    BY <1>2 DEF HoldRecord, SavePhoto, HoldPhoto
  <2> QED BY <2>1, <2>2, OneRowMoves, CurrentThing
<1>3. ASSUME NEW q \in Request, HoldRecord(q) \/ SavePhoto(q) \/ HoldPhoto(q)
                                 \/ SaveRecord(q) \/ QuarantineRecord(q)
      PROVE  Current(q) \in Thing
  BY <1>3, CurrentThing DEF HoldRecord, SavePhoto, HoldPhoto, SaveRecord, QuarantineRecord
<1>4. ASSUME NEW r \in Record, NEW n, Renumber(r, n) \/ SaveHeldRecord(r, n) \/ SecondCopy(r)
      PROVE  MovesOnly(r) /\ r \in Thing
  <2>1. /\ r \in Thing
        /\ \A s \in Record \ {r} : row'[s] = row[s] /\ quarantined'[s] = quarantined[s]
        /\ \A x \in Thing \ {r} : held'[x] = held[x]
    BY <1>4 DEF Renumber, SaveHeldRecord, SecondCopy, ServerTypeOK, Thing
  <2>2. ASSUME NEW p \in Photo PROVE photoOn'[p] = "nowhere" <=> photoOn[p] = "nowhere"
    BY <1>4 DEF Renumber, SaveHeldRecord, SecondCopy, ServerTypeOK
  <2> QED BY <2>1, <2>2, OneRowMoves
<1>5. ASSUME NEW x \in Thing, CloseHeld(x) PROVE MovesOnly(x)
  <2>1. /\ UNCHANGED <<row, quarantined, photoOn>>
        /\ \A y \in Thing \ {x} : held'[y] = held[y]
    BY <1>5 DEF CloseHeld, ServerTypeOK
  <2> QED BY <2>1, OneRowMoves
<1>6. ASSUME NEW p \in Photo, SaveHeldPhoto(p) PROVE MovesOnly(p) /\ p \in Thing
  <2>1. /\ UNCHANGED <<row, quarantined>> /\ p \in Thing
        /\ \A y \in Thing \ {p} : held'[y] = held[y]
        /\ \A s \in Photo \ {p} : photoOn'[s] = photoOn[s]
    BY <1>6 DEF SaveHeldPhoto, ServerTypeOK, Thing
  <2> QED BY <2>1, OneRowMoves
<1>7. CASE Around
  BY <1>7 DEF Around, Mended, ProjectCloses, ProjectReopens
<1>8. CASE Review
  BY <1>4, <1>5, <1>6, <1>8 DEF Review
<1>9. ASSUME NEW q \in Request,
             \/ Works(q) \/ Fails(q) \/ Answered(q)
             \/ \E things \in Batches : Arrives(q, things)
      PROVE  UNCHANGED tables \/ \E c \in Thing : MovesOnly(c)
  <2>1. CASE \/ HoldRecord(q) \/ SavePhoto(q) \/ HoldPhoto(q) \/ SaveRecord(q)
             \/ QuarantineRecord(q)
    BY <1>1, <1>2, <1>3, <2>1
  <2>2. ASSUME ReadNext(q) \/ AnswerAlready(q) \/ TakeAgain(q) \/ MetOnceTooOften(q) \/ Fails(q)
               \/ Answered(q) \/ \E things \in Batches : Arrives(q, things)
        PROVE  UNCHANGED tables
    BY <2>2 DEF ReadNext, AnswerAlready, TakeAgain, MetOnceTooOften, Fails, Answered, Arrives
  <2> QED BY <1>9, <2>1, <2>2 DEF Works
<1> QED BY <1>7, <1>8, <1>9 DEF ServerNext

\* Where nothing is taken back and one thing moves, it is taken, or nothing is.
LEMMA OneIsTaken ==
  ASSUME NothingTakenBack, NEW c \in Thing, MovesOnly(c), UNCHANGED kept
  PROVE  Promise!Taken(c) \/ UNCHANGED <<OnPhone, OnServer>>
<1>1. UNCHANGED OnPhone
  BY DEF OnPhone
<1>2. \A x \in Thing \ {c} : OnServer'[x] = OnServer[x]
  BY DEF OnServer, MovesOnly, Stored, ForAPerson
<1>3. /\ Stored(c) => Stored(c)'
      /\ ForAPerson(c) => ForAPerson(c)'
  BY DEF NothingTakenBack, Stored, ForAPerson, IsSaved
<1>4. /\ OnServer[c] = IF Stored(c) THEN "saved" ELSE IF ForAPerson(c) THEN "forAPerson" ELSE "absent"
      /\ OnServer'[c] = IF Stored(c)' THEN "saved" ELSE IF ForAPerson(c)' THEN "forAPerson" ELSE "absent"
  BY DEF OnServer, Stored, ForAPerson
<1>5. OnServer = [x \in Thing |-> OnServer[x]] /\ OnServer' = [x \in Thing |-> OnServer'[x]]
  BY DEF OnServer
<1>6. CASE OnServer'[c] = OnServer[c]
  <2>1. \A x \in Thing : OnServer'[x] = OnServer[x]
    BY <1>2, <1>6
  <2>2. OnServer' = OnServer
    BY <1>5, <2>1
  <2> QED BY <1>1, <2>2
<1>7. CASE OnServer'[c] # OnServer[c]
  <2>1. \/ OnServer[c] = "absent" /\ OnServer'[c] = "forAPerson"
        \/ OnServer[c] # "saved" /\ OnServer'[c] = "saved"
    BY <1>3, <1>4, <1>7
  <2>2. OnServer' = [OnServer EXCEPT ![c] = OnServer'[c]]
    BY <1>2, <1>5
  <2> QED BY <1>1, <2>1, <2>2 DEF Promise!Taken
<1> QED BY <1>6, <1>7

\* While the phone stands still the server takes one thing, or none.
LEMMA ServerTakes ==
  ASSUME PipelineInv, [PipelineNext]_vars, UNCHANGED kept,
         UNCHANGED tables \/ \E c \in Thing : MovesOnly(c)
  PROVE  (\E x \in Thing : Promise!Taken(x)) \/ UNCHANGED <<OnPhone, OnServer>>
<1>1. NothingTakenBack
  BY ServerHalf
<1>2. CASE UNCHANGED tables
  BY <1>2 DEF tables, OnPhone, OnServer, IsSaved
<1>3. CASE \E c \in Thing : MovesOnly(c)
  BY <1>1, <1>3, OneIsTaken
<1> QED BY <1>2, <1>3

\* What is submitted is sealed for the first time: no thing is in two captures.
LEMMA CaptureSeals ==
  ASSUME PipelineInv, Capture, UNCHANGED serverVars
  PROVE  \E things \in SUBSET Thing : Promise!Sealed(things)
<1> DEFINE made == ToSet(Captures[captured + 1])
<1>1. captured \in Nat /\ captured + 1 \in 1 .. Len(Captures) /\ made \subseteq Thing
  <2>1. captured \in 0 .. Len(Captures) /\ captured < Len(Captures) /\ Len(Captures) \in Nat
    BY CapturesType DEF Capture, PipelineInv, PipelineTypeOK, PhoneTypeOK
  <2>2. captured \in Nat /\ captured + 1 \in 1 .. Len(Captures)
    BY <2>1
  <2> QED BY <2>2, CapturesType
<1>2. ASSUME NEW x \in made PROVE kept[x] = Unmade
  <2>1. \A i \in 1 .. captured : i \in DOMAIN Captures /\ captured + 1 \in DOMAIN Captures
                                  /\ i # captured + 1
    BY <1>1, CapturesType
  <2>2. \A i \in 1 .. captured : x \notin ToSet(Captures[i])
    BY <1>2, <2>1, OutboxAssumption
  <2> QED BY <1>1, <2>2 DEF PipelineInv, SubmittedIsKept
<1>3. \A x \in made : OnPhone[x] = "unmade"
  BY <1>1, <1>2 DEF OnPhone, Unmade
<1>4. OnPhone' = [x \in Thing |-> IF x \in made THEN "waiting" ELSE OnPhone[x]]
  BY DEF Capture, OnPhone, Waiting
<1>5. UNCHANGED OnServer
  BY DEF serverVars, OnServer, IsSaved
<1> HIDE DEF made
<1> QED BY <1>1, <1>3, <1>4, <1>5 DEF Promise!Sealed

\* Opened again half way through a submit, the phone seals the same once more.
LEMMA ReopenedSealsAgain ==
  ASSUME PipelineInv, Reopened
  PROVE  \E things \in SUBSET Thing : Promise!SealedAgain(things)
<1> DEFINE made == ToSet(Captures[captured])
<1>1. captured \in 1 .. Len(Captures) /\ captured \in 1 .. captured
  BY CapturesType
     DEF Reopened, SealedAgain, PipelineInv, PipelineTypeOK, PhoneTypeOK, SubmittedIsKept
<1>2. made \subseteq Thing
  BY <1>1, CapturesType
<1>3. \A x \in made : kept[x] # Unmade
  BY <1>1, <1>2 DEF PipelineInv, SubmittedIsKept
<1>4. \A x \in made : OnPhone[x] # "unmade"
  BY <1>2, <1>3 DEF OnPhone, Unmade, Waiting
<1>5. OnPhone' = [x \in Thing |-> IF x \in made THEN "waiting" ELSE OnPhone[x]]
  BY DEF Reopened, SealedAgain, OnPhone, Waiting
<1>6. UNCHANGED OnServer
  BY DEF Reopened, serverVars, OnServer, IsSaved
<1> HIDE DEF made
<1> QED BY <1>2, <1>4, <1>5, <1>6 DEF Promise!SealedAgain

\* The answer teaches the phone of everything the sync carried, as the server has it.
LEMMA AnswerTeaches ==
  ASSUME PipelineInv, AnswerComes
  PROVE  \E things \in SUBSET Thing : \E stored \in SUBSET things : Promise!Learned(things, stored)
<1> USE ThingsAssumption
<1> DEFINE things == ToSet(sending)
           told == work[awaiting].told
           stored == {x \in things : told[x] \in StoredAnswer}
<1>1. things \subseteq NotStored /\ things \subseteq Thing
      /\ \A x \in things : told[x] \in Answer /\ Backed(x, told[x])
  BY AnswerIsWhole
<1>2. \A x \in things : OnPhone[x] \in {"waiting", "shown"}
  BY <1>1 DEF OnPhone, NotStored, Waiting, Unmade
<1>3. \A x \in things : OnServer[x] # "absent"
  BY <1>1 DEF OnServer, Backed, Answer, StoredAnswer, Thing
<1>4. \A x \in stored : OnServer[x] = "saved"
  BY <1>1 DEF OnServer, Backed, Thing
<1>5. \A x \in Thing : kept'[x] = IF x \in things THEN told[x] ELSE kept[x]
  BY DEF AnswerComes, AnswerTaken
<1>6. OnPhone' = [x \in Thing |-> IF x \in stored THEN "dropped"
                                  ELSE IF x \in things THEN "shown" ELSE OnPhone[x]]
  <2>1. ASSUME NEW x \in Thing
        PROVE  OnPhone'[x] = IF x \in stored THEN "dropped"
                             ELSE IF x \in things THEN "shown" ELSE OnPhone[x]
    <3>1. CASE x \in things
      BY <1>1, <1>5, <3>1 DEF OnPhone, Answer, StoredAnswer, Waiting, Unmade
    <3>2. CASE x \notin things
      BY <1>5, <3>2 DEF OnPhone
    <3> QED BY <3>1, <3>2
  <2>2. OnPhone' = [x \in Thing |-> OnPhone'[x]]
    BY DEF OnPhone
  <2> QED BY <2>1, <2>2
<1>7. UNCHANGED OnServer
  BY DEF AnswerComes, Answered, tables, OnServer, IsSaved
<1> HIDE DEF things, stored
<1>8. stored \subseteq things
  BY DEF stored
<1> QED BY <1>1, <1>2, <1>3, <1>4, <1>6, <1>7, <1>8 DEF Promise!Learned

\* Every step of the pipeline is one of the delivery's, or a stutter.
LEMMA DeliveryStep ==
  PipelineInv /\ [PipelineNext]_vars => [Promise!DeliveryNext]_<<OnPhone, OnServer>>
<1> SUFFICES ASSUME PipelineInv, [PipelineNext]_vars
             PROVE  Promise!DeliveryNext \/ UNCHANGED <<OnPhone, OnServer>>
  OBVIOUS
<1> DEFINE Right == Promise!DeliveryNext \/ UNCHANGED <<OnPhone, OnServer>>
<1>1. ASSUME UNCHANGED kept, UNCHANGED tables \/ \E c \in Thing : MovesOnly(c) PROVE Right
  BY <1>1, ServerTakes DEF Promise!DeliveryNext
<1>2. ASSUME UNCHANGED kept, UNCHANGED tables PROVE Right
  BY <1>1, <1>2
<1>3. ServerTypeOK /\ ChoicesHold
  BY DEF PipelineInv, ServerInv
<1>4. CASE Capture /\ UNCHANGED serverVars
  BY <1>4, CaptureSeals DEF Promise!DeliveryNext
<1>5. CASE (Noted \/ RunStarts \/ StoreRead \/ RunEnds) /\ UNCHANGED serverVars
  BY <1>2, <1>5 DEF Noted, RunStarts, StoreRead, RunEnds, serverVars, tables
<1>6. CASE ServerAlone
  <2>1. ServerNext /\ UNCHANGED kept
    BY <1>6 DEF ServerAlone, ServerNext, phoneVars
  <2> QED BY <1>1, <1>3, <2>1, ServerMovesOne
<1>7. ASSUME NEW q \in Request, PhoneSends(q) \/ AnswerDropped(q) PROVE Right
  BY <1>2, <1>7 DEF PhoneSends, NextSyncGoes, Arrives, AnswerDropped, Answered, phoneVars
<1>8. CASE AnswerComes
  BY <1>8, AnswerTeaches DEF Promise!DeliveryNext
<1>9. CASE GivesUp \/ UNCHANGED vars
  BY <1>2, <1>9 DEF GivesUp, NoAnswer, vars, phoneVars, serverVars, tables
<1>10. CASE Reopened
  BY <1>10, ReopenedSealsAgain DEF Promise!DeliveryNext
<1>11. ASSUME NEW r \in Elsewhere, SavedElsewhere(r) PROVE Right
  <2>1. r \in Record /\ r \in Thing
    BY PipelineAssumption DEF Thing
  <2>2. MovesOnly(r)
    BY <1>3, <1>11, <2>1, OneRowMoves DEF SavedElsewhere, ServerTypeOK
  <2> QED BY <1>1, <1>11, <2>1, <2>2 DEF SavedElsewhere, phoneVars
<1> QED BY <1>4, <1>5, <1>6, <1>7, <1>8, <1>9, <1>10, <1>11 DEF PipelineNext, PhoneAlone

\* One phone and the server are a delivery: a thing sealed on the phone stays there until
\* it is on the server, and what the server has saved it never gives up.
THEOREM PipelineImplementsDelivery == PipelineSpec => ImplementsDelivery
<1>1. PipelineInit => Promise!DeliveryInit
  <2>1. \A x \in Photo : x \notin Record
    BY ThingsAssumption
  <2>2. PipelineInit => OnPhone = [x \in Thing |-> "unmade"]
    BY DEF PipelineInit, PhoneInit, OnPhone, Unmade
  <2>3. PipelineInit => OnServer = [x \in Thing |-> "absent"]
    BY <2>1 DEF PipelineInit, ServerInit, OnServer, IsSaved
  <2> QED BY <2>2, <2>3 DEF Promise!DeliveryInit
<1>2. PipelineInv /\ [PipelineNext]_vars => [Promise!DeliveryNext]_<<OnPhone, OnServer>>
  BY DeliveryStep
<1> QED BY <1>1, <1>2, PipelineSafe, PTL
        DEF PipelineSpec, ImplementsDelivery, Promise!DeliverySpec, Promise!deliveryVars
=============================================================================
