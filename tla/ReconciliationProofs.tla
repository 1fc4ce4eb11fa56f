------------------------ MODULE ReconciliationProofs ------------------------
(***************************************************************************)
(* What a project's jobs and runs keep, for any number of tickets, workers *)
(* and jobs: an ended job stays ended; what is locked as invoiced stands,  *)
(* but for a piece of work past its last question as the lock came; and    *)
(* where one run works at a time nothing older is written over what is     *)
(* newer, and no change of a ticket is forgotten that didn't miss it.      *)
(***************************************************************************)
EXTENDS Reconciliation, TLAPS

(***************************************************************************)
(* What the actions do to the jobs and to a run                            *)
(***************************************************************************)
New == queued + 1 .. queued'

LEMMA JobIsNat == MaxJobs \in Nat /\ \A j \in Job : j \in Nat
  BY ReconciliationAssumption DEF Job

\* Jobs queued: each of the tickets is named by one of them, and nothing else changes.
LEMMA QueueEffect ==
  ASSUME WorkTypeOK, NEW S \in SUBSET Ticket, QueueJobs(S)
  PROVE  /\ queued' \in Nat /\ queued <= queued' /\ queued' <= MaxJobs
         /\ names' \in [Job -> SUBSET Ticket] /\ stands' \in [Job -> Stands] /\ tries' = tries
         /\ \A j \in Job \ New : names'[j] = names[j] /\ stands'[j] = stands[j]
         /\ \A j \in New : j \in Job /\ names'[j] \subseteq S /\ stands'[j] = "waiting"
         /\ \A t \in S : \E j \in New : /\ t \in names'[j]
                                        /\ \A k \in New : k > j => t \notin names'[k]
<1>1. PICK n \in 0..MaxJobs - queued, cut \in Cuts(S) :
        /\ DOMAIN cut = 1..n
        /\ queued' = queued + n
        /\ names' = [j \in Job |-> IF j - queued \in 1..n THEN cut[j - queued] ELSE names[j]]
        /\ stands' = [j \in Job |-> IF j - queued \in 1..n THEN "waiting" ELSE stands[j]]
        /\ tries' = tries
  BY DEF QueueJobs
<1>2. queued \in Nat /\ n \in Nat /\ queued + n <= MaxJobs /\ MaxJobs \in Nat
  BY <1>1, ReconciliationAssumption DEF WorkTypeOK
<1>3. /\ UNION Range(cut) = S
      /\ \A i, k \in DOMAIN cut : i < k => cut[i] \cap cut[k] = {}
  BY DEF Cuts
<1>4. \A i \in 1..n : cut[i] \subseteq S
  BY <1>1, <1>3 DEF Range
<1>5. \A j \in Job : j \in New <=> j - queued \in 1..n
  BY <1>1, <1>2 DEF New, Job
<1>6. \A j \in New : j \in Job /\ j - queued \in 1..n
  BY <1>1, <1>2 DEF New, Job
<1>7. \A j \in New : names'[j] = cut[j - queued] /\ stands'[j] = "waiting"
  BY <1>1, <1>6
<1>8. \A j \in Job \ New : names'[j] = names[j] /\ stands'[j] = stands[j]
  BY <1>1, <1>5
<1>9. names' \in [Job -> SUBSET Ticket] /\ stands' \in [Job -> Stands]
  BY <1>1, <1>4 DEF WorkTypeOK, Stands
<1>10. ASSUME NEW t \in S
       PROVE  \E j \in New : t \in names'[j] /\ \A k \in New : k > j => t \notin names'[k]
  <2>1. PICK i \in 1..n : t \in cut[i]
    BY <1>1, <1>3 DEF Range
  <2>2. queued + i \in New /\ (queued + i) - queued = i
    BY <1>1, <1>2 DEF New
  <2>3. ASSUME NEW k \in New, k > queued + i PROVE t \notin names'[k]
    <3>1. k - queued \in 1..n /\ i < k - queued
      BY <1>2, <1>6, <2>3 DEF New
    <3>2. cut[i] \cap cut[k - queued] = {}
      BY <1>1, <1>3, <3>1
    <3> QED
      BY <1>7, <2>1, <3>2
  <2>4. t \in names'[queued + i]
    BY <1>7, <2>1, <2>2
  <2> QED
    BY <2>2, <2>3, <2>4
<1>11. queued' \in Nat /\ queued <= queued' /\ queued' <= MaxJobs
  BY <1>1, <1>2
<1>12. \A j \in New : j \in Job /\ names'[j] \subseteq S /\ stands'[j] = "waiting"
  BY <1>4, <1>6, <1>7
<1>13. tries' = tries
  BY <1>1
<1> QED
  BY <1>8, <1>9, <1>10, <1>11, <1>12, <1>13

\* A run's fields as it goes on.
LEMMA NoRunFields ==
  /\ NoRun \in Run /\ NoRun.phase = "idle" /\ NoRun.took = {} /\ NoRun.todo = {}
  /\ NoRun.asVoid = {} /\ NoRun.turn = Nobody /\ NoRun.last = {}
  /\ NoRun.read \in [Ticket -> Nat] /\ \A t \in Ticket : NoRun.read[t] = 0
  BY DEF NoRun, Run, Phase

TakenUp(took, last) ==
  [NoRun EXCEPT !.phase = "taken", !.took = took, !.last = last]
ReadOf(r, read, asVoid, todo) ==
  [r EXCEPT !.phase = "working", !.read = read, !.asVoid = asVoid, !.todo = todo]
DoneOf(r, t) == [r EXCEPT !.phase = "working", !.todo = r.todo \ {t}, !.turn = Nobody]
StartedOf(r, t) == [r EXCEPT !.phase = "turn", !.turn = t]
WritingOf(r) == [r EXCEPT !.phase = "writing"]
ClosingOf(r) == [r EXCEPT !.phase = "closing"]

LEMMA RunFields ==
  ASSUME NEW r \in Run
  PROVE  /\ r.phase \in Phase /\ r.took \subseteq Job /\ r.last \subseteq Job
         /\ r.read \in [Ticket -> Nat] /\ r.todo \subseteq Ticket /\ r.asVoid \subseteq Ticket
         /\ r.turn \in Ticket \cup {Nobody}
  BY DEF Run

LEMMA ReadOfFields ==
  ASSUME NEW r \in Run, NEW read \in [Ticket -> Nat], NEW asVoid \in SUBSET Ticket,
         NEW todo \in SUBSET Ticket
  PROVE  LET q == ReadOf(r, read, asVoid, todo)
         IN  /\ q \in Run /\ q.phase = "working" /\ q.took = r.took /\ q.read = read
             /\ q.last = r.last
             /\ q.asVoid = asVoid /\ q.todo = todo /\ q.turn = r.turn
  BY DEF ReadOf, Run, Phase

LEMMA DoneOfFields ==
  ASSUME NEW r \in Run, NEW t
  PROVE  /\ DoneOf(r, t) \in Run /\ DoneOf(r, t).phase = "working"
         /\ DoneOf(r, t).took = r.took /\ DoneOf(r, t).read = r.read
         /\ DoneOf(r, t).last = r.last
         /\ DoneOf(r, t).asVoid = r.asVoid /\ DoneOf(r, t).todo = r.todo \ {t}
         /\ DoneOf(r, t).turn = Nobody
  BY DEF DoneOf, Run, Phase

LEMMA StartedOfFields ==
  ASSUME NEW r \in Run, NEW t \in Ticket
  PROVE  /\ StartedOf(r, t) \in Run /\ StartedOf(r, t).phase = "turn"
         /\ StartedOf(r, t).took = r.took /\ StartedOf(r, t).read = r.read
         /\ StartedOf(r, t).last = r.last
         /\ StartedOf(r, t).asVoid = r.asVoid /\ StartedOf(r, t).todo = r.todo
         /\ StartedOf(r, t).turn = t
  BY DEF StartedOf, Run, Phase

LEMMA WritingOfFields ==
  ASSUME NEW r \in Run
  PROVE  /\ WritingOf(r) \in Run /\ WritingOf(r).phase = "writing"
         /\ WritingOf(r).took = r.took /\ WritingOf(r).read = r.read
         /\ WritingOf(r).last = r.last
         /\ WritingOf(r).asVoid = r.asVoid /\ WritingOf(r).todo = r.todo
         /\ WritingOf(r).turn = r.turn
  BY DEF WritingOf, Run, Phase

LEMMA ClosingOfFields ==
  ASSUME NEW r \in Run
  PROVE  /\ ClosingOf(r) \in Run /\ ClosingOf(r).phase = "closing"
         /\ ClosingOf(r).took = r.took /\ ClosingOf(r).read = r.read
         /\ ClosingOf(r).last = r.last
         /\ ClosingOf(r).asVoid = r.asVoid /\ ClosingOf(r).todo = r.todo
         /\ ClosingOf(r).turn = r.turn
  BY DEF ClosingOf, Run, Phase

(***************************************************************************)
(* The jobs                                                                *)
(***************************************************************************)
\* A job isn't before it is queued, a run takes up what is queued, and none is tried too often.
JobsHold ==
  /\ WorkTypeOK /\ TriedAtMost
  /\ \A j \in Job : j > queued => stands[j] = "none"
  /\ \A w \in Worker : run[w].last \subseteq run[w].took /\ run[w].took \subseteq 1..queued

LEMMA JobsInit == Init => JobsHold
<1> SUFFICES ASSUME Init PROVE JobsHold
  OBVIOUS
<1> USE ReconciliationAssumption
<1>1. \A w \in Worker : run[w] = NoRun
  BY DEF Init
<1>2. WorkTypeOK
  <2>1. run \in [Worker -> Run] /\ \A w \in Worker : run[w].phase = "idle" /\ run[w].turn = Nobody
    BY <1>1, NoRunFields DEF Init
  <2>2. names \in [Job -> SUBSET Ticket] /\ tries \in [Job -> Nat] /\ stands \in [Job -> Stands]
    BY DEF Init, Stands
  <2>3. seen \in [Change -> Seen]
    BY DEF Init, Seen, Standing, NoChange
  <2> QED
    BY <2>1, <2>2, <2>3 DEF Init, WorkTypeOK
<1>3. TriedAtMost
  BY DEF Init, TriedAtMost
<1> QED
  BY <1>1, <1>2, <1>3, NoRunFields DEF Init, JobsHold

\* A change of the records with its jobs.
LEMMA JobsQueued ==
  ASSUME JobsHold, NEW S \in SUBSET Ticket, QueueJobs(S), UNCHANGED <<holder, run>>,
         facts' \in [Ticket -> Nat], written' = written, standsVoid' = standsVoid,
         notProcessed' = notProcessed,
         voids' \subseteq Ticket, unvoided' \subseteq Ticket, locks' \subseteq Ticket,
         seen' \in [Change -> Seen], missed' \subseteq Ticket, late' \subseteq Worker
  PROVE  JobsHold'
<1> USE ReconciliationAssumption
<1>1. WorkTypeOK
  BY DEF JobsHold
<1>2. queued' \in 0..MaxJobs /\ queued \in Nat
  BY <1>1, QueueEffect DEF WorkTypeOK
<1>3. WorkTypeOK'
  BY <1>1, <1>2, QueueEffect DEF WorkTypeOK
<1>4. TriedAtMost'
  BY <1>1, QueueEffect DEF JobsHold, TriedAtMost
<1>5. \A j \in Job : j > queued' => stands'[j] = "none"
  <2> SUFFICES ASSUME NEW j \in Job, j > queued' PROVE stands'[j] = "none"
    OBVIOUS
  <2>1. j \in Nat /\ queued <= queued' /\ queued' \in Nat
    BY <1>1, QueueEffect DEF Job
  <2>2. j \notin New /\ j > queued
    BY <1>2, <2>1 DEF New
  <2> QED
    BY <1>1, <2>2, QueueEffect DEF JobsHold
<1>6. \A w \in Worker : run'[w].last \subseteq run'[w].took /\ run'[w].took \subseteq 1..queued'
  <2>1. queued' \in Nat /\ queued <= queued'
    BY <1>1, QueueEffect
  <2>2. 1..queued \subseteq 1..queued'
    BY <1>2, <2>1
  <2> QED
    BY <2>2 DEF JobsHold
<1> QED
  BY <1>3, <1>4, <1>5, <1>6 DEF JobsHold

\* A run gone on, its jobs' rows as they may be.
LEMMA JobsWorked ==
  ASSUME JobsHold, NEW w \in Worker, NEW q \in Run, run' = [run EXCEPT ![w] = q],
         UNCHANGED <<records, queued, names>>,
         written' \in [Ticket -> Nat], standsVoid' \subseteq Ticket, unvoided' \subseteq Ticket,
         notProcessed' \subseteq Ticket, holder' \in Worker \cup {Nobody},
         tries' \in [Job -> Nat], \A j \in Job : tries'[j] <= Tries,
         stands' \in [Job -> Stands],
         \A j \in Job : stands[j] = "none" => stands'[j] = "none",
         q.last \subseteq q.took, q.took \subseteq 1..queued, late' \subseteq Worker,
         q.phase = "idle" => holder' # w,
         q.phase \in {"turn", "writing"} <=> q.turn # Nobody,
         \A v \in Worker \ {w} : holder' = v => holder = v
  PROVE  JobsHold'
<1> USE ReconciliationAssumption
<1>1. \A v \in Worker : run'[v] = IF v = w THEN q ELSE run[v]
  BY DEF JobsHold, WorkTypeOK
<1>2. run' \in [Worker -> Run]
  BY DEF JobsHold, WorkTypeOK
<1>3. WorkTypeOK'
  BY <1>1, <1>2 DEF JobsHold, WorkTypeOK, records
<1>4. TriedAtMost'
  BY DEF TriedAtMost
<1> QED
  BY <1>1, <1>3, <1>4 DEF JobsHold

\* What a change leaves the worker's, and what it queues.
ApiChange ==
  /\ UNCHANGED <<holder, run, written, standsVoid, notProcessed>>
  /\ facts' \in [Ticket -> Nat] /\ \A t \in Ticket : facts[t] <= facts'[t]
  /\ voids' \subseteq Ticket /\ unvoided' \subseteq Ticket /\ locks' \subseteq Ticket
  /\ seen' \in [Change -> Seen] /\ missed' \subseteq Ticket
  /\ late \subseteq late' /\ late' \subseteq Worker
  /\ (\E S \in SUBSET Ticket : QueueJobs(S)) \/ UNCHANGED jobs

\* What a change under way has asked, and what one that none overtakes asks.
LEMMA NowSeen == WorkTypeOK => Now \in Seen
  BY DEF Now, Stood, Seen, Standing, WorkTypeOK

LEMMA NamedTickets ==
  ASSUME NEW asked \in SUBSET Ticket, NEW others \in SUBSET Ticket, NEW read
  PROVE  Named(asked, others, read) \in SUBSET Ticket
  BY DEF Named

\* What a change misses are tickets, and one missed stays so unless it is named anew.
LEMMA MissedEffect ==
  ASSUME WorkTypeOK, NEW S \in SUBSET Ticket, NEW named, Misses(S, named)
  PROVE  /\ missed' \subseteq Ticket /\ S \subseteq missed'
         /\ missed \ missed' \subseteq named \ (standsVoid \cup InHand)
  BY DEF Misses, WorkTypeOK

LEMMA QueuesEffect ==
  ASSUME WorkTypeOK, NEW asked \in SUBSET Ticket, NEW others \in SUBSET Ticket, NEW read,
         NEW tooLate \in SUBSET Ticket, Queues(asked, others, read, tooLate)
  PROVE  /\ Named(asked, others, read) \in SUBSET Ticket
         /\ QueueJobs(Named(asked, others, read))
         /\ missed' \subseteq Ticket /\ tooLate \subseteq missed'
         /\ LeftOff(asked, others) \subseteq Named(asked, others, read) \cup missed'
         /\ missed \ missed' \subseteq Named(asked, others, read) \ (standsVoid \cup InHand)
<1> DEFINE named == Named(asked, others, read)
           S == (LeftOff(asked, others) \ named) \cup tooLate
<1>1. named \in SUBSET Ticket /\ S \in SUBSET Ticket
  BY NamedTickets DEF LeftOff
<1>2. QueueJobs(named) /\ Misses(S, named)
  BY DEF Queues
<1> HIDE DEF named
<1>3. /\ missed' \subseteq Ticket /\ S \subseteq missed'
      /\ missed \ missed' \subseteq named \ (standsVoid \cup InHand)
  BY <1>1, <1>2, MissedEffect
<1> QED
  BY <1>1, <1>2, <1>3 DEF named

LEMMA CommitEffect ==
  ASSUME WorkTypeOK, NEW read \in Seen, Commits(read), UNCHANGED <<holder, run>>,
         seen' \in [Change -> Seen]
  PROVE  ApiChange
<1> USE ReconciliationAssumption
<1>1. ASSUME NEW S, Moves(S)
      PROVE  facts' \in [Ticket -> Nat] /\ \A t \in Ticket : facts[t] <= facts'[t]
  BY <1>1 DEF Moves, WorkTypeOK
<1>2. ASSUME facts' = facts
      PROVE  facts' \in [Ticket -> Nat] /\ \A t \in Ticket : facts[t] <= facts'[t]
  BY <1>2 DEF WorkTypeOK
<1>3. /\ voids \subseteq Ticket /\ unvoided \subseteq Ticket /\ locks \subseteq Ticket
      /\ late \subseteq Worker /\ \A t \in Ticket : Neighbours[t] \in SUBSET Ticket
  BY DEF WorkTypeOK
<1>4. ASSUME NEW asked \in SUBSET Ticket, NEW others \in SUBSET Ticket, NEW r,
             NEW tooLate \in SUBSET Ticket, Queues(asked, others, r, tooLate)
      PROVE  missed' \subseteq Ticket /\ \E S \in SUBSET Ticket : QueueJobs(S)
  BY <1>4, QueuesEffect
<1>5. ASSUME NEW t \in Ticket, Correct(t, read) PROVE ApiChange
  <2>1. Queues({t}, Neighbours[t], Found(read), {}) /\ {t} \in SUBSET Ticket
    BY <1>5 DEF Correct
  <2>2. missed' \subseteq Ticket /\ \E S \in SUBSET Ticket : QueueJobs(S)
    BY <1>3, <1>4, <2>1
  <2> QED
    BY <1>1, <1>3, <1>5, <2>2 DEF Correct, ApiChange, conclusions
<1>6. ASSUME NEW t \in Ticket, Void(t, read) PROVE ApiChange
  <2>1. Queues({t}, Neighbours[t], Found(read), {}) /\ {t} \in SUBSET Ticket
    BY <1>6 DEF Void
  <2>2. missed' \subseteq Ticket /\ \E S \in SUBSET Ticket : QueueJobs(S)
    BY <1>3, <1>4, <2>1
  <2> QED
    BY <1>1, <1>3, <1>6, <2>2 DEF Void, ApiChange, conclusions
<1>7. ASSUME NEW t \in Ticket, Unvoid(t, read) PROVE ApiChange
  <2> DEFINE tooLate == {t} \cap (InHand \cup locks)
  <2>1. /\ Queues({t}, Neighbours[t], Found(read), tooLate) /\ {t} \in SUBSET Ticket
        /\ tooLate \in SUBSET Ticket
    BY <1>7 DEF Unvoid
  <2> HIDE DEF tooLate
  <2>2. missed' \subseteq Ticket /\ \E S \in SUBSET Ticket : QueueJobs(S)
    BY <1>3, <1>4, <2>1
  <2> QED
    BY <1>1, <1>3, <1>7, <2>2 DEF Unvoid, ApiChange
<1>8. ASSUME NEW t \in Ticket, Lock(t, read) PROVE ApiChange
  <2> DEFINE S == {t} \cap (standsVoid \ voids)
  <2>1. Misses(S, {}) /\ S \in SUBSET Ticket
    BY <1>8 DEF Lock
  <2> HIDE DEF S
  <2>2. missed' \subseteq Ticket
    BY <2>1, MissedEffect
  <2> QED
    BY <1>2, <1>3, <1>8, <2>2 DEF Lock, ApiChange, conclusions
<1>9. ASSUME NEW S \in SetupMoves, SetupChanges(S, read) PROVE ApiChange
  <2>1. Queues({}, S, read, {}) /\ S \in SUBSET Ticket
    BY <1>9 DEF SetupChanges
  <2>2. missed' \subseteq Ticket /\ \E Q \in SUBSET Ticket : QueueJobs(Q)
    BY <1>4, <2>1
  <2> QED
    BY <1>1, <1>3, <1>9, <2>2 DEF SetupChanges, ApiChange, conclusions
<1>10. ASSUME NEW S \in SUBSET Ticket, Reprocess(S, read) PROVE ApiChange
  <2>1. Misses({}, S \ read.locks) /\ {} \in SUBSET Ticket
    BY <1>10 DEF Reprocess
  <2>2. missed' \subseteq Ticket
    BY <2>1, MissedEffect
  <2> QED
    BY <1>2, <1>3, <1>10, <2>2 DEF Reprocess, ApiChange, conclusions
<1>11. \A j \in SetAside : names[j] \in SUBSET Ticket
  BY DEF SetAside, WorkTypeOK
<1> QED
  BY <1>5, <1>6, <1>7, <1>8, <1>9, <1>10, <1>11 DEF Commits

LEMMA UnlockEffect ==
  ASSUME WorkTypeOK, NEW t \in Ticket, Unlock(t), UNCHANGED <<holder, run, seen>>
  PROVE  ApiChange
<1>1. Misses({}, {t}) /\ {} \in SUBSET Ticket
  BY DEF Unlock
<1>2. missed' \subseteq Ticket
  BY <1>1, MissedEffect
<1>3. \A u \in Ticket : facts[u] <= facts[u]
  BY DEF WorkTypeOK
<1> QED
  BY <1>2, <1>3 DEF Unlock, ApiChange, conclusions, WorkTypeOK

\* Whatever a change asked, it commits as one that asked it.
LEMMA ApiCases ==
  ASSUME WorkTypeOK, Api
  PROVE  /\ UNCHANGED <<holder, run>>
         /\ \/ \E read \in Seen : Commits(read) /\ seen' \in [Change -> Seen]
            \/ \E t \in Ticket : Unlock(t) /\ seen' = seen
<1>1. ASSUME NEW c \in Change, Overtaken(c)
      PROVE  \E read \in Seen : Commits(read) /\ seen' \in [Change -> Seen]
  <2>1. seen[c] \in Seen /\ NoChange \in Seen
    BY DEF WorkTypeOK, NoChange, Seen, Standing
  <2> QED
    BY <1>1, <2>1 DEF Overtaken, WorkTypeOK
<1>2. ASSUME Commits(Now), seen' = seen
      PROVE  \E read \in Seen : Commits(read) /\ seen' \in [Change -> Seen]
  BY <1>2, NowSeen DEF WorkTypeOK
<1> QED
  BY <1>1, <1>2 DEF Api

LEMMA ApiEffect == ASSUME WorkTypeOK, Api PROVE ApiChange
  BY ApiCases, CommitEffect, UnlockEffect

\* A change that asks moves nothing else.
LEMMA AskingEffect ==
  ASSUME WorkTypeOK, Asking
  PROVE  /\ seen' \in [Change -> Seen]
         /\ UNCHANGED <<facts, voids, locks, missed, conclusions, jobs, holder, run, late>>
<1> PICK c \in Change : Begins(c) \/ ReadsLocks(c) \/ ReadsVoids(c) \/ Undone(c)
  BY DEF Asking
<1>1. seen[c] \in Seen /\ NoChange \in Seen
  BY DEF WorkTypeOK, NoChange, Seen, Standing
<1>2. ASSUME NEW stage, NEW asked \in Seen, Asks(c, stage, asked)
      PROVE  /\ seen' \in [Change -> Seen]
             /\ UNCHANGED <<facts, voids, locks, missed, conclusions, jobs, holder, run, late>>
  BY <1>2 DEF Asks, WorkTypeOK
<1>3. CASE Begins(c)
  <2>1. [NoChange EXCEPT !.stage = "begun", !.stood = Stood] \in Seen
    BY <1>1 DEF Seen, Stood, Standing, WorkTypeOK
  <2> QED
    BY <1>2, <1>3, <2>1 DEF Begins
<1>4. CASE ReadsLocks(c)
  <2>1. [seen[c] EXCEPT !.stage = "locks", !.locks = locks] \in Seen
    BY <1>1 DEF Seen, WorkTypeOK
  <2> QED
    BY <1>2, <1>4, <2>1 DEF ReadsLocks
<1>5. CASE ReadsVoids(c)
  <2>1. [seen[c] EXCEPT !.stage = "asked", !.void = voids \cup standsVoid] \in Seen
    BY <1>1 DEF Seen, WorkTypeOK
  <2> QED
    BY <1>2, <1>5, <2>1 DEF ReadsVoids
<1>6. CASE Undone(c)
  BY <1>1, <1>2, <1>6 DEF Undone
<1> QED
  BY <1>3, <1>4, <1>5, <1>6

\* A taken job waits, and was tried less often than it may be.
LEMMA TakenWaits ==
  ASSUME JobsHold, NEW j \in Taken
  PROVE  j \in Job /\ j \in 1..queued /\ stands[j] = "waiting" /\ tries[j] + 1 <= Tries
<1>1. j \in Waiting \ Spent
  BY DEF Taken
<1>2. j \in Job /\ stands[j] = "waiting" /\ ~(tries[j] >= Tries)
  BY <1>1 DEF Waiting, Spent
<1>3. tries[j] \in Nat /\ Tries \in Nat
  BY <1>2, ReconciliationAssumption DEF JobsHold, WorkTypeOK
<1>4. ~(j > queued) /\ queued \in Nat /\ j \in Nat /\ j >= 1
  BY <1>2, ReconciliationAssumption DEF JobsHold, WorkTypeOK, Job
<1> QED
  BY <1>2, <1>3, <1>4

\* What each step of a run makes of it, and of the lock.
LEMMA RunEffect ==
  ASSUME WorkTypeOK, NEW w \in Worker
  PROVE  /\ Read(w) =>
              LET asked == NamedBy(run[w].took)
                  asVoid == asked \cap (voids \ standsVoid)
              IN  run' = [run EXCEPT ![w] =
                    ReadOf(run[w], facts, asVoid, (asked \cap Gathered) \cup asVoid)]
         /\ \A t : TicketDone(w, t) => run' = [run EXCEPT ![w] = DoneOf(run[w], t)]
         /\ Changes(w) => run' = [run EXCEPT ![w] = WritingOf(run[w])]
         /\ \A t : Starts(w, t) => run' = [run EXCEPT ![w] = StartedOf(run[w], t)]
         /\ Closes(w) => run' = [run EXCEPT ![w] = ClosingOf(run[w])]
         /\ Finishes(w) \/ Fails(w) \/ Dies(w) => run' = [run EXCEPT ![w] = NoRun]
         /\ Release(w) => /\ holder' \in Worker \cup {Nobody} /\ holder' # w
                          /\ holder' = holder \/ holder' = Nobody
<1>1. Read(w) =>
        LET asked == NamedBy(run[w].took)
            asVoid == asked \cap (voids \ standsVoid)
        IN  run' = [run EXCEPT ![w] =
              ReadOf(run[w], facts, asVoid, (asked \cap Gathered) \cup asVoid)]
  BY DEF Read, ReadOf, WorkTypeOK
<1>2. \A t : TicketDone(w, t) => run' = [run EXCEPT ![w] = DoneOf(run[w], t)]
  <2> SUFFICES ASSUME NEW t, TicketDone(w, t) PROVE run' = [run EXCEPT ![w] = DoneOf(run[w], t)]
    OBVIOUS
  <2>1. [run[w] EXCEPT !.phase = "working", !.todo = run[w].todo \ {t}, !.turn = Nobody]
          = DoneOf(run[w], t)
    BY DEF DoneOf
  <2> QED
    BY <2>1 DEF TicketDone
<1>3. \A t : Starts(w, t) => run' = [run EXCEPT ![w] = StartedOf(run[w], t)]
  BY DEF Starts, StartedOf, WorkTypeOK
<1>4. /\ Closes(w) => run' = [run EXCEPT ![w] = ClosingOf(run[w])]
      /\ Changes(w) => run' = [run EXCEPT ![w] = WritingOf(run[w])]
  BY DEF Closes, ClosingOf, Changes, WritingOf, WorkTypeOK
<1>5. Finishes(w) \/ Fails(w) \/ Dies(w) => run' = [run EXCEPT ![w] = NoRun]
  BY DEF Finishes, Fails, Dies
<1>6. Release(w) => /\ holder' \in Worker \cup {Nobody} /\ holder' # w
                    /\ holder' = holder \/ holder' = Nobody
  BY ReconciliationAssumption DEF Release, WorkTypeOK
<1> QED
  BY <1>1, <1>2, <1>3, <1>4, <1>5, <1>6

\* What the worker's steps may do to the jobs' rows.
WorkerJobs ==
  /\ UNCHANGED <<records, queued, names>> /\ late' \subseteq Worker
  /\ written' \in [Ticket -> Nat] /\ standsVoid' \subseteq Ticket /\ unvoided' \subseteq Ticket
  /\ notProcessed' \subseteq Ticket
  /\ tries' \in [Job -> Nat] /\ \A j \in Job : tries'[j] <= Tries
  /\ stands' \in [Job -> Stands] /\ \A j \in Job : stands[j] = "none" => stands'[j] = "none"

LEMMA JobsStep == JobsHold /\ [Step]_work => JobsHold'
<1> SUFFICES ASSUME JobsHold, [Step]_work PROVE JobsHold'
  OBVIOUS
<1> USE ReconciliationAssumption
<1>1. WorkTypeOK /\ \A j \in Job : tries[j] <= Tries
  BY DEF JobsHold, TriedAtMost
<1>2. CASE Api
  <2>1. ApiChange
    BY <1>1, <1>2, ApiEffect
  <2>2. CASE \E S \in SUBSET Ticket : QueueJobs(S)
    BY <2>1, <2>2, JobsQueued DEF ApiChange
  <2>3. CASE UNCHANGED jobs
    BY <1>1, <2>1, <2>3 DEF ApiChange, jobs, JobsHold, WorkTypeOK, TriedAtMost
  <2> QED
    BY <2>1, <2>2, <2>3 DEF ApiChange
<1>3. \A w \in Worker : /\ run[w] \in Run /\ run[w].took \subseteq 1..queued
                        /\ run[w].last \subseteq run[w].took
                        /\ run[w].phase = "idle" => holder # w
                        /\ run[w].phase \in {"turn", "writing"} <=> run[w].turn # Nobody
  BY DEF JobsHold, WorkTypeOK
<1>4. UNCHANGED <<records, conclusions, jobs>> /\ late' \subseteq late => WorkerJobs
  BY <1>1 DEF records, conclusions, jobs, WorkerJobs, WorkTypeOK
<1>5. \A w \in Worker : holder' = holder \/ holder' = Nobody =>
        \A v \in Worker \ {w} : holder' = v => holder = v
  OBVIOUS
<1>6. ASSUME NEW w \in Worker, TakeUp(w) PROVE JobsHold'
  <2>1. Taken \subseteq Job /\ Taken \subseteq 1..queued
        /\ \A j \in Taken : tries[j] + 1 <= Tries /\ stands[j] = "waiting"
    BY TakenWaits
  <2>2. WorkerJobs
    <3>1. tries' = [j \in Job |-> IF j \in Taken THEN tries[j] + 1 ELSE tries[j]]
          /\ stands' = [j \in Job |-> IF j \in Spent THEN "setAside" ELSE stands[j]]
          /\ UNCHANGED <<records, conclusions, queued, names, late>>
      BY <1>6 DEF TakeUp, SpentSetAside
    <3>2. \A j \in Spent : stands[j] = "waiting"
      BY DEF Spent, Waiting
    <3>3. tries' \in [Job -> Nat] /\ \A j \in Job : tries'[j] <= Tries
      <4>1. \A j \in Job : tries[j] \in Nat /\ tries[j] + 1 \in Nat
        BY <1>1 DEF WorkTypeOK
      <4>2. \A j \in Job : tries'[j] = IF j \in Taken THEN tries[j] + 1 ELSE tries[j]
        BY <3>1
      <4>3. tries' \in [Job -> Nat]
        BY <3>1, <4>1
      <4> QED
        BY <1>1, <2>1, <4>2, <4>3
    <3>4. stands' \in [Job -> Stands] /\ \A j \in Job : stands[j] = "none" => stands'[j] = "none"
      BY <1>1, <3>1, <3>2 DEF WorkTypeOK, Stands
    <3> QED
      BY <1>1, <3>1, <3>3, <3>4 DEF WorkerJobs, conclusions, WorkTypeOK
  <2>3. CASE Taken = {}
    <3>1. UNCHANGED <<holder, run>>
      BY <1>6, <2>3 DEF TakeUp
    <3> QED
      BY <2>2, <3>1 DEF WorkerJobs, records, JobsHold, WorkTypeOK, TriedAtMost
  <2>4. CASE Taken # {}
    <3> DEFINE final == {j \in Taken : tries[j] + 1 >= Tries}
               q == TakenUp(Taken, final)
    <3>1. run' = [run EXCEPT ![w] = q] /\ holder' = w /\ holder = Nobody
      BY <1>6, <2>4 DEF TakeUp, TakenUp, LockFree
    <3>2. q \in Run /\ q.phase = "taken" /\ q.took = Taken /\ q.turn = Nobody
          /\ q.last \subseteq Taken
      <4>1. final \in SUBSET Job /\ Taken \in SUBSET Job
        BY <2>1
      <4> HIDE DEF final
      <4>2. final \subseteq Taken
        BY DEF final
      <4>3. TakenUp(Taken, final) \in Run /\ TakenUp(Taken, final).phase = "taken"
            /\ TakenUp(Taken, final).took = Taken /\ TakenUp(Taken, final).turn = Nobody
            /\ TakenUp(Taken, final).last = final
        BY <4>1, NoRunFields DEF TakenUp, Run, Phase
      <4> QED
        BY <4>2, <4>3
    <3> HIDE DEF q
    <3> QED
      BY <2>1, <2>2, <3>1, <3>2, JobsWorked DEF WorkerJobs
  <2> QED
    BY <2>3, <2>4
<1>7. ASSUME NEW w \in Worker, NEW q \in Run, run' = [run EXCEPT ![w] = q], WorkerJobs,
             q.took = run[w].took \/ q.took = {}, q.last \subseteq q.took,
             q.phase = "idle" => holder' # w,
             q.phase \in {"turn", "writing"} <=> q.turn # Nobody,
             holder' = holder \/ holder' = Nobody
      PROVE  JobsHold'
  <2>1. holder' \in Worker \cup {Nobody}
    BY <1>1, <1>7 DEF WorkTypeOK
  <2>2. q.took \subseteq 1..queued /\ q.last \subseteq q.took
    BY <1>3, <1>7
  <2> QED
    BY <1>5, <1>7, <2>1, <2>2, JobsWorked DEF WorkerJobs
<1>8. ASSUME NEW w \in Worker, Read(w) PROVE JobsHold'
  <2> DEFINE asked == NamedBy(run[w].took)
             asVoid == asked \cap (voids \ standsVoid)
             todo == (asked \cap Gathered) \cup asVoid
             q == ReadOf(run[w], facts, asVoid, todo)
  <2>1. run' = [run EXCEPT ![w] = q]
    BY <1>1, <1>8, RunEffect
  <2>2. asVoid \in SUBSET Ticket /\ todo \in SUBSET Ticket /\ facts \in [Ticket -> Nat]
    BY <1>1 DEF Gathered, WorkTypeOK
  <2> HIDE DEF asVoid, todo
  <2>3. q \in Run /\ q.phase = "working" /\ q.took = run[w].took /\ q.turn = run[w].turn
        /\ q.last \subseteq q.took
    BY <1>3, <2>2, ReadOfFields
  <2>4. run[w].turn = Nobody /\ UNCHANGED <<records, conclusions, jobs, holder, late>>
    BY <1>3, <1>8 DEF Read
  <2> HIDE DEF q
  <2> QED
    BY <1>4, <1>7, <2>1, <2>3, <2>4
<1>9. ASSUME NEW w \in Worker, NEW t, TicketDone(w, t), WorkerJobs, holder' = holder
      PROVE  JobsHold'
  <2>1. run' = [run EXCEPT ![w] = DoneOf(run[w], t)]
    BY <1>1, <1>9, RunEffect
  <2> QED
    <3> DEFINE q == DoneOf(run[w], t)
    <3>1. q \in Run /\ q.phase = "working" /\ q.took = run[w].took /\ q.last = run[w].last
          /\ q.turn = Nobody /\ q.last \subseteq q.took
      BY <1>3, DoneOfFields
    <3> HIDE DEF q
    <3>2. run' = [run EXCEPT ![w] = q]
      BY <2>1 DEF q
    <3> QED
      BY <1>7, <1>9, <3>1, <3>2
<1>10. ASSUME NEW w \in Worker, NEW t \in Ticket, LeavesLocked(w, t) PROVE JobsHold'
  <2>1. WorkerJobs /\ TicketDone(w, t) /\ holder' = holder
    BY <1>1, <1>10 DEF LeavesLocked, TicketDone, WorkerJobs, WorkTypeOK, records, jobs
  <2> QED
    BY <1>9, <2>1
<1>11. ASSUME NEW w \in Worker, NEW t \in Ticket, Starts(w, t) PROVE JobsHold'
  <2>1. run' = [run EXCEPT ![w] = StartedOf(run[w], t)]
    BY <1>1, <1>11, RunEffect
  <2>2. WorkerJobs /\ holder' = holder
    BY <1>4, <1>11 DEF Starts
  <2>3. t # Nobody
    OBVIOUS
  <2> QED
    <3> DEFINE q == StartedOf(run[w], t)
    <3>1. q \in Run /\ q.phase = "turn" /\ q.took = run[w].took /\ q.last = run[w].last
          /\ q.turn = t /\ q.last \subseteq q.took
      BY <1>3, StartedOfFields
    <3> HIDE DEF q
    <3>2. run' = [run EXCEPT ![w] = q]
      BY <2>1 DEF q
    <3> QED
      BY <1>7, <2>2, <2>3, <3>1, <3>2
<1>12. ASSUME NEW w \in Worker, Writes(w) PROVE JobsHold'
  <2>1. run[w].turn \in Ticket
    BY <1>3, <1>12, RunFields DEF Writes
  <2>2. UNCHANGED <<records, jobs, holder>> /\ TicketDone(w, run[w].turn)
        /\ unvoided' \subseteq unvoided /\ notProcessed' \subseteq notProcessed
    BY <1>12 DEF Writes
  <2>3. standsVoid' \subseteq Ticket /\ written' \in [Ticket -> Nat]
    <3>1. run[w].read \in [Ticket -> Nat]
      BY <1>3, RunFields
    <3>2. CASE run[w].turn \in run[w].asVoid
      BY <1>1, <1>12, <2>1, <3>2 DEF Writes, WorkTypeOK
    <3>3. CASE run[w].turn \notin run[w].asVoid
      BY <1>1, <1>12, <2>1, <3>1, <3>3 DEF Writes, WorkTypeOK
    <3> QED
      BY <3>2, <3>3
  <2>4. WorkerJobs
    BY <1>1, <2>2, <2>3 DEF TicketDone, WorkerJobs, WorkTypeOK, jobs
  <2> QED
    BY <1>9, <2>2, <2>4
<1>13. ASSUME NEW w \in Worker, NotProcessed(w) PROVE JobsHold'
  <2>1. run[w].turn \in Ticket
    BY <1>3, <1>13, RunFields DEF NotProcessed
  <2>2. WorkerJobs /\ TicketDone(w, run[w].turn) /\ holder' = holder
    BY <1>1, <1>13, <2>1 DEF NotProcessed, TicketDone, WorkerJobs, WorkTypeOK, records, jobs
  <2> QED
    BY <1>9, <2>2
<1>18. ASSUME NEW w \in Worker, LeavesAsIs(w) PROVE JobsHold'
  <2>1. WorkerJobs /\ TicketDone(w, run[w].turn) /\ holder' = holder
    BY <1>1, <1>18 DEF LeavesAsIs, TicketDone, WorkerJobs, WorkTypeOK, records, jobs
  <2> QED
    BY <1>9, <2>1
<1>19. ASSUME NEW w \in Worker, Changes(w) PROVE JobsHold'
  <2>1. run' = [run EXCEPT ![w] = WritingOf(run[w])]
    BY <1>1, <1>19, RunEffect
  <2>2. WorkerJobs /\ holder' = holder /\ run[w].turn # Nobody
    BY <1>3, <1>4, <1>19 DEF Changes
  <2> QED
    <3> DEFINE q == WritingOf(run[w])
    <3>1. q \in Run /\ q.phase = "writing" /\ q.took = run[w].took /\ q.last = run[w].last
          /\ q.turn = run[w].turn /\ q.last \subseteq q.took
      BY <1>3, WritingOfFields
    <3> HIDE DEF q
    <3>2. run' = [run EXCEPT ![w] = q]
      BY <2>1 DEF q
    <3> QED
      BY <1>7, <2>2, <3>1, <3>2
<1>20. CASE Asking
  BY <1>1, <1>20, AskingEffect DEF JobsHold, WorkTypeOK, TriedAtMost, conclusions, jobs
<1>14. ASSUME NEW w \in Worker, Closes(w) PROVE JobsHold'
  <2>1. run' = [run EXCEPT ![w] = ClosingOf(run[w])]
    BY <1>1, <1>14, RunEffect
  <2>2. WorkerJobs /\ holder' = holder /\ run[w].turn = Nobody
    BY <1>3, <1>4, <1>14 DEF Closes
  <2> QED
    <3> DEFINE q == ClosingOf(run[w])
    <3>1. q \in Run /\ q.phase = "closing" /\ q.took = run[w].took /\ q.last = run[w].last
          /\ q.turn = Nobody /\ q.last \subseteq q.took
      BY <1>3, <2>2, ClosingOfFields
    <3> HIDE DEF q
    <3>2. run' = [run EXCEPT ![w] = q]
      BY <2>1 DEF q
    <3> QED
      BY <1>7, <2>2, <3>1, <3>2
<1>15. ASSUME NEW w \in Worker, Finishes(w) \/ Fails(w) \/ Dies(w) PROVE JobsHold'
  <2>1. run' = [run EXCEPT ![w] = NoRun] /\ Release(w)
    BY <1>1, <1>15, RunEffect DEF Finishes, Fails, Dies
  <2>2. holder' # w /\ (holder' = holder \/ holder' = Nobody)
    BY <1>1, <2>1, RunEffect
  <2>3. WorkerJobs
    <3>1. CASE Finishes(w)
      <4>1. stands' = [j \in Job |-> IF j \in run[w].took THEN "finished" ELSE stands[j]]
            /\ \A j \in run[w].took : stands[j] = "waiting"
        BY <3>1 DEF Finishes, NoneEnded, Waiting
      <4>2. stands' \in [Job -> Stands] /\ \A j \in Job : stands[j] = "none" => stands'[j] = "none"
        BY <1>1, <4>1 DEF WorkTypeOK, Stands
      <4> QED
        BY <1>1, <3>1, <4>2 DEF Finishes, WorkerJobs, conclusions, WorkTypeOK
    <3>2. CASE Fails(w)
      <4>1. stands' = [j \in Job |-> IF j \in run[w].last /\ NoneEnded(run[w].took)
                                    THEN "setAside" ELSE stands[j]]
        BY <3>2 DEF Fails
      <4>2. \A j \in run[w].last : NoneEnded(run[w].took) => stands[j] = "waiting"
        BY <1>3 DEF NoneEnded, Waiting
      <4>3. stands' \in [Job -> Stands] /\ \A j \in Job : stands[j] = "none" => stands'[j] = "none"
        BY <1>1, <4>1, <4>2 DEF WorkTypeOK, Stands
      <4> QED
        BY <1>1, <3>2, <4>3 DEF Fails, WorkerJobs, conclusions, WorkTypeOK
    <3>3. CASE Dies(w)
      BY <1>4, <3>3 DEF Dies
    <3> QED
      BY <1>15, <3>1, <3>2, <3>3
  <2> QED
    BY <1>7, <2>1, <2>2, <2>3, NoRunFields
<1>16. ASSUME NEW w \in Worker, Expires(w) PROVE JobsHold'
  <2>1. WorkerJobs /\ run' = run /\ holder' = Nobody
    BY <1>4, <1>16 DEF Expires
  <2> QED
    BY <2>1 DEF WorkerJobs, records, JobsHold, WorkTypeOK, TriedAtMost
<1>17. CASE UNCHANGED work
  BY <1>17 DEF work, records, conclusions, jobs, JobsHold, WorkTypeOK, TriedAtMost
<1> QED
  BY <1>2, <1>6, <1>8, <1>10, <1>11, <1>12, <1>13, <1>14, <1>15, <1>16, <1>17, <1>18, <1>19, <1>20
  DEF Step, Works, Refused

\* A close and a reopening change nothing else.
LEMMA NextStep == [Next]_vars => [Step]_work
  BY DEF Next, vars

LEMMA JobsSafe == Spec => []JobsHold
  BY JobsInit, JobsStep, NextStep, PTL DEF Spec

\* Every variable of the records, the jobs and the runs, and the project's own, keeps its type.
THEOREM ReconciliationTypes == Spec => []TypeOK
<1> DEFINE Project == project \in {"open", "counted", "closed"}
<1>1. Init => Project
  BY DEF Init
<1>2. Project /\ [Next]_vars => Project'
  BY DEF Next, vars, Counts, Marks, Reopens
<1>3. JobsHold /\ Project => TypeOK
  BY DEF JobsHold, TypeOK
<1> HIDE DEF Project
<1> QED
  BY <1>1, <1>2, <1>3, JobsSafe, PTL DEF Spec

\* No job is tried more often than the policy lets, however many workers run and whether or not a
\* run outlasts its lock.
THEOREM NoneTriedTooOften == Spec => []TriedAtMost
<1>1. JobsHold => TriedAtMost
  BY DEF JobsHold
<1> QED
  BY <1>1, JobsSafe, PTL

(***************************************************************************)
(* What ended, and what is locked                                          *)
(***************************************************************************)
LEMMA EndedStep ==
  ASSUME JobsHold, [Step]_work, NEW j \in Job, stands[j] \in {"finished", "setAside"}
  PROVE  stands'[j] = stands[j] /\ tries'[j] = tries[j]
<1>1. WorkTypeOK /\ stands[j] # "waiting" /\ stands[j] # "none"
  BY DEF JobsHold
<1>2. CASE Api
  <2>1. CASE UNCHANGED jobs
    BY <2>1 DEF jobs
  <2>2. ASSUME NEW S \in SUBSET Ticket, QueueJobs(S)
        PROVE  stands'[j] = stands[j] /\ tries'[j] = tries[j]
    <3>1. ~(j > queued)
      BY <1>1 DEF JobsHold
    <3>2. j \notin New
      <4>0. queued \in 0..MaxJobs /\ queued' \in Nat
        BY <1>1, <2>2, QueueEffect DEF WorkTypeOK
      <4>1. queued \in Nat /\ j \in Nat
        BY <4>0, JobIsNat
      <4>2. \A k \in New : k >= queued + 1
        BY <4>0, <4>1 DEF New
      <4> QED
        BY <3>1, <4>1, <4>2
    <3> QED
      BY <1>1, <2>2, <3>2, QueueEffect
  <2>3. ApiChange
    BY <1>1, <1>2, ApiEffect
  <2> QED
    BY <2>1, <2>2, <2>3 DEF ApiChange
<1>3. ASSUME NEW w \in Worker, TakeUp(w) PROVE stands'[j] = stands[j] /\ tries'[j] = tries[j]
  <2>1. j \notin Taken /\ j \notin Spent
    BY <1>1, TakenWaits DEF Spent, Waiting
  <2> QED
    BY <1>3, <2>1 DEF TakeUp, SpentSetAside
<1>4. ASSUME NEW w \in Worker, Finishes(w) \/ Fails(w)
      PROVE  stands'[j] = stands[j] /\ tries'[j] = tries[j]
  <2>1. NoneEnded(run[w].took) => j \notin run[w].took
    BY <1>1 DEF NoneEnded, Waiting
  <2>2. run[w].last \subseteq run[w].took
    BY DEF JobsHold
  <2> QED
    BY <1>4, <2>1, <2>2 DEF Finishes, Fails
<1>5. ASSUME NEW w \in Worker, Works(w) \/ Dies(w) \/ Expires(w), ~(Finishes(w) \/ Fails(w))
      PROVE  stands'[j] = stands[j] /\ tries'[j] = tries[j]
  BY <1>5 DEF Works, Refused, Read, LeavesAsIs, Changes, Writes, NotProcessed, Closes, LeavesLocked,
     Starts, Dies, Expires, jobs
<1>6. CASE UNCHANGED work
  BY <1>6 DEF work, jobs
<1>7. CASE Asking
  BY <1>1, <1>7, AskingEffect DEF jobs
<1> QED
  BY <1>2, <1>3, <1>4, <1>5, <1>6, <1>7 DEF Step

\* A job finished or set aside is left so, whichever run would end it again.
THEOREM EndedStaysEnded == Spec => EndedStays
<1>1. JobsHold /\ [Next]_vars =>
        [\A j \in Job : stands[j] \in {"finished", "setAside"} =>
           stands'[j] = stands[j] /\ tries'[j] = tries[j]]_vars
  BY EndedStep, NextStep
<1> QED
  BY <1>1, JobsSafe, PTL DEF Spec, EndedStays

\* A piece of work past its last question of a ticket that is locked saw no lock.
LateHold == \A w \in Worker : run[w].phase = "writing" /\ run[w].turn \in locks => w \in late

LEMMA LateStep ==
  ASSUME JobsHold, LateHold, [Step]_work
  PROVE  LateHold'
<1>1. WorkTypeOK /\ \A w \in Worker : run[w] \in Run
  BY DEF JobsHold, WorkTypeOK
<1>2. CASE Api
  <2>1. ApiChange
    BY <1>1, <1>2, ApiEffect
  <2>2. CASE locks' \subseteq locks
    BY <2>1, <2>2 DEF ApiChange, LateHold
  <2>3. ASSUME NEW read, NEW t \in Ticket, Lock(t, read) PROVE LateHold'
    BY <2>1, <2>3 DEF ApiChange, LateHold, Lock
  <2>4. ASSUME NEW read, Commits(read), ~\E t \in Ticket : Lock(t, read) PROVE locks' = locks
    BY <2>4 DEF Commits, Correct, Void, Unvoid, SetupChanges, Reprocess
  <2>5. ASSUME NEW t \in Ticket, Unlock(t) PROVE locks' \subseteq locks
    BY <2>5 DEF Unlock
  <2> QED
    BY <1>1, <1>2, <2>2, <2>3, <2>4, <2>5, ApiCases
<1>3. ASSUME NEW w \in Worker, NEW q \in Run, run' = [run EXCEPT ![w] = q], UNCHANGED records,
             late \ {w} \subseteq late', q.phase = "writing" => q.turn \notin locks
      PROVE  LateHold'
  <2>1. \A v \in Worker : run'[v] = IF v = w THEN q ELSE run[v]
    BY <1>1, <1>3 DEF WorkTypeOK
  <2> QED
    BY <1>3, <2>1 DEF LateHold, records
<1>4. ASSUME NEW w \in Worker, TakeUp(w) PROVE LateHold'
  <2>1. CASE Taken = {}
    BY <1>4, <2>1 DEF TakeUp, LateHold, records
  <2>2. CASE Taken # {}
    <3> DEFINE final == {j \in Taken : tries[j] + 1 >= Tries}
               q == TakenUp(Taken, final)
    <3>1. run' = [run EXCEPT ![w] = q] /\ UNCHANGED <<records, late>>
      BY <1>4, <2>2 DEF TakeUp, TakenUp
    <3>2. q \in Run /\ q.phase = "taken"
      <4>1. final \subseteq Job /\ Taken \subseteq Job
        BY TakenWaits
      <4> HIDE DEF final
      <4> QED
        BY <4>1, NoRunFields DEF TakenUp, Run, Phase
    <3> HIDE DEF q
    <3> QED
      BY <1>3, <3>1, <3>2
  <2> QED
    BY <2>1, <2>2
<1>5. ASSUME NEW w \in Worker, Read(w) PROVE LateHold'
  <2> DEFINE asked == NamedBy(run[w].took)
             asVoid == asked \cap (voids \ standsVoid)
             todo == (asked \cap Gathered) \cup asVoid
             q == ReadOf(run[w], facts, asVoid, todo)
  <2>1. run' = [run EXCEPT ![w] = q] /\ UNCHANGED <<records, late>>
    BY <1>1, <1>5, RunEffect DEF Read
  <2>2. asVoid \in SUBSET Ticket /\ todo \in SUBSET Ticket /\ facts \in [Ticket -> Nat]
    BY <1>1 DEF Gathered, WorkTypeOK
  <2> HIDE DEF asVoid, todo
  <2>3. q \in Run /\ q.phase = "working"
    BY <1>1, <2>2, ReadOfFields
  <2> HIDE DEF q
  <2> QED
    BY <1>3, <2>1, <2>3
<1>6. ASSUME NEW w \in Worker, NEW t, TicketDone(w, t), UNCHANGED records PROVE LateHold'
  <2>1. run' = [run EXCEPT ![w] = DoneOf(run[w], t)]
    BY <1>1, <1>6, RunEffect
  <2>2. DoneOf(run[w], t) \in Run /\ DoneOf(run[w], t).phase = "working"
    BY <1>1, DoneOfFields
  <2> QED
    BY <1>3, <1>6, <2>1, <2>2 DEF TicketDone
<1>7. ASSUME NEW w \in Worker, NEW t \in Ticket, Starts(w, t) PROVE LateHold'
  <2>1. run' = [run EXCEPT ![w] = StartedOf(run[w], t)] /\ UNCHANGED <<records, late>>
    BY <1>1, <1>7, RunEffect DEF Starts
  <2>2. StartedOf(run[w], t) \in Run /\ StartedOf(run[w], t).phase = "turn"
    BY <1>1, StartedOfFields
  <2> QED
    BY <1>3, <2>1, <2>2
<1>8. ASSUME NEW w \in Worker, Changes(w) PROVE LateHold'
  <2>1. /\ run' = [run EXCEPT ![w] = WritingOf(run[w])] /\ UNCHANGED records
        /\ late' = late \ {w} /\ run[w].turn \notin locks
    BY <1>1, <1>8, RunEffect DEF Changes, MayWrite
  <2>2. WritingOf(run[w]) \in Run /\ WritingOf(run[w]).turn = run[w].turn
    BY <1>1, WritingOfFields
  <2> QED
    BY <1>3, <2>1, <2>2
<1>9. ASSUME NEW w \in Worker, Closes(w) PROVE LateHold'
  <2>1. run' = [run EXCEPT ![w] = ClosingOf(run[w])] /\ UNCHANGED <<records, late>>
    BY <1>1, <1>9, RunEffect DEF Closes
  <2>2. ClosingOf(run[w]) \in Run /\ ClosingOf(run[w]).phase = "closing"
    BY <1>1, ClosingOfFields
  <2> QED
    BY <1>3, <2>1, <2>2
<1>10. ASSUME NEW w \in Worker, Finishes(w) \/ Fails(w) \/ Dies(w) PROVE LateHold'
  <2>1. run' = [run EXCEPT ![w] = NoRun] /\ UNCHANGED records /\ late' = late \ {w}
    BY <1>10 DEF Finishes, Fails, Dies
  <2> QED
    BY <1>3, <2>1, NoRunFields
<1>11. ASSUME NEW w \in Worker, LeavesLocked(w, run[w].turn) \/ LeavesAsIs(w) \/ Writes(w) \/ NotProcessed(w)
       PROVE  LateHold'
  BY <1>6, <1>11 DEF LeavesLocked, LeavesAsIs, Writes, NotProcessed
<1>12. ASSUME NEW w \in Worker, NEW t \in Ticket, LeavesLocked(w, t) PROVE LateHold'
  BY <1>6, <1>12 DEF LeavesLocked
<1>13. ASSUME NEW w \in Worker, Expires(w) PROVE LateHold'
  BY <1>13 DEF Expires, LateHold, records
<1>14. CASE Asking
  BY <1>1, <1>14, AskingEffect DEF LateHold
<1>15. CASE UNCHANGED work
  BY <1>15 DEF work, records, LateHold
<1> QED
  BY <1>2, <1>4, <1>5, <1>7, <1>8, <1>9, <1>10, <1>11, <1>12, <1>13, <1>14, <1>15
  DEF Step, Works, Refused

LEMMA LockedStep ==
  ASSUME JobsHold, LateHold, [Step]_work, NEW t \in locks
  PROVE  ConclusionStands(t) \/ \E w \in late : run[w].phase = "writing" /\ run[w].turn = t
<1>1. WorkTypeOK /\ t \in Ticket
  BY DEF JobsHold, WorkTypeOK
<1>2. CASE Api
  BY <1>1, <1>2, ApiEffect DEF ApiChange, ConclusionStands
<1>3. ASSUME NEW w \in Worker, Writes(w)
      PROVE  ConclusionStands(t) \/ \E v \in late : run[v].phase = "writing" /\ run[v].turn = t
  <2>1. CASE t # run[w].turn
    BY <1>1, <1>3, <2>1 DEF Writes, WorkTypeOK, ConclusionStands
  <2>2. CASE t = run[w].turn
    BY <1>3, <2>2 DEF Writes, LateHold
  <2> QED
    BY <2>1, <2>2
<1>4. ASSUME NEW w \in Worker, TakeUp(w) \/ Works(w) \/ Dies(w) \/ Expires(w), ~Writes(w)
      PROVE  ConclusionStands(t)
  BY <1>4 DEF TakeUp, Works, Refused, Read, LeavesAsIs, Changes, NotProcessed, Closes, Finishes, Fails,
     LeavesLocked, Starts, Dies, Expires, conclusions, ConclusionStands
<1>5. CASE Asking
  BY <1>1, <1>5, AskingEffect DEF conclusions, ConclusionStands
<1>6. CASE UNCHANGED work
  BY <1>6 DEF work, conclusions, ConclusionStands
<1> QED
  BY <1>2, <1>3, <1>4, <1>5, <1>6 DEF Step

\* What a ticket is invoiced by doesn't change while it is locked, but by a piece of work whose last
\* question of it came before the lock: what was locked before is left as it was, however many runs
\* have it in hand, and one such piece of work changes it once.
THEOREM InvoicedButForLateWork == Spec => InvoicedStands
<1>1. Init => LateHold
  <2>1. ASSUME Init PROVE \A w \in Worker : run[w].phase = "idle"
    BY <2>1, NoRunFields DEF Init
  <2> QED
    BY <2>1 DEF LateHold
<1>2. JobsHold /\ LateHold /\ [Next]_vars => LateHold'
  BY LateStep, NextStep
<1>3. JobsHold /\ LateHold /\ [Next]_vars =>
        [\A t \in locks \cap locks' :
           ConclusionStands(t) \/ \E w \in late : run[w].phase = "writing" /\ run[w].turn = t]_vars
  BY LockedStep, NextStep
<1> QED
  BY <1>1, <1>2, <1>3, JobsSafe, PTL DEF Spec, InvoicedStands

(***************************************************************************)
(* One run at a time                                                       *)
(***************************************************************************)
\* A run holds the lock for as long as it is, and what it read is no older than what is written.
OneRun ==
  /\ \A w \in Worker : run[w].phase # "idle" => holder = w
  /\ \A t \in Ticket : written[t] <= facts[t]
  /\ \A w \in Worker, t \in Ticket :
       /\ run[w].read[t] <= facts[t]
       /\ run[w].phase \in {"working", "turn", "writing"} => written[t] <= run[w].read[t]

LEMMA OneRunInit == Init => OneRun
<1> SUFFICES ASSUME Init PROVE OneRun
  OBVIOUS
<1>1. \A w \in Worker : run[w] = NoRun
  BY DEF Init
<1>2. \A t \in Ticket : written[t] = 0 /\ facts[t] = 0
  BY DEF Init
<1> QED
  BY <1>1, <1>2, NoRunFields DEF OneRun

\* What the numbers are.
LEMMA Versions ==
  ASSUME WorkTypeOK
  PROVE  \A t \in Ticket : /\ written[t] \in Nat /\ facts[t] \in Nat
                           /\ \A w \in Worker : run[w].read[t] \in Nat
<1>1. \A w \in Worker : run[w].read \in [Ticket -> Nat]
  BY RunFields DEF WorkTypeOK
<1> QED
  BY <1>1 DEF WorkTypeOK

\* The run of the worker that holds the lock, or takes it, goes on; no other is under way.
LEMMA OneRunWorked ==
  ASSUME JobsHold, OneRun, NEW w \in Worker, NEW q \in Run, run' = [run EXCEPT ![w] = q],
         holder = w \/ holder = Nobody, q.phase # "idle" => holder' = w,
         facts' = facts,
         \A t \in Ticket : /\ written'[t] <= facts[t] /\ q.read[t] <= facts[t]
                           /\ q.phase \in {"working", "turn", "writing"} => written'[t] <= q.read[t]
  PROVE  OneRun'
<1>1. \A v \in Worker : run'[v] = IF v = w THEN q ELSE run[v]
  BY DEF JobsHold, WorkTypeOK
<1>2. \A v \in Worker : v # w => run[v].phase = "idle"
  BY ReconciliationAssumption DEF OneRun
<1>3. \A v \in Worker : run'[v].phase # "idle" => holder' = v
  BY <1>1, <1>2
<1>4. \A v \in Worker, t \in Ticket :
        /\ run'[v].read[t] <= facts'[t]
        /\ run'[v].phase \in {"working", "turn", "writing"} => written'[t] <= run'[v].read[t]
  BY <1>1, <1>2 DEF OneRun
<1> QED
  BY <1>3, <1>4 DEF OneRun

LEMMA OneRunStep ==
  ASSUME ~MayExpire, JobsHold, OneRun, [Step]_work
  PROVE  OneRun' /\ \A t \in Ticket : written'[t] >= written[t]
<1>1. WorkTypeOK /\ \A w \in Worker : run[w] \in Run
  BY DEF JobsHold, WorkTypeOK
<1>2. \A t \in Ticket : /\ written[t] \in Nat /\ facts[t] \in Nat
                        /\ \A w \in Worker : run[w].read[t] \in Nat
  BY <1>1, Versions
<1>3. \A t \in Ticket : written[t] >= written[t] /\ facts[t] <= facts[t]
  BY <1>2
<1>4. CASE Api
  <2>1. /\ UNCHANGED <<holder, run, written>>
        /\ facts' \in [Ticket -> Nat] /\ \A t \in Ticket : facts[t] <= facts'[t]
    BY <1>1, <1>4, ApiEffect DEF ApiChange
  <2>2. \A t \in Ticket : facts'[t] \in Nat
    BY <2>1
  <2>3. \A t \in Ticket : written[t] <= facts'[t]
    BY <1>2, <2>1, <2>2 DEF OneRun
  <2>4. \A w \in Worker, t \in Ticket : run[w].read[t] <= facts'[t]
    BY <1>2, <2>1, <2>2 DEF OneRun
  <2> QED
    BY <1>3, <2>1, <2>3, <2>4 DEF OneRun
<1>5. ASSUME NEW w \in Worker, TakeUp(w) PROVE OneRun' /\ written' = written
  <2>1. UNCHANGED <<facts, written>>
    BY <1>5 DEF TakeUp, records, conclusions
  <2>2. CASE Taken = {}
    BY <1>5, <2>1, <2>2 DEF TakeUp, OneRun
  <2>3. CASE Taken # {}
    <3> DEFINE final == {j \in Taken : tries[j] + 1 >= Tries}
               q == TakenUp(Taken, final)
    <3>1. run' = [run EXCEPT ![w] = q] /\ holder' = w /\ holder = Nobody
      BY <1>5, <2>3 DEF TakeUp, TakenUp, LockFree
    <3>2. q \in Run /\ q.phase = "taken" /\ q.read = NoRun.read
      <4>1. final \subseteq Job /\ Taken \subseteq Job
        BY TakenWaits
      <4> HIDE DEF final
      <4> QED
        BY <4>1, NoRunFields DEF TakenUp, Run, Phase
    <3> HIDE DEF q
    <3>3. \A t \in Ticket : q.read[t] <= facts[t]
      BY <1>2, <3>2, NoRunFields
    <3> QED
      BY <2>1, <3>1, <3>2, <3>3, OneRunWorked DEF OneRun
  <2> QED
    BY <2>1, <2>2, <2>3
<1>6. ASSUME NEW w \in Worker, run[w].phase # "idle" PROVE holder = w
  BY <1>6 DEF OneRun
<1>7. ASSUME NEW w \in Worker, NEW q \in Run, run' = [run EXCEPT ![w] = q],
             run[w].phase # "idle", q.phase # "idle" => holder' = holder,
             UNCHANGED <<facts, written>>,
             \/ /\ q.read = run[w].read
                /\ q.phase \in {"working", "turn", "writing"} => run[w].phase \in {"working", "turn", "writing"}
             \/ q.read = facts \/ q = NoRun
      PROVE  OneRun' /\ written' = written
  <2>1. holder = w
    BY <1>6, <1>7
  <2>2. \A t \in Ticket : /\ q.read[t] <= facts[t]
                          /\ q.phase \in {"working", "turn", "writing"} => written[t] <= q.read[t]
    <3>1. CASE q.read = run[w].read /\ (q.phase \in {"working", "turn", "writing"} =>
                                          run[w].phase \in {"working", "turn", "writing"})
      BY <3>1 DEF OneRun
    <3>2. CASE q.read = facts
      BY <1>3, <3>2 DEF OneRun
    <3>3. CASE q = NoRun
      BY <1>2, <3>3, NoRunFields
    <3> QED
      BY <1>7, <3>1, <3>2, <3>3
  <2> QED
    BY <1>7, <2>1, <2>2, OneRunWorked DEF OneRun
<1>8. ASSUME NEW w \in Worker, Read(w) PROVE OneRun' /\ written' = written
  <2> DEFINE asked == NamedBy(run[w].took)
             asVoid == asked \cap (voids \ standsVoid)
             todo == (asked \cap Gathered) \cup asVoid
             q == ReadOf(run[w], facts, asVoid, todo)
  <2>1. run' = [run EXCEPT ![w] = q]
    BY <1>1, <1>8, RunEffect
  <2>2. asVoid \in SUBSET Ticket /\ todo \in SUBSET Ticket /\ facts \in [Ticket -> Nat]
    BY <1>1 DEF Gathered, WorkTypeOK
  <2> HIDE DEF asVoid, todo
  <2>3. q \in Run /\ q.phase = "working" /\ q.read = facts
    BY <1>1, <2>2, ReadOfFields
  <2>4. run[w].phase # "idle" /\ UNCHANGED <<facts, written, holder>>
    BY <1>8 DEF Read, records, conclusions
  <2> HIDE DEF q
  <2> QED
    BY <1>7, <2>1, <2>3, <2>4
<1>9. ASSUME NEW w \in Worker, NEW t, TicketDone(w, t), UNCHANGED <<facts, written, holder>>,
             run[w].phase \in {"working", "turn", "writing"}
      PROVE  OneRun' /\ written' = written
  <2> DEFINE q == DoneOf(run[w], t)
  <2>1. run' = [run EXCEPT ![w] = q]
    BY <1>1, <1>9, RunEffect
  <2>2. q \in Run /\ q.read = run[w].read
    BY <1>1, DoneOfFields
  <2> HIDE DEF q
  <2> QED
    BY <1>7, <1>9, <2>1, <2>2
<1>10. ASSUME NEW w \in Worker, NEW t \in Ticket, LeavesLocked(w, t)
       PROVE  OneRun' /\ written' = written
  BY <1>9, <1>10 DEF LeavesLocked, records
<1>11. ASSUME NEW w \in Worker, NEW t \in Ticket, Starts(w, t) PROVE OneRun' /\ written' = written
  <2> DEFINE q == StartedOf(run[w], t)
  <2>1. run' = [run EXCEPT ![w] = q]
    BY <1>1, <1>11, RunEffect
  <2>2. q \in Run /\ q.read = run[w].read
    BY <1>1, StartedOfFields
  <2>3. run[w].phase = "working" /\ UNCHANGED <<facts, written, holder>>
    BY <1>11 DEF Starts, records, conclusions
  <2> HIDE DEF q
  <2> QED
    BY <1>7, <2>1, <2>2, <2>3
<1>12. ASSUME NEW w \in Worker, Writes(w)
       PROVE  OneRun' /\ \A t \in Ticket : written'[t] >= written[t]
  <2> DEFINE q == DoneOf(run[w], run[w].turn)
  <2>1. /\ run[w].phase = "writing" /\ holder' = holder /\ facts' = facts
        /\ TicketDone(w, run[w].turn)
    BY <1>12 DEF Writes, records
  <2>2. run' = [run EXCEPT ![w] = q]
    BY <1>1, <2>1, RunEffect
  <2>3. q \in Run /\ q.read = run[w].read /\ q.phase = "working"
    BY <1>1, DoneOfFields
  <2> HIDE DEF q
  <2>4. \A t \in Ticket : written'[t] = written[t] \/ written'[t] = run[w].read[t]
    BY <1>1, <1>12 DEF Writes, WorkTypeOK
  <2>5. \A t \in Ticket : /\ written'[t] <= facts[t] /\ written'[t] <= run[w].read[t]
                          /\ written'[t] >= written[t] /\ run[w].read[t] <= facts[t]
    BY <1>2, <2>1, <2>4 DEF OneRun
  <2>6. holder = w
    BY <1>6, <2>1
  <2> QED
    BY <2>1, <2>2, <2>3, <2>5, <2>6, OneRunWorked
<1>13. ASSUME NEW w \in Worker, NotProcessed(w) \/ LeavesAsIs(w) PROVE OneRun' /\ written' = written
  BY <1>9, <1>13 DEF NotProcessed, LeavesAsIs, records
<1>18. ASSUME NEW w \in Worker, Changes(w) PROVE OneRun' /\ written' = written
  <2> DEFINE q == WritingOf(run[w])
  <2>1. run' = [run EXCEPT ![w] = q]
    BY <1>1, <1>18, RunEffect
  <2>2. q \in Run /\ q.read = run[w].read
    BY <1>1, WritingOfFields
  <2>3. run[w].phase = "turn" /\ UNCHANGED <<facts, written, holder>>
    BY <1>18 DEF Changes, records, conclusions
  <2> HIDE DEF q
  <2> QED
    BY <1>7, <2>1, <2>2, <2>3
<1>19. CASE Asking
  BY <1>1, <1>3, <1>19, AskingEffect DEF OneRun, conclusions
<1>14. ASSUME NEW w \in Worker, Closes(w) PROVE OneRun' /\ written' = written
  <2> DEFINE q == ClosingOf(run[w])
  <2>1. run' = [run EXCEPT ![w] = q]
    BY <1>1, <1>14, RunEffect
  <2>2. q \in Run /\ q.read = run[w].read /\ q.phase = "closing"
    BY <1>1, ClosingOfFields
  <2>3. run[w].phase = "working" /\ UNCHANGED <<facts, written, holder>>
    BY <1>14 DEF Closes, records, conclusions
  <2> HIDE DEF q
  <2> QED
    BY <1>7, <2>1, <2>2, <2>3
<1>15. ASSUME NEW w \in Worker, Finishes(w) \/ Fails(w) \/ Dies(w)
       PROVE  OneRun' /\ written' = written
  <2>1. run' = [run EXCEPT ![w] = NoRun] /\ UNCHANGED <<facts, written>> /\ run[w].phase # "idle"
    BY <1>1, <1>15, RunEffect DEF Finishes, Fails, Dies, records, conclusions
  <2> QED
    BY <1>7, <2>1, NoRunFields
<1>16. \A w \in Worker : ~Expires(w)
  BY DEF Expires
<1>17. CASE UNCHANGED work
  BY <1>3, <1>17 DEF work, records, conclusions, OneRun
<1> QED
  BY <1>3, <1>4, <1>5, <1>8, <1>10, <1>11, <1>12, <1>13, <1>14, <1>15, <1>16, <1>17, <1>18, <1>19
  DEF Step, Works, Refused

\* With one run at a time nothing concluded from earlier facts is written over what later ones
\* concluded.
THEOREM NothingOlderWritten == ASSUME ~MayExpire PROVE Spec => NeverOlder
<1>1. JobsHold /\ OneRun /\ [Next]_vars =>
        OneRun' /\ [\A t \in Ticket : written'[t] >= written[t]]_vars
  BY OneRunStep, NextStep
<1> QED
  BY <1>1, OneRunInit, JobsSafe, PTL DEF Spec, NeverOlder

(***************************************************************************)
(* No change is forgotten                                                  *)
(***************************************************************************)
\* The tickets a run was asked for, and what it says of one of them: a job behind those it took
\* names it; or it is locked; or it is still to work, what was read of it being how it is; or it
\* was worked, and stands as it should or is flagged; or a change missed it.
Asked(w) == NamedBy(run[w].took)
OpenElse(w, t) ==
  \E j \in 1..queued : /\ t \in names[j] /\ stands[j] # "finished" /\ j \notin run[w].took
                       /\ \A k \in 1..queued : k > j => t \notin names[k]
Fresh(w, t) ==
  IF t \in run[w].asVoid THEN t \in voids ELSE t \notin voids /\ run[w].read[t] = facts[t]
Settled(w, t) ==
  \/ t \in missed
  \/ OpenElse(w, t)
  \/ t \in locks
  \/ t \in run[w].todo /\ Fresh(w, t)
  \/ t \notin run[w].todo /\ (Right(t) \/ t \in notProcessed)

RunHolds(w) ==
  /\ run[w].asVoid \subseteq (voids \cup missed) \cap Asked(w)
  /\ run[w].todo \subseteq Asked(w)
  /\ run[w].phase \in {"turn", "writing"} => run[w].turn \in run[w].todo
  /\ run[w].phase = "closing" => run[w].todo = {}
  /\ run[w].phase \in {"working", "turn", "writing", "closing"} => \A t \in Asked(w) : Settled(w, t)

WorkHold ==
  /\ OnlyMissedForgotten
  /\ standsVoid \cap locks \subseteq voids \cup missed
  /\ standsVoid \subseteq voids \cup unvoided \cup missed
  /\ \A w \in Worker : RunHolds(w)

LEMMA WorkInit == Init => WorkHold
<1> SUFFICES ASSUME Init PROVE WorkHold
  OBVIOUS
<1>1. \A w \in Worker : run[w] = NoRun
  BY DEF Init
<1>2. \A w \in Worker : RunHolds(w)
  BY <1>1, NoRunFields DEF RunHolds
<1>3. OnlyMissedForgotten
  BY DEF Init, OnlyMissedForgotten, Right
<1> QED
  BY <1>2, <1>3 DEF Init, WorkHold

\* Jobs queued for N, if any: each of N then has its last job open, behind every run's; and the
\* last job of another ticket stays what it was.
QueuedFor(N) == QueueJobs(N) \/ (N = {} /\ UNCHANGED jobs)

LEMMA QueuedOpen ==
  ASSUME JobsHold, NEW N \in SUBSET Ticket, QueuedFor(N), run' = run
  PROVE  /\ \A t \in N : LastJobOpen(t)' /\ \A w \in Worker : OpenElse(w, t)'
         /\ \A t \in Ticket \ N : /\ LastJobOpen(t) => LastJobOpen(t)'
                                  /\ \A w \in Worker : OpenElse(w, t) => OpenElse(w, t)'
         /\ \A w \in Worker : Asked(w)' = Asked(w)
<1>1. CASE N = {} /\ UNCHANGED jobs
  BY <1>1 DEF jobs, LastJobOpen, OpenElse, Asked, NamedBy
<1>2. CASE QueueJobs(N)
  <2>0. WorkTypeOK
    BY DEF JobsHold
  <2>1. queued \in Nat /\ queued' \in Nat /\ queued <= queued' /\ queued' <= MaxJobs /\ MaxJobs \in Nat
    BY <1>2, <2>0, QueueEffect, JobIsNat DEF WorkTypeOK
  <2>2. 1..queued' = (1..queued) \cup New
    BY <2>1 DEF New
  <2>3. \A j \in New, i \in 1..queued : j > i /\ j # i
    BY <2>1 DEF New
  <2>4. \A j \in 1..queued : names'[j] = names[j] /\ stands'[j] = stands[j]
    <3>1. \A j \in 1..queued : j \in Job \ New
      BY <2>1, <2>3 DEF Job
    <3> QED
      BY <1>2, <2>0, <3>1, QueueEffect
  <2>5. \A w \in Worker : run[w].took \subseteq 1..queued
    BY DEF JobsHold
  <2>6. \A j \in New : j \in 1..queued' /\ names'[j] \subseteq N /\ stands'[j] # "finished"
                       /\ \A w \in Worker : j \notin run[w].took
    BY <1>2, <2>0, <2>2, <2>3, <2>5, QueueEffect
  <2>7. ASSUME NEW t \in N PROVE LastJobOpen(t)' /\ \A w \in Worker : OpenElse(w, t)'
    <3>1. PICK j \in New : t \in names'[j] /\ \A k \in New : k > j => t \notin names'[k]
      BY <1>2, <2>0, QueueEffect
    <3>2. \A k \in 1..queued' : k > j => k \in New
      BY <2>1, <2>2, <2>3 DEF New
    <3>3. \A k \in 1..queued' : k > j => t \notin names'[k]
      BY <3>1, <3>2
    <3> QED
      BY <2>6, <3>1, <3>3 DEF LastJobOpen, OpenElse
  <2>8. ASSUME NEW t \in Ticket \ N
        PROVE  /\ LastJobOpen(t) => LastJobOpen(t)'
               /\ \A w \in Worker : OpenElse(w, t) => OpenElse(w, t)'
    <3>1. \A k \in New : t \notin names'[k]
      BY <2>6
    <3>2. ASSUME NEW j \in 1..queued, \A k \in 1..queued : k > j => t \notin names[k]
          PROVE  j \in 1..queued' /\ \A k \in 1..queued' : k > j => t \notin names'[k]
      BY <2>2, <2>4, <3>1, <3>2
    <3>3. LastJobOpen(t) => LastJobOpen(t)'
      BY <2>4, <3>2 DEF LastJobOpen
    <3>4. \A w \in Worker : OpenElse(w, t) => OpenElse(w, t)'
      BY <2>4, <3>2 DEF OpenElse
    <3> QED
      BY <3>3, <3>4
  <2>9. \A w \in Worker : Asked(w)' = Asked(w)
    BY <2>4, <2>5 DEF Asked, NamedBy
  <2> QED
    BY <2>7, <2>8, <2>9
<1> QED
  BY <1>1, <1>2 DEF QueuedFor

\* A change of the records: what it moves and doesn't queue is missed, or locked, or void before
\* and after, or stands VOID out of every run's hands.
Covers(N) ==
  /\ QueuedFor(N)
  /\ UNCHANGED <<holder, run, written, standsVoid, notProcessed>>
  /\ missed \ missed' \subseteq N \ (standsVoid \cup InHand)
  /\ \A t \in Ticket \ N : t \in locks => t \in locks'
  /\ \A t \in Ticket \ (N \cup missed' \cup locks') :
       /\ t \in voids <=> t \in voids'
       /\ facts'[t] = facts[t] \/ t \in voids \/ t \in standsVoid \ InHand
  /\ voids \cap InHand \subseteq voids' \cup missed'
  /\ standsVoid \subseteq voids' \cup unvoided' \cup missed'
  /\ standsVoid \cap locks' \subseteq voids' \cup missed'

LEMMA CoveredHolds ==
  ASSUME JobsHold, WorkHold, NEW N \in SUBSET Ticket, Covers(N)
  PROVE  WorkHold'
<1>1. run' = run /\ QueuedFor(N)
  BY DEF Covers
<1>2. \A w \in Worker : Asked(w) \subseteq InHand /\ Asked(w) \subseteq Ticket
  <2>1. \A w \in Worker : run[w].took \subseteq Job
    BY RunFields DEF JobsHold, WorkTypeOK
  <2> QED
    BY <2>1 DEF Asked, NamedBy, InHand, JobsHold, WorkTypeOK
<1>3. OnlyMissedForgotten'
  <2> SUFFICES ASSUME NEW t \in Ticket, t \notin missed'
               PROVE  Right(t)' \/ LastJobOpen(t)' \/ t \in locks' \/ t \in notProcessed'
    BY DEF OnlyMissedForgotten
  <2>1. CASE t \in N
    BY <1>1, <2>1, QueuedOpen
  <2>2. CASE t \notin N
    <3>0. t \notin missed
      BY <2>2 DEF Covers
    <3>1. LastJobOpen(t) => LastJobOpen(t)'
      BY <1>1, <2>2, QueuedOpen
    <3>2. Right(t) => Right(t)' \/ t \in locks'
      BY <2>2 DEF Covers, Right
    <3>3. Right(t) \/ LastJobOpen(t) \/ t \in locks \/ t \in notProcessed
      BY <3>0 DEF WorkHold, OnlyMissedForgotten
    <3> QED
      BY <2>2, <3>1, <3>2, <3>3 DEF Covers
  <2> QED
    BY <2>1, <2>2
<1>4. ASSUME NEW w \in Worker PROVE RunHolds(w)'
  <2>1. RunHolds(w) /\ Asked(w)' = Asked(w)
    BY <1>1, QueuedOpen DEF WorkHold
  <2>2. run'[w].asVoid \subseteq (voids' \cup missed') \cap Asked(w)'
    BY <1>1, <1>2, <2>1 DEF RunHolds, Covers
  <2>3. ASSUME NEW t \in Asked(w), Settled(w, t) PROVE Settled(w, t)'
    <3>1. t \in Ticket /\ t \in InHand
      BY <1>2
    <3>2. CASE t \in N
      BY <1>1, <3>2, QueuedOpen DEF Settled
    <3>3. CASE t \notin N
      <4>0. t \in missed => t \in missed'
        BY <3>3 DEF Covers
      <4>1. OpenElse(w, t) => OpenElse(w, t)'
        BY <1>1, <3>1, <3>3, QueuedOpen
      <4>2. t \in locks => t \in locks'
        BY <3>1, <3>3 DEF Covers
      <4>3. Fresh(w, t) => Fresh(w, t)' \/ t \in locks' \cup missed'
        BY <1>1, <3>1, <3>3 DEF Covers, Fresh
      <4>4. Right(t) => Right(t)' \/ t \in locks' \cup missed'
        BY <3>1, <3>3 DEF Covers, Right
      <4>5. notProcessed' = notProcessed
        BY DEF Covers
      <4> QED
        BY <1>1, <2>3, <4>0, <4>1, <4>2, <4>3, <4>4, <4>5 DEF Settled
    <3> QED
      BY <3>2, <3>3
  <2> QED
    BY <1>1, <2>1, <2>2, <2>3 DEF RunHolds
<1> QED
  BY <1>3, <1>4 DEF WorkHold, Covers

\* What a change leaves off that it moved is missed, locked, void or standing VOID unworked.
LEMMA LeftOffCovered ==
  ASSUME NEW asked \in SUBSET Ticket, NEW others \in SUBSET Ticket, NEW u \in asked \cup others,
         u \notin LeftOff(asked, others), u \notin locks
  PROVE  u \notin asked /\ (u \in voids \/ u \in standsVoid \ InHand)
  BY DEF LeftOff, Named, Now

LEMMA CommitHolds ==
  ASSUME JobsHold, WorkHold, NEW read \in Seen, Commits(read), UNCHANGED <<holder, run>>
  PROVE  WorkHold'
<1> USE ReconciliationAssumption
<1>1. /\ WorkTypeOK /\ {} \in SUBSET Ticket
      /\ \A t \in Ticket : {t} \in SUBSET Ticket /\ Neighbours[t] \in SUBSET Ticket
  BY DEF JobsHold
<1>0. ASSUME NEW A \in SUBSET Ticket, NEW B \in SUBSET Ticket, NEW asked,
             NEW tooLate \in SUBSET Ticket, Queues(A, B, asked, tooLate)
      PROVE  /\ Named(A, B, asked) \in SUBSET Ticket
             /\ QueueJobs(Named(A, B, asked)) /\ tooLate \subseteq missed'
             /\ LeftOff(A, B) \subseteq Named(A, B, asked) \cup missed'
             /\ missed \ missed' \subseteq Named(A, B, asked) \ (standsVoid \cup InHand)
  <2>1. WorkTypeOK
    BY <1>1
  <2> HIDE <1>1
  <2> QED
    BY <2>1, <1>0, QueuesEffect
<1>2. /\ standsVoid \cap locks \subseteq voids \cup missed
      /\ standsVoid \subseteq voids \cup unvoided \cup missed
  BY DEF WorkHold
<1>3. ASSUME NEW S, Moves(S) PROVE \A t \in Ticket \ S : facts'[t] = facts[t]
  BY <1>3 DEF Moves, JobsHold, WorkTypeOK
<1>4. ASSUME NEW t \in Ticket, Correct(t, read) PROVE WorkHold'
  <2> DEFINE N == Named({t}, Neighbours[t], Found(read))
  <2>1. Queues({t}, Neighbours[t], Found(read), {}) /\ Moves({t} \cup Neighbours[t])
        /\ UNCHANGED <<voids, locks, conclusions>>
    BY <1>4 DEF Correct
  <2>2. /\ N \in SUBSET Ticket /\ QueueJobs(N)
        /\ LeftOff({t}, Neighbours[t]) \subseteq N \cup missed'
        /\ missed \ missed' \subseteq N \ (standsVoid \cup InHand)
    BY <1>1, <2>1, <1>0
  <2> HIDE DEF N
  <2>3. ASSUME NEW u \in Ticket \ (N \cup missed' \cup locks')
        PROVE  facts'[u] = facts[u] \/ u \in voids \/ u \in standsVoid \ InHand
    <3>1. CASE u \in {t} \cup Neighbours[t]
      BY <1>1, <2>1, <2>2, <3>1, LeftOffCovered
    <3>2. CASE u \notin {t} \cup Neighbours[t]
      BY <1>3, <2>1, <3>2
    <3> QED
      BY <3>1, <3>2
  <2>4. Covers(N)
    BY <1>2, <2>1, <2>2, <2>3 DEF Covers, QueuedFor, conclusions
  <2> QED
    BY <2>2, <2>4, CoveredHolds
<1>5. ASSUME NEW t \in Ticket, Void(t, read) PROVE WorkHold'
  <2> DEFINE N == Named({t}, Neighbours[t], Found(read))
  <2>1. Queues({t}, Neighbours[t], Found(read), {}) /\ Moves(Neighbours[t])
        /\ voids' = voids \cup {t} /\ UNCHANGED <<locks, conclusions>>
    BY <1>5 DEF Void
  <2>2. /\ N \in SUBSET Ticket /\ QueueJobs(N)
        /\ LeftOff({t}, Neighbours[t]) \subseteq N \cup missed'
        /\ missed \ missed' \subseteq N \ (standsVoid \cup InHand)
    BY <1>1, <2>1, <1>0
  <2> HIDE DEF N
  <2>3. ASSUME NEW u \in Ticket \ (N \cup missed' \cup locks')
        PROVE  /\ u # t
               /\ facts'[u] = facts[u] \/ u \in voids \/ u \in standsVoid \ InHand
    <3>1. CASE u \in {t} \cup Neighbours[t]
      BY <1>1, <2>1, <2>2, <3>1, LeftOffCovered
    <3>2. CASE u \notin {t} \cup Neighbours[t]
      BY <1>3, <2>1, <3>2
    <3> QED
      BY <3>1, <3>2
  <2>4. Covers(N)
    BY <1>2, <2>1, <2>2, <2>3 DEF Covers, QueuedFor, conclusions
  <2> QED
    BY <2>2, <2>4, CoveredHolds
<1>6. ASSUME NEW t \in Ticket, Unvoid(t, read) PROVE WorkHold'
  <2> DEFINE N == Named({t}, Neighbours[t], Found(read))
             tooLate == {t} \cap (InHand \cup locks)
  <2>1. Queues({t}, Neighbours[t], Found(read), tooLate) /\ Moves(Neighbours[t])
        /\ tooLate \in SUBSET Ticket
    BY <1>6 DEF Unvoid
  <2>2. /\ voids' \subseteq voids /\ voids \subseteq voids' \cup {t}
        /\ unvoided' = unvoided \cup {t}
        /\ UNCHANGED <<locks, written, standsVoid, notProcessed>>
    BY <1>6 DEF Unvoid
  <2> HIDE DEF tooLate
  <2>3. /\ N \in SUBSET Ticket /\ QueueJobs(N)
        /\ LeftOff({t}, Neighbours[t]) \subseteq N \cup missed' /\ tooLate \subseteq missed'
        /\ missed \ missed' \subseteq N \ (standsVoid \cup InHand)
    <3>1. {t} \in SUBSET Ticket /\ Neighbours[t] \in SUBSET Ticket
      BY <1>1
    <3>2. Queues({t}, Neighbours[t], Found(read), tooLate) /\ tooLate \in SUBSET Ticket
      BY <2>1
    <3>3. \A B \in SUBSET Ticket : Queues({t}, B, Found(read), tooLate) =>
            /\ Named({t}, B, Found(read)) \in SUBSET Ticket
            /\ QueueJobs(Named({t}, B, Found(read))) /\ tooLate \subseteq missed'
            /\ LeftOff({t}, B) \subseteq Named({t}, B, Found(read)) \cup missed'
            /\ missed \ missed' \subseteq Named({t}, B, Found(read)) \ (standsVoid \cup InHand)
      BY <3>1, <3>2, <1>0
    <3> QED
      BY <3>1, <3>2, <3>3
  <2> HIDE DEF N
  <2>4. ASSUME NEW u \in Ticket \ (N \cup missed' \cup locks')
        PROVE  /\ u # t
               /\ facts'[u] = facts[u] \/ u \in voids \/ u \in standsVoid \ InHand
    <3>1. CASE u \in {t} \cup Neighbours[t]
      BY <1>1, <2>2, <2>3, <3>1, LeftOffCovered
    <3>2. CASE u \notin {t} \cup Neighbours[t]
      BY <1>3, <2>1, <3>2
    <3> QED
      BY <3>1, <3>2
  <2>5. t \in InHand \cup locks => t \in missed'
    BY <2>3 DEF tooLate
  <2>6. Covers(N)
    <3>1. voids \cap InHand \subseteq voids' \cup missed'
      BY <2>2, <2>5
    <3>2. standsVoid \subseteq voids' \cup unvoided' \cup missed'
      BY <1>2, <2>2, <2>3
    <3>3. standsVoid \cap locks' \subseteq voids' \cup missed'
      BY <1>2, <2>2, <2>3, <2>5
    <3>4. \A u \in Ticket \ (N \cup missed' \cup locks') : u \in voids <=> u \in voids'
      BY <2>2, <2>4
    <3> QED
      BY <2>2, <2>3, <2>4, <3>1, <3>2, <3>3, <3>4 DEF Covers, QueuedFor
  <2> QED
    BY <2>3, <2>6, CoveredHolds
<1>7. ASSUME NEW t \in Ticket, Lock(t, read) PROVE WorkHold'
  <2> DEFINE S == {t} \cap (standsVoid \ voids)
  <2>1. Misses(S, {}) /\ S \in SUBSET Ticket
    BY <1>7 DEF Lock
  <2>2. locks' = locks \cup {t} /\ UNCHANGED <<facts, voids, conclusions, jobs>>
    BY <1>7 DEF Lock
  <2>3. S \subseteq missed' /\ missed \ missed' \subseteq {} \ (standsVoid \cup InHand)
    BY <1>1, <2>1, MissedEffect
  <2>4. Covers({})
    BY <1>2, <2>2, <2>3 DEF Covers, QueuedFor, conclusions
  <2> QED
    BY <2>4, CoveredHolds
<1>8. ASSUME NEW S \in SetupMoves, SetupChanges(S, read) PROVE WorkHold'
  <2> DEFINE N == Named({}, S, read)
  <2>1. Queues({}, S, read, {}) /\ Moves(S) /\ UNCHANGED <<voids, locks, conclusions>>
        /\ S \in SUBSET Ticket
    BY <1>8 DEF SetupChanges
  <2>2. /\ N \in SUBSET Ticket /\ QueueJobs(N)
        /\ LeftOff({}, S) \subseteq N \cup missed'
        /\ missed \ missed' \subseteq N \ (standsVoid \cup InHand)
    BY <1>1, <2>1, <1>0
  <2> HIDE DEF N
  <2>3. ASSUME NEW u \in Ticket \ (N \cup missed' \cup locks')
        PROVE  facts'[u] = facts[u] \/ u \in voids \/ u \in standsVoid \ InHand
    <3>1. CASE u \in S
      BY <2>1, <2>2, <3>1, LeftOffCovered
    <3>2. CASE u \notin S
      BY <1>3, <2>1, <3>2
    <3> QED
      BY <3>1, <3>2
  <2>4. Covers(N)
    BY <1>2, <2>1, <2>2, <2>3 DEF Covers, QueuedFor, conclusions
  <2> QED
    BY <2>2, <2>4, CoveredHolds
<1>9. ASSUME NEW S \in SUBSET Ticket, Reprocess(S, read) PROVE WorkHold'
  <2> DEFINE N == S \ read.locks
  <2>1. Misses({}, N) /\ QueueJobs(N) /\ UNCHANGED <<facts, voids, locks, conclusions>>
    BY <1>9 DEF Reprocess
  <2>2. N \in SUBSET Ticket /\ {} \in SUBSET Ticket
    OBVIOUS
  <2> HIDE DEF N
  <2>3. missed \ missed' \subseteq N \ (standsVoid \cup InHand)
    BY <1>1, <2>1, <2>2, MissedEffect
  <2>4. Covers(N)
    BY <1>2, <2>1, <2>3 DEF Covers, QueuedFor, conclusions
  <2> QED
    BY <2>2, <2>4, CoveredHolds
<1>10. \A j \in SetAside : names[j] \in SUBSET Ticket
  BY DEF SetAside, JobsHold, WorkTypeOK
<1> QED
  BY <1>4, <1>5, <1>6, <1>7, <1>8, <1>9, <1>10 DEF Commits

LEMMA ApiHolds ==
  ASSUME JobsHold, WorkHold, Api
  PROVE  WorkHold'
<1>1. WorkTypeOK
  BY DEF JobsHold
<1>2. ASSUME NEW t \in Ticket, Unlock(t), UNCHANGED <<holder, run>> PROVE WorkHold'
  <2>1. Misses({}, {t}) /\ {} \in SUBSET Ticket /\ {t} \in SUBSET Ticket
    BY <1>2 DEF Unlock
  <2>2. missed \ missed' \subseteq {t} \ (standsVoid \cup InHand)
    BY <1>1, <2>1, MissedEffect
  <2>3. Covers({t})
    BY <1>2, <2>2 DEF WorkHold, Unlock, Covers, QueuedFor, conclusions
  <2> QED
    BY <2>1, <2>3, CoveredHolds
<1> QED
  BY <1>1, <1>2, ApiCases, CommitHolds

\* A worker's step that leaves the records and what waits: no last job is closed.
LEMMA WorkedHolds ==
  ASSUME JobsHold, WorkHold, NEW w \in Worker, NEW q \in Run, run' = [run EXCEPT ![w] = q],
         UNCHANGED <<records, queued, names>>,
         \A v \in Worker \ {w} : run[v].phase = "idle",
         \A j \in Job : stands'[j] = "finished" => stands[j] = "finished",
         standsVoid' \cap locks \subseteq voids \cup missed,
         standsVoid' \subseteq voids \cup unvoided' \cup missed,
         \A t \in Ticket : Right(t) \/ t \in notProcessed =>
            (Right(t) \/ t \in notProcessed)' \/ LastJobOpen(t) \/ t \in locks \cup missed,
         RunHolds(w)'
  PROVE  WorkHold'
<1>1. \A v \in Worker : run'[v] = IF v = w THEN q ELSE run[v]
  BY DEF JobsHold, WorkTypeOK
<1>2. queued' = queued /\ names' = names /\ voids' = voids /\ locks' = locks /\ missed' = missed
  BY DEF records
<1>3. \A j \in 1..queued : stands[j] # "finished" => stands'[j] # "finished"
  <2>1. 1..queued \subseteq Job
    BY ReconciliationAssumption DEF JobsHold, WorkTypeOK, Job
  <2> QED
    BY <2>1
<1>4. \A t \in Ticket : LastJobOpen(t) => LastJobOpen(t)'
  BY <1>2, <1>3 DEF LastJobOpen
<1>5. OnlyMissedForgotten'
  BY <1>2, <1>4 DEF WorkHold, OnlyMissedForgotten
<1>6. ASSUME NEW v \in Worker, v # w PROVE RunHolds(v)'
  <2>1. run'[v] = run[v] /\ run[v].phase = "idle" /\ RunHolds(v)
    BY <1>1, <1>6 DEF WorkHold
  <2> QED
    BY <1>2, <2>1 DEF RunHolds, Asked, NamedBy
<1> QED
  BY <1>2, <1>5, <1>6 DEF WorkHold

LEMMA SameJobs ==
  ASSUME NEW w \in Worker, run'[w].took = run[w].took, UNCHANGED jobs
  PROVE  Asked(w)' = Asked(w) /\ \A t : OpenElse(w, t)' <=> OpenElse(w, t)
BY DEF jobs, Asked, NamedBy, OpenElse

\* A ticket's turn over, however it ended: it stands as it should, is flagged, is locked or is
\* named by a later job, and nothing else is touched.
LEMMA DoneHolds ==
  ASSUME JobsHold, WorkHold, NEW w \in Worker, NEW t \in Ticket, TicketDone(w, t),
         UNCHANGED <<records, jobs>>,
         \A v \in Worker \ {w} : run[v].phase = "idle",
         run[w].phase \in {"working", "turn", "writing"}, t \in run[w].todo,
         standsVoid' \cap locks \subseteq voids \cup missed,
         standsVoid' \subseteq voids \cup unvoided' \cup missed,
         \A u \in Ticket \ {t} :
           (Right(u) => Right(u)') /\ (u \in notProcessed => u \in notProcessed'),
         Settled(w, t) => OpenElse(w, t) \/ t \in locks \cup missed \/ Right(t)' \/ t \in notProcessed'
  PROVE  WorkHold'
<1> DEFINE q == DoneOf(run[w], t)
<1>1. WorkTypeOK /\ run[w] \in Run /\ RunHolds(w)
  BY DEF JobsHold, WorkTypeOK, WorkHold
<1>2. run' = [run EXCEPT ![w] = q]
  BY <1>1, RunEffect
<1>3. /\ q \in Run /\ q.phase = "working" /\ q.took = run[w].took /\ q.read = run[w].read
      /\ q.asVoid = run[w].asVoid /\ q.todo = run[w].todo \ {t} /\ q.turn = Nobody
  BY <1>1, DoneOfFields
<1> HIDE DEF q
<1>4. run'[w] = q
  BY <1>1, <1>2 DEF WorkTypeOK
<1>5. Asked(w)' = Asked(w) /\ \A u : OpenElse(w, u)' <=> OpenElse(w, u)
  BY <1>3, <1>4, SameJobs
<1>6. Asked(w) \subseteq Ticket
  BY <1>1, RunFields DEF Asked, NamedBy, WorkTypeOK
<1>7. facts' = facts /\ voids' = voids /\ locks' = locks /\ missed' = missed
  BY DEF records
<1>8. \A u \in Asked(w) : Settled(w, u)
  BY <1>1 DEF RunHolds
<1>9. t \in Asked(w) /\ Settled(w, t)
  BY <1>1, <1>8 DEF RunHolds
<1>10. ASSUME NEW u \in Asked(w) PROVE Settled(w, u)'
  <2>1. CASE u = t
    BY <1>3, <1>4, <1>5, <1>7, <1>9, <2>1 DEF Settled
  <2>2. CASE u # t
    <3>1. Settled(w, u) /\ u \in Ticket
      BY <1>6, <1>8
    <3>2. Fresh(w, u) => Fresh(w, u)'
      BY <1>3, <1>4, <1>7 DEF Fresh
    <3> QED
      BY <1>3, <1>4, <1>5, <1>7, <2>2, <3>1, <3>2 DEF Settled
  <2> QED
    BY <2>1, <2>2
<1>11. RunHolds(w)'
  BY <1>1, <1>3, <1>4, <1>5, <1>7, <1>10 DEF RunHolds
<1>12. OpenElse(w, t) => LastJobOpen(t)
  BY DEF OpenElse, LastJobOpen
<1>13. \A u \in Ticket : Right(u) \/ u \in notProcessed =>
         (Right(u) \/ u \in notProcessed)' \/ LastJobOpen(u) \/ u \in locks \cup missed
  BY <1>9, <1>12
<1>14. /\ UNCHANGED <<records, queued, names>>
       /\ \A j \in Job : stands'[j] = "finished" => stands[j] = "finished"
  BY DEF jobs
<1> QED
  BY <1>2, <1>3, <1>11, <1>13, <1>14, WorkedHolds

LEMMA WorkStep ==
  ASSUME ~MayExpire, JobsHold, OneRun, WorkHold, [Step]_work
  PROVE  WorkHold'
<1>1. WorkTypeOK /\ \A w \in Worker : run[w] \in Run /\ RunHolds(w)
  BY DEF JobsHold, WorkTypeOK, WorkHold
<1>2. /\ standsVoid \cap locks \subseteq voids \cup missed
      /\ standsVoid \subseteq voids \cup unvoided \cup missed
  BY DEF WorkHold
<1>3. ASSUME NEW w \in Worker, run[w].phase # "idle"
      PROVE  \A v \in Worker \ {w} : run[v].phase = "idle"
  BY <1>3 DEF OneRun
<1>4. CASE Api
  BY <1>4, ApiHolds
<1>5. ASSUME NEW w \in Worker, TakeUp(w) PROVE WorkHold'
  <2>1. /\ UNCHANGED <<records, conclusions, queued, names>>
        /\ \A j \in Job : stands'[j] = "finished" => stands[j] = "finished"
    BY <1>5 DEF TakeUp, SpentSetAside
  <2>2. \A v \in Worker : run[v].phase = "idle"
    BY <1>5, ReconciliationAssumption DEF TakeUp, LockFree, OneRun
  <2>3. ASSUME NEW q \in Run, run' = [run EXCEPT ![w] = q], RunHolds(w)' PROVE WorkHold'
    <3>1. \A t \in Ticket : Right(t) \/ t \in notProcessed => (Right(t) \/ t \in notProcessed)'
      BY <2>1 DEF records, conclusions, Right
    <3> QED
      BY <1>2, <2>1, <2>2, <2>3, <3>1, WorkedHolds DEF conclusions
  <2>4. CASE Taken = {}
    <3>1. run' = run
      BY <1>5, <2>4 DEF TakeUp
    <3>2. run' = [run EXCEPT ![w] = run[w]]
      BY <1>1, <3>1 DEF WorkTypeOK
    <3>3. RunHolds(w)'
      BY <1>1, <2>1, <2>2, <3>1 DEF RunHolds, Asked, NamedBy, records
    <3> QED
      BY <1>1, <2>3, <3>2, <3>3
  <2>5. CASE Taken # {}
    <3> DEFINE final == {j \in Taken : tries[j] + 1 >= Tries}
               q == TakenUp(Taken, final)
    <3>1. run' = [run EXCEPT ![w] = q]
      BY <1>5, <2>5 DEF TakeUp, TakenUp
    <3>2. q \in Run /\ q.phase = "taken" /\ q.todo = {} /\ q.asVoid = {}
      <4>1. final \in SUBSET Job /\ Taken \in SUBSET Job
        BY TakenWaits
      <4> HIDE DEF final
      <4> QED
        BY <4>1, NoRunFields DEF TakenUp, Run, Phase
    <3> HIDE DEF q
    <3>3. run'[w] = q
      BY <1>1, <3>1 DEF WorkTypeOK
    <3>4. RunHolds(w)'
      BY <3>2, <3>3 DEF RunHolds
    <3> QED
      BY <2>3, <3>1, <3>2, <3>4
  <2> QED
    BY <2>4, <2>5
<1>6. ASSUME NEW w \in Worker, NEW q \in Run, run' = [run EXCEPT ![w] = q],
             run[w].phase # "idle", UNCHANGED <<records, conclusions, queued, names>>,
             \A j \in Job : stands'[j] = "finished" => stands[j] = "finished",
             RunHolds(w)'
      PROVE  WorkHold'
  <2>1. \A t \in Ticket : Right(t) \/ t \in notProcessed => (Right(t) \/ t \in notProcessed)'
    BY <1>6 DEF records, conclusions, Right
  <2> QED
    BY <1>2, <1>3, <1>6, <2>1, WorkedHolds DEF conclusions
<1>7. ASSUME NEW w \in Worker, Read(w) PROVE WorkHold'
  <2> DEFINE asked == Asked(w)
             asVoid == asked \cap (voids \ standsVoid)
             todo == (asked \cap Gathered) \cup asVoid
             q == ReadOf(run[w], facts, asVoid, todo)
  <2>1. run' = [run EXCEPT ![w] = q]
    BY <1>1, <1>7, RunEffect DEF Asked
  <2>2. asVoid \in SUBSET Ticket /\ todo \in SUBSET Ticket /\ facts \in [Ticket -> Nat]
    BY <1>1 DEF Gathered, WorkTypeOK
  <2>3. /\ q \in Run /\ q.phase = "working" /\ q.took = run[w].took /\ q.read = facts
        /\ q.asVoid = asVoid /\ q.todo = todo
    <3> HIDE DEF asVoid, todo
    <3> QED
      BY <1>1, <2>2, ReadOfFields
  <2> HIDE DEF q
  <2>4. run'[w] = q /\ UNCHANGED <<records, conclusions, jobs>> /\ run[w].phase # "idle"
    BY <1>1, <1>7, <2>1 DEF Read, WorkTypeOK
  <2>5. Asked(w)' = Asked(w)
    BY <2>3, <2>4, SameJobs
  <2>6. /\ voids' = voids /\ facts' = facts /\ written' = written /\ standsVoid' = standsVoid
        /\ missed' = missed
    BY <2>4 DEF records, conclusions
  <2>7. Asked(w) \subseteq Ticket
    BY <1>1, RunFields DEF Asked, NamedBy, WorkTypeOK
  <2>8. ASSUME NEW t \in Asked(w) PROVE Settled(w, t)'
    <3>1. CASE t \in asVoid
      BY <2>3, <2>4, <2>6, <3>1 DEF Settled, Fresh
    <3>2. CASE t \in Gathered /\ t \notin asVoid
      BY <2>3, <2>4, <2>6, <3>2 DEF Settled, Fresh, Gathered
    <3>3. CASE t \notin Gathered /\ t \notin asVoid
      <4>1. t \in standsVoid /\ t \in voids \cup missed
        BY <1>2, <2>7, <3>3 DEF Gathered
      <4> QED
        BY <2>3, <2>4, <2>6, <3>3, <4>1 DEF Settled, Right
    <3> QED
      BY <3>1, <3>2, <3>3
  <2>9. RunHolds(w)'
    BY <2>3, <2>4, <2>5, <2>6, <2>8 DEF RunHolds
  <2> QED
    BY <1>6, <2>1, <2>3, <2>4, <2>9 DEF jobs
<1>8. ASSUME NEW w \in Worker, NEW t \in Ticket, LeavesLocked(w, t) PROVE WorkHold'
  <2>1. /\ UNCHANGED <<records, jobs, written, standsVoid, notProcessed>> /\ TicketDone(w, t)
        /\ run[w].phase = "working" /\ t \in run[w].todo /\ t \in locks
        /\ unvoided' = unvoided \ {t}
    BY <1>8 DEF LeavesLocked
  <2>2. \A u \in Ticket : Right(u) => Right(u)'
    BY <2>1 DEF Right, records
  <2> QED
    BY <1>2, <1>3, <2>1, <2>2, DoneHolds
<1>9. ASSUME NEW w \in Worker, NEW t \in Ticket, Starts(w, t) PROVE WorkHold'
  <2> DEFINE q == StartedOf(run[w], t)
  <2>1. run' = [run EXCEPT ![w] = q]
    BY <1>1, <1>9, RunEffect
  <2>2. /\ q \in Run /\ q.phase = "turn" /\ q.took = run[w].took /\ q.read = run[w].read
        /\ q.asVoid = run[w].asVoid /\ q.todo = run[w].todo /\ q.turn = t
    BY <1>1, StartedOfFields
  <2> HIDE DEF q
  <2>3. /\ run'[w] = q /\ UNCHANGED <<records, conclusions, jobs>>
        /\ run[w].phase = "working" /\ t \in run[w].todo
    BY <1>1, <1>9, <2>1 DEF Starts, WorkTypeOK
  <2>4. Asked(w)' = Asked(w) /\ \A u : OpenElse(w, u)' <=> OpenElse(w, u)
    BY <2>2, <2>3, SameJobs
  <2>5. \A u : Settled(w, u) => Settled(w, u)'
    BY <2>2, <2>3, <2>4 DEF Settled, Fresh, Right, records, conclusions
  <2>6. RunHolds(w)'
    BY <1>1, <2>2, <2>3, <2>4, <2>5 DEF RunHolds, records
  <2> QED
    BY <1>6, <2>1, <2>2, <2>3, <2>6 DEF jobs
<1>10. ASSUME NEW w \in Worker, Writes(w) PROVE WorkHold'
  <2>0. PICK t \in Ticket : t = run[w].turn
    BY <1>1, <1>10, RunFields DEF Writes, RunHolds, JobsHold, WorkTypeOK
  <2>1. /\ UNCHANGED <<records, jobs>> /\ TicketDone(w, t) /\ run[w].phase = "writing"
        /\ unvoided' = unvoided \ {t} /\ notProcessed' = notProcessed \ {t}
    BY <1>10, <2>0 DEF Writes
  <2>2. t \in run[w].todo
    BY <1>1, <2>0, <2>1 DEF RunHolds
  <2>3. CASE t \in run[w].asVoid
    <3>1. standsVoid' = standsVoid \cup {t} /\ written' = written
      BY <1>10, <2>0, <2>3 DEF Writes
    <3>2. t \in voids \cup missed
      BY <1>1, <2>3 DEF RunHolds
    <3>3. /\ standsVoid' \cap locks \subseteq voids \cup missed
          /\ standsVoid' \subseteq voids \cup unvoided' \cup missed
      BY <1>2, <2>1, <3>1, <3>2
    <3>4. \A u \in Ticket \ {t} :
            (Right(u) => Right(u)') /\ (u \in notProcessed => u \in notProcessed')
      BY <2>1, <3>1 DEF Right, records
    <3>5. Right(t)' \/ t \in missed
      BY <2>1, <3>1, <3>2 DEF Right, records
    <3> QED
      BY <1>3, <2>1, <2>2, <3>3, <3>4, <3>5, DoneHolds
  <2>4. CASE t \notin run[w].asVoid
    <3>1. standsVoid' = standsVoid \ {t} /\ written' = [written EXCEPT ![t] = run[w].read[t]]
      BY <1>10, <2>0, <2>4 DEF Writes
    <3>2. written'[t] = run[w].read[t] /\ \A u \in Ticket \ {t} : written'[u] = written[u]
      BY <1>1, <2>2, <3>1 DEF WorkTypeOK
    <3>3. /\ standsVoid' \cap locks \subseteq voids \cup missed
          /\ standsVoid' \subseteq voids \cup unvoided' \cup missed
      BY <1>2, <2>1, <3>1
    <3>4. \A u \in Ticket \ {t} :
            (Right(u) => Right(u)') /\ (u \in notProcessed => u \in notProcessed')
      BY <2>1, <3>1, <3>2 DEF Right, records
    <3>5. Fresh(w, t) => Right(t)'
      BY <2>1, <2>4, <3>1, <3>2 DEF Fresh, Right, records
    <3>6. Settled(w, t) => OpenElse(w, t) \/ t \in locks \cup missed \/ Right(t)'
      BY <2>2, <3>5 DEF Settled
    <3> QED
      BY <1>3, <2>1, <2>2, <3>3, <3>4, <3>6, DoneHolds
  <2> QED
    BY <2>3, <2>4
<1>17. ASSUME NEW w \in Worker, LeavesAsIs(w) PROVE WorkHold'
  <2>0. PICK t \in Ticket : t = run[w].turn
    BY <1>1, <1>17, RunFields DEF LeavesAsIs, RunHolds, JobsHold, WorkTypeOK
  <2>1. /\ UNCHANGED <<records, jobs, written, standsVoid>> /\ TicketDone(w, t)
        /\ run[w].phase = "turn" /\ SameStands(w, t)
        /\ unvoided' = unvoided \ {t} /\ notProcessed' = notProcessed \ {t}
    BY <1>17, <2>0 DEF LeavesAsIs
  <2>2. t \in run[w].todo
    BY <1>1, <2>0, <2>1 DEF RunHolds
  <2>3. t \in standsVoid => t \in voids \cup missed
    BY <1>1, <2>1 DEF SameStands, RunHolds
  <2>4. /\ standsVoid' \cap locks \subseteq voids \cup missed
        /\ standsVoid' \subseteq voids \cup unvoided' \cup missed
    BY <1>2, <2>1, <2>3
  <2>5. \A u \in Ticket \ {t} :
          (Right(u) => Right(u)') /\ (u \in notProcessed => u \in notProcessed')
    BY <2>1 DEF Right, records
  <2>6. Fresh(w, t) => Right(t)'
    BY <2>1 DEF SameStands, Fresh, Right, records
  <2>7. Settled(w, t) => OpenElse(w, t) \/ t \in locks \cup missed \/ Right(t)'
    BY <2>2, <2>6 DEF Settled
  <2> QED
    BY <1>3, <2>1, <2>2, <2>4, <2>5, <2>7, DoneHolds
<1>18. ASSUME NEW w \in Worker, Changes(w) PROVE WorkHold'
  <2> DEFINE q == WritingOf(run[w])
  <2>1. run' = [run EXCEPT ![w] = q]
    BY <1>1, <1>18, RunEffect
  <2>2. /\ q \in Run /\ q.phase = "writing" /\ q.took = run[w].took /\ q.read = run[w].read
        /\ q.asVoid = run[w].asVoid /\ q.todo = run[w].todo /\ q.turn = run[w].turn
    BY <1>1, WritingOfFields
  <2> HIDE DEF q
  <2>3. run'[w] = q /\ UNCHANGED <<records, conclusions, jobs>> /\ run[w].phase = "turn"
    BY <1>1, <1>18, <2>1 DEF Changes, WorkTypeOK
  <2>4. Asked(w)' = Asked(w) /\ \A u : OpenElse(w, u)' <=> OpenElse(w, u)
    BY <2>2, <2>3, SameJobs
  <2>5. \A u : Settled(w, u) => Settled(w, u)'
    BY <2>2, <2>3, <2>4 DEF Settled, Fresh, Right, records, conclusions
  <2>6. RunHolds(w)'
    BY <1>1, <2>2, <2>3, <2>4, <2>5 DEF RunHolds, records
  <2> QED
    BY <1>6, <2>1, <2>2, <2>3, <2>6 DEF jobs
<1>19. CASE Asking
  <2>1. WorkTypeOK
    BY <1>1
  <2> QED
    BY <1>19, <2>1, AskingEffect DEF conclusions, jobs, WorkHold, OnlyMissedForgotten, Right, LastJobOpen,
       RunHolds, Settled, Fresh, OpenElse, Asked, NamedBy
<1>11. ASSUME NEW w \in Worker, NotProcessed(w) PROVE WorkHold'
  <2>0. PICK t \in Ticket : t = run[w].turn
    BY <1>1, <1>11, RunFields DEF NotProcessed, RunHolds, JobsHold, WorkTypeOK
  <2>1. /\ UNCHANGED <<records, jobs, unvoided, written, standsVoid>> /\ TicketDone(w, t)
        /\ run[w].phase \in {"turn", "writing"} /\ notProcessed' = notProcessed \cup {t}
    BY <1>11, <2>0 DEF NotProcessed
  <2>2. t \in run[w].todo
    BY <1>1, <2>0, <2>1 DEF RunHolds
  <2>3. \A u \in Ticket : Right(u) => Right(u)'
    BY <2>1 DEF Right, records
  <2> QED
    BY <1>2, <1>3, <2>1, <2>2, <2>3, DoneHolds
<1>12. ASSUME NEW w \in Worker, Closes(w) PROVE WorkHold'
  <2> DEFINE q == ClosingOf(run[w])
  <2>1. run' = [run EXCEPT ![w] = q]
    BY <1>1, <1>12, RunEffect
  <2>2. /\ q \in Run /\ q.phase = "closing" /\ q.took = run[w].took /\ q.read = run[w].read
        /\ q.asVoid = run[w].asVoid /\ q.todo = run[w].todo
    BY <1>1, ClosingOfFields
  <2> HIDE DEF q
  <2>3. /\ run'[w] = q /\ UNCHANGED <<records, conclusions, jobs>>
        /\ run[w].phase = "working" /\ run[w].todo = {}
    BY <1>1, <1>12, <2>1 DEF Closes, WorkTypeOK
  <2>4. Asked(w)' = Asked(w) /\ \A u : OpenElse(w, u)' <=> OpenElse(w, u)
    BY <2>2, <2>3, SameJobs
  <2>5. \A u : Settled(w, u) => Settled(w, u)'
    BY <2>2, <2>3, <2>4 DEF Settled, Fresh, Right, records, conclusions
  <2>6. RunHolds(w)'
    BY <1>1, <2>2, <2>3, <2>4, <2>5 DEF RunHolds, records
  <2> QED
    BY <1>6, <2>1, <2>2, <2>3, <2>6 DEF jobs
<1>13. ASSUME NEW w \in Worker, Fails(w) \/ Dies(w) PROVE WorkHold'
  <2>1. run' = [run EXCEPT ![w] = NoRun] /\ run[w].phase # "idle"
    BY <1>1, <1>13, RunEffect DEF Fails, Dies
  <2>2. /\ UNCHANGED <<records, conclusions, queued, names>>
        /\ \A j \in Job : stands'[j] = "finished" => stands[j] = "finished"
    BY <1>13 DEF Fails, Dies, jobs
  <2>3. run'[w] = NoRun
    BY <1>1, <2>1 DEF WorkTypeOK
  <2>4. RunHolds(w)'
    BY <2>3, NoRunFields DEF RunHolds
  <2> QED
    BY <1>6, <2>1, <2>2, <2>4, NoRunFields
<1>14. ASSUME NEW w \in Worker, Finishes(w) PROVE WorkHold'
  <2>1. /\ run' = [run EXCEPT ![w] = NoRun] /\ run[w].phase = "closing"
        /\ UNCHANGED <<records, conclusions, queued, names>>
        /\ stands' = [j \in Job |-> IF j \in run[w].took THEN "finished" ELSE stands[j]]
    BY <1>14 DEF Finishes
  <2>2. \A v \in Worker : run'[v] = IF v = w THEN NoRun ELSE run[v]
    BY <1>1, <2>1 DEF WorkTypeOK
  <2>3. \A v \in Worker \ {w} : run[v].phase = "idle"
    BY <1>3, <2>1
  <2>4. ASSUME NEW v \in Worker PROVE RunHolds(v)'
    <3>1. CASE v = w
      BY <2>2, <3>1, NoRunFields DEF RunHolds
    <3>2. CASE v # w
      BY <1>1, <2>1, <2>2, <2>3, <3>2 DEF RunHolds, Asked, NamedBy, records
    <3> QED
      BY <3>1, <3>2
  <2>5. \A t : Right(t) => Right(t)'
    BY <2>1 DEF Right, records, conclusions
  <2>6. ASSUME NEW j \in 1..queued, j \notin run[w].took PROVE stands'[j] = stands[j]
    <3>1. j \in Job
      BY <1>1, ReconciliationAssumption DEF WorkTypeOK, Job
    <3> QED
      BY <2>1, <2>6, <3>1
  <2>7. OnlyMissedForgotten'
    <3> SUFFICES ASSUME NEW t \in Ticket, t \notin missed
                 PROVE  (Right(t) \/ LastJobOpen(t) \/ t \in locks \/ t \in notProcessed)'
      BY <2>1 DEF OnlyMissedForgotten, records
    <3>1. CASE t \in Asked(w)
      <4>1. Settled(w, t) /\ run[w].todo = {}
        BY <1>1, <2>1, <3>1 DEF RunHolds
      <4>2. OpenElse(w, t) => LastJobOpen(t)'
        BY <2>1, <2>6 DEF OpenElse, LastJobOpen
      <4> QED
        BY <2>1, <2>5, <4>1, <4>2 DEF Settled, records, conclusions
    <3>2. CASE t \notin Asked(w)
      <4>1. \A j \in 1..queued : t \in names[j] => j \notin run[w].took
        BY <3>2 DEF Asked, NamedBy
      <4>2. LastJobOpen(t) => LastJobOpen(t)'
        BY <2>1, <2>6, <4>1 DEF LastJobOpen
      <4> QED
        BY <2>1, <2>5, <4>2 DEF WorkHold, OnlyMissedForgotten, records, conclusions
    <3> QED
      BY <3>1, <3>2
  <2> QED
    BY <1>2, <2>1, <2>4, <2>7 DEF WorkHold, records, conclusions
<1>15. \A w \in Worker : ~Expires(w)
  BY DEF Expires
<1>16. CASE UNCHANGED work
  BY <1>16 DEF work, records, conclusions, jobs, WorkHold, OnlyMissedForgotten, Right, LastJobOpen,
     RunHolds, Settled, Fresh, OpenElse, Asked, NamedBy
<1> QED
  BY <1>4, <1>5, <1>7, <1>8, <1>9, <1>10, <1>11, <1>12, <1>13, <1>14, <1>15, <1>16, <1>17, <1>18, <1>19
  DEF Step, Works, Refused

\* With one run at a time no change of the records is forgotten that didn't miss the ticket: what
\* isn't as it should be has its last job open, is locked or is flagged, however the changes overtake
\* each other between what they ask and their commit; or it was left off for a lock or a void lifted
\* meanwhile, or put back or locked too late for the run that had it in hand.
THEOREM OnlyTheMissedForgotten == ASSUME ~MayExpire PROVE Spec => []OnlyMissedForgotten
<1>1. JobsHold /\ OneRun /\ [Next]_vars => OneRun'
  BY OneRunStep, NextStep
<1>2. JobsHold /\ OneRun /\ WorkHold /\ [Next]_vars => WorkHold'
  BY WorkStep, NextStep
<1>3. WorkHold => OnlyMissedForgotten
  BY DEF WorkHold
<1> QED
  BY <1>1, <1>2, <1>3, OneRunInit, WorkInit, JobsSafe, PTL DEF Spec
=============================================================================
