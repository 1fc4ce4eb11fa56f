--------------------------- MODULE Reconciliation ---------------------------
(***************************************************************************)
(* A project's reconciliation: the API's changes queue jobs naming the     *)
(* tickets they move (apps/api/src/jobs/work-queue.ts), and the worker's   *)
(* runs take the waiting jobs up under the project's lock, work their      *)
(* tickets one at a time and finish the jobs                               *)
(* (apps/worker/src/reconciliation/{reconciliation,waiting-jobs}.ts).      *)
(*                                                                         *)
(* What a ticket is concluded from is a version, moved by every change     *)
(* that reaches it; a conclusion is of the version its run read.  A run's  *)
(* many reads are one step at the first of them: a change after it counts  *)
(* as unread.  The database reads committed and locks no row a piece of    *)
(* work asks about, so what a change asks of locks and voids, and what a   *)
(* run's writes ask of a lock, may no longer be so when it commits: each   *)
(* asks in steps of its own.  An admin may close the project and reopen it *)
(* (apps/api/src/setup/project-setup.ts); of what a close ends, the jobs   *)
(* alone are here.  Left out: a rule's void, the project's records that    *)
(* are no ticket's, and field events under no ticket number.               *)
(***************************************************************************)
EXTENDS Naturals, FiniteSets, Functions

CONSTANTS
  Ticket,      \* a project's tickets
  Neighbours,  \* [Ticket -> the other tickets whose conclusions read it]
  SetupMoves,  \* the sets of tickets one setup change touches
  Worker,      \* the processes that run the job loop
  Nobody,      \* no run holds the project's lock; no ticket has its turn
  Tries,       \* JOB_TRIES_BEFORE_SET_ASIDE
  AtMost,      \* JOB_TICKETS_AT_MOST: of a job, and of a run
  MaxJobs,     \* bound: the jobs queued in a behaviour
  MaxFacts,    \* bound: the changes that reach one ticket
  Change,      \* bound: the changes under way at once that others may overtake
  MayMiss,     \* bound: the tickets a change may miss by what it asked being no longer so
  MayExpire,   \* whether a run may outlast its lock (longestRunMs)
  MayClose,    \* whether the project may be closed
  ClosesAlone  \* whether no change is made between a close's count of the jobs and its mark

ASSUME ReconciliationAssumption ==
  /\ Neighbours \in [Ticket -> SUBSET Ticket]
  /\ SetupMoves \subseteq SUBSET Ticket
  /\ Nobody \notin Worker \cup Ticket
  /\ Tries \in Nat \ {0} /\ AtMost \in Nat \ {0}
  /\ MaxJobs \in Nat /\ MaxFacts \in Nat
  /\ MayExpire \in BOOLEAN
  /\ MayClose \in BOOLEAN /\ ClosesAlone \in BOOLEAN

VARIABLES
  facts,         \* [Ticket -> Nat]: the version of what it is concluded from
  voids,         \* SUBSET Ticket: a person's void is in force
  unvoided,      \* SUBSET Ticket: an unvoid newer than its last decision
  locks,         \* SUBSET Ticket: locked as invoiced
  seen,          \* [Change -> what a change under way has asked so far]
  missed,        \* history, SUBSET Ticket: left off a change, or put back or locked too late
  written,       \* [Ticket -> Nat]: the version its lines and columns were concluded from
  standsVoid,    \* SUBSET Ticket: the worker wrote its field events VOID
  notProcessed,  \* SUBSET Ticket: flagged NOT_PROCESSED
  queued,        \* the jobs queued so far: 1..queued, the oldest first
  names,         \* [Job -> SUBSET Ticket]
  tries,         \* [Job -> Nat]: `attempts`
  stands,        \* [Job -> how it stands]
  holder,        \* the worker that holds the project's lock
  run,           \* [Worker -> its run]
  late,          \* history, SUBSET Worker: its ticket was locked since its writes asked
  project        \* open, counted (its close has counted the jobs that wait) or closed

records == <<facts, voids, locks, seen, missed>>
conclusions == <<unvoided, written, standsVoid, notProcessed>>
jobs == <<queued, names, tries, stands>>
work == <<records, conclusions, jobs, holder, run, late>>
vars == <<work, project>>

Job == 1..MaxJobs
Stands == {"none", "waiting", "finished", "setAside"}
Phase == {"idle", "taken", "working", "turn", "writing", "closing"}

\* A run: the jobs it took up, those of them on their last try, what it read, the tickets it has
\* still to work (`asVoid`: to write as a person voided them), and the ticket whose turn it is.
Run == [phase : Phase, took : SUBSET Job, last : SUBSET Job, read : [Ticket -> Nat],
        todo : SUBSET Ticket, asVoid : SUBSET Ticket, turn : Ticket \cup {Nobody}]
NoRun == [phase |-> "idle", took |-> {}, last |-> {}, read |-> [t \in Ticket |-> 0],
          todo |-> {}, asVoid |-> {}, turn |-> Nobody]

\* What a change has asked: how locks and voids stood as it began (`stood`), the tickets locked
\* and the void ones as its queue then read them.
Standing == [locks : SUBSET Ticket, voids : SUBSET Ticket, written : SUBSET Ticket]
Seen == [stage : {"none", "begun", "locks", "asked"}, stood : Standing,
         locks : SUBSET Ticket, void : SUBSET Ticket]
NoChange == [stage |-> "none", stood |-> [locks |-> {}, voids |-> {}, written |-> {}],
             locks |-> {}, void |-> {}]

WorkTypeOK ==
  /\ facts \in [Ticket -> Nat] /\ written \in [Ticket -> Nat]
  /\ voids \subseteq Ticket /\ unvoided \subseteq Ticket /\ locks \subseteq Ticket
  /\ standsVoid \subseteq Ticket /\ notProcessed \subseteq Ticket
  /\ seen \in [Change -> Seen] /\ missed \subseteq Ticket /\ late \subseteq Worker
  /\ queued \in 0..MaxJobs
  /\ names \in [Job -> SUBSET Ticket] /\ tries \in [Job -> Nat] /\ stands \in [Job -> Stands]
  /\ holder \in Worker \cup {Nobody}
  /\ run \in [Worker -> Run]
  /\ \A w \in Worker :
       /\ run[w].phase = "idle" => holder # w
       /\ run[w].phase \in {"turn", "writing"} <=> run[w].turn # Nobody

TypeOK == WorkTypeOK /\ project \in {"open", "counted", "closed"}

\* A project whose tickets are all concluded and nothing waits.
Init ==
  /\ facts = [t \in Ticket |-> 0] /\ written = [t \in Ticket |-> 0]
  /\ voids = {} /\ unvoided = {} /\ locks = {} /\ standsVoid = {} /\ notProcessed = {}
  /\ seen = [c \in Change |-> NoChange] /\ missed = {} /\ late = {}
  /\ queued = 0
  /\ names = [j \in Job |-> {}] /\ tries = [j \in Job |-> 0] /\ stands = [j \in Job |-> "none"]
  /\ holder = Nobody
  /\ run = [w \in Worker |-> NoRun]
  /\ project = "open"

\* The database takes no write to a closed project's records, whoever writes.
IsOpen == project # "closed"

(***************************************************************************)
(* The API: a change, what it asks, and its jobs, committed together       *)
(***************************************************************************)

Stood == [locks |-> locks, voids |-> voids, written |-> standsVoid]

\* Asked all at once, as by a change that no other overtakes.
Now == [stage |-> "asked", stood |-> Stood, locks |-> locks, void |-> voids \cup standsVoid]

Asks(c, stage, asked) ==
  /\ seen[c].stage = stage
  /\ seen' = [seen EXCEPT ![c] = asked]
  /\ UNCHANGED <<facts, voids, locks, missed, conclusions, jobs, holder, run, late>>

\* A change begins: its service and the guards ask how its ticket stands ...
Begins(c) == IsOpen /\ Asks(c, "none", [NoChange EXCEPT !.stage = "begun", !.stood = Stood])

\* ... its queue reads the locks in force ...
ReadsLocks(c) == Asks(c, "begun", [seen[c] EXCEPT !.stage = "locks", !.locks = locks])

\* ... and then the void tickets.
ReadsVoids(c) == Asks(c, "locks", [seen[c] EXCEPT !.stage = "asked", !.void = voids \cup standsVoid])

\* Refused or failed: nothing of it is kept.
Undone(c) == seen[c].stage # "none" /\ Asks(c, seen[c].stage, NoChange)

\* The tickets cut into jobs of at most AtMost, in whatever order they were found.
Cuts(S) ==
  {cut \in UNION {[1..n -> SUBSET S] : n \in 0..Cardinality(S)} :
     /\ UNION Range(cut) = S
     /\ \A i \in DOMAIN cut : cut[i] # {} /\ Cardinality(cut[i]) <= AtMost
     /\ \A i, k \in DOMAIN cut : i < k => cut[i] \cap cut[k] = {} /\ Cardinality(cut[i]) = AtMost}

\* The work queue's rule, by what it read: a locked ticket is left off; among the others a void
\* one too, in force or as the worker last wrote it.
Named(asked, others, read) ==
  (asked \ read.locks) \cup (others \ (read.locks \cup read.void))

QueueJobs(S) ==
  \E n \in 0..MaxJobs - queued : \E cut \in Cuts(S) :
    /\ DOMAIN cut = 1..n
    /\ queued' = queued + n
    /\ names' = [j \in Job |-> IF j - queued \in 1..n THEN cut[j - queued] ELSE names[j]]
    /\ stands' = [j \in Job |-> IF j - queued \in 1..n THEN "waiting" ELSE stands[j]]
    /\ UNCHANGED tries

\* What a change moves the conclusions of.
Moves(S) ==
  /\ \A t \in S : facts[t] < MaxFacts
  /\ facts' = [t \in Ticket |-> IF t \in S THEN facts[t] + 1 ELSE facts[t]]

\* The tickets a run under way was asked for.
InHand == UNION {names[j] : j \in UNION {run[w].took : w \in Worker}}

\* A ticket the change leaves off is missed where that isn't so as it commits: it is neither
\* locked nor void any more, or it stands VOID, put back, in the hands of a run that read it
\* before.  A later job mends it, unless a run may yet write it VOID.
LeftOff(asked, others) ==
  Named(asked, others, Now) \cup ((others \cap standsVoid \cap InHand) \ voids)
Misses(S, named) ==
  /\ missed' = (missed \ (named \ (standsVoid \cup InHand))) \cup S
  /\ missed' \subseteq MayMiss

\* A change's jobs, by what its queue read; `tooLate`, what it missed besides.
Queues(asked, others, read, tooLate) ==
  LET named == Named(asked, others, read) IN
  /\ QueueJobs(named)
  /\ Misses((LeftOff(asked, others) \ named) \cup tooLate, named)

\* A review's neighbours were asked for before its queue was: one void by then is nobody's.
Found(read) == [read EXCEPT !.void = @ \cup read.stood.voids \cup read.stood.written]

\* A correction, a renumber or a synced field event: the ticket, and its neighbours.
Correct(t, read) ==
  /\ t \notin read.stood.locks
  /\ Moves({t} \cup Neighbours[t])
  /\ Queues({t}, Neighbours[t], Found(read), {})
  /\ UNCHANGED <<voids, locks, conclusions, late>>

\* A setup change: every ticket it touches, a void or locked one left off.
SetupChanges(S, read) ==
  /\ Moves(S)
  /\ Queues({}, S, read, {})
  /\ UNCHANGED <<voids, locks, conclusions, late>>

\* A person's void: the ticket itself is queued, and those that read it until now.  The database
\* holds one void in force of a ticket.
Void(t, read) ==
  /\ t \notin read.stood.voids \cup read.stood.written \cup read.stood.locks
  /\ t \notin voids
  /\ voids' = voids \cup {t}
  /\ Moves(Neighbours[t])
  /\ Queues({t}, Neighbours[t], Found(read), {})
  /\ UNCHANGED <<locks, conclusions, late>>

\* An unvoid: a record newer than the ticket's last decision, and the person's void it found
\* lifted.  A decision of a run that has the ticket in hand is newer still; so is one that leaves
\* it as locked.
Unvoid(t, read) ==
  /\ t \in read.stood.voids \cup read.stood.written /\ t \notin read.stood.locks
  /\ t \in read.stood.voids => t \in voids
  /\ voids' = voids \ ({t} \cap read.stood.voids)
  /\ unvoided' = unvoided \cup {t}
  /\ Moves(Neighbours[t])
  /\ Queues({t}, Neighbours[t], Found(read), {t} \cap (InHand \cup locks))
  /\ UNCHANGED <<locks, written, standsVoid, notProcessed, late>>

\* Locked as invoiced: a completed ticket, as it was found; the database holds one lock in force.
\* It queues nothing.
Lock(t, read) ==
  /\ t \notin read.stood.locks \cup read.stood.written
  /\ t \notin locks
  /\ locks' = locks \cup {t}
  /\ Misses({t} \cap (standsVoid \ voids), {})
  /\ late' = late \cup {w \in Worker : run[w].phase = "writing" /\ run[w].turn = t}
  /\ UNCHANGED <<facts, voids, conclusions, jobs>>

\* Unlocked: worked again, as the records and the setup stand by then.  The lock's row is held
\* from its change on, and the queue reads it as lifted.
Unlock(t) ==
  /\ t \in locks
  /\ locks' = locks \ {t}
  /\ QueueJobs({t}) /\ Misses({}, {t})
  /\ UNCHANGED <<facts, voids, conclusions, late>>

\* A person asks for a ticket again, or for those of a job that was set aside.
Reprocess(S, read) ==
  /\ QueueJobs(S \ read.locks) /\ Misses({}, S \ read.locks)
  /\ UNCHANGED <<facts, voids, locks, conclusions, late>>

SetAside == {j \in Job : stands[j] = "setAside"}

Commits(read) ==
  \/ \E t \in Ticket : Correct(t, read) \/ Void(t, read) \/ Unvoid(t, read) \/ Lock(t, read)
  \/ \E S \in SetupMoves : SetupChanges(S, read)
  \/ \E S \in {{t} : t \in Ticket} \cup {names[j] : j \in SetAside} : Reprocess(S, read)

\* A change that others may have overtaken commits by what it asked.
Overtaken(c) ==
  /\ seen[c].stage = "asked" /\ Commits(seen[c])
  /\ seen' = [seen EXCEPT ![c] = NoChange]

Api ==
  /\ ClosesAlone => project = "open"
  /\ \/ IsOpen /\ (Commits(Now) \/ \E t \in Ticket : Unlock(t)) /\ UNCHANGED seen
     \/ \E c \in Change : Overtaken(c)
  /\ UNCHANGED <<holder, run>>

Asking == \E c \in Change : Begins(c) \/ ReadsLocks(c) \/ ReadsVoids(c) \/ Undone(c)

(***************************************************************************)
(* The worker: a run, under the project's lock                             *)
(***************************************************************************)
Waiting == {j \in Job : stands[j] = "waiting"}
\* (A mutant: a job tried once more than the policy lets.)
SpentLate == {j \in Waiting : tries[j] > Tries}
Spent == {j \in Waiting : tries[j] >= Tries}
NamedBy(J) == UNION {names[j] : j \in J}

\* The oldest jobs while their tickets fit, always one, and those behind them that add no ticket.
Fits(j, J) ==
  LET older == {i \in J : i <= j} IN older = {j} \/ Cardinality(NamedBy(older)) <= AtMost
Taken ==
  LET fresh == Waiting \ Spent
      first == {j \in fresh : Fits(j, fresh)}
  IN  {j \in fresh : names[j] \subseteq NamedBy(first)}

\* One run a project at a time: the lock is tried, never waited for.
\* (A mutant: two runs of one project at once.)
LockNotTried == TRUE
LockFree == holder = Nobody

\* (A mutant: the lock outlives the run that held it.)
LockKept(w) == UNCHANGED holder
Release(w) == holder' = IF holder = w THEN Nobody ELSE holder

\* Under the lock each taken job's try is counted before any ticket is worked; a job already
\* tried as often as the policy lets is set aside instead.
\* (A mutant: a job tried too often passed over, never set aside.)
SpentPassedOver == stands
SpentSetAside == [j \in Job |-> IF j \in Spent THEN "setAside" ELSE stands[j]]

TakeUp(w) ==
  /\ IsOpen /\ run[w].phase = "idle" /\ LockFree /\ Waiting # {}
  /\ stands' = SpentSetAside
  /\ tries' = [j \in Job |-> IF j \in Taken THEN tries[j] + 1 ELSE tries[j]]
  /\ IF Taken = {}
       THEN UNCHANGED <<holder, run>>
       ELSE /\ holder' = w
            /\ run' = [run EXCEPT ![w] = [NoRun EXCEPT
                 !.phase = "taken", !.took = Taken,
                 !.last = {j \in Taken : tries[j] + 1 >= Tries}]]
  /\ UNCHANGED <<records, conclusions, queued, names, late>>

\* What the run read as live: not void in force, and not standing VOID unless unvoided since.
\* (A mutant: what stands VOID is never read, unvoided or not.)
NeverVoid == {t \in Ticket : t \notin voids \cup standsVoid}
Gathered == {t \in Ticket \ voids : t \in standsVoid => t \in unvoided}

\* The project read, and what of it the run was asked for: every ticket read, and those a person
\* voided that aren't yet written so.
Read(w) ==
  /\ run[w].phase = "taken"
  /\ LET asked == NamedBy(run[w].took)
         asVoid == asked \cap (voids \ standsVoid)
     IN  run' = [run EXCEPT ![w] = [@ EXCEPT
           !.phase = "working", !.read = facts, !.asVoid = asVoid,
           !.todo = (asked \cap Gathered) \cup asVoid]]
  /\ UNCHANGED <<records, conclusions, jobs, holder, late>>

TicketDone(w, t) ==
  /\ run' = [run EXCEPT ![w] =
       [@ EXCEPT !.phase = "working", !.todo = run[w].todo \ {t}, !.turn = Nobody]]
  /\ late' = late \ {w}

\* A ticket's turn comes, the lock still held: one locked as invoiced is left with a decision...
LeavesLocked(w, t) ==
  /\ IsOpen /\ run[w].phase = "working" /\ t \in run[w].todo /\ holder = w /\ t \in locks
  /\ unvoided' = unvoided \ {t}
  /\ TicketDone(w, t)
  /\ UNCHANGED <<records, written, standsVoid, notProcessed, jobs, holder>>

\* ... and any other is worked from what the run read, however long the map's answers take.
Starts(w, t) ==
  /\ run[w].phase = "working" /\ t \in run[w].todo /\ holder = w /\ t \notin locks
  /\ run' = [run EXCEPT ![w] = [@ EXCEPT !.phase = "turn", !.turn = t]]
  /\ UNCHANGED <<records, conclusions, jobs, holder, late>>

\* Whether what the run concluded of its ticket is what stands already.
SameStands(w, t) ==
  IF t \in run[w].asVoid THEN t \in standsVoid
  ELSE t \notin standsVoid /\ written[t] = run[w].read[t]

\* Nothing of it to change: a decision alone, whoever locked it meanwhile.
LeavesAsIs(w) ==
  LET t == run[w].turn IN
  /\ IsOpen /\ run[w].phase = "turn" /\ SameStands(w, t)
  /\ notProcessed' = notProcessed \ {t}
  /\ unvoided' = unvoided \ {t}
  /\ TicketDone(w, t)
  /\ UNCHANGED <<records, written, standsVoid, jobs, holder>>

\* The database takes no change to a locked ticket's records: asked at each statement that makes
\* one, without a lock on what it asks of.
\* (A mutant: a lock asked about only as the ticket's turn came.)
WritesLocked(t) == TRUE
MayWrite(t) == t \notin locks

\* The last of those statements passes ...
Changes(w) ==
  /\ IsOpen /\ run[w].phase = "turn" /\ ~SameStands(w, run[w].turn) /\ MayWrite(run[w].turn)
  /\ run' = [run EXCEPT ![w].phase = "writing"]
  /\ late' = late \ {w}
  /\ UNCHANGED <<records, conclusions, jobs, holder>>

\* ... the decision is written, and the piece of work commits.
Writes(w) ==
  LET t == run[w].turn IN
  /\ run[w].phase = "writing"
  /\ IF t \in run[w].asVoid
       THEN standsVoid' = standsVoid \cup {t} /\ UNCHANGED written
       ELSE /\ standsVoid' = standsVoid \ {t}
            /\ written' = [written EXCEPT ![t] = run[w].read[t]]
  /\ notProcessed' = notProcessed \ {t}
  /\ unvoided' = unvoided \ {t}
  /\ TicketDone(w, t)
  /\ UNCHANGED <<records, jobs, holder>>

\* Its work or its writing failed: nothing of it is kept, it is flagged, and the run goes on.
NotProcessed(w) ==
  /\ IsOpen /\ run[w].phase \in {"turn", "writing"}
  /\ notProcessed' = notProcessed \cup {run[w].turn}
  /\ TicketDone(w, run[w].turn)
  /\ UNCHANGED <<records, unvoided, written, standsVoid, jobs, holder>>

\* Every ticket worked and the lock still held: the run closes ...
Closes(w) ==
  /\ run[w].phase = "working" /\ run[w].todo = {} /\ holder = w
  /\ run' = [run EXCEPT ![w].phase = "closing"]
  /\ UNCHANGED <<records, conclusions, jobs, holder, late>>

\* The database keeps a finished or set aside job's row as it is.
\* (A mutant: an ended job's row changed again.)
EndedTakenAgain(J) == TRUE
NoneEnded(J) == J \subseteq Waiting

\* ... and its jobs are finished in its closing piece of work.
Finishes(w) ==
  /\ IsOpen /\ run[w].phase = "closing" /\ NoneEnded(run[w].took)
  /\ stands' = [j \in Job |-> IF j \in run[w].took THEN "finished" ELSE stands[j]]
  /\ Release(w)
  /\ run' = [run EXCEPT ![w] = NoRun] /\ late' = late \ {w}
  /\ UNCHANGED <<records, conclusions, queued, names, tries>>

\* The try failed whole: a job on its last try is set aside, and the others wait for the next
\* run.  Where one of its jobs ended meanwhile, that piece of work is undone.
Fails(w) ==
  /\ IsOpen /\ run[w].phase # "idle"
  /\ stands' = [j \in Job |->
       IF j \in run[w].last /\ NoneEnded(run[w].took) THEN "setAside" ELSE stands[j]]
  /\ Release(w)
  /\ run' = [run EXCEPT ![w] = NoRun] /\ late' = late \ {w}
  /\ UNCHANGED <<records, conclusions, queued, names, tries>>

\* The worker's process stops, or the database can't be written: the jobs are left as they wait.
Dies(w) ==
  /\ run[w].phase # "idle"
  /\ Release(w)
  /\ run' = [run EXCEPT ![w] = NoRun] /\ late' = late \ {w}
  /\ UNCHANGED <<records, conclusions, jobs>>

\* The lock's piece of work outlives longestRunMs and is let go; the run learns of it at its next
\* ticket.
Expires(w) ==
  /\ MayExpire /\ holder = w
  /\ holder' = Nobody
  /\ UNCHANGED <<records, conclusions, jobs, run, late>>

\* In a closed project a run's next write is refused, and its failure's too.
Refused(w) == ~IsOpen /\ Dies(w)

Works(w) ==
  \/ Read(w) \/ LeavesAsIs(w) \/ Changes(w) \/ Writes(w) \/ NotProcessed(w)
  \/ Closes(w) \/ Finishes(w) \/ Fails(w) \/ Refused(w)
  \/ \E t \in Ticket : LeavesLocked(w, t) \/ Starts(w, t)

Step == Api \/ Asking \/ \E w \in Worker : TakeUp(w) \/ Works(w) \/ Dies(w) \/ Expires(w)

(***************************************************************************)
(* The project's close, one piece of work in its two steps                 *)
(***************************************************************************)

NoneWaits == Waiting = {}

\* Waiting jobs stop a close, and nothing else does ...
Counts == MayClose /\ project = "open" /\ NoneWaits /\ project' = "counted"

\* ... and it is marked by what was counted, or undone.
Marks == project = "counted" /\ project' \in {"closed", "open"}

\* An admin reopens it, and nothing else of it changes.
Reopens == project = "closed" /\ project' = "open"

Next ==
  \/ Step /\ UNCHANGED project
  \/ (Counts \/ Marks \/ Reopens) /\ UNCHANGED work

Spec == Init /\ [][Next]_vars

\* The loop looks at the queue every pollMs, whatever became of its last pass, and a run goes on.
FairSpec ==
  /\ Spec
  /\ WF_vars(UNCHANGED project /\ \E w \in Worker : TakeUp(w))
  /\ \A w \in Worker : WF_vars(UNCHANGED project /\ Works(w))

(***************************************************************************)
(* Properties                                                              *)
(***************************************************************************)

\* A ticket stands as its facts and its void in force say.
Right(t) ==
  IF t \in voids THEN t \in standsVoid ELSE t \notin standsVoid /\ written[t] = facts[t]

\* A job that names the ticket, with no later one, hasn't been finished.
LastJobOpen(t) ==
  \E j \in 1..queued : /\ t \in names[j] /\ stands[j] # "finished"
                       /\ \A k \in 1..queued : k > j => t \notin names[k]

\* No change is forgotten: a ticket that isn't as it should be has its last job waiting or set
\* aside for a person, or is locked, or is flagged as not processed ("the change and its job
\* commit together or not at all", work-queue.ts; "the worker reads it", AC-08-67).
NothingForgotten ==
  \A t \in Ticket : Right(t) \/ LastJobOpen(t) \/ t \in locks \/ t \in notProcessed

\* No change is forgotten but one of a ticket it missed: left off for a lock or a void that was
\* lifted before the change committed, or put back or locked while what would work it had already
\* read it as it was (work-queue.ts, reconciliation.ts).
OnlyMissedForgotten ==
  \A t \in Ticket \ missed : Right(t) \/ LastJobOpen(t) \/ t \in locks \/ t \in notProcessed

\* A run never writes what it read over a conclusion drawn from later facts ("one run per project
\* at a time, by a database lock held for the length of the run", reconciliation.ts).
NeverOlder == [][\A t \in Ticket : written'[t] >= written[t]]_vars

\* A ticket's conclusions don't change while it is locked as invoiced, but once, by a piece of
\* work whose last question of it came before the lock (invoice-locks.ts).
ConclusionStands(t) == written'[t] = written[t] /\ (t \in standsVoid' <=> t \in standsVoid)
InvoicedStands ==
  [][\A t \in locks \cap locks' :
       ConclusionStands(t) \/ \E w \in late : run[w].phase = "writing" /\ run[w].turn = t]_vars

\* Its conclusions don't change at all ("A ticket locked as invoiced is left exactly as it is",
\* reconciliation.ts).
LockedIsLeft == [][\A t \in locks \cap locks' : ConclusionStands(t)]_vars

\* A ticket a person voided bills nothing, so it isn't locked as invoiced (InvoiceLocking's
\* "is void: it bills nothing and isn't locked as invoiced", packages/domain/src/review.ts).
VoidIsNotInvoiced == voids \cap locks = {}

\* No job is worked more often than the policy lets, nor taken up once it ended, whichever of two
\* runs ended it.
TriedAtMost == \A j \in Job : tries[j] <= Tries
EndedStays ==
  [][\A j \in Job : stands[j] \in {"finished", "setAside"} =>
       stands'[j] = stands[j] /\ tries'[j] = tries[j]]_vars

\* No job waits in a closed project, where no run can take it up, try it or set it aside
\* (AC-10-82: the worker's waiting jobs stop a close).
NoneWaitsClosed == project = "closed" => Waiting = {}

\* Every job ends: finished, or set aside for a person.
EveryJobEnds == \A j \in Job : stands[j] = "waiting" ~> stands[j] \in {"finished", "setAside"}
=============================================================================
