# openADMS in TLA+

A verification development of openADMS: a back office with an API and a worker over one
PostgreSQL database, and a field app on phones that record debris loads with no signal. A phone
makes records under numbers it was cut in advance, seals them, and sends them when it can; the
server saves each once, or keeps it for a person; the worker concludes from all of them what each
ticket is worth. What is hard is between the parts: requests and answers are lost, retries overlap
what they retry, reviewers and other phones act in between, runs of the worker read what changes
under them, and phones are closed, passed on, turned in and lost. That is what these modules are
about.

Source paths below are the repository's own. `PROJECT.json` maps every definition to the lines it
models, lists every component and hazard, and names the runs, their mutants and the theorems.

## The system: parts, state, operations, what is hard, what must hold

| Part (source) | State | Operations | What is hard | What makes it correct | Modelled in |
|---|---|---|---|---|---|
| The phone's outbox and sync (`apps/field/src/phone/outbox.ts`, `sync.ts`) | the store: every sealed thing and its last answer; the list in memory; the run under way | seal, read the store, compose a sync, take its answer, stop | the store is read across awaits; answers lost; app closed; what goes again and when | nothing leaves the phone before the server saved it; everything is told of in the end | `PhoneOutbox`, `SyncPipeline` |
| The server's intake (`apps/api/src/sync/{sync,intake,held,ledger}.ts`) | the records' tables with their unique numbers, photographs, quarantine, held things, the idempotency ledger | for each record and photograph of a sync: reads one by one, then a piece of work the database may refuse | each statement sees what has committed by then, other requests and reviewers writing between them; unique violations taken again, three times at most; a request may fail half way | one record for a number; what is answered is so; a retry is no duplicate of itself | `SyncServer` |
| Review of held and quarantined records (`apps/api/src/review/*`) | the same tables | save as corrected, close, renumber, mark a second copy | a person acts while the phone sends the same record again | what is saved is never written over | `SyncServer` (`Review`) |
| The two together | requests and answers on their way | | overtaking retries | the delivery promise | `SyncPipeline`, `Delivery` |
| Turn-in of a phone (`apps/field/src/phone/turn-in.ts`, `apps/api/src/phone/turn-ins.ts`) | the phone's mark of an unanswered turn-in, its key, the challenge it signs | prove, sync all, ask to be turned in, wipe | the answer that says "wipe" may be lost; the first ask may still be at work when a second begins; a proof is refused for more than a revoked key, and the phone isn't told why | nothing wiped that the server lacks; a phone turned in learns it | `TurnIn` |
| Numbering (`apps/api/src/numbering/number-allocator.ts`, `packages/domain/src/numbers.ts`, `apps/field/src/phone/lists.ts`) | a series' next number, the blocks cut to phones, each phone's copy of its blocks | top up, report, give out a number, read the lists, turn in, lapse | top-ups of one series at once; late top-ups of one phone; on the phone, lists read across awaits and written whole, with numbers given out between | no two phones make one number; no number made twice; the book balances | `NumberSeries`, `Numbering` |
| Work queue and reconciliation (`apps/api/src/jobs`, `apps/worker/src/reconciliation`) | jobs with counted tries, the tickets they name, a project's lock, conclusions and what they were drawn from | queue with a change, take up, read, work a ticket, finish, fail, set aside; close and reopen the project | a whole project read once and worked from minutes later; changes that ask of locks and voids and commit after those moved; a lock that lapses while its holder works; a worker stopped half way; a project closed under them | no change forgotten; nothing older written over what is newer; every job ends | `Reconciliation` |
| Corrections, voids and invoice locks (`apps/api/src/review`, `apps/api/src/invoices`) | a ticket's void in force, its lock | correct, void, put back, lock, unlock, ask again | each against a run that has the ticket in hand and against one another, no row locked that a guard asks about | nothing invoiced changes | `Reconciliation` (`Api`, `Asking`) |
| Photographs' files (`apps/api/src/media/{photo-files,receiving}.ts`, `outbox.ts`) | the parts held in memory, the object store, the upload's time, the phone's bytes and where it goes on from | send a part, ask where it stands, keep, set aside | lost and late parts, an offset ahead or behind, memory at its bound, a failure after the file is at its place | the phone drops only what is kept; each file is kept or set aside in the end | `PhotoFiles` |
| Hand-over of a phone (`apps/field/src/phone/{setup,passcode-sessions,lists,monitor}.ts`) | the phone's own shelf and the archived queues, its monitor, who is signed in | hand over, sign in, sign out, read the lists | a run's answer writes back while records are moved; lists that come late | nothing lost between two shelves, nobody's record taken for another's | `HandOver` |
| Captures' own content, enrolment and sign-in, reports, dispatch, viewers, user interface, infrastructure | | | forms, rules, pages and single pieces of work | | not modelled (see below) |

How they interact: the phone's run reads its store, sends syncs one at a time (`POST` of records,
photographs' records and its last used numbers), takes each answer, tops up its blocks from it, reads
the lists again, then sends the photographs' files. The server works one request's things in order,
each in its own transaction; several requests, of one phone or many, run at once, and so do reviewers'
acts. What changes a ticket's conclusions queues a job in the same transaction, and the worker's
loop takes the jobs up, one run a project. A turn-in is a master user's run with its own last call; a
hand-over moves what waits on the phone's own shelf to an archived queue, which the same runs go on
sending. The database's constraints (unique numbers, foreign keys, the open-project guard, the exclusion
of overlapping blocks, a locked ticket's and an ended job's guards) are what races meet at the write.

## Modules

`SyncThings` holds the vocabulary: records, photographs, what points at what, the answers.

`SyncServer` is the server's half of a sync. A request has its things to do (`work[q].todo`), and the first
one's turn goes a statement a step, since the database reads committed: `ReadNext` takes the next question
(`RecordAsked`: the ledger, the project's close, the record's own row, the quarantine, its number's holder;
`PhotoAsked`: the ledger, its own row, its record quarantined, saved or held), each answered by what has
committed by then, and `choice` remembers how far it came and what it came to. One of `AnswerAlready`,
`SaveRecord`, `QuarantineRecord`, `TakeAgain`, `HoldRecord`, `SavePhoto`, `HoldPhoto` is then its write, each
guarded by what the database checks at that moment (unique keys, foreign keys, the open-project guard). A whole
write is one step: it is one transaction, whose rows become visible together. `Fails` and `MetOnceTooOften`
leave what came before saved and answer nothing. A reviewer's acts, the project's close and reopening, and the
mending of what a record lacked may come between any two steps. Number collisions are by number and not by
content: contents are not told apart.

`PhoneOutbox` is the phone's half: the store (`kept`), the list in memory (`listed`), the read that is
not one step with its use (`RunStarts`, `StoreRead`), the composition of the next sync (`Sends`: what
waits first, what goes again once a run, a receipt ahead of its disposal, photographs
left with their records, limits of count), the answer, and the app closed between sealing and noting
that it sealed (`SealedAgain`).

`SyncPipeline` composes the two: a sync the phone sends is a request of the server's; the answer may
never come, and the phone's next sync then overlaps the first. `Delivery` is the abstract promise (a
thing is unmade, waiting, shown to its monitor as kept for a person, or dropped; the server has it
not, for a person, or saved) and `SyncPipeline!ImplementsDelivery` the refinement, the store mapped by
`OnPhone` and the tables by `OnServer`.

`TurnIn` is the turn-in: the master user's act on the phone, step by step between its awaits, and the
server's two reads-and-write stages for each ask. The proof by its key that a second act begins with is over a
challenge, which may be over before it is answered (`ChallengeComes`, `ChallengeOver`): run out, or spent. The
server says PHONE_NOT_PROVEN of that as of a revoked key, and the phone takes either for the turn-in's answer
(`NotProven`, `KeyRefused`). What is sent in the act is abstracted to one thing at a time; `late`, a history,
is what was made while a turn-in was without its answer.

`NumberSeries` is the arithmetic of the server's book of one series, loops as folds over the blocks. The
sorts put one run after another in its place, an empty run nowhere: runs that start at one number
(a block cut again from what was handed back) keep the order they were issued in, as a stable sort has it.
`Numbering` is the allocator's transaction in its reads (the series under the phone's share lock;
what the report changes; the blocks, with the rows it writes locked) and its commit with two guards
(`Advances`, the compare-and-set on the series; `NeverOverlap`, the exclusion constraint); the phone's
copy of its blocks and its report; the turn-in and the lapsed key. Whatever writes a phone's lists reads them
in a step of its own and writes them whole in a later one: a number chosen (`NumberChosen`), its lists read to
mark it (`ReadsToMark`) and written with its ticket (`Gives`); a sync's answer, the lists read to merge it
(`ReadsToMerge`) and written (`ToppedUp`); the lists asked for (`ListsAnswered`) and put in their place
(`ListsRead`). `forgot`, a history, is how a phone's lists came to say less used than they had, if they did:
"overtaken", a write put down what had been changed since it was read; "readAnew", the server's lists knew less.
A phone's copy is a function from a block's place in the order of issue to its last used number.
A mark out of service, the races given up on and a lost answer are all `Ends`: the phone is not
topped up.

`Reconciliation` is the work queue, the worker's runs and the review's acts that move what they conclude. What a
ticket is concluded from is a version (`facts`), moved by every change that reaches it; what stands is the
version it was concluded from (`written`) and whether the worker wrote it VOID (`standsVoid`). A change reads
committed and locks no row it asks about, so it may go in steps: its service asks how the ticket stands
(`Begins`), its queue which tickets are locked (`ReadsLocks`) and which are void (`ReadsVoids`), and it commits
with its jobs by what it asked (`Overtaken`), whatever committed between. `Commits(Now)` is the same with
nothing between; `Change` bounds how many are under way. What it has asked is `seen`; `Named` is the queue's
rule of what it leaves off, `Cuts` how the tickets are cut into jobs; `missed`, a history, has the tickets a
change left off that were no longer locked or void, or that were put back or locked too late for the run that
had them in hand. A run is `TakeUp` (spent jobs set aside, the others' tries counted), `Read` (the whole
project, and what of it was asked for), then each ticket in three: `Starts`, the lock asked for as its turn
comes; `Changes`, the map's answers come and the last statement the database guards gone through; `Writes`, the
commit (or `LeavesAsIs`, where nothing is to change); then `Closes` and `Finishes`. `LeavesLocked`,
`NotProcessed`, `Fails`, `Dies` and `Expires` are its other ends. The project's close is one transaction in two
steps, `Counts` (no job waits) and `Marks` (closed, or undone); in a closed project the database takes no write
(`IsOpen`), so a run under way dies at its next one (`Refused`) until an admin `Reopens`. What is concluded
(prices, flags, quantities) is not modelled: only from which version.

`PhotoFiles` is a photograph's file on its way. The phone keeps where it goes on from
(`from`, `Unknown` after a lost answer), the server's process what it has of a file in part (`received`, in
the order it waits, `held`). A request goes through the stages between the server's awaits: looked up,
its part taken, whole, put at its place in the object store, its upload time written. A request the phone
gave up on is served all the same. `TurnsAway` is a file that is no image, `SetsAside` one that isn't what was
fingerprinted, `ProcessStops` the memory lost. Bytes are counted, not named: a swapped file is one
that never matches. The object store takes a file only where nothing is, which is all the code asks of
it; a second put of the same file is answered by what is there.

`HandOver` is a phone passed on with records unsent: the phone's own shelf and each monitor's
archived queue, the hand-over in its steps (`Begins`, `ReadsShelf`, `MovesThem`, `HandedTo`), a run of
the outbox that read the shelves before and writes its answers where it read (`Answered`), sign-ins, sign-outs,
and the lists, which make whoever is signed in when they come the phone's monitor.

`MC...` modules give the constants values; `...Proofs` modules hold the theorems. Operators whose
comment begins "(A mutant" are plausible bugs of the definition after them: each property is
shown to catch one of them.

## Runs

| Run | Question | Bounds |
|---|---|---|
| `SyncServer_tables` | Is every answer true of the tables, do the ledger and the tables agree, is a retry taken for a duplicate, is a disposal ever saved without its receipt, whatever overlaps, statement by statement? | two tickets of one number, the second a disposal that points at a receipt, the receipt lacking something at first, a photograph of the first, two requests |
| `SyncServer_certifications` | The same of certifications, which are refused and held, not quarantined, in a project that closes and reopens | two certifications of one number, a photograph of one, two requests |
| `SyncPipeline_delivery` | Do the phone and the server keep the delivery promise? | a ticket and its photograph, another phone's ticket of the same number, two requests at once, one record and one photograph a sync |
| `SyncPipeline_in_the_end` | Is everything told of in the end, a person's saving learned, and a photograph refused for its record answered anew? | a ticket that may be refused and its photograph, one number, one request at a time |
| `TurnIn_wiped` | Does a phone told to wipe lose anything, and one turned in that wiped for its key refused anything made before it asked? | two things, captures at any time, two asks, challenges that run out |
| `Numbering_blocks` | Is every number held or handed back once, made once, and made by one phone? | two phones, a series of four, blocks of two, two top-ups or reads of the lists at once, no write of a phone's lists that loses a mark (below) |
| `Reconciliation_work` | Is any change forgotten that didn't miss its ticket, anything older written over what is newer, anything invoiced changed but by what was already writing? | two tickets, one of which reads the other, a setup change that touches both, a change that others may overtake, two jobs, one change of each ticket, two workers, one try of a job |
| `Reconciliation_jobs` | Does every job end, tried no more than the policy lets, and once ended stay so, where two runs may work at once? | one ticket, two jobs, two workers, a lock that may be outlived, the project closed and reopened any number of times |
| `PhotoFiles_parts` | Does the phone drop only what is kept, does memory stay within its bound, and is each file kept or set aside in the end? | three files, one swapped, one no image, memory for one of them at a time, parts of one or two bytes, two requests at once, two faults |
| `HandOver_passed_on` | Is any record lost, left on a shelf that isn't its monitor's, or never saved as a phone changes hands? | two monitors, two records, two hand-overs, a sign-out, a refusal, a fault |
| `Numbering_lower_run` | (a finding, below) | three phones, one top-up at a time |
| `Reconciliation_unvoided` | (a finding, below) | two tickets that read each other, no change overtaken, three jobs, two changes of each ticket, one worker, two tries |

Why these are enough: the races are pairwise (two requests about one number; a retry and what
it retries; two top-ups; a run and a change; two runs; a run's answer and a hand-over). A third request
adds a third writer of the same row, and a row is written once. Two things are enough for one to be on
its way while another is made. Four numbers and blocks of two let a block be used up, partly used,
handed back, cut again to another phone, whole or in part, and handed back from there; a third phone, to which
what came back twice would go, is the proofs' subject, as any number of phones is. Two jobs let one be worked
while a second waits, which the change that one missed would be in; one change of each ticket overtakes what a run
read. There a job has one try; tried again is `Reconciliation_jobs`' subject, and more jobs, changes and tries are
the proofs', for any number of them. In `PhotoFiles_parts` memory holds one
file's bytes, so a late part of one file puts out what is held of another, and the files that are
never kept stand ahead of the one that is. Two hand-overs bring a phone back to whose it was.

Symmetry is taken over requests, phones, asks, tickets, workers and like things in runs of invariants and
of the step properties checked there; the liveness runs use none. `CHECK_DEADLOCK FALSE` where
everything may rightly come to rest (a phone turned in and wiped; a series used up; all sent; nothing
queued).

### What the code does that its documents don't say

`PROJECT.json` "findings" has the sentence of the repository, the lines and the steps of each. Two are
runs of their own:

| Run | The sentence | What happens |
|---|---|---|
| `Numbering_lower_run` | two phones never hold the same number | a phone's one reported number is the largest used, but a handed-back run cut later is lower; the numbers used of it are handed back and cut to another phone |
| `Reconciliation_unvoided` | the next run works an unvoided ticket again | a run that read it as void writes it so with a decision newer than the unvoid; the next run takes the unvoid for already worked |

Twelve more have a configuration kept beside the modules, for `tlc -config X.cfg MC...` by hand; each checks
the one property that its sentence comes to, and TLC finds it violated:

| Configuration, module | The sentence | What happens |
|---|---|---|
| `SyncServer_closed`, `MCSyncServer` | a held record closed is never to be saved | the phone sends it again, and nothing asks the held row |
| `SyncServer_own_row`, `MCSyncServer` | a retry is never taken for a duplicate number | a person saves a held record while its resend is asked after, between its own row and its number's: it is quarantined for its own row |
| `SyncServer_late_photograph`, `MCSyncServer` | a photograph belongs to the quarantined record while that waits | it is put there after the quarantine was resolved too |
| `TurnIn_captures`, `MCTurnIn` | nothing is wiped before the server has it | a record made after an unanswered turn-in is wiped on the key's refusal |
| `TurnIn_lapsed`, `MCTurnIn` | only a turn-in that found everything revokes a key, so a key refused was turned in | a proof is refused as well for a challenge that ran out or was spent: a phone not turned in wipes |
| `TurnIn_overtaken`, `MCTurnIn` | a key proven means the turn-in didn't happen | it may be yet to happen; the phone then never learns of it |
| `Numbering_lists_read`, `MCNumbering` | a number the phone made is never made again | the lists read again replace the blocks with the server's older last used numbers |
| `Numbering_overtaken`, `MCNumbering` | a number given out is marked used at once, and never made again | an answer's merge, or another ticket's mark, reads the lists before and writes them after: the mark is gone |
| `HandOver_signed_in`, `MCHandOver` | an earlier monitor's work is hidden from the next | with signal anybody signs in on her phone, and the lists then make them its monitor with no hand-over |
| `HandOver_shown`, `MCHandOver` | the next screen shows nothing of an earlier monitor's records | the hand-over moves them in the store alone; the screens show the outbox's memory, read again only as a run begins |
| `Reconciliation_left_off`, `MCReconciliation` | a change and its job commit together | a setup change's queue reads a lock, which is lifted and its job worked before the change commits: the ticket was left off |
| `Reconciliation_locked`, `MCReconciliation` | a ticket locked as invoiced is left exactly as it is | a lock commits after the last statement the guards ask at and before the worker's piece of work does |
| `Reconciliation_closed`, `MCReconciliation` | waiting jobs stop a project's close | a change committed between the close's count and its mark leaves a job in a closed project, where no run can take it up, try it or set it aside |

And these, met with no configuration of their own; each says which property shows it:

- `SyncPipeline!PhotographAfterRecord` (a photograph is not refused for a record still waiting on the phone):
  refuted where a record is sealed during the read of the store.
- The last used number of a block may go back under a late top-up of the same phone.
- `Reconciliation!VoidIsNotInvoiced`: a ticket just voided by a person is still completed to the
  lock's check, and is locked as invoiced with its lines.
- "One run per project at a time" holds only as long as `longestRunMs`: a ticket in hand when the lock lapses
  is written over what another run concluded later (`NeverOlder` with `MayExpire = TRUE`).
- At a hand-over photographs' records are not moved; an answer in flight writes an earlier monitor's refused
  record back on the phone's own shelf; lists asked for before and come after write the wrong monitor.

### Fairness

`FairPipeline`: `RequestGoesOn(q)` and `RunGoesOn` are weakly fair: the server's
process and the phone's event loop go on with what they began, and occasions to begin a run recur
(the app to the front, a connection, a sign-in, a timer). `AnswerComes` is strongly fair: the signal
is poor, not gone, so of answers awaited again and again some come. And from some time on the
server's pieces of work don't fail, nor take longer than the phone waits, nor is the app closed half
way through a submit: a bound on bad luck, without which no protocol of retries delivers. Nothing is
assumed of reviewers: whatever must follow a person's act is stated from the act on.

`FairSpec` (`Reconciliation`): the worker's loop looks at the queue every `pollMs`, whatever became of
its last pass, so some worker takes up what waits; and a run begun goes on, one of its steps after
another, until it finishes, fails or dies. It is not assumed that any run succeeds: `EveryJobEnds`
rests on the count of tries, which is made before any ticket is worked.

`FairPhotos`: runs begin again and a run goes on; the server serves what reaches it. Answers lost,
failures and restarts are `MaxFaults` in all. `FairHandOver`: a hand-over begun is gone through with,
somebody signs in again, runs go on, and the lists asked for come.

### What the runs and properties leave to the divergences

Most of the divergences above are in the steps of every run: the property says exactly what is left beside them,
and the divergence is the exception it names.

- `QuarantinedByAnother` lets a record be quarantined for its own row where a person saved it as held.
- `TurnedInKeptTheEarlier` is of a phone turned in, and of what it made before a turn-in was without its
  answer. A phone wiped that never was turned in (`TurnIn_lapsed`) and what was made since (`TurnIn_captures`)
  are outside it. `ToldLosesNothing`, of a wipe the server ordered, has neither exception.
- `NumbersApart` and `NeverMadeAgain` are of phones whose lists never came to say less used than they did
  (`forgot`), and `NumbersApart` is where every phone's blocks ascend.
- `OnlyMissedForgotten` leaves out the tickets missed (`missed`), `InvoicedStands` the one piece of work already writing
  as the lock came (`late`). `missed` is let go as soon as a later job names the ticket, unless a run may yet
  write it VOID.
- `ShelfIsItsMonitors` and `StillTheirs` are about waiting records, since an answered one may be written back,
  and about the store: what the screens show is `ShownIsTheirs`, which is false.

Others are kept out of a run by a constant, so that the rest is checked beside them; the constant's other value is
the divergence's configuration:

- `MayForget = {}` in `Numbering_blocks`: a bound. No phone's write of its lists puts down less used than they say,
  so the interleavings are all those that lose no mark. The theorems have any `MayForget`.
- `MayExpire = FALSE` in `Reconciliation_work`: no run outlasts its lock, on which `NeverOlder` and
  `OnlyMissedForgotten` rest. `Reconciliation_jobs`, where two runs may work at once, has it `TRUE`.
- `ClosesAlone = TRUE` in `Reconciliation_jobs`: no change is made between a close's count and its mark, without
  which a job left in a closed project waits until it is reopened. `Reconciliation_closed` is the run without.
  `MayClose = FALSE` in `Reconciliation_work`, whose properties the proofs have with any close.
- `Change = {}` in `Reconciliation_jobs`: what jobs name doesn't matter to how they end.
- `Quiet = TRUE` in `HandOver_passed_on`: only whose the phone is signs in, and lists asked for come before a
  change of that. `HandOver_signed_in` is the run without.

In `Numbering` a turn-in is one step of the phone and the server, its own losses being `TurnIn`'s subject.
In `PhotoFiles` the photographs' records are the server's already, and being told to wait (429) changes
nothing.

## Proofs

TLAPS checks every leaf; a theorem holds for every set of records, photographs, requests, asks, phones,
files, monitors, tickets, workers and numbers, and for every value the constants' named assumptions allow.

### The server (`SyncServerProofs`)

Assumed: records and photographs are different things, each photograph has one owner
(`ThingsAssumption`); each record has at most one number of its own, and the marks for "no number" and
"not saved" are no numbers (`NumbersAssumption`).

The properties are not inductive one by one. A statement is asked, and a write acts, on what earlier ones read,
and others commit between any two. The inductive invariant `ServerInv` therefore says of every choice a request
remembers what is left of it (`ChoicesHold`): found there stays there, and a number found held stays held. That
it was *not* there, or that a number was free, is worth nothing a step later: those are asked again by the unique
keys at the write. Beside it are the properties themselves and `RowsByNumber` (a row has a number exactly where
its record has one of its own). The argument:

1. `TypeStep`: types; the thing at work is one of the request's.
2. `RowStep`, `Grows`: a step writes at most one row, in an empty place, and takes nothing back
   (`NothingTakenBack`). This is what makes everything found there stay there.
3. `ReadRight`, `ChoiceStays`: what a statement finds is so as it is asked, and no other actor's step undoes it.
4. `QuarantineStep`: as a record is quarantined its number is held and the ledger has no row of it
   (`MeetsAnother`). By `LedgerAgrees` its own row can then be a person's alone: renumbered, which a record not
   yet in quarantine isn't, or saved as held.
5. `ToldStep`: an answer is told in the step that makes it so, or it was told before.
6. One lemma for each conjunct (`NumberHeldOnceStep` ... `PhotographOnSomethingStep`), and the theorems from them.

`DisposalOnItsReceipt` is inductive once what is held is known to be of its type, a disposal being held until
its receipt is saved and a saved receipt staying saved (`DisposalStep`).

| Theorem | It says |
|---|---|
| `ServerTypes`, `ServerSafe` | the type invariant; `ServerInv` |
| `NumbersHeldOnce` | two saved records never have one number |
| `EveryAnswerBacked` | whatever a phone is told of a thing, the tables have it so |
| `LedgerAlwaysAgrees` | the idempotency ledger says of each record what the tables do |
| `RetryNeverQuarantined` | a record is quarantined because another has its number; for its own row only where a person saved it as held while it was asked after |
| `DisposalsOnTheirReceipts` | a disposal is never saved before the receipt it names |
| `PhotographsOnSomething` | a photograph kept is kept with a record, quarantined or held, that is there |
| `RowsNeverWrittenOver` | what is saved is never written over (a property of steps) |

### The phone and the server together (`SyncPipelineProofs`)

Assumed beyond the server's: no thing is in two captures (a record or photograph is sealed once, under an id of
its own), limits of count are positive, and what is elsewhere is in no capture. `PipelineInv` is
`ServerInv` and, of the phone and what is between:

- `SubmittedIsKept`: what was submitted, and nothing else, is in the store;
- `OnlyNotStoredGoes`: the list in memory, what a read of the store found and the sync under way hold only what
  is not said to be stored, though each was read at an earlier time;
- `AllOfItAnswered`: the request waited for has told, or has to do, everything the sync carries;
- `ElsewhereApart`: another phone's record is never at work here;
- `PhoneKnowsRight`: what the store says became of a thing is so in the tables. It is the server's
  `AnswersBacked` taken over at `AnswerComes`, kept since the server takes nothing back.

TLC checks `PipelineInv` on the constants of `SyncPipeline_delivery` as well. From it:

| Theorem | It says |
|---|---|
| `PipelineSafe`, `PipelineTypes` | `PipelineInv`; the types |
| `PhoneAlwaysKnowsRight` | what the phone dropped is saved, and what it shows a person was turned away is there for a person |
| `PipelineImplementsDelivery` | `PipelineSpec` implements `Delivery` under the mapping `OnPhone`, `OnServer` |

The refinement is proved step by step (`ServerTakes`, `CaptureSeals`, `ReopenedSealsAgain`, `AnswerTeaches`,
joined in `DeliveryStep`): a step of the server moves at most one thing, from absent or for a person to saved or
for a person; an answer taken moves each thing it names as the tables warrant, which is where `PhoneKnowsRight`
is needed; all else stutters.

`Folding` holds what these proofs need of the community modules' folds. The library's induction theorems
can't be instantiated here (they take an operator), so induction over a finite set is proved over a set of its
subsets (`SubsetInduction`: a set of subsets with the empty one, closed under adding one element, has them all),
and from it that a fold has a value and which (`FoldExists`, `FoldLeftExists`), and what every step of a fold
keeps (`FoldKeeps`); then what is used of them: the
largest and the least of a finite set (`MaxIsOne`, `LeastIsOne`), sums (`SumSplits`, `SumMonotone`,
`SumWhereNotNone`), sequences without repeats (`RemoveFirstIs`, `SuffixIs`, `FlattenSeqType`).

### The turn-in (`TurnInProofs`)

`TurnInInv` (`TurnInSafe`) strengthens the two properties by the types (`TurnInTypeOK`, which no run checks),
the act's own order (`ActHolds`), what the phone holds or was told is stored (`StoredIsThere`), what the
server's pending asks name (`NamesEverything`: of what was made before, all but what the server has; of
everything, while the phone waits for it) and the mark's meaning (`MarkedKeptTheEarlier`). No theorem has a
hypothesis: captures go on, challenges run out, asks overtake one another.

- `OrderedWipeLosesNothing`: a phone wipes as told only on the answer it waits for, nothing is made while it waits,
  and that ask named all it held. Whatever older asks commit meanwhile, everything is on the server.
- `EarlierKept`: a phone that was turned in, however it came to wipe, has on the server what it made before. The key
  may be revoked by any ask, an older one late; each named all that was made before it.

That the phone wipes *only* when turned in is not so, and `TurnIn_lapsed` shows it.

### Numbering (`NumberingProofs`)

For any number of phones and top-ups and any length of series, with the reads and writes of a phone's lists in
any order, and with no hypothesis: `NumberingTypes`; `BookAlwaysBalances`: every number handed out is held by
one block or handed back, once, and the book counts it so; `NoneMadeAgain` and `PhonesApart`, each of the phones
whose lists never came to say less used than they had (`forgot`), whatever befell the others'. `PhonesApart` is
`NumbersApart` with what it rests on, `MadeStaysHeld`: while a phone's blocks ascend, a number it made stays
held by a block of that phone. `Numbering_lists_read` and `Numbering_overtaken` show that a phone's lists may
forget.

`NumberingInv` is the types, the shape of a top-up at each stage (`Shaped`), `Apart` (no number held by two
blocks), `StatusOfKey` (blocks are issued exactly while the phone's key stands), that a top-up's reads and answer
and a phone's list are of that phone's own blocks (`TopUpsOwn`, `ListsOwn`), that a number a ticket is being
opened under is new and of a block the phone holds (`GivingNew`), and that a number made lies in a block of its
list, already given out (`MadeListed`). The last two are what a write of lists read before must keep, and are
claimed of a phone that forgot nothing: a write that is not overtaken puts down what it read and more, and lists
that drop a block, or say less used of one, are named "readAnew". None of this needs the book's arithmetic:
whatever runs it takes, the guards at the commit (`RangesHold`, `NeverOverlap`) stand.

The balance needs it, in two halves. First, what the book computes of any blocks. `PlacedIs` and `LowestFirstIs`:
the runs sorted are the same numbers, in order. `PastIs`, `CountFromIs`, `CountedIs`, `RestsCounted`: a rest
counted past the held runs adds exactly its numbers that none holds and no earlier rest counted, so
what is handed back (`HandedBackIs`) is rising runs of exactly the numbers of ended blocks that no block
holds, and no number is in two of them. Second, `BookInv`: the numbers of the blocks are those below the
next and no others (`Covered`), and while a top-up is at work the series has only moved on from where it read
it, what it takes lying below the next but for one run of new numbers that starts there (`SeriesRead`,
`TakenWithin`). A commit then adds exactly the new numbers it moves the series past: that `Advances` lets it
commit only where nobody moved the series, or takes nothing new, is what `Covered` stands on. With `Apart`,
`CoveredBalances` is a count of blocks and of runs for each number.

### Reconciliation (`ReconciliationProofs`)

Three invariants, one on another:

- `JobsHold`: types, the tries within the policy's, and that a run's jobs are among those queued. With
  nothing more: `ReconciliationTypes`, `NoneTriedTooOften`, `EndedStaysEnded`. With `LateHold` (a piece of work past
  its last question of a ticket now locked is `late`), `InvoicedButForLateWork`. All whether or not a run outlasts its lock.
- `OneRun`, where `~MayExpire`: only the lock's holder runs, and what is written is no newer than what the
  run under way read. Then `NothingOlderWritten`.
- `WorkHold`, where `~MayExpire` too: `OnlyMissedForgotten`, that what stands VOID is void in force, put back or
  missed, and of every run and each ticket it was asked for (`RunHolds`, `Settled`) that it is missed; or a job behind
  those the run took names it; or it is locked; or it is still to work and what was read of it is how it is
  (`Fresh`); or it was worked, and stands as it should or is flagged. A run finishes its jobs, so each ticket it
  leaves must be covered otherwise: that is the step where `OnlyMissedForgotten` alone is not inductive. Then
  `OnlyTheMissedForgotten`.

A change commits by what its queue read, maybe long before. `LeftOffCovered` is the step: a ticket it leaves off
is locked, or void in force, as it commits, or was not asked for by any run and stands as what is void does; or it
is counted missed. What `missed` costs is what `Reconciliation_left_off` and `Reconciliation_unvoided` show.
Every theorem has the project's close in its steps and needs nothing of it.

### Photographs' files (`PhotoFilesProofs`)

`DroppedIsAlwaysKept`: the phone lets a file go only once what it fingerprinted is at its place and
its upload written, for any files, sizes, requests under way and faults. `PhotoInv` is the types and the
`Chain` back from the drop: dropped on an answer KEPT, so answered once the upload was written, so
written by a request whose file was at its place, where nothing but a file that matched is ever put.

`HeldAlwaysFits`: what is held in memory of files in part stays within its bound, whatever files, part
sizes, requests and restarts there are. `HeldWithinRoom` is not inductive alone; `Parts` adds that the files
held are exactly those of which something is, each once, none of them whole, and that a part on its way carries
something. The step that matters is a part taken: the part just come is last in the order, by itself it
fits, so letting go the longest waiting ends within the bound (`WithinBoundFits`), and the sum over
all files is the sum over those left (`SumWhereNotNone`). `PhotoTypes` adds `PhoneSide`, the phone's notes of a run:
a request waited for is of a file still on the phone, as none but its answer drops it. TLC checks
`PhotoInv`, `Parts` and `PhoneSide` on the constants of `PhotoFiles_parts` too.

### Hand-over (`HandOverProofs`)

`HandOverInv`: the types, `Kept`, `MadeFirst` (what stands anywhere was made, and what a hand-over found
stored is stored), and under `Quiet` `OneHolder` (who is signed in holds the phone, and what waits on its own
shelf is of whose it is until it is moved). `HandOverTypes` and `NothingMadeIsLost` need no hypothesis:
however the monitors change, no record made leaves every shelf. `QueuesAreTheirs` and `ShelfAlwaysItsMonitors`
have `Quiet`; `HandOver_signed_in` shows that without it `ShelfIsItsMonitors` is false. Both are of the store; of the
lists in memory, which the screens show, the like is false (`HandOver_shown`).

### What is only model-checked

- Liveness under fairness (`AllTold`, `SavingLearned`, `PhotographFollows`, `EveryJobEnds`, `AllKept`,
  `SavedInTheEnd`), out of the prover's reach. `EveryJobEnds` is claimed where no change is made between a close's count
  and its mark: no theorem says that no job waits in a closed project, because one may.

## What is not modelled, and why

- Contents. Forms, rules, quantities, prices and the pages that show them are pure functions; a test reaches
  them. A collision is one of numbers, a conclusion is of a version.
- Enrolment, sign-in, passcodes and sessions: whether a phone's key is proven is one bit here, who is
  signed in one value. The challenge that a turn-in's proof answers is in `TurnIn`.
- The clock, except that time passes: leases, limits and the firm's time out of service are steps
  that may come at any moment.
- A disk that loses what was written, a database that breaks its isolation, a phone's store that
  fails half way through a transaction.
- Clock entries, unplanned sites, answers to quantities and the report of the day, which ride the same request:
  they have no number to collide on and the same ledger's shape.
- Of numbering: the lists' own read and write as a phone is set up (`PhoneLists.setUp`), before it has made anything.
- Of a change that others overtake in `Reconciliation`: the moving of what it concludes and its place among the
  jobs are taken as it commits. An unlock holds its lock's row from its first statement and is one step.
- Of reconciliation: a rule's own void, the project's records that are no ticket's, field events under no
  ticket number. They are worked by the same run under the same lock.
- Of photographs' files: several API processes, which would each hold parts of their own (routed by turns,
  a file may start again for ever), and several phones whose files put each other's out of memory. What is
  promised in the end is promised of one process and one phone; memory has room for any one file, as the
  policy guarantees (`packages/domain/src/policy.ts`).
- The user interface, infrastructure, seeds and scenarios: most of the repository's lines, with no state of
  the system's own.

## Plan

Done: the delivery of records and photographs' records, the turn-in, the numbering of one series,
reconciliation with the review's acts and the project's close, photographs' files, hand-overs; a proof module
for each, the composed pipeline and its refinement of `Delivery` among them. Next, in order:

1. Several series and control tickets in `Numbering`; a closed project's retirement of blocks
   and withdrawal of assignments.
2. A rule's void, and the project's records that are no ticket's, in `Reconciliation`.
3. Photographs' files with several phones, and the records they wait for.
4. The held things' day count and the clock entries, unplanned sites and passcode uses that ride a sync.
