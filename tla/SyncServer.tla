----------------------------- MODULE SyncServer -----------------------------
(***************************************************************************)
(* The server's half of a sync: what `Sync.received` and `Intake` do with  *)
(* the records and the photographs' records one phone sends, what is held  *)
(* or quarantined for a person, and what a reviewer then makes of it       *)
(* (apps/api/src/sync/{sync,intake,held,ledger}.ts,                        *)
(* apps/api/src/review/{held-review,quarantine-review}.ts).                *)
(*                                                                         *)
(* A sync is not one transaction.  Each record is asked after in several   *)
(* statements and written in a piece of work of its own (Postgres READ     *)
(* COMMITTED), so each statement reads what has committed by then, and     *)
(* what commits before the write is met by it only through the database's  *)
(* unique keys and guards.  Requests overlap: one the phone gave up on may *)
(* still be running when its retry arrives.                                *)
(***************************************************************************)
EXTENDS SyncThings

CONSTANTS
  Number,      \* the ticket, ROE or certificate numbers of the project
  NoNumber,    \* a record that holds no number (a receipt, a form)
  NotSaved,    \* no row of the record's own table
  OwnNumber,   \* [Record -> Number \cup {NoNumber}]: the number it was made under
  Certification,  \* those that are certifications, their numbers never quarantined
  MayLack,     \* the records that may name something the server doesn't have
  MayClose,    \* whether the project may be closed
  Request,     \* requests the server may be working at once
  Batches      \* the sequences of things a phone may send in one sync

ASSUME NumbersAssumption ==
  /\ NoNumber \notin Number
  /\ NotSaved \notin Number \cup {NoNumber}
  /\ OwnNumber \in [Record -> Number \cup {NoNumber}]
  /\ Certification \subseteq Record
  /\ MayLack \subseteq Record
  /\ MayClose \in BOOLEAN
  /\ Batches \subseteq Seq(Thing)

VARIABLES
  row,          \* [Record -> its number in its own table, or NotSaved]
  photoOn,      \* [Photo -> what the photograph's row belongs to]
  ledger,       \* [Thing -> the idempotency ledger's answer]
  quarantined,  \* [Record -> its quarantined_record row]
  held,         \* [Thing -> its held_record row, one for a phone and a fingerprint]
  lacking,      \* SUBSET Record: those that name something the server doesn't have
  isOpen,       \* whether the project is open
  work          \* [Request -> the request as the server works it]

tables == <<row, photoOn, ledger, quarantined, held>>
serverVars == <<row, photoOn, ledger, quarantined, held, lacking, isOpen, work>>

\* What one thing's turn asks, a statement each, and what it comes to.
Asking == {"ledger", "project", "ownRow", "quarantineRow", "number", "owner", "heldOwner"}
Unread == "ledger"
Choice == {"already", "inQuarantine", "quarantine", "save", "refuse", "ownerNotSaved",
           "onRecord", "onQuarantined", "onHeld"}

\* `Intake.receive` takes a record this many times.
TakesAtMost == 3
Nothing == "nothing"

\* A request: what it has still to take, what is asked next of the first of them or
\* what was chosen, how often it was taken again, and what each thing was answered.
Working == [todo : Seq(Thing), choice : Asking \cup Choice,
            tries : 0 .. TakesAtMost - 1, told : [Thing -> Answer \cup {Nothing}]]

Idle == [todo |-> << >>, choice |-> Unread, tries |-> 0, told |-> [x \in Thing |-> Nothing]]

ServerTypeOK ==
  /\ row \in [Record -> Number \cup {NoNumber, NotSaved}]
  /\ photoOn \in [Photo -> {"nowhere", "record", "quarantined", "held"}]
  /\ ledger \in [Thing -> {"none", "SAVED", "QUARANTINED"}]
  /\ quarantined \in [Record -> {"no", "waiting", "renumbered", "secondCopy"}]
  /\ held \in [Thing -> {"no", "waiting", "saved", "closed"}]
  /\ lacking \subseteq Record
  /\ isOpen \in BOOLEAN
  /\ work \in [Request -> Working]

ServerInit ==
  /\ row = [r \in Record |-> NotSaved]
  /\ photoOn = [p \in Photo |-> "nowhere"]
  /\ ledger = [x \in Thing |-> "none"]
  /\ quarantined = [r \in Record |-> "no"]
  /\ held = [x \in Thing |-> "no"]
  /\ lacking \in SUBSET MayLack
  /\ isOpen = TRUE
  /\ work = [q \in Request |-> Idle]

-----------------------------------------------------------------------------
(* What the tables say.                                                    *)

IsSaved(r) == row[r] # NotSaved

\* The unique key of a field event (or an ROE): one row for a number.
NumberTaken(n) == n \in Number /\ \E r \in Record : row[r] = n

\* (A mutant: without the foreign key of a disposal's scale receipt.)
StandsAlone(r) == isOpen /\ r \notin lacking

\* The database takes a record's row: the project open, and everything the
\* record names there (a disposal's scale receipt by its foreign key).
Stands(r) == isOpen /\ r \notin lacking /\ \A s \in PointsAt[r] : IsSaved(s)

\* Whether a request has the server working on something of it.
Busy(q) == work[q].todo # << >>
Current(q) == Head(work[q].todo)

-----------------------------------------------------------------------------
(* One thing's turn: the reads, each a statement, then the write.          *)

\* `Sync.record`, `Sync.certification` and `Intake.fieldEvent`, in their order: the
\* ledger, the project's close, the record's own table, the quarantine, the number's
\* holder (another's certificate number is refused, not quarantined).  A receipt or
\* a form holds no number, and a certification is never in quarantine.
RecordAsked(r, asking) ==
  CASE asking = "ledger"        -> IF ledger[r] = "SAVED" THEN "already" ELSE "project"
    [] asking = "project"       -> IF isOpen THEN "ownRow" ELSE "refuse"
    [] asking = "ownRow"        -> IF IsSaved(r) THEN "already"
                                ELSE IF OwnNumber[r] = NoNumber THEN "save"
                                ELSE IF r \in Certification THEN "number" ELSE "quarantineRow"
    [] asking = "quarantineRow" -> IF quarantined[r] # "no" THEN "inQuarantine" ELSE "number"
    [] OTHER                    -> IF ~NumberTaken(OwnNumber[r]) THEN "save"
                                ELSE IF r \in Certification THEN "refuse" ELSE "quarantine"

\* (A mutant: a photograph's record never asked after.)
OwnerNeverAsked(p, asking) ==
  CASE asking = "ledger"        -> IF ledger[p] = "SAVED" THEN "already" ELSE "ownRow"
    [] asking = "ownRow"        -> IF photoOn[p] # "nowhere" THEN "already" ELSE "quarantineRow"
    [] asking = "quarantineRow" -> IF quarantined[Owner[p]] # "no" THEN "onQuarantined" ELSE "owner"
    [] OTHER                    -> "onRecord"

\* `Sync.photo` and `Intake.photo`: the ledger, the photograph's own row, the quarantined
\* row of the record it names (waiting or resolved alike), the record's own row, a held
\* record still waiting; with none of them its record isn't saved.
PhotoAsked(p, asking) ==
  CASE asking = "ledger"        -> IF ledger[p] = "SAVED" THEN "already" ELSE "ownRow"
    [] asking = "ownRow"        -> IF photoOn[p] # "nowhere" THEN "already" ELSE "quarantineRow"
    [] asking = "quarantineRow" -> IF quarantined[Owner[p]] # "no" THEN "onQuarantined" ELSE "owner"
    [] asking = "owner"         -> IF IsSaved(Owner[p]) THEN "onRecord" ELSE "heldOwner"
    [] OTHER                    -> IF held[Owner[p]] = "waiting" THEN "onHeld" ELSE "ownerNotSaved"

Asked(x, asking) == IF x \in Record THEN RecordAsked(x, asking) ELSE PhotoAsked(x, asking)

\* The next statement of the next thing's turn.
ReadNext(q) ==
  /\ Busy(q)
  /\ work[q].choice \in Asking
  /\ work' = [work EXCEPT ![q].choice = Asked(Current(q), work[q].choice)]
  /\ UNCHANGED <<tables, lacking, isOpen>>

\* The thing answered, and the request on to its next.
Told(q, answer) ==
  work' = [work EXCEPT ![q] =
             [todo |-> Tail(work[q].todo), choice |-> Unread, tries |-> 0,
              told |-> [work[q].told EXCEPT ![Current(q)] = answer]]]

\* (A mutant: answered, and kept for no one.)
HoldsForNoOne(x) == x \in Thing /\ UNCHANGED held

\* `Sync.held`: once for the phone and the fingerprint, whatever became of it.
HoldsForAPerson(x) ==
  held' = [held EXCEPT ![x] = IF @ = "no" THEN "waiting" ELSE @]

\* Found already there: nothing is written.
AnswerAlready(q) ==
  /\ Busy(q)
  /\ \/ work[q].choice = "already" /\ Told(q, "ALREADY_SAVED")
     \/ work[q].choice = "inQuarantine" /\ Told(q, "QUARANTINED")
  /\ UNCHANGED <<tables, lacking, isOpen>>

\* (A mutant: the unique key of a number left to the read before.)
MeetsItsOwnOnly(r, choice) ==
  \/ ledger[r] # "none"
  \/ choice = "save" /\ IsSaved(r)
  \/ choice = "quarantine" /\ quarantined[r] # "no"

\* (A mutant: a record's ledger row written over, no key of it asked.)
LedgerWrittenOver(r, choice) ==
  \/ choice = "save" /\ (IsSaved(r) \/ NumberTaken(OwnNumber[r]))
  \/ choice = "quarantine" /\ quarantined[r] # "no"

\* Whether the piece of work that stores this record meets a row of its id or
\* its number that committed since it read.
MeetsAnother(r, choice) ==
  \/ ledger[r] # "none"
  \/ choice = "save" /\ (IsSaved(r) \/ NumberTaken(OwnNumber[r]))
  \/ choice = "quarantine" /\ quarantined[r] # "no"

\* (A mutant: the ledger's row left out of the piece of work.)
SavedOutOfTheLedger(q) ==
  LET r == Current(q) IN
  /\ Busy(q)
  /\ work[q].choice = "save"
  /\ ~MeetsAnother(r, "save")
  /\ Stands(r)
  /\ row' = [row EXCEPT ![r] = OwnNumber[r]]
  /\ Told(q, "SAVED")
  /\ UNCHANGED <<photoOn, ledger, quarantined, held, lacking, isOpen>>

\* The record and its ledger row, in one piece of work.
SaveRecord(q) ==
  LET r == Current(q) IN
  /\ Busy(q)
  /\ work[q].choice = "save"
  /\ ~MeetsAnother(r, "save")
  /\ Stands(r)
  /\ row' = [row EXCEPT ![r] = OwnNumber[r]]
  /\ ledger' = [ledger EXCEPT ![r] = "SAVED"]
  /\ Told(q, "SAVED")
  /\ UNCHANGED <<photoOn, quarantined, held, lacking, isOpen>>

\* Another record holds its number: kept whole in quarantine, with its ledger row.
QuarantineRecord(q) ==
  LET r == Current(q) IN
  /\ Busy(q)
  /\ work[q].choice = "quarantine"
  /\ ~MeetsAnother(r, "quarantine")
  /\ isOpen
  /\ quarantined' = [quarantined EXCEPT ![r] = "waiting"]
  /\ ledger' = [ledger EXCEPT ![r] = "QUARANTINED"]
  /\ Told(q, "QUARANTINED")
  /\ UNCHANGED <<row, photoOn, held, lacking, isOpen>>

\* `Intake.receive`: a unique violation is taken again from the record's own table on,
\* three times at most.
TakeAgain(q) ==
  /\ Busy(q)
  /\ Current(q) \notin Certification
  /\ work[q].choice \in {"save", "quarantine"}
  /\ MeetsAnother(Current(q), work[q].choice)
  /\ work[q].tries < TakesAtMost - 1
  /\ work' = [work EXCEPT ![q] = [todo |-> work[q].todo, choice |-> "ownRow",
                                 tries |-> work[q].tries + 1, told |-> work[q].told]]
  /\ UNCHANGED <<tables, lacking, isOpen>>

\* A certification that lost the race for its number (`Sync.refused`).
LostItsNumber(r) == r \in Certification /\ ~IsSaved(r) /\ NumberTaken(OwnNumber[r])

\* (A mutant: a certification that lost its number answered, and not held.)
LoserNotHeld(q) ==
  /\ Busy(q)
  /\ work[q].choice = "refuse" \/ (work[q].choice = "save" /\ LostItsNumber(Current(q)))
  /\ Told(q, "NOT_SAVED")
  /\ UNCHANGED <<tables, lacking, isOpen>>

\* (A mutant: a foreign key's refusal is nobody's to answer.)
OnlyClosedHeld(q) ==
  /\ Busy(q)
  /\ work[q].choice = "refuse"
  /\ HoldsForAPerson(Current(q))
  /\ Told(q, "NOT_SAVED")
  /\ UNCHANGED <<row, photoOn, ledger, quarantined, lacking, isOpen>>

\* (A mutant: a refusal kept in the ledger, as the saved are.)
HeldInTheLedger(q) ==
  /\ Busy(q)
  /\ \/ work[q].choice = "refuse"
     \/ /\ work[q].choice = "save"
        /\ ~MeetsAnother(Current(q), "save") /\ ~Stands(Current(q))
  /\ HoldsForAPerson(Current(q))
  /\ Told(q, "NOT_SAVED")
  /\ ledger' = [ledger EXCEPT ![Current(q)] = "NOT_SAVED"]
  /\ UNCHANGED <<row, photoOn, quarantined, lacking, isOpen>>

\* A project closed, or the database's own refusal: held for a person.
HoldRecord(q) ==
  LET r == Current(q) IN
  /\ Busy(q)
  /\ \/ work[q].choice = "refuse"
     \/ work[q].choice = "save" /\ ~MeetsAnother(r, "save") /\ ~Stands(r)
     \/ work[q].choice = "save" /\ LostItsNumber(r)
     \/ work[q].choice = "quarantine" /\ ~MeetsAnother(r, "quarantine") /\ ~isOpen
  /\ HoldsForAPerson(r)
  /\ Told(q, "NOT_SAVED")
  /\ UNCHANGED <<row, photoOn, ledger, quarantined, lacking, isOpen>>

\* (A mutant: the record it names, quarantined or not.)
TheRecordNamed == [onRecord |-> "record", onQuarantined |-> "record", onHeld |-> "held"]

\* Where each choice of a photograph's puts it.
Place == [onRecord |-> "record", onQuarantined |-> "quarantined", onHeld |-> "held"]

\* A closed project takes no photograph but one kept with a held record.
PhotoStands(choice) == isOpen \/ choice = "onHeld"

\* The photograph's record and its ledger row.  Its reads and its row's guard
\* were the piece of work's earlier statements: what committed since moved only
\* the photographs already there.
SavePhoto(q) ==
  LET p == Current(q) IN
  /\ Busy(q)
  /\ work[q].choice \in DOMAIN Place
  /\ photoOn[p] = "nowhere"
  /\ PhotoStands(work[q].choice)
  /\ photoOn' = [photoOn EXCEPT ![p] = Place[work[q].choice]]
  /\ ledger' = [ledger EXCEPT ![p] = "SAVED"]
  /\ Told(q, "SAVED")
  /\ UNCHANGED <<row, quarantined, held, lacking, isOpen>>

\* What it was to be kept with may be refused it: a closed project, or a held record
\* that a person resolved since it was found waiting.
PhotoRefused(p, choice) ==
  \/ ~PhotoStands(choice)
  \/ choice = "onHeld" /\ held[Owner[p]] # "waiting"

\* Its record is nowhere on the server, or the database refuses it: held for a person.
HoldPhoto(q) ==
  LET p == Current(q) IN
  /\ Busy(q)
  /\ \/ work[q].choice = "ownerNotSaved" /\ Told(q, "OWNER_NOT_SAVED")
     \/ /\ work[q].choice \in DOMAIN Place
        /\ photoOn[p] = "nowhere"
        /\ PhotoRefused(p, work[q].choice)
        /\ Told(q, "NOT_SAVED")
  /\ HoldsForAPerson(p)
  /\ UNCHANGED <<row, photoOn, ledger, quarantined, lacking, isOpen>>

\* A unique key met once too often (a photograph's and a certification's, once): the
\* server's own failure, and no answer at all.
MetOnceTooOften(q) ==
  LET x == Current(q) IN
  /\ Busy(q)
  /\ \/ /\ work[q].choice \in {"save", "quarantine"}
        /\ MeetsAnother(x, work[q].choice)
        /\ ~LostItsNumber(x)
        /\ x \in Certification \/ work[q].tries = TakesAtMost - 1
     \/ work[q].choice \in DOMAIN Place /\ photoOn[x] # "nowhere"
  /\ work' = [work EXCEPT ![q] = Idle]
  /\ UNCHANGED <<tables, lacking, isOpen>>

\* The server fails, or the request never reaches it.
Fails(q) ==
  /\ Busy(q)
  /\ work' = [work EXCEPT ![q] = Idle]
  /\ UNCHANGED <<tables, lacking, isOpen>>

\* (A mutant: an answer that leaves before all is answered.)
AnsweredEarly(q) ==
  /\ work[q] # Idle
  /\ work' = [work EXCEPT ![q] = Idle]
  /\ UNCHANGED <<tables, lacking, isOpen>>

\* A request arrives, and its answer leaves, everything in it answered.
Arrives(q, things) ==
  /\ work[q] = Idle
  /\ things # << >>
  /\ work' = [work EXCEPT ![q].todo = things]
  /\ UNCHANGED <<tables, lacking, isOpen>>

Answered(q) ==
  /\ work[q] # Idle
  /\ ~Busy(q)
  /\ work' = [work EXCEPT ![q] = Idle]
  /\ UNCHANGED <<tables, lacking, isOpen>>

-----------------------------------------------------------------------------
(* The reviewer's acts, each one piece of work, refused in a closed project. *)

\* `QuarantineReview.renumber`: a field event under the number given, its
\* photographs moved to it, the quarantined record resolved.
Renumber(r, n) ==
  /\ Stands(r)
  /\ quarantined[r] = "waiting"
  /\ n \in Number /\ ~NumberTaken(n)
  /\ ~IsSaved(r)
  /\ row' = [row EXCEPT ![r] = n]
  /\ photoOn' = [p \in Photo |-> IF Owner[p] = r /\ photoOn[p] = "quarantined"
                                   THEN "record" ELSE photoOn[p]]
  /\ quarantined' = [quarantined EXCEPT ![r] = "renumbered"]
  /\ UNCHANGED <<ledger, held, lacking, isOpen, work>>

\* `QuarantineReview.secondCopy`.
SecondCopy(r) ==
  /\ isOpen
  /\ quarantined[r] = "waiting"
  /\ quarantined' = [quarantined EXCEPT ![r] = "secondCopy"]
  /\ UNCHANGED <<row, photoOn, ledger, held, lacking, isOpen, work>>

\* (A mutant: one saved since it was held is made anew over it.)
SavedAnew(r, n) ==
  /\ isOpen
  /\ held[r] = "waiting"
  /\ OwnNumber[r] \in Number /\ n \in Number /\ ~NumberTaken(n)
  /\ row' = [row EXCEPT ![r] = n]
  /\ held' = [held EXCEPT ![r] = "saved"]
  /\ UNCHANGED <<photoOn, ledger, quarantined, lacking, isOpen, work>>

\* `HeldReview.save` of a record as corrected: one that holds a number is made
\* anew under a number none holds; one that holds none may be there already.
SaveHeldRecord(r, n) ==
  /\ isOpen
  /\ held[r] = "waiting"
  /\ \/ OwnNumber[r] \in Number /\ n \in Number /\ ~NumberTaken(n) /\ ~IsSaved(r)
     \/ OwnNumber[r] = NoNumber /\ n = NoNumber
  /\ row' = [row EXCEPT ![r] = n]
  /\ held' = [held EXCEPT ![r] = "saved"]
  /\ photoOn' = [p \in Photo |-> IF Owner[p] = r /\ photoOn[p] = "held"
                                   THEN "record" ELSE photoOn[p]]
  /\ UNCHANGED <<ledger, quarantined, lacking, isOpen, work>>

\* `HeldReview.save` of a photograph's record, refused while its record isn't
\* on the server; one saved since stays as it is.
SaveHeldPhoto(p) ==
  /\ isOpen
  /\ held[p] = "waiting"
  /\ \/ photoOn[p] # "nowhere" /\ UNCHANGED photoOn
     \/ /\ photoOn[p] = "nowhere" /\ quarantined[Owner[p]] # "no"
        /\ photoOn' = [photoOn EXCEPT ![p] = "quarantined"]
     \/ /\ photoOn[p] = "nowhere" /\ quarantined[Owner[p]] = "no" /\ IsSaved(Owner[p])
        /\ photoOn' = [photoOn EXCEPT ![p] = "record"]
  /\ held' = [held EXCEPT ![p] = "saved"]
  /\ UNCHANGED <<row, ledger, quarantined, lacking, isOpen, work>>

\* `HeldReview.close`: never to be saved.
CloseHeld(x) ==
  /\ held[x] = "waiting"
  /\ held' = [held EXCEPT ![x] = "closed"]
  /\ UNCHANGED <<row, photoOn, ledger, quarantined, lacking, isOpen, work>>

\* The world a record names is put right, and the project closes or is reopened.
Mended(r) ==
  /\ r \in lacking
  /\ lacking' = lacking \ {r}
  /\ UNCHANGED <<tables, isOpen, work>>

ProjectCloses == MayClose /\ isOpen /\ isOpen' = FALSE /\ UNCHANGED <<tables, lacking, work>>
ProjectReopens == ~isOpen /\ isOpen' = TRUE /\ UNCHANGED <<tables, lacking, work>>

-----------------------------------------------------------------------------
(* What is asked of it.                                                    *)

\* A number is one record's: whatever races, two rows never hold one number.
\* The unique key, asked again at the write (intake.ts fieldEvent, roe).
NumberHeldOnce ==
  \A r, s \in Record : row[r] \in Number /\ row[r] = row[s] => r = s

\* What an answer tells the phone of a thing.
Backed(x, answer) ==
  /\ answer \in StoredAnswer =>
       IF x \in Record THEN IsSaved(x) ELSE photoOn[x] # "nowhere"
  /\ answer = "QUARANTINED" => x \in Record /\ quarantined[x] # "no"
  /\ answer \in {"NOT_SAVED", "OWNER_NOT_SAVED"} => held[x] # "no"

\* Every answer given is true of the tables when it is given and stays so: what
\* the phone drops, shows or keeps on the strength of it is there.
AnswersBacked ==
  \A q \in Request, x \in Thing : Backed(x, work[q].told[x])

\* The ledger and the tables never part: a record it says was saved or
\* quarantined is there, and one that is there came by a sync or by a person.
LedgerAgrees ==
  /\ \A r \in Record :
       /\ ledger[r] = "SAVED" => IsSaved(r)
       /\ ledger[r] = "QUARANTINED" <=> quarantined[r] # "no"
       /\ IsSaved(r) => ledger[r] = "SAVED" \/ quarantined[r] = "renumbered" \/ held[r] = "saved"
  /\ \A p \in Photo :
       /\ ledger[p] = "SAVED" => photoOn[p] # "nowhere"
       /\ photoOn[p] # "nowhere" => ledger[p] = "SAVED" \/ held[p] = "saved"

\* sync.ts: "A retry is known from the ledger and never taken for a duplicate number
\* (KD-56)": what is in quarantine is there for another record's row.
NeverItsOwn ==
  \A r \in Record : quarantined[r] # "no" =>
    \E s \in Record \ {r} : row[s] = OwnNumber[r]

\* What holds of that.  The own row and the number's holder are asked in two statements:
\* what a sync saves in between is met at the ledger's key, and what a person saves of a
\* held record is in no ledger.  So a record is quarantined for a row of its own only
\* where a person saved it as held, under its own number, while it was being asked after.
QuarantinedByAnother ==
  \A r \in Record : quarantined[r] # "no" =>
    \E s \in Record : row[s] = OwnNumber[r] /\ (s = r => held[r] = "saved")

\* A disposal stands on its scale receipt, whichever of the two was turned away, held
\* or sent again; only a person saving it as corrected may have let the receipt go.
DisposalOnItsReceipt ==
  \A r \in Record : IsSaved(r) /\ held[r] # "saved" => \A s \in PointsAt[r] : IsSaved(s)

\* A photograph's row belongs to something that is there.
PhotographOnSomething ==
  \A p \in Photo :
    /\ photoOn[p] = "record" => IsSaved(Owner[p])
    /\ photoOn[p] = "quarantined" => quarantined[Owner[p]] # "no"
    /\ photoOn[p] = "held" => held[Owner[p]] # "no"

\* What makes the above inductive: what a choice rests on stays true until it is written
\* (nothing is taken back), and a row holds a number where its record does.
ChoiceHolds(x, choice) ==
  IF x \in Record
  THEN /\ choice \in Asking \cup {"already", "inQuarantine", "quarantine", "save", "refuse"}
       /\ choice = "already" => IsSaved(x)
       /\ choice = "inQuarantine" => quarantined[x] # "no"
       /\ choice = "quarantine" => /\ OwnNumber[x] \in Number
                                   /\ \E s \in Record : row[s] = OwnNumber[x]
  ELSE /\ choice \in Asking \cup {"already", "onRecord", "onQuarantined", "onHeld", "ownerNotSaved"}
       /\ choice = "already" => photoOn[x] # "nowhere"
       /\ choice = "onRecord" => IsSaved(Owner[x])
       /\ choice = "onQuarantined" => quarantined[Owner[x]] # "no"
       /\ choice = "onHeld" => held[Owner[x]] # "no"

ChoicesHold ==
  \A q \in Request : Busy(q) => ChoiceHolds(Current(q), work[q].choice)

RowsByNumber ==
  \A r \in Record :
    /\ IsSaved(r) => (row[r] = NoNumber <=> OwnNumber[r] = NoNumber)
    /\ quarantined[r] # "no" => OwnNumber[r] \in Number

ServerInv ==
  /\ ServerTypeOK /\ NumberHeldOnce /\ RowsByNumber /\ ChoicesHold /\ AnswersBacked
  /\ LedgerAgrees /\ QuarantinedByAnother /\ PhotographOnSomething

\* What is saved is never written over, by a later record, a retry or a person
\* resolving a copy of it held or quarantined.
NeverWrittenOver ==
  [][\A r \in Record : IsSaved(r) => row'[r] = row[r]]_serverVars

\* intake.ts: a photograph belongs to the quarantined record while that record
\* waits in quarantine, so none is left on one a reviewer has made a field event.
NoneLeftInQuarantine ==
  \A p \in Photo : photoOn[p] = "quarantined" => quarantined[Owner[p]] # "renumbered"

\* held-review.ts: "Closed, never to be saved": a record closed unsaved stays so.
ClosedNeverSaved ==
  [][\A r \in Record : held[r] = "closed" /\ ~IsSaved(r) => ~IsSaved(r)']_serverVars

-----------------------------------------------------------------------------

\* What the server does of itself with a request it has.
Works(q) ==
  \/ ReadNext(q) \/ AnswerAlready(q)
  \/ SaveRecord(q) \/ QuarantineRecord(q) \/ TakeAgain(q) \/ HoldRecord(q)
  \/ SavePhoto(q) \/ HoldPhoto(q) \/ MetOnceTooOften(q)

Review ==
  \/ \E r \in Record, n \in Number \cup {NoNumber} : Renumber(r, n) \/ SaveHeldRecord(r, n)
  \/ \E r \in Record : SecondCopy(r)
  \/ \E p \in Photo : SaveHeldPhoto(p)
  \/ \E x \in Thing : CloseHeld(x)

Around == (\E r \in Record : Mended(r)) \/ ProjectCloses \/ ProjectReopens

ServerNext ==
  \/ \E q \in Request :
       \/ Works(q) \/ Fails(q) \/ Answered(q)
       \/ \E things \in Batches : Arrives(q, things)
  \/ Review
  \/ Around

ServerSpec == ServerInit /\ [][ServerNext]_serverVars
=============================================================================
