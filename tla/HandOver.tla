------------------------------ MODULE HandOver ------------------------------
(***************************************************************************)
(* A phone passed from one monitor to another with records not yet sent    *)
(* (apps/field/src/phone/{setup,passcode-sessions,lists,monitor}.ts):      *)
(* moved from the phone's own shelf to the earlier monitor's archived      *)
(* queue, while a run of the outbox (outbox.ts, sync.ts) may be under way  *)
(* with what it read before, and write its answers where it read it.       *)
(*                                                                         *)
(* Photographs' records are left out: they are never moved.  A sync takes  *)
(* everything that goes; how it is cut is PhoneOutbox's.                   *)
(***************************************************************************)
EXTENDS Naturals, FiniteSets

CONSTANTS
  Monitor,      \* who may hold the phone
  First,        \* whose it is at first
  Record,       \* the records that may be made
  Nobody,       \* nobody is signed in, or is the phone's monitor; no hand-over
  Own,          \* the phone's own shelf, `records`
  MaxHandOvers, \* bound: hand-overs begun
  MaxSignOuts,  \* bound: the monitor's own sign-outs
  MaxRefusals,  \* bound: records answered not saved
  MaxFaults,    \* bound: answers lost, the app closed
  Quiet         \* whether only whose the phone is signs in, and the lists come before a change of that

ASSUME HandOverAssumption ==
  /\ First \in Monitor /\ Nobody \notin Monitor /\ Own \notin Monitor
  /\ MaxHandOvers \in Nat /\ MaxSignOuts \in Nat /\ MaxRefusals \in Nat /\ MaxFaults \in Nat
  /\ Quiet \in BOOLEAN

VARIABLES
  made,      \* [Record -> who made it, or Nobody]
  store,     \* [Place -> [Record -> how it stands there]]
  phones,    \* the phone's monitor
  signedIn,  \* who is signed in
  run,       \* what the run under way does
  listed,    \* the outbox's memory of the store
  sentAgain, \* SUBSET Record: sent again since the store was read
  sending,   \* SUBSET (Place \X Record): what the sync under way carries
  asksLists, \* a run's question for the lists is under way
  passing,   \* [to, earlier, step, found]: the hand-over under way
  saved,     \* SUBSET Record: the server has it
  spent      \* how often each bounded thing has been

phone == <<made, store, phones, signedIn>>
outbox == <<run, listed, sentAgain, sending>>
vars == <<phone, outbox, asksLists, passing, saved, spent>>

Place == Monitor \cup {Own}
Stand == {"absent", "waiting", "notSaved", "saved"}
Nowhere == [r \in Record |-> "absent"]
NoPassing == [to |-> Nobody, earlier |-> Nobody, step |-> "none", found |-> Nowhere]

HandOverTypeOK ==
  /\ made \in [Record -> Monitor \cup {Nobody}]
  /\ store \in [Place -> [Record -> Stand]]
  /\ listed \in [Place -> [Record -> Stand \ {"saved"}]]
  /\ phones \in Monitor \cup {Nobody} /\ signedIn \in Monitor \cup {Nobody}
  /\ run \in {"resting", "reading", "listed", "sent", "answered"}
  /\ sentAgain \subseteq Record /\ sending \subseteq Place \X Record
  /\ (sending # {} => run \in {"sent", "answered"})
  /\ asksLists \in BOOLEAN
  /\ passing \in [to : Monitor \cup {Nobody}, earlier : Monitor \cup {Nobody},
                  step : {"none", "begun", "read", "moved"}, found : [Record -> Stand]]
  /\ saved \subseteq Record

HandOverInit ==
  /\ made = [r \in Record |-> Nobody]
  /\ store = [p \in Place |-> Nowhere] /\ listed = [p \in Place |-> Nowhere]
  /\ phones = First /\ signedIn = First
  /\ run = "resting" /\ sentAgain = {} /\ sending = {}
  /\ asksLists = FALSE /\ passing = NoPassing /\ saved = {}
  /\ spent = [handOvers |-> 0, signOuts |-> 0, refusals |-> 0, faults |-> 0]

Spends(what, most) == spent[what] < most /\ spent' = [spent EXCEPT ![what] = @ + 1]

\* (A mutant: everything on the shelf.)
Everything(shelf) == shelf
\* What the store says the server hasn't stored.
NotStored(shelf) == [r \in Record |-> IF shelf[r] = "saved" THEN "absent" ELSE shelf[r]]

(***************************************************************************)
(* The monitor                                                             *)
(***************************************************************************)

\* A record submitted: kept on the phone's own shelf and listed, but the list being read is
\* what the store held.
Makes(r) ==
  /\ signedIn # Nobody /\ signedIn = phones /\ passing = NoPassing /\ made[r] = Nobody
  /\ made' = [made EXCEPT ![r] = signedIn]
  /\ store' = [store EXCEPT ![Own][r] = "waiting"]
  /\ listed' = IF run = "reading" THEN listed ELSE [listed EXCEPT ![Own][r] = "waiting"]
  /\ UNCHANGED <<phones, signedIn, run, sentAgain, sending, asksLists, passing, saved, spent>>

SignsOut ==
  /\ signedIn # Nobody /\ passing = NoPassing /\ (Quiet => ~asksLists) /\ Spends("signOuts", MaxSignOuts)
  /\ signedIn' = Nobody
  /\ UNCHANGED <<made, store, phones, outbox, asksLists, passing, saved>>

\* With signal the server takes anybody's own password, whoever the phone's monitor is.
SignsIn(m) ==
  /\ signedIn = Nobody /\ passing = NoPassing
  /\ Quiet => m = phones
  /\ signedIn' = m
  /\ UNCHANGED <<made, store, phones, outbox, asksLists, passing, saved, spent>>

(***************************************************************************)
(* The hand-over, under the master passcode                                *)
(***************************************************************************)

\* Whoever else is signed in is signed out; a passcode session has its own monitor signed in by
\* then.  Whose the phone was is read first.
Begins(to) ==
  /\ passing = NoPassing /\ to # phones /\ (Quiet => ~asksLists)
  /\ Spends("handOvers", MaxHandOvers)
  /\ passing' = [NoPassing EXCEPT !.to = to, !.earlier = phones, !.step = "begun"]
  /\ signedIn' \in IF Quiet THEN {Nobody} ELSE {Nobody, to}
  /\ UNCHANGED <<made, store, phones, outbox, asksLists, saved>>

\* The phone's own shelf read ...
ReadsShelf ==
  /\ passing.step = "begun"
  /\ passing' = IF passing.earlier = Nobody THEN [passing EXCEPT !.step = "moved"]
                ELSE [passing EXCEPT !.step = "read", !.found = store[Own]]
  /\ UNCHANGED <<phone, outbox, asksLists, saved, spent>>

\* (Mutants: not moved; taken off the shelf and not queued; moved under the next monitor's id.)
LeftThere(found) == store
OffTheShelf(found) ==
  [store EXCEPT ![Own] = [r \in Record |-> IF found[r] = "absent" THEN @[r] ELSE "absent"]]
NextsQueue(found) ==
  [p \in Place |-> [r \in Record |->
     IF found[r] = "absent" THEN store[p][r]
     ELSE IF p = passing.to THEN found[r] ELSE IF p = Own THEN "absent" ELSE store[p][r]]]
Moved(found) ==
  [p \in Place |-> [r \in Record |->
     IF found[r] = "absent" THEN store[p][r]
     ELSE IF p = passing.earlier THEN found[r] ELSE IF p = Own THEN "absent" ELSE store[p][r]]]

\* ... and all that was found moved, as it was found, in one change.
MovesThem ==
  /\ passing.step = "read"
  /\ store' = Moved(passing.found)
  /\ passing' = [passing EXCEPT !.step = "moved", !.found = Nowhere]
  /\ UNCHANGED <<made, phones, signedIn, outbox, asksLists, saved, spent>>

HandedTo ==
  /\ passing.step = "moved"
  /\ phones' = passing.to
  /\ passing' = NoPassing
  /\ UNCHANGED <<made, store, signedIn, outbox, asksLists, saved, spent>>

(***************************************************************************)
(* A run of the outbox                                                     *)
(***************************************************************************)

\* The shelves are read one after another: the own first, the archived queues after it.
ReadsOwn ==
  /\ run = "resting" /\ ~asksLists /\ signedIn # Nobody
  /\ run' = "reading"
  /\ listed' = [p \in Place |-> IF p = Own THEN NotStored(store[Own]) ELSE Nowhere]
  /\ UNCHANGED <<phone, sentAgain, sending, asksLists, passing, saved, spent>>

\* (A mutant: the archived queues are never read.)
OwnAlone == listed
WithQueues == [p \in Place |-> IF p = Own THEN listed[Own] ELSE NotStored(store[p])]

ReadsQueues ==
  /\ run = "reading"
  /\ run' = "listed"
  /\ listed' = WithQueues
  /\ sentAgain' = {}
  /\ UNCHANGED <<phone, sending, asksLists, passing, saved, spent>>

\* What waits, and what was kept not stored, once.
Going == {e \in Place \X Record : \/ listed[e[1]][e[2]] = "waiting"
                                  \/ listed[e[1]][e[2]] = "notSaved" /\ e[2] \notin sentAgain}

\* A sync goes under whoever is signed in then: the run begun by another goes on.
Sends ==
  /\ run = "listed" /\ Going # {} /\ signedIn # Nobody
  /\ run' = "sent"
  /\ sending' = Going
  /\ UNCHANGED <<phone, listed, sentAgain, asksLists, passing, saved, spent>>

\* Then the run asks for the lists, where somebody is signed in.
Ends ==
  /\ run = "listed" /\ (Going = {} \/ signedIn = Nobody)
  /\ run' = "resting"
  /\ asksLists' = (signedIn # Nobody /\ (Quiet => passing = NoPassing))
  /\ UNCHANGED <<phone, listed, sentAgain, sending, passing, saved, spent>>

\* The server saves them, or some not.
Serves ==
  /\ run = "sent"
  /\ LET sent == {e[2] : e \in sending} IN
     \/ saved' = saved \cup sent /\ UNCHANGED spent
     \/ /\ Spends("refusals", MaxRefusals)
        /\ \E r \in sent \ saved : saved' = saved \cup (sent \ {r})
  /\ run' = "answered"
  /\ UNCHANGED <<phone, listed, sentAgain, sending, asksLists, passing>>

Told(r) == IF r \in saved THEN "saved" ELSE "notSaved"

\* Each answer written on the shelf its record was read from, whatever stands there now; by its
\* id the record is marked, or leaves the list.
Answered ==
  /\ run = "answered"
  /\ store' = [p \in Place |-> [r \in Record |->
       IF <<p, r>> \in sending THEN Told(r) ELSE store[p][r]]]
  /\ listed' = [p \in Place |-> [r \in Record |->
       IF listed[p][r] = "absent" \/ \A e \in sending : e[2] # r THEN listed[p][r]
       ELSE IF r \in saved THEN "absent" ELSE "notSaved"]]
  /\ sentAgain' = sentAgain \cup {e[2] : e \in sending}
  /\ sending' = {}
  /\ run' = "listed"
  /\ UNCHANGED <<made, phones, signedIn, asksLists, passing, saved, spent>>

\* No answer came: nothing is marked, and the run stops.
NoAnswer ==
  /\ run \in {"sent", "answered"} /\ Spends("faults", MaxFaults)
  /\ run' = "resting" /\ sending' = {}
  /\ UNCHANGED <<phone, listed, sentAgain, asksLists, passing, saved>>

\* The lists that come are of whoever is signed in by then, and whoever the phone was handed to is
\* forgotten; none come where the server has no assignment for them.
ListsCome ==
  /\ asksLists
  /\ asksLists' = FALSE
  /\ phones' \in {phones, signedIn}
  /\ UNCHANGED <<made, store, signedIn, outbox, passing, saved, spent>>

\* The app closed and opened again: the outbox is what the store says.
Reopens ==
  /\ Spends("faults", MaxFaults)
  /\ run' = "resting" /\ sending' = {} /\ sentAgain' = {}
  /\ listed' = [p \in Place |-> NotStored(store[p])]
  /\ passing' = NoPassing /\ asksLists' = FALSE
  /\ UNCHANGED <<phone, saved>>

Passes == ReadsShelf \/ MovesThem \/ HandedTo
Runs == ReadsOwn \/ ReadsQueues \/ Sends \/ Ends \/ Serves \/ Answered

HandOverNext ==
  \/ \E r \in Record : Makes(r)
  \/ SignsOut \/ (\E m \in Monitor : SignsIn(m) \/ Begins(m))
  \/ Passes \/ Runs \/ NoAnswer \/ ListsCome \/ Reopens

\* A hand-over begun goes on, somebody signs in again, a run goes on and another is made after it.
FairHandOver ==
  /\ HandOverInit /\ [][HandOverNext]_vars
  /\ WF_vars(Passes) /\ WF_vars(ListsCome) /\ WF_vars(\E m \in Monitor : SignsIn(m))
  /\ WF_vars(Runs)

(***************************************************************************)
(* Properties                                                              *)
(***************************************************************************)

\* A record made on the phone stays on it, whoever holds the phone by then and whatever moved it,
\* and where the phone says the server stored it the server has (outbox.ts: "the records shelf
\* holds what was made, sent or not").
Kept ==
  \A r \in Record : made[r] # Nobody =>
    /\ \E p \in Place : store[p][r] # "absent"
    /\ \A p \in Place : store[p][r] = "saved" => r \in saved

\* What waits in an archived queue is its own monitor's, an answer written back while the phone
\* changed hands or not (setup.ts: "still theirs").
StillTheirs == \A m \in Monitor, r \in Record : store[m][r] = "waiting" => made[r] = m

\* What waits on the phone's own shelf was made by whose the phone is, before a hand-over and after
\* it, and at no step of it under the next one's name: what the next hand-over archives under its
\* monitor's id is theirs (setup.ts: "the records the phone hasn't sent, which are its monitor's").
ShelfIsItsMonitors == \A r \in Record : store[Own][r] = "waiting" => made[r] = phones

\* What whoever is signed in is shown as waiting they made themselves (AC-11-64: "the next screen
\* shows nothing of her records").  The screens count the outbox's memory, which nothing reads
\* again at a hand-over.
ShownIsTheirs ==
  signedIn # Nobody /\ passing = NoPassing =>
    \A r \in Record : listed[Own][r] = "waiting" => made[r] = signedIn

\* Every record is saved in the end and the phone knows it on every shelf it stands on, handed
\* over half way or not (AC-02-46: "syncs in the background").
SavedInTheEnd ==
  \A r \in Record : made[r] # Nobody ~>
    r \in saved /\ \A p \in Place : store[p][r] \in {"absent", "saved"}
=============================================================================
