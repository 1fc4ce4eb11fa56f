------------------------------ MODULE Numbering -----------------------------
(***************************************************************************)
(* One series' numbers, cut to phones in blocks by the server and given    *)
(* out by them offline (apps/api/src/numbering/number-allocator.ts,        *)
(* apps/api/src/sync/sync.ts, apps/field/src/phone/lists.ts).              *)
(*                                                                         *)
(* A top-up is a transaction of several reads: the phone's row under a     *)
(* share lock and the series, then the blocks; what it writes is what it   *)
(* decided from those, and two guards of the database stand between it and *)
(* another: the series moved on only from where it was read, and no two    *)
(* blocks holding one number.  Answers are lost and come late.  A phone's  *)
(* marks out of service are not told apart from any other refusal.         *)
(*                                                                         *)
(* The phone's store has no transaction over a read and a write: whoever   *)
(* marks a number used, or takes the blocks a sync answered, reads the     *)
(* lists, and writes them later as it read and changed them.               *)
(***************************************************************************)
EXTENDS NumberSeries

CONSTANTS
  Phone,
  Sync,        \* syncs that the server may be working at once
  LastNumber,  \* the last number of the series
  BlockSize,   \* how many unused numbers a phone holds after a top-up
  MayForget    \* (a bound) the phones whose lists may come to say less used than they had

ASSUME NumberingAssumption == LastNumber \in Nat /\ BlockSize \in Nat \ {0}

VARIABLES
  next,    \* the next number the server has never handed out
  blocks,  \* every block issued, in order
  key,     \* [Phone -> "stands", "lapsed" (the firm's time), "turnedIn"]
  topUp,   \* [Sync -> the top-up of the series in that sync, or the lists it answered]
  lists,   \* [Phone -> the blocks the phone holds, by their place in `blocks', to the number used]
  giving,  \* [Phone -> the ticket being opened under a number made]
  made,    \* [Phone -> the numbers it gave a ticket]
  forgot   \* (history) [Phone -> how its lists came to say less used than they had]

serverVars == <<next, blocks, key>>
phoneVars == <<lists, giving, made, forgot>>
vars == <<serverVars, topUp, phoneVars>>

Number == 1 .. LastNumber
Block == [phone : Phone, first : Number, last : Number, used : 0 .. LastNumber,
          status : {"ISSUED", "RECLAIMED", "RETIRED"}]

NoTopUp == [stage |-> "none"]
NoTicket == [stage |-> "none"]

\* A phone's lists, as they are or were: of blocks issued, the last number used of each.
ListOK(l) ==
  /\ DOMAIN l \subseteq DOMAIN blocks
  /\ \A i \in DOMAIN l : l[i] + 1 \in blocks[i].first .. blocks[i].last + 1

GivingOK(g) ==
  \/ g = NoTicket
  \/ g.stage = "number" /\ g.number \in Number
  \/ g.stage = "marking" /\ g.number \in Number /\ ListOK(g.read)

TopUpOK(t) ==
  \/ t = NoTopUp
  \/ /\ t.stage \in {"asked", "series", "report", "book", "answered", "merging", "listed"}
     /\ t.phone \in Phone /\ t.awaited \in BOOLEAN
     /\ t.stage \in {"asked", "series", "report", "book"} => t.report \in 0 .. LastNumber
     /\ t.stage \in {"series", "report", "book"} => t.series \in 1 .. LastNumber + 1
     /\ t.stage \in {"report", "book"} =>
          /\ DOMAIN t.writes \subseteq DOMAIN blocks
          /\ \A i \in DOMAIN t.writes : t.writes[i] \in RunOf(blocks[i])
     /\ t.stage \in {"answered", "merging", "listed"} => ListOK(t.held)
     /\ t.stage = "merging" => ListOK(t.read)

NumberingTypeOK ==
  /\ next \in 1 .. LastNumber + 1
  /\ blocks \in Seq(Block)
  /\ key \in [Phone -> {"stands", "lapsed", "turnedIn"}]
  /\ \A k \in Sync : TopUpOK(topUp[k])
  /\ \A p \in Phone : ListOK(lists[p]) /\ GivingOK(giving[p])
  /\ made \in [Phone -> SUBSET Number]
  /\ forgot \in [Phone -> SUBSET {"overtaken", "readAnew"}]

NumberingInit ==
  /\ next = 1 /\ blocks = <<>>
  /\ key = [p \in Phone |-> "stands"]
  /\ topUp = [k \in Sync |-> NoTopUp]
  /\ lists = [p \in Phone |-> <<>>]
  /\ giving = [p \in Phone |-> NoTicket]
  /\ made = [p \in Phone |-> {}]
  /\ forgot = [p \in Phone |-> {}]

-----------------------------------------------------------------------------
(* The phone.                                                              *)

\* The last number used of the series: the largest of its blocks', none (0) before any.
IsLastUsed(p, report) ==
  LET used == {lists[p][i] : i \in {j \in DOMAIN lists[p] : lists[p][j] >= blocks[j].first}}
  IN report \in used \cup {0} /\ \A u \in used : u <= report

\* The phone's next number, block by block in the order they were issued (`nextNumber').
NumberChosen(p) ==
  /\ key[p] # "turnedIn" /\ giving[p] = NoTicket
  /\ \E i \in DOMAIN lists[p] :
       /\ lists[p][i] < blocks[i].last
       /\ \A j \in DOMAIN lists[p] : j < i => lists[p][j] = blocks[j].last
       /\ giving' = [giving EXCEPT ![p] = [stage |-> "number", number |-> lists[p][i] + 1]]
  /\ UNCHANGED <<serverVars, topUp, lists, made, forgot>>

\* Its ticket is opened: the lists are read, to mark it used in its block (`gaveOut').
ReadsToMark(p) ==
  /\ giving[p].stage = "number"
  /\ giving' = [giving EXCEPT ![p] =
       [stage |-> "marking", number |-> giving[p].number, read |-> lists[p]]]
  /\ UNCHANGED <<serverVars, topUp, lists, made, forgot>>

\* The lists with a number marked used, where a block of them holds it.
Marked(read, number) ==
  [i \in DOMAIN read |-> IF number \in RunOf(blocks[i]) THEN Max({number, read[i]}) ELSE read[i]]

\* A write puts down the lists as they were read, and they are no longer so.
Overtakes(p, read) == IF read = lists[p] THEN {} ELSE {"overtaken"}

\* How a write of its lists comes to say less used than they did, if it does.
Forgets(p, how) ==
  /\ how # {} => p \in MayForget
  /\ forgot' = [forgot EXCEPT ![p] = @ \cup how]

\* The ticket and the lists, as read and marked, in one write.
Gives(p) ==
  LET g == giving[p] IN
  /\ g.stage = "marking"
  /\ lists' = [lists EXCEPT ![p] = Marked(g.read, g.number)]
  /\ made' = [made EXCEPT ![p] = @ \cup {g.number}]
  /\ Forgets(p, Overtakes(p, g.read))
  /\ giving' = [giving EXCEPT ![p] = NoTicket]
  /\ UNCHANGED <<serverVars, topUp>>

Awaits(p) ==
  \E k \in Sync : topUp[k].stage \notin {"none", "listed"} /\ topUp[k].phone = p /\ topUp[k].awaited

\* A sync goes with the report the phone's store gave when its run began.
Asks(p, k) ==
  /\ key[p] # "turnedIn"
  /\ topUp[k] = NoTopUp
  /\ ~Awaits(p)
  /\ \E report \in 0 .. LastNumber :
       /\ IsLastUsed(p, report)
       /\ topUp' = [topUp EXCEPT ![k] =
            [stage |-> "asked", phone |-> p, awaited |-> TRUE, report |-> report]]
  /\ UNCHANGED <<serverVars, phoneVars>>

\* No answer comes in time.
StopsWaiting(k) ==
  /\ topUp[k].stage \notin {"none", "merging", "listed"} /\ topUp[k].awaited
  /\ topUp' = [topUp EXCEPT ![k].awaited = FALSE]
  /\ UNCHANGED <<serverVars, phoneVars>>

\* (A mutant: the server's last used number taken as it is.)
MergedAsAnswered(known, answered) == answered

\* A number given out while the sync was under way stays used.
Merged(known, answered) == IF known < answered THEN answered ELSE known

\* The blocks a sync answered, and the lists read to merge them into.
ReadsToMerge(k) ==
  LET t == topUp[k] IN
  /\ t.stage = "answered" /\ t.awaited
  /\ topUp' = [topUp EXCEPT ![k] = [stage |-> "merging", phone |-> t.phone, awaited |-> TRUE,
                                     held |-> t.held, read |-> lists[t.phone]]]
  /\ UNCHANGED <<serverVars, phoneVars>>

\* A list says all another does: every block of it, and no less used.
SaysAll(l, other) == \A i \in DOMAIN other : i \in DOMAIN l /\ other[i] <= l[i]

\* Blocks answered before lists read anew brought another.
OlderThanRead(p, held) == IF DOMAIN lists[p] \subseteq DOMAIN held THEN {} ELSE {"readAnew"}

\* They take the place of those held, merged with the lists as read (`toppedUp').
ToppedUp(k) ==
  LET t == topUp[k] IN
  /\ t.stage = "merging"
  /\ lists' = [lists EXCEPT ![t.phone] =
       [i \in DOMAIN t.held |->
          IF i \in DOMAIN t.read THEN Merged(t.read[i], t.held[i]) ELSE t.held[i]]]
  /\ Forgets(t.phone, Overtakes(t.phone, t.read) \cup OlderThanRead(t.phone, t.held))
  /\ topUp' = [topUp EXCEPT ![k] = NoTopUp]
  /\ UNCHANGED <<serverVars, giving, made>>

\* The blocks a phone holds, as the server has them (`heldBy'), of any blocks.
HeldBy(all, p) == {i \in DOMAIN all : all[i].phone = p /\ all[i].status = "ISSUED"}
AnswerOf(all, p) == [i \in HeldBy(all, p) |-> all[i].used]

\* The lists asked for, at the end of a run or from the screen, and answered.
ListsAnswered(p, k) ==
  /\ key[p] = "stands" /\ topUp[k] = NoTopUp
  /\ topUp' = [topUp EXCEPT ![k] =
       [stage |-> "listed", phone |-> p, awaited |-> TRUE, held |-> AnswerOf(blocks, p)]]
  /\ UNCHANGED <<serverVars, phoneVars>>

\* They take the place of those held whole, the blocks with them (`PhoneLists.read').
ListsRead(k) ==
  LET t == topUp[k] IN
  /\ t.stage = "listed" /\ t.awaited
  /\ lists' = [lists EXCEPT ![t.phone] = t.held]
  /\ Forgets(t.phone, IF SaysAll(t.held, lists[t.phone]) THEN {} ELSE {"readAnew"})
  /\ topUp' = [topUp EXCEPT ![k] = NoTopUp]
  /\ UNCHANGED <<serverVars, giving, made>>

-----------------------------------------------------------------------------
(* The server.                                                             *)

\* A top-up under way holds its phone's row.
RowHeld(p) == \E k \in Sync : topUp[k] # NoTopUp /\ topUp[k].phone = p
                              /\ topUp[k].stage \in {"series", "report", "book"}

\* A phone's key proven, the phone's row locked, and the series read.
ReadsSeries(k) ==
  LET t == topUp[k] IN
  /\ t # NoTopUp /\ t.stage = "asked"
  /\ key[t.phone] = "stands"
  /\ topUp' = [topUp EXCEPT ![k] =
       [stage |-> "series", phone |-> t.phone, awaited |-> t.awaited, report |-> t.report,
        series |-> next]]
  /\ UNCHANGED <<serverVars, phoneVars>>

\* (A mutant: a report told of the block it lies in, and no other.)
OnlyItsBlock(p, report, i) ==
  IF report \in RunOf(blocks[i]) THEN Max({report, blocks[i].used}) ELSE blocks[i].used

\* Each block's last used number once the phone reports: the blocks before the one the
\* number lies in are used up, and its own never goes back.
Reported(p, report, i) ==
  CASE \E j \in HeldBy(blocks, p) : i < j /\ report \in RunOf(blocks[j]) -> blocks[i].last
    [] report \in RunOf(blocks[i]) -> Max({report, blocks[i].used})
    [] OTHER -> blocks[i].used

\* What `record' writes: the blocks of the phone whose last used number changes.
Writes(p, report) ==
  LET changes == {i \in HeldBy(blocks, p) : Reported(p, report, i) # blocks[i].used}
  IN [i \in changes |-> Reported(p, report, i)]

Written(writes) ==
  [i \in DOMAIN blocks |-> IF i \in DOMAIN writes THEN [blocks[i] EXCEPT !.used = writes[i]]
                           ELSE blocks[i]]

\* How many more the phone takes to hold a full block of unused numbers.
Wanted(all, p) ==
  LET left == [i \in HeldBy(all, p) |-> all[i].last - all[i].used]
      unused == MapThenSumSet(LAMBDA i : left[i], HeldBy(all, p))
  IN IF unused < BlockSize THEN BlockSize - unused ELSE 0

\* The series has as many left as it was asked for.
HasLeft(taken) == taken.next <= LastNumber + 1

\* What the report changes, decided on the blocks as they are now.
ReadsReported(k) ==
  LET t == topUp[k] IN
  /\ t # NoTopUp /\ t.stage = "series"
  /\ topUp' = [topUp EXCEPT ![k] =
       [stage |-> "report", phone |-> t.phone, awaited |-> t.awaited, report |-> t.report,
        series |-> t.series, writes |-> Writes(t.phone, t.report)]]
  /\ UNCHANGED <<serverVars, phoneVars>>

\* A block written to is locked until its top-up ends.
BlocksFree(k) ==
  \A s \in Sync : topUp[s] # NoTopUp /\ topUp[s].stage = "book" =>
    DOMAIN topUp[s].writes \cap DOMAIN topUp[k].writes = {}

\* The report written, and the runs of the top-up decided on the blocks as they are
\* then; refused where the series has too few left.
ReadsBook(k) ==
  LET t == topUp[k]
      wanted == Wanted(Written(t.writes), t.phone)
      taken == IF wanted = 0 THEN [runs |-> <<>>, next |-> t.series]
               ELSE Take(t.series, blocks, wanted)
  IN /\ t # NoTopUp /\ t.stage = "report"
     /\ BlocksFree(k)
     /\ HasLeft(taken)
     /\ topUp' = [topUp EXCEPT ![k] =
          [stage |-> "book", phone |-> t.phone, awaited |-> t.awaited, report |-> t.report,
           series |-> t.series, writes |-> t.writes, taken |-> taken]]
     /\ UNCHANGED <<serverVars, phoneVars>>

\* (A mutant: an unused block's last used number taken for none at all.)
CutUsedNone(p, runs) == [i \in DOMAIN runs |-> [phone |-> p, first |-> runs[i].first,
                   last |-> runs[i].last, used |-> 0, status |-> "ISSUED"]]

\* The runs taken, issued as blocks of which nothing is used.
Cut(p, runs) == [i \in DOMAIN runs |-> [phone |-> p, first |-> runs[i].first,
                   last |-> runs[i].last, used |-> runs[i].first - 1, status |-> "ISSUED"]]

\* The series moved on only from where it was read (`advance').
Advances(t) == t.taken.next = t.series \/ next = t.series

\* A block is a run of the series' numbers, and the next number at most one past its end.
RangesHold(taken) ==
  /\ taken.runs \in Seq({run \in [first : Number, last : Number] : run.first <= run.last})
  /\ taken.next \in 1 .. LastNumber + 1

\* No two blocks hold one number (number_blocks_never_overlap).
NeverOverlap(runs) ==
  /\ \A i \in DOMAIN runs, j \in DOMAIN blocks : RunOf(runs[i]) \cap Held(blocks[j]) = {}
  /\ \A i, j \in DOMAIN runs : i # j => RunOf(runs[i]) \cap RunOf(runs[j]) = {}

\* The top-up commits, and answers what the phone holds now.
Commits(k) ==
  LET t == topUp[k]
      all == Written(t.writes) \o Cut(t.phone, t.taken.runs)
  IN /\ t # NoTopUp /\ t.stage = "book"
     /\ Advances(t) /\ RangesHold(t.taken) /\ NeverOverlap(t.taken.runs)
     /\ blocks' = all
     /\ next' = IF t.taken.next = t.series THEN next ELSE t.taken.next
     /\ topUp' = [topUp EXCEPT ![k] = [stage |-> "answered", phone |-> t.phone,
                    awaited |-> t.awaited, held |-> AnswerOf(all, t.phone)]]
     /\ UNCHANGED <<key, phoneVars>>

\* The series moved on: nothing is kept, and the top-up is asked again.
SeriesMovedOn(k) ==
  LET t == topUp[k] IN
  /\ t # NoTopUp /\ t.stage = "book" /\ ~Advances(t)
  /\ topUp' = [topUp EXCEPT ![k] =
       [stage |-> "asked", phone |-> t.phone, awaited |-> t.awaited, report |-> t.report]]
  /\ UNCHANGED <<serverVars, phoneVars>>

\* Not topped up, or no answer: refused, thrown by the database, given up after the races
\* it lost, or lost on its way.  The phone's blocks stay as they are.
Ends(k) ==
  /\ topUp[k] # NoTopUp
  /\ topUp' = [topUp EXCEPT ![k] = NoTopUp]
  /\ UNCHANGED <<serverVars, phoneVars>>

\* A phone turned in, no sync of it being taken: its report taken first, the unused rest of its blocks handed back;
\* or, lost before or the series not in its report, every block retired whole.
TurnedIn(p) ==
  /\ key[p] # "turnedIn" /\ ~RowHeld(p)
  /\ \A k \in Sync : topUp[k].stage = "merging" => topUp[k].phone # p
  /\ \E report \in 0 .. LastNumber, ends \in {"RECLAIMED", "RETIRED"} :
       /\ IsLastUsed(p, report)
       /\ blocks' = [i \in DOMAIN blocks |->
            IF i \in HeldBy(blocks, p)
            THEN [blocks[i] EXCEPT !.used = Reported(p, report, i), !.status = ends]
            ELSE blocks[i]]
  /\ key' = [key EXCEPT ![p] = "turnedIn"]
  /\ lists' = [lists EXCEPT ![p] = <<>>]
  /\ giving' = [giving EXCEPT ![p] = NoTicket]
  /\ topUp' = [k \in Sync |-> IF topUp[k] # NoTopUp /\ topUp[k].phone = p
                              THEN [topUp[k] EXCEPT !.awaited = FALSE] ELSE topUp[k]]
  /\ UNCHANGED <<next, made, forgot>>

\* A phone out of service for the firm's time: its key revoked, its blocks retired whole.
\* It may be making numbers still.
KeyLapses(p) ==
  /\ key[p] = "stands" /\ ~RowHeld(p)
  /\ key' = [key EXCEPT ![p] = "lapsed"]
  /\ blocks' = [i \in DOMAIN blocks |->
       IF i \in HeldBy(blocks, p) THEN [blocks[i] EXCEPT !.status = "RETIRED"] ELSE blocks[i]]
  /\ UNCHANGED <<next, topUp, phoneVars>>

NumberingNext ==
  \/ \E p \in Phone : \/ NumberChosen(p) \/ ReadsToMark(p) \/ Gives(p)
                      \/ TurnedIn(p) \/ KeyLapses(p)
  \/ \E p \in Phone, k \in Sync : Asks(p, k) \/ ListsAnswered(p, k)
  \/ \E k \in Sync : \/ StopsWaiting(k) \/ ReadsToMerge(k) \/ ToppedUp(k) \/ ListsRead(k)
                     \/ ReadsSeries(k) \/ ReadsReported(k) \/ ReadsBook(k) \/ Commits(k)
                     \/ SeriesMovedOn(k) \/ Ends(k)

NumberingSpec == NumberingInit /\ [][NumberingNext]_vars

-----------------------------------------------------------------------------
(* What is asked of it.                                                    *)

\* A phone's blocks, in the order it gives them out, are in the order of their numbers.
Ascending(p) ==
  \A i, j \in DOMAIN blocks :
    i < j /\ blocks[i].phone = p /\ blocks[j].phone = p => blocks[i].last < blocks[j].first

\* migration 20261003225700_guard_numbering, 4: two phones never hold the same number
\* (ADR-065); and so never make one.
NoNumberTwice == \A p, q \in Phone : p # q => made[p] \cap made[q] = {}

\* The same of phones whose lists never came to say less used than they had, where no phone
\* was cut a handed-back run below one it holds: what the report of one number for all of a
\* phone's blocks rests on.
NumbersApart ==
  (\A p \in Phone : Ascending(p)) =>
    \A p, q \in Phone : p # q /\ forgot[p] = {} /\ forgot[q] = {} => made[p] \cap made[q] = {}

\* What a phone would make still, or is opening a ticket under, it hasn't made.
NoneAgain(p) ==
  /\ \A i \in DOMAIN lists[p] : (lists[p][i] + 1) .. blocks[i].last \cap made[p] = {}
  /\ giving[p] # NoTicket => giving[p].number \notin made[p]

\* AC-11-76: a number the phone made is never made again, while no write of its lists put
\* down what had been overtaken and no lists read anew said less used.
NeverMadeAgain == \A p \in Phone : forgot[p] = {} => NoneAgain(p)

\* lists.ts:18-20, "marked used in its block at once ... so it is never made again": whatever else
\* writes the lists between its reads and its write, lists never being read anew.
MarkedAtOnce == \A p \in Phone : "readAnew" \notin forgot[p] => NoneAgain(p)

\* The same, whenever lists are read anew, no write of them overtaken.
ReadAnewKeepsUsed == \A p \in Phone : "overtaken" \notin forgot[p] => NoneAgain(p)

\* Every number handed out is held by one block or handed back, once, and the book counts
\* it so (`NumberSeriesBook.handedBack').
BookBalances ==
  LET back == HandedBack(blocks) IN
  \A n \in Number :
    Cardinality({i \in DOMAIN blocks : n \in Held(blocks[i])})
      + Cardinality({i \in DOMAIN back : n \in RunOf(back[i])}) = IF n < next THEN 1 ELSE 0

\* A number a phone made stays held, of a block it was cut, whatever becomes of the phone, while
\* its lists said all it used.
MadeStaysHeld ==
  (\A p \in Phone : Ascending(p)) =>
    \A p \in Phone : forgot[p] = {} =>
      \A n \in made[p] : \E i \in DOMAIN blocks : blocks[i].phone = p /\ n \in Held(blocks[i])
=============================================================================
