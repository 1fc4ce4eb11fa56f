--------------------------- MODULE NumberingProofs ---------------------------
(***************************************************************************)
(* For any number of phones, any length of series and any number of        *)
(* top-ups at once.  Whenever a phone reads its lists, the book balances:  *)
(* every number handed out is held by one block or handed back, once.      *)
(* A phone whose lists never came to say less used than they had makes no  *)
(* number it made before, and while every phone's blocks ascend no two     *)
(* such phones make one number.  The last two need nothing of the book's   *)
(* arithmetic: whatever runs it takes, the database's guards        *)
(* (RangesHold, NeverOverlap) stand at the commit.  The balance is that    *)
(* arithmetic, and that the series only moves on from where it was read.   *)
(***************************************************************************)
EXTENDS Numbering, Folding, TLAPS

(***************************************************************************)
(* The inductive invariant                                                 *)
(***************************************************************************)
\* A top-up has the fields of its stage.
Asked == {"stage", "phone", "awaited", "report"}
Shaped(t) ==
  \/ t = NoTopUp
  \/ t.stage = "asked" /\ DOMAIN t = Asked
  \/ t.stage = "series" /\ DOMAIN t = Asked \cup {"series"}
  \/ t.stage = "report" /\ DOMAIN t = Asked \cup {"series", "writes"}
  \/ t.stage = "book" /\ DOMAIN t = Asked \cup {"series", "writes", "taken"}
  \/ t.stage \in {"answered", "listed"} /\ DOMAIN t = {"stage", "phone", "awaited", "held"}
  \/ t.stage = "merging" /\ DOMAIN t = {"stage", "phone", "awaited", "held", "read"}

\* A block's last used number is one of its run's, or the one before them.
UsedWithin == \A i \in DOMAIN blocks : blocks[i].used + 1 \in blocks[i].first .. blocks[i].last + 1

Typed ==
  /\ NumberingTypeOK /\ UsedWithin
  /\ DOMAIN topUp = Sync /\ DOMAIN lists = Phone /\ DOMAIN giving = Phone
  /\ \A k \in Sync : Shaped(topUp[k])
  /\ \A p \in Phone : \A i \in DOMAIN lists[p] : lists[p][i] \in Nat

\* No number is held by two blocks.
Apart == \A i, j \in DOMAIN blocks : i # j => Held(blocks[i]) \cap Held(blocks[j]) = {}

\* A phone's blocks are issued while its key stands, and handed back only at its turn-in.
StatusOfKey ==
  \A i \in DOMAIN blocks :
    /\ blocks[i].status = "ISSUED" <=> key[blocks[i].phone] = "stands"
    /\ blocks[i].status = "RECLAIMED" => key[blocks[i].phone] = "turnedIn"

\* Lists a phone holds, was answered or read: of its own blocks.
TheirList(p, l) == ListOK(l) /\ \A i \in DOMAIN l : blocks[i].phone = p /\ l[i] \in Nat

\* A top-up at work has its phone's row, and is about that phone's blocks, as are the lists it
\* answered and those read to merge them into.
Own(t) ==
  t.stage # "none" =>
    /\ t.stage \in {"series", "report", "book"} => key[t.phone] = "stands"
    /\ t.stage \in {"report", "book"} => \A i \in DOMAIN t.writes : blocks[i].phone = t.phone
    /\ t.stage \in {"answered", "merging", "listed"} => TheirList(t.phone, t.held)
    /\ t.stage = "merging" => t.awaited /\ TheirList(t.phone, t.read)
    /\ t.awaited => key[t.phone] # "turnedIn"

TopUpsOwn == \A k \in Sync : Own(topUp[k])

\* A phone's list is of its own blocks.
ListsOwn ==
  \A p \in Phone : TheirList(p, lists[p]) /\ (key[p] = "turnedIn" => DOMAIN lists[p] = {})

\* A number a ticket is being opened under is new, and of a block the phone holds.
GivingNew ==
  \A p \in Phone : giving[p] # NoTicket =>
    /\ key[p] # "turnedIn"
    /\ giving[p].stage = "marking" => TheirList(p, giving[p].read)
    /\ forgot[p] = {} => /\ giving[p].number \notin made[p]
                        /\ \E i \in DOMAIN lists[p] : giving[p].number \in RunOf(blocks[i])

\* A number lies among the used ones of a block listed.
Listed(n, l) == \E i \in DOMAIN l : n >= blocks[i].first /\ n <= l[i]

\* A number a phone made is listed so until it is turned in, while its lists forgot nothing.
MadeListed ==
  \A p \in Phone : forgot[p] = {} /\ key[p] # "turnedIn" => \A n \in made[p] : Listed(n, lists[p])

NumberingInv ==
  /\ Typed /\ Apart /\ StatusOfKey /\ TopUpsOwn /\ ListsOwn /\ GivingNew
  /\ MadeListed /\ MadeStaysHeld

LEMMA NumberingInitInv == NumberingInit => NumberingInv
<1> SUFFICES ASSUME NumberingInit PROVE NumberingInv
  OBVIOUS
<1> USE NumberingAssumption DEF NumberingInit
<1>1. /\ blocks = <<>> /\ DOMAIN blocks = {}
      /\ \A p \in Phone : DOMAIN lists[p] = {} /\ made[p] = {} /\ giving[p] = NoTicket
  OBVIOUS
<1>2. \A k \in Sync : topUp[k] = NoTopUp
  OBVIOUS
<1>3. NumberingTypeOK
  <2>1. next \in 1 .. LastNumber + 1 /\ blocks \in Seq(Block)
    OBVIOUS
  <2>2. /\ key \in [Phone -> {"stands", "lapsed", "turnedIn"}] /\ made \in [Phone -> SUBSET Number]
        /\ forgot \in [Phone -> SUBSET {"overtaken", "readAnew"}]
    OBVIOUS
  <2> QED
    BY <1>1, <1>2, <2>1, <2>2 DEF NumberingTypeOK, TopUpOK, ListOK, GivingOK
<1>4. Typed
  BY <1>1, <1>2, <1>3 DEF Typed, Shaped, UsedWithin
<1>5. TopUpsOwn
  BY <1>2 DEF TopUpsOwn, Own, NoTopUp
<1> QED
  BY <1>1, <1>4, <1>5
  DEF NumberingInv, Apart, StatusOfKey, ListsOwn, TheirList, ListOK, GivingNew, MadeListed,
      MadeStaysHeld

(***************************************************************************)
(* What the pieces give                                                    *)
(***************************************************************************)
LEMMA LargerOf ==
  ASSUME NEW a \in Nat, NEW b \in Nat
  PROVE  Max({a, b}) \in {a, b} /\ Max({a, b}) >= a /\ Max({a, b}) >= b
<1>1. CASE a >= b
  BY <1>1 DEF Max
<1>2. CASE b >= a
  BY <1>2 DEF Max
<1> QED
  BY <1>1, <1>2

LEMMA BlockTypes ==
  ASSUME Typed
  PROVE  /\ DOMAIN blocks = 1 .. Len(blocks) /\ Len(blocks) \in Nat /\ LastNumber \in Nat
         /\ \A i \in DOMAIN blocks :
              /\ i \in Nat /\ blocks[i] \in Block
              /\ blocks[i].phone \in Phone /\ blocks[i].first \in Nat /\ blocks[i].last \in Nat
              /\ blocks[i].first >= 1 /\ blocks[i].last <= LastNumber
              /\ blocks[i].used \in Nat /\ blocks[i].used <= blocks[i].last
              /\ blocks[i].used + 1 >= blocks[i].first
              /\ blocks[i].status \in {"ISSUED", "RECLAIMED", "RETIRED"}
         /\ \A p \in Phone : \A i \in DOMAIN lists[p] :
              /\ i \in DOMAIN blocks /\ lists[p][i] \in Nat
              /\ lists[p][i] + 1 >= blocks[i].first /\ lists[p][i] <= blocks[i].last
<1> USE NumberingAssumption
<1>1. blocks \in Seq(Block)
  BY DEF Typed, NumberingTypeOK
<1>2. \A i \in DOMAIN blocks : blocks[i] \in Block /\ i \in Nat
  BY <1>1
<1>3. \A i \in DOMAIN blocks :
        /\ blocks[i].phone \in Phone /\ blocks[i].first \in Nat /\ blocks[i].last \in Nat
        /\ blocks[i].first >= 1 /\ blocks[i].last <= LastNumber
        /\ blocks[i].used \in Nat
        /\ blocks[i].status \in {"ISSUED", "RECLAIMED", "RETIRED"}
  BY <1>2 DEF Block, Number
<1>4. \A i \in DOMAIN blocks :
        blocks[i].used <= blocks[i].last /\ blocks[i].used + 1 >= blocks[i].first
  BY <1>3 DEF Typed, UsedWithin
<1>5. \A p \in Phone : \A i \in DOMAIN lists[p] :
        /\ i \in DOMAIN blocks /\ lists[p][i] \in Nat
        /\ lists[p][i] + 1 >= blocks[i].first /\ lists[p][i] <= blocks[i].last
  <2>1. ASSUME NEW p \in Phone, NEW i \in DOMAIN lists[p]
        PROVE  i \in DOMAIN blocks /\ lists[p][i] \in Nat
               /\ lists[p][i] + 1 \in blocks[i].first .. blocks[i].last + 1
    BY DEF Typed, NumberingTypeOK, ListOK
  <2> QED
    BY <1>3, <2>1
<1> QED
  BY <1>1, <1>2, <1>3, <1>4, <1>5

\* What a phone's list gives of each block it names.
LEMMA TheirListGives ==
  ASSUME Typed, NEW p \in Phone, NEW l, TheirList(p, l)
  PROVE  \A i \in DOMAIN l :
           /\ i \in DOMAIN blocks /\ l[i] \in Nat /\ blocks[i].phone = p
           /\ l[i] + 1 >= blocks[i].first /\ l[i] <= blocks[i].last
<1>1. \A i \in DOMAIN l : i \in DOMAIN blocks /\ l[i] + 1 \in blocks[i].first .. blocks[i].last + 1
                           /\ l[i] \in Nat /\ blocks[i].phone = p
  BY DEF TheirList, ListOK
<1> QED
  BY <1>1, BlockTypes

\* A block is held whole but where it was handed back.
LEMMA HeldWhole ==
  ASSUME Typed, NEW i \in DOMAIN blocks
  PROVE  /\ Held(blocks[i]) \subseteq RunOf(blocks[i])
         /\ blocks[i].status # "RECLAIMED" => Held(blocks[i]) = RunOf(blocks[i])
         /\ Held(blocks[i]) \subseteq Nat
  BY BlockTypes DEF Held, HeldRun, RunOf

\* What a report makes of a block's last used number.
LEMMA ReportedWithin ==
  ASSUME Typed, NEW p \in Phone, NEW report \in 0 .. LastNumber, NEW i \in DOMAIN blocks
  PROVE  /\ Reported(p, report, i) \in 0 .. LastNumber
         /\ Reported(p, report, i) + 1 \in blocks[i].first .. blocks[i].last + 1
         /\ Reported(p, report, i) # blocks[i].used => Reported(p, report, i) \in RunOf(blocks[i])
<1>1. /\ blocks[i].first \in Nat /\ blocks[i].last \in Nat /\ blocks[i].used \in Nat
      /\ blocks[i].used <= blocks[i].last /\ blocks[i].used + 1 >= blocks[i].first
      /\ LastNumber \in Nat /\ blocks[i].last <= LastNumber
  BY BlockTypes
<1>2. report \in RunOf(blocks[i]) =>
        /\ Max({report, blocks[i].used}) \in RunOf(blocks[i])
  BY <1>1, LargerOf DEF RunOf
<1>3. \/ Reported(p, report, i) = blocks[i].used
      \/ Reported(p, report, i) = blocks[i].last
      \/ report \in RunOf(blocks[i]) /\ Reported(p, report, i) = Max({report, blocks[i].used})
  BY DEF Reported
<1> QED
  BY <1>1, <1>2, <1>3 DEF RunOf

\* What a top-up no longer awaited keeps.
LEMMA AwaitedOff ==
  ASSUME NEW t, Shaped(t), t # NoTopUp
  PROVE  LET u == [t EXCEPT !.awaited = FALSE]
         IN  /\ Shaped(u) /\ u # NoTopUp /\ u.stage = t.stage /\ u.phone = t.phone
             /\ u.awaited = FALSE
             /\ t.stage \in {"asked", "series", "report", "book"} => u.report = t.report
             /\ t.stage \in {"series", "report", "book"} => u.series = t.series
             /\ t.stage \in {"report", "book"} => u.writes = t.writes
             /\ t.stage = "book" => u.taken = t.taken
             /\ t.stage \in {"answered", "merging", "listed"} => u.held = t.held
             /\ t.stage = "merging" => u.read = t.read
<1>1. CASE t.stage = "asked"
  BY <1>1 DEF Shaped, NoTopUp, Asked
<1>2. CASE t.stage = "series"
  BY <1>2 DEF Shaped, NoTopUp, Asked
<1>3. CASE t.stage = "report"
  BY <1>3 DEF Shaped, NoTopUp, Asked
<1>4. CASE t.stage = "book"
  BY <1>4 DEF Shaped, NoTopUp, Asked
<1>5. CASE t.stage \in {"answered", "listed"}
  BY <1>5 DEF Shaped, NoTopUp, Asked
<1>6. CASE t.stage = "merging"
  BY <1>6 DEF Shaped, NoTopUp, Asked
<1> QED
  BY <1>1, <1>2, <1>3, <1>4, <1>5, <1>6 DEF Shaped

LEMMA ShapedStage ==
  ASSUME NEW t, Shaped(t)
  PROVE  /\ t.stage \in {"none", "asked", "series", "report", "book", "answered", "merging", "listed"}
         /\ t.stage = "none" <=> t = NoTopUp
  BY DEF Shaped, NoTopUp

(***************************************************************************)
(* The steps that change one top-up and nothing else                       *)
(***************************************************************************)
LEMMA TopUpSet ==
  ASSUME NumberingInv, NEW k \in Sync, NEW u, topUp' = [topUp EXCEPT ![k] = u],
         UNCHANGED <<serverVars, phoneVars>>,
         Shaped(u), TopUpOK(u), Own(u)
  PROVE  NumberingInv'
<1> USE DEF serverVars, phoneVars
<1>1. \A m \in Sync : topUp'[m] = IF m = k THEN u ELSE topUp[m]
  BY DEF NumberingInv, Typed
<1>2. NumberingTypeOK'
  <2>1. \A m \in Sync : TopUpOK(topUp'[m])
    BY <1>1 DEF NumberingInv, Typed, NumberingTypeOK
  <2>2. \A m \in Sync : TopUpOK(topUp[m])'
    BY <2>1 DEF TopUpOK, ListOK
  <2> QED
    BY <2>2 DEF NumberingInv, Typed, NumberingTypeOK, ListOK, GivingOK
<1>3. Typed'
  BY <1>1, <1>2 DEF NumberingInv, Typed, UsedWithin
<1>4. \A m \in Sync : Own(topUp[m]) /\ Shaped(topUp[m])
  BY DEF NumberingInv, TopUpsOwn, Typed
<1>5. \A m \in Sync : Own(topUp'[m])
  BY <1>1, <1>4
<1>6. TopUpsOwn'
  BY <1>5 DEF TopUpsOwn, Own, TheirList, ListOK
<1>7. ListsOwn' /\ GivingNew' /\ MadeListed'
  BY DEF NumberingInv, ListsOwn, GivingNew, MadeListed, Listed, TheirList, ListOK
<1> QED
  BY <1>3, <1>6, <1>7 DEF NumberingInv, Apart, StatusOfKey, MadeStaysHeld, Ascending

LEMMA AsksInv ==
  ASSUME NumberingInv, NEW p \in Phone, NEW k \in Sync, Asks(p, k)
  PROVE  NumberingInv'
<1>1. PICK report \in 0 .. LastNumber :
        topUp' = [topUp EXCEPT ![k] =
                    [stage |-> "asked", phone |-> p, awaited |-> TRUE, report |-> report]]
  BY DEF Asks
<1>2. PICK u : u = [stage |-> "asked", phone |-> p, awaited |-> TRUE, report |-> report]
  OBVIOUS
<1>3. Shaped(u) /\ TopUpOK(u)
  BY <1>2 DEF Shaped, Asked, TopUpOK
<1>4. Own(u)
  BY <1>2 DEF Own, Asks
<1>5. UNCHANGED <<serverVars, phoneVars>>
  BY <1>2 DEF Asks
<1> QED
  BY <1>1, <1>2, <1>3, <1>4, <1>5, TopUpSet

LEMMA StopsWaitingInv ==
  ASSUME NumberingInv, NEW k \in Sync, StopsWaiting(k)
  PROVE  NumberingInv'
<1>1. PICK t : t = topUp[k]
  OBVIOUS
<1>2. PICK u : u = [t EXCEPT !.awaited = FALSE]
  OBVIOUS
<1>3. /\ Shaped(t) /\ TopUpOK(t) /\ Own(t) /\ t # NoTopUp /\ t.stage \notin {"merging", "listed"}
  BY <1>1 DEF NumberingInv, Typed, TopUpsOwn, NumberingTypeOK, StopsWaiting, NoTopUp
<1>4. topUp' = [topUp EXCEPT ![k] = u] /\ UNCHANGED <<serverVars, phoneVars>>
  BY <1>1, <1>2 DEF StopsWaiting
<1>5. /\ Shaped(u) /\ u # NoTopUp /\ u.stage = t.stage /\ u.phone = t.phone /\ u.awaited = FALSE
      /\ t.stage \in {"asked", "series", "report", "book"} => u.report = t.report
      /\ t.stage \in {"series", "report", "book"} => u.series = t.series
      /\ t.stage \in {"report", "book"} => u.writes = t.writes
      /\ t.stage = "answered" => u.held = t.held
  BY <1>2, <1>3, AwaitedOff
<1>6. TopUpOK(u) /\ Own(u)
  BY <1>3, <1>5 DEF TopUpOK, Own
<1> QED
  BY <1>4, <1>5, <1>6, TopUpSet

LEMMA ReadsSeriesInv ==
  ASSUME NumberingInv, NEW k \in Sync, ReadsSeries(k)
  PROVE  NumberingInv'
<1>1. PICK t : t = topUp[k]
  OBVIOUS
<1>2. PICK u : u = [stage |-> "series", phone |-> t.phone, awaited |-> t.awaited,
                    report |-> t.report, series |-> next]
  OBVIOUS
<1>3. TopUpOK(t) /\ Own(t) /\ t # NoTopUp /\ t.stage = "asked" /\ key[t.phone] = "stands"
  BY <1>1 DEF NumberingInv, Typed, TopUpsOwn, NumberingTypeOK, ReadsSeries
<1>4. topUp' = [topUp EXCEPT ![k] = u] /\ UNCHANGED <<serverVars, phoneVars>>
  BY <1>1, <1>2 DEF ReadsSeries
<1>5. Shaped(u) /\ TopUpOK(u) /\ Own(u)
  <2>1. next \in 1 .. LastNumber + 1
    BY DEF NumberingInv, Typed, NumberingTypeOK
  <2>2. Shaped(u)
    BY <1>2 DEF Shaped, Asked
  <2>3. TopUpOK(u)
    BY <1>2, <1>3, <2>1 DEF TopUpOK, NoTopUp
  <2>4. Own(u)
    BY <1>2, <1>3 DEF Own
  <2> QED
    BY <2>2, <2>3, <2>4
<1> QED
  BY <1>1, <1>2, <1>3, <1>4, <1>5, TopUpSet

LEMMA ReadsReportedInv ==
  ASSUME NumberingInv, NEW k \in Sync, ReadsReported(k)
  PROVE  NumberingInv'
<1>1. PICK t : t = topUp[k]
  OBVIOUS
<1>2. PICK w : w = Writes(t.phone, t.report)
  OBVIOUS
<1>3. PICK u : u = [stage |-> "report", phone |-> t.phone, awaited |-> t.awaited,
                    report |-> t.report, series |-> t.series, writes |-> w]
  OBVIOUS
<1>4. TopUpOK(t) /\ Own(t) /\ t # NoTopUp /\ t.stage = "series"
  BY <1>1 DEF NumberingInv, Typed, TopUpsOwn, NumberingTypeOK, ReadsReported
<1>5. topUp' = [topUp EXCEPT ![k] = u] /\ UNCHANGED <<serverVars, phoneVars>>
  BY <1>1, <1>2, <1>3 DEF ReadsReported
<1>6. t.phone \in Phone /\ t.report \in 0 .. LastNumber
  BY <1>4 DEF TopUpOK, NoTopUp
<1>7. /\ DOMAIN w \subseteq HeldBy(blocks, t.phone)
      /\ \A i \in DOMAIN w : w[i] = Reported(t.phone, t.report, i) /\ w[i] # blocks[i].used
  BY <1>2 DEF Writes
<1>8. /\ DOMAIN w \subseteq DOMAIN blocks
      /\ \A i \in DOMAIN w : w[i] \in RunOf(blocks[i]) /\ blocks[i].phone = t.phone
  BY <1>6, <1>7, ReportedWithin DEF HeldBy, NumberingInv
<1>9. Shaped(u)
  BY <1>3 DEF Shaped, Asked
<1>10. TopUpOK(u)
  BY <1>3, <1>4, <1>8 DEF TopUpOK, NoTopUp
<1>11. Own(u)
  BY <1>3, <1>4, <1>8 DEF Own
<1> QED
  BY <1>1, <1>3, <1>4, <1>5, <1>9, <1>10, <1>11, TopUpSet

LEMMA ReadsBookInv ==
  ASSUME NumberingInv, NEW k \in Sync, ReadsBook(k)
  PROVE  NumberingInv'
<1>1. PICK t : t = topUp[k]
  OBVIOUS
<1>2. PICK taken : topUp' = [topUp EXCEPT ![k] =
                     [stage |-> "book", phone |-> t.phone, awaited |-> t.awaited,
                      report |-> t.report, series |-> t.series, writes |-> t.writes,
                      taken |-> taken]]
  BY <1>1 DEF ReadsBook
<1>3. PICK u : u = [stage |-> "book", phone |-> t.phone, awaited |-> t.awaited,
                    report |-> t.report, series |-> t.series, writes |-> t.writes,
                    taken |-> taken]
  OBVIOUS
<1>4. /\ TopUpOK(t) /\ Own(t) /\ t # NoTopUp /\ t.stage = "report"
      /\ UNCHANGED <<serverVars, phoneVars>>
  BY <1>1 DEF NumberingInv, Typed, TopUpsOwn, NumberingTypeOK, ReadsBook
<1>5. Shaped(u) /\ TopUpOK(u) /\ Own(u)
  <2>1. Shaped(u)
    BY <1>3 DEF Shaped, Asked
  <2>2. TopUpOK(u)
    BY <1>3, <1>4 DEF TopUpOK, NoTopUp
  <2>3. Own(u)
    BY <1>3, <1>4 DEF Own
  <2> QED
    BY <2>1, <2>2, <2>3
<1> QED
  BY <1>1, <1>2, <1>3, <1>4, <1>5, TopUpSet

LEMMA SeriesMovedOnInv ==
  ASSUME NumberingInv, NEW k \in Sync, SeriesMovedOn(k)
  PROVE  NumberingInv'
<1>1. PICK t : t = topUp[k]
  OBVIOUS
<1>2. PICK u : u = [stage |-> "asked", phone |-> t.phone, awaited |-> t.awaited,
                    report |-> t.report]
  OBVIOUS
<1>3. /\ TopUpOK(t) /\ Own(t) /\ t # NoTopUp /\ t.stage = "book"
      /\ UNCHANGED <<serverVars, phoneVars>> /\ topUp' = [topUp EXCEPT ![k] = u]
  BY <1>1, <1>2 DEF NumberingInv, Typed, TopUpsOwn, NumberingTypeOK, SeriesMovedOn
<1>4. Shaped(u) /\ TopUpOK(u) /\ Own(u)
  <2>1. Shaped(u)
    BY <1>2 DEF Shaped, Asked
  <2>2. TopUpOK(u)
    BY <1>2, <1>3 DEF TopUpOK, NoTopUp
  <2>3. Own(u)
    BY <1>2, <1>3 DEF Own
  <2> QED
    BY <2>1, <2>2, <2>3
<1> QED
  BY <1>1, <1>2, <1>3, <1>4, TopUpSet

LEMMA EndsInv ==
  ASSUME NumberingInv, NEW k \in Sync, Ends(k)
  PROVE  NumberingInv'
<1>1. Shaped(NoTopUp) /\ TopUpOK(NoTopUp) /\ Own(NoTopUp) /\ NoTopUp.stage = "none"
  BY DEF Shaped, TopUpOK, Own, NoTopUp
<1>2. topUp' = [topUp EXCEPT ![k] = NoTopUp] /\ UNCHANGED <<serverVars, phoneVars>>
  BY DEF Ends
<1> QED
  BY <1>1, <1>2, TopUpSet

(***************************************************************************)
(* The phone's steps                                                       *)
(***************************************************************************)
\* What reading the lists, or choosing a number, changes: what the phone is opening.
LEMMA GivingSet ==
  ASSUME NumberingInv, NEW p \in Phone, NEW g, giving' = [giving EXCEPT ![p] = g],
         UNCHANGED <<serverVars, topUp, lists, made, forgot>>, GivingOK(g),
         g # NoTicket =>
           /\ key[p] # "turnedIn"
           /\ g.stage = "marking" => TheirList(p, g.read)
           /\ forgot[p] = {} => /\ g.number \notin made[p]
                               /\ \E i \in DOMAIN lists[p] : g.number \in RunOf(blocks[i])
  PROVE  NumberingInv'
<1> USE DEF serverVars
<1>1. \A q \in Phone : giving'[q] = IF q = p THEN g ELSE giving[q]
  BY DEF NumberingInv, Typed
<1>2. \A q \in Phone : GivingOK(giving'[q])
  BY <1>1 DEF NumberingInv, Typed, NumberingTypeOK
<1>3. NumberingTypeOK'
  <2>1. \A q \in Phone : GivingOK(giving[q])'
    BY <1>2 DEF GivingOK, ListOK
  <2>2. \A k \in Sync : TopUpOK(topUp[k])'
    BY DEF NumberingInv, Typed, NumberingTypeOK, TopUpOK, ListOK
  <2> QED
    BY <2>1, <2>2 DEF NumberingInv, Typed, NumberingTypeOK, ListOK
<1>4. Typed'
  BY <1>3 DEF NumberingInv, Typed, UsedWithin
<1>5. GivingNew'
  <2>1. \A q \in Phone : giving'[q] # NoTicket =>
          /\ key[q] # "turnedIn"
          /\ giving'[q].stage = "marking" => TheirList(q, giving'[q].read)
          /\ forgot[q] = {} => /\ giving'[q].number \notin made[q]
                              /\ \E i \in DOMAIN lists[q] : giving'[q].number \in RunOf(blocks[i])
    BY <1>1 DEF NumberingInv, GivingNew
  <2> QED
    BY <2>1 DEF GivingNew, TheirList, ListOK
<1>6. TopUpsOwn' /\ ListsOwn' /\ MadeListed'
  BY DEF NumberingInv, TopUpsOwn, Own, ListsOwn, MadeListed, Listed, TheirList, ListOK
<1> QED
  BY <1>4, <1>5, <1>6 DEF NumberingInv, Apart, StatusOfKey, MadeStaysHeld, Ascending

\* A list changed: of the phone's own blocks, every number it made among the used ones, and what
\* it is opening a ticket under of a block of them, unless it forgets.
ListChange(p, l) ==
  /\ UNCHANGED serverVars /\ lists' = [lists EXCEPT ![p] = l] /\ key[p] # "turnedIn"
  /\ TheirList(p, l)
  /\ made' \in [Phone -> SUBSET Number] /\ \A q \in Phone \ {p} : made'[q] = made[q]
  /\ forgot' \in [Phone -> SUBSET {"overtaken", "readAnew"}]
  /\ \A q \in Phone \ {p} : forgot'[q] = forgot[q]
  /\ forgot'[p] = {} => forgot[p] = {} /\ \A n \in made'[p] : Listed(n, l)
  /\ DOMAIN giving' = Phone /\ \A q \in Phone \ {p} : giving'[q] = giving[q]
  /\ \/ giving'[p] = NoTicket
     \/ /\ giving'[p] = giving[p] /\ made'[p] = made[p]
        /\ forgot'[p] = {} => DOMAIN lists[p] \subseteq DOMAIN l
  /\ DOMAIN topUp' = Sync /\ \A k \in Sync : topUp'[k] = topUp[k] \/ topUp'[k] = NoTopUp

LEMMA ListSet ==
  ASSUME NumberingInv, NEW p \in Phone, NEW l, ListChange(p, l)
  PROVE  NumberingInv'
<1> USE DEF serverVars, ListChange
<1>1. \A q \in Phone : lists'[q] = IF q = p THEN l ELSE lists[q]
  BY DEF NumberingInv, Typed
<1>2. NoTopUp.stage = "none"
  BY DEF NoTopUp
<1>3. /\ \A q \in Phone : TheirList(q, lists'[q]) /\ GivingOK(giving'[q])
      /\ \A k \in Sync : TopUpOK(topUp'[k]) /\ Own(topUp'[k]) /\ Shaped(topUp'[k])
  <2>1. \A q \in Phone : TheirList(q, lists'[q])
    BY <1>1 DEF NumberingInv, ListsOwn
  <2>2. \A q \in Phone : GivingOK(giving'[q])
    BY DEF NumberingInv, Typed, NumberingTypeOK, GivingOK
  <2>3. \A k \in Sync : TopUpOK(topUp[k]) /\ Own(topUp[k]) /\ Shaped(topUp[k])
    BY DEF NumberingInv, Typed, NumberingTypeOK, TopUpsOwn
  <2>4. TopUpOK(NoTopUp) /\ Own(NoTopUp) /\ Shaped(NoTopUp)
    BY <1>2 DEF TopUpOK, Own, Shaped
  <2> QED
    BY <2>1, <2>2, <2>3, <2>4
<1>4. Typed'
  <2>1. /\ \A q \in Phone : TheirList(q, lists[q])' /\ ListOK(lists[q])' /\ GivingOK(giving[q])'
        /\ \A k \in Sync : TopUpOK(topUp[k])'
    BY <1>3 DEF TheirList, ListOK, GivingOK, TopUpOK
  <2>2. NumberingTypeOK'
    BY <2>1 DEF NumberingInv, Typed, NumberingTypeOK
  <2>3. \A q \in Phone : \A i \in DOMAIN lists'[q] : lists'[q][i] \in Nat
    BY <1>3 DEF TheirList
  <2>4. DOMAIN lists' = Phone
    BY DEF NumberingInv, Typed
  <2> QED
    BY <1>3, <2>2, <2>3, <2>4 DEF NumberingInv, Typed, UsedWithin
<1>5. TopUpsOwn'
  BY <1>3 DEF TopUpsOwn, Own, TheirList, ListOK
<1>6. ListsOwn'
  BY <1>1, <1>3 DEF NumberingInv, ListsOwn, TheirList, ListOK
<1>7. MadeListed'
  BY <1>1 DEF NumberingInv, MadeListed, Listed
<1>8. Apart' /\ StatusOfKey'
  BY DEF NumberingInv, Apart, StatusOfKey
<1>9. GivingNew'
  <2>1. \A q \in Phone \ {p} : giving[q] # NoTicket =>
          /\ key[q] # "turnedIn"
          /\ giving[q].stage = "marking" => TheirList(q, giving[q].read)
          /\ forgot[q] = {} => /\ giving[q].number \notin made[q]
                              /\ \E i \in DOMAIN lists[q] : giving[q].number \in RunOf(blocks[i])
    BY DEF NumberingInv, GivingNew
  <2>2. giving'[p] # NoTicket =>
          /\ key[p] # "turnedIn"
          /\ giving'[p].stage = "marking" => TheirList(p, giving'[p].read)
          /\ forgot'[p] = {} => /\ giving'[p].number \notin made'[p]
                              /\ \E i \in DOMAIN l : giving'[p].number \in RunOf(blocks[i])
    BY DEF NumberingInv, GivingNew
  <2> QED
    BY <1>1, <2>1, <2>2 DEF GivingNew, TheirList, ListOK
<1>10. MadeStaysHeld'
  <2> SUFFICES ASSUME NEW q \in Phone, forgot'[q] = {}, NEW n \in made'[q],
                      \A r \in Phone : Ascending(r)'
               PROVE  \E i \in DOMAIN blocks : blocks[i].phone = q /\ n \in Held(blocks[i])
    BY DEF MadeStaysHeld
  <2>1. CASE q # p
    <3>1. n \in made[q] /\ forgot[q] = {} /\ \A r \in Phone : Ascending(r)
      BY <2>1 DEF Ascending
    <3> QED
      BY <3>1 DEF NumberingInv, MadeStaysHeld
  <2>2. CASE q = p
    <3>1. PICK i \in DOMAIN l : n >= blocks[i].first /\ n <= l[i]
      BY <2>2 DEF Listed
    <3>2. i \in DOMAIN blocks /\ blocks[i].phone = p /\ l[i] \in Nat /\ n \in Nat /\ l[i] <= blocks[i].last
      <4>1. n \in Nat
        BY NumberingAssumption DEF Number
      <4>2. Typed
        BY DEF NumberingInv
      <4> QED
        BY <4>1, <4>2, TheirListGives
    <3>3. Held(blocks[i]) = RunOf(blocks[i])
      BY <3>2, HeldWhole DEF NumberingInv, StatusOfKey
    <3>4. n \in RunOf(blocks[i])
      BY <3>1, <3>2, BlockTypes DEF RunOf, NumberingInv
    <3> QED
      BY <2>2, <3>2, <3>3, <3>4
  <2> QED
    BY <2>1, <2>2
<1> QED
  BY <1>4, <1>5, <1>6, <1>7, <1>8, <1>9, <1>10 DEF NumberingInv

LEMMA NumberChosenInv ==
  ASSUME NumberingInv, NEW p \in Phone, NumberChosen(p)
  PROVE  NumberingInv'
<1>1. PICK i \in DOMAIN lists[p] :
        /\ key[p] # "turnedIn" /\ lists[p][i] < blocks[i].last
        /\ giving' = [giving EXCEPT ![p] = [stage |-> "number", number |-> lists[p][i] + 1]]
        /\ UNCHANGED <<serverVars, topUp, lists, made, forgot>>
  BY DEF NumberChosen
<1>2. PICK g : g = [stage |-> "number", number |-> lists[p][i] + 1]
  OBVIOUS
<1>3. \A j \in DOMAIN lists[p] :
        /\ j \in DOMAIN blocks /\ lists[p][j] \in Nat
        /\ lists[p][j] + 1 >= blocks[j].first /\ lists[p][j] <= blocks[j].last
        /\ blocks[j].first \in Nat /\ blocks[j].last \in Nat /\ blocks[j].first >= 1
        /\ blocks[j].last <= LastNumber
        /\ Held(blocks[j]) = RunOf(blocks[j])
  BY <1>1, BlockTypes, HeldWhole DEF NumberingInv, ListsOwn, TheirList, StatusOfKey
<1>4. g.number \in Number /\ g.number \in RunOf(blocks[i])
  BY <1>1, <1>2, <1>3, NumberingAssumption DEF Number, RunOf
<1>5. forgot[p] = {} => g.number \notin made[p]
  <2> SUFFICES ASSUME forgot[p] = {}, g.number \in made[p] PROVE FALSE
    OBVIOUS
  <2>1. PICK j \in DOMAIN lists[p] : g.number >= blocks[j].first /\ g.number <= lists[p][j]
    BY <1>1 DEF NumberingInv, MadeListed, Listed
  <2>2. g.number \in RunOf(blocks[j]) /\ i # j
    BY <1>2, <1>3, <2>1 DEF RunOf
  <2> QED
    BY <1>3, <1>4, <2>2 DEF NumberingInv, Apart
<1> QED
  BY <1>1, <1>2, <1>4, <1>5, GivingSet DEF GivingOK

LEMMA ReadsToMarkInv ==
  ASSUME NumberingInv, NEW p \in Phone, ReadsToMark(p)
  PROVE  NumberingInv'
<1>1. PICK g : g = [stage |-> "marking", number |-> giving[p].number, read |-> lists[p]]
  OBVIOUS
<1>2. /\ giving[p].stage = "number" /\ giving' = [giving EXCEPT ![p] = g]
      /\ UNCHANGED <<serverVars, topUp, lists, made, forgot>>
  BY <1>1 DEF ReadsToMark
<1>3. giving[p] # NoTicket /\ giving[p].number \in Number
  BY <1>2 DEF NumberingInv, Typed, NumberingTypeOK, GivingOK, NoTicket
<1>4. TheirList(p, g.read) /\ ListOK(g.read)
  BY <1>1 DEF NumberingInv, ListsOwn, TheirList
<1>5. GivingOK(g)
  BY <1>1, <1>3, <1>4 DEF GivingOK
<1>6. /\ key[p] # "turnedIn"
      /\ forgot[p] = {} => /\ g.number \notin made[p]
                          /\ \E i \in DOMAIN lists[p] : g.number \in RunOf(blocks[i])
  BY <1>1, <1>3 DEF NumberingInv, GivingNew
<1> QED
  BY <1>2, <1>4, <1>5, <1>6, GivingSet

\* Lists marked are of the same blocks, each no less used, the number's block as far as it.
LEMMA MarkedGives ==
  ASSUME NumberingInv, NEW p \in Phone, NEW read, TheirList(p, read), NEW n \in Number
  PROVE  LET l == Marked(read, n) IN
         /\ TheirList(p, l) /\ DOMAIN l = DOMAIN read
         /\ \A i \in DOMAIN l : l[i] >= read[i] /\ (n \in RunOf(blocks[i]) => n <= l[i])
<1>1. PICK l : l = Marked(read, n)
  OBVIOUS
<1>2. /\ DOMAIN l = DOMAIN read
      /\ \A i \in DOMAIN l :
           l[i] = IF n \in RunOf(blocks[i]) THEN Max({n, read[i]}) ELSE read[i]
  BY <1>1 DEF Marked
<1>3. n \in Nat
  BY NumberingAssumption DEF Number
<1>4. ASSUME NEW i \in DOMAIN l
      PROVE  /\ i \in DOMAIN blocks /\ blocks[i].phone = p
             /\ l[i] \in Nat /\ l[i] >= read[i] /\ (n \in RunOf(blocks[i]) => n <= l[i])
             /\ l[i] + 1 \in blocks[i].first .. blocks[i].last + 1
  <2>1. /\ i \in DOMAIN blocks /\ read[i] \in Nat /\ blocks[i].phone = p
        /\ read[i] + 1 >= blocks[i].first /\ read[i] <= blocks[i].last
        /\ blocks[i].first \in Nat /\ blocks[i].last \in Nat
    BY <1>2, <1>4, TheirListGives, BlockTypes DEF NumberingInv
  <2>2. CASE n \in RunOf(blocks[i])
    <3>1. /\ l[i] \in {n, read[i]} /\ l[i] >= n /\ l[i] >= read[i]
      BY <1>2, <1>3, <1>4, <2>1, <2>2, LargerOf
    <3> QED
      BY <1>3, <2>1, <2>2, <3>1 DEF RunOf
  <2>3. CASE n \notin RunOf(blocks[i])
    <3>1. l[i] = read[i]
      BY <1>2, <1>4, <2>3
    <3> QED
      BY <2>1, <2>3, <3>1
  <2> QED
    BY <2>1, <2>2, <2>3
<1>5. TheirList(p, l)
  BY <1>4 DEF TheirList, ListOK
<1> QED
  BY <1>1, <1>2, <1>4, <1>5

LEMMA GivesInv ==
  ASSUME NumberingInv, NEW p \in Phone, Gives(p)
  PROVE  NumberingInv'
<1>1. PICK g : g = giving[p]
  OBVIOUS
<1>2. PICK l : l = Marked(g.read, g.number)
  OBVIOUS
<1>3. PICK how : how = Overtakes(p, g.read)
  OBVIOUS
<1>4. /\ g.stage = "marking" /\ lists' = [lists EXCEPT ![p] = l]
      /\ made' = [made EXCEPT ![p] = @ \cup {g.number}]
      /\ forgot' = [forgot EXCEPT ![p] = @ \cup how]
      /\ giving' = [giving EXCEPT ![p] = NoTicket]
      /\ UNCHANGED <<serverVars, topUp>>
  BY <1>1, <1>2, <1>3 DEF Gives, Forgets
<1>5. g # NoTicket /\ g.number \in Number
  BY <1>1, <1>4 DEF NumberingInv, Typed, NumberingTypeOK, GivingOK, NoTicket
<1>6. /\ key[p] # "turnedIn" /\ TheirList(p, g.read)
      /\ forgot[p] = {} => \E i \in DOMAIN lists[p] : g.number \in RunOf(blocks[i])
  BY <1>1, <1>4, <1>5 DEF NumberingInv, GivingNew
<1>7. /\ TheirList(p, l) /\ DOMAIN l = DOMAIN g.read
      /\ \A i \in DOMAIN l : l[i] >= g.read[i] /\ (g.number \in RunOf(blocks[i]) => g.number <= l[i])
  BY <1>2, <1>5, <1>6, MarkedGives
<1>8. made \in [Phone -> SUBSET Number] /\ forgot \in [Phone -> SUBSET {"overtaken", "readAnew"}]
  BY DEF NumberingInv, Typed, NumberingTypeOK
<1>9. /\ made' \in [Phone -> SUBSET Number] /\ \A q \in Phone \ {p} : made'[q] = made[q]
      /\ made'[p] = made[p] \cup {g.number}
  BY <1>4, <1>5, <1>8
<1>10. /\ forgot' \in [Phone -> SUBSET {"overtaken", "readAnew"}]
       /\ \A q \in Phone \ {p} : forgot'[q] = forgot[q]
       /\ forgot'[p] = forgot[p] \cup how
  BY <1>3, <1>4, <1>8 DEF Overtakes
<1>11. ASSUME forgot'[p] = {}
       PROVE  forgot[p] = {} /\ \A n \in made'[p] : Listed(n, l)
  <2>1. forgot[p] = {} /\ g.read = lists[p]
    BY <1>3, <1>10, <1>11 DEF Overtakes
  <2>2. Listed(g.number, l)
    <3>1. PICK i \in DOMAIN lists[p] : g.number \in RunOf(blocks[i])
      BY <1>6, <2>1
    <3>2. g.number >= blocks[i].first
      BY <3>1, BlockTypes DEF RunOf, NumberingInv
    <3> QED
      BY <1>7, <2>1, <3>1, <3>2 DEF Listed
  <2>3. ASSUME NEW n \in made[p] PROVE Listed(n, l)
    <3>1. PICK i \in DOMAIN lists[p] : n >= blocks[i].first /\ n <= lists[p][i]
      BY <1>6, <2>1 DEF NumberingInv, MadeListed, Listed
    <3>2. i \in DOMAIN l /\ l[i] >= lists[p][i]
      BY <1>7, <2>1, <3>1
    <3>3. n \in Nat /\ l[i] \in Nat /\ lists[p][i] \in Nat
      BY <1>7, <1>8, <2>3, <3>1, <3>2, BlockTypes, NumberingAssumption
      DEF Number, TheirList, NumberingInv
    <3> QED
      BY <3>1, <3>2, <3>3 DEF Listed
  <2> QED
    BY <1>9, <2>1, <2>2, <2>3
<1>12. /\ DOMAIN topUp' = Sync /\ \A k \in Sync : topUp'[k] = topUp[k]
       /\ DOMAIN giving' = Phone /\ giving'[p] = NoTicket
       /\ \A q \in Phone \ {p} : giving'[q] = giving[q]
  BY <1>4 DEF NumberingInv, Typed
<1>13. ListChange(p, l)
  BY <1>4, <1>6, <1>7, <1>9, <1>10, <1>11, <1>12 DEF ListChange
<1> QED
  BY <1>13, ListSet

LEMMA ReadsToMergeInv ==
  ASSUME NumberingInv, NEW k \in Sync, ReadsToMerge(k)
  PROVE  NumberingInv'
<1>1. PICK t : t = topUp[k]
  OBVIOUS
<1>2. PICK u : u = [stage |-> "merging", phone |-> t.phone, awaited |-> TRUE,
                    held |-> t.held, read |-> lists[t.phone]]
  OBVIOUS
<1>3. /\ TopUpOK(t) /\ Own(t) /\ t # NoTopUp /\ t.stage = "answered" /\ t.awaited
      /\ UNCHANGED <<serverVars, phoneVars>> /\ topUp' = [topUp EXCEPT ![k] = u]
  BY <1>1, <1>2 DEF NumberingInv, Typed, TopUpsOwn, NumberingTypeOK, ReadsToMerge, NoTopUp
<1>4. t.phone \in Phone /\ key[t.phone] # "turnedIn" /\ TheirList(t.phone, t.held)
  BY <1>3 DEF TopUpOK, Own
<1>5. TheirList(t.phone, lists[t.phone])
  BY <1>4 DEF NumberingInv, ListsOwn
<1>6. Shaped(u) /\ TopUpOK(u) /\ Own(u)
  <2>1. Shaped(u)
    BY <1>2 DEF Shaped
  <2>2. TopUpOK(u)
    BY <1>2, <1>4, <1>5 DEF TopUpOK, TheirList
  <2>3. Own(u)
    BY <1>2, <1>4, <1>5 DEF Own
  <2> QED
    BY <2>1, <2>2, <2>3
<1> QED
  BY <1>3, <1>6, TopUpSet

LEMMA ListsAnsweredInv ==
  ASSUME NumberingInv, NEW p \in Phone, NEW k \in Sync, ListsAnswered(p, k)
  PROVE  NumberingInv'
<1>1. PICK held : held = AnswerOf(blocks, p)
  OBVIOUS
<1>2. PICK u : u = [stage |-> "listed", phone |-> p, awaited |-> TRUE, held |-> held]
  OBVIOUS
<1>3. /\ UNCHANGED <<serverVars, phoneVars>> /\ topUp' = [topUp EXCEPT ![k] = u]
      /\ key[p] = "stands"
  BY <1>1, <1>2 DEF ListsAnswered
<1>4. DOMAIN held = HeldBy(blocks, p) /\ \A i \in DOMAIN held : held[i] = blocks[i].used
  BY <1>1 DEF AnswerOf
<1>5. TheirList(p, held) /\ ListOK(held)
  BY <1>4, BlockTypes DEF HeldBy, NumberingInv, Typed, UsedWithin, TheirList, ListOK
<1>6. Shaped(u) /\ TopUpOK(u) /\ Own(u)
  BY <1>2, <1>3, <1>5 DEF Shaped, TopUpOK, Own
<1> QED
  BY <1>3, <1>6, TopUpSet

\* An answer taken: the top-up's, merged, or the lists read anew.
LEMMA AnswerTaken ==
  ASSUME NumberingInv, NEW k \in Sync, topUp[k].stage # "none", topUp[k].awaited,
         NEW l, TheirList(topUp[k].phone, l),
         NEW how \in SUBSET {"overtaken", "readAnew"},
         how = {} => SaysAll(l, lists[topUp[k].phone]),
         lists' = [lists EXCEPT ![topUp[k].phone] = l],
         forgot' = [forgot EXCEPT ![topUp[k].phone] = @ \cup how],
         topUp' = [topUp EXCEPT ![k] = NoTopUp],
         UNCHANGED <<serverVars, giving, made>>
  PROVE  NumberingInv'
<1>1. PICK p : p = topUp[k].phone
  OBVIOUS
<1>2. p \in Phone /\ key[p] # "turnedIn"
  <2>1. TopUpOK(topUp[k]) /\ Own(topUp[k])
    BY DEF NumberingInv, Typed, NumberingTypeOK, TopUpsOwn
  <2> QED
    BY <1>1, <2>1 DEF TopUpOK, Own, NoTopUp
<1>3. made \in [Phone -> SUBSET Number] /\ forgot \in [Phone -> SUBSET {"overtaken", "readAnew"}]
  BY DEF NumberingInv, Typed, NumberingTypeOK
<1>4. /\ forgot' \in [Phone -> SUBSET {"overtaken", "readAnew"}]
      /\ \A q \in Phone \ {p} : forgot'[q] = forgot[q]
      /\ forgot'[p] = forgot[p] \cup how
  BY <1>1, <1>2, <1>3
<1>5. ASSUME forgot'[p] = {}
      PROVE  /\ forgot[p] = {} /\ DOMAIN lists[p] \subseteq DOMAIN l
             /\ \A n \in made'[p] : Listed(n, l)
  <2>1. forgot[p] = {} /\ SaysAll(l, lists[p])
    BY <1>1, <1>4, <1>5
  <2>2. ASSUME NEW n \in made[p] PROVE Listed(n, l)
    <3>1. PICK i \in DOMAIN lists[p] : n >= blocks[i].first /\ n <= lists[p][i]
      BY <1>2, <2>1 DEF NumberingInv, MadeListed, Listed
    <3>2. i \in DOMAIN l /\ lists[p][i] <= l[i]
      BY <2>1, <3>1 DEF SaysAll
    <3>3. n \in Nat /\ l[i] \in Nat /\ lists[p][i] \in Nat
      BY <1>1, <1>2, <1>3, <2>2, <3>1, <3>2, BlockTypes, NumberingAssumption
      DEF Number, TheirList, NumberingInv
    <3> QED
      BY <3>1, <3>2, <3>3 DEF Listed
  <2> QED
    BY <2>1, <2>2 DEF SaysAll
<1>6. /\ DOMAIN topUp' = Sync /\ \A m \in Sync : topUp'[m] = topUp[m] \/ topUp'[m] = NoTopUp
      /\ DOMAIN giving' = Phone
  BY DEF NumberingInv, Typed
<1>7. ListChange(p, l)
  BY <1>1, <1>2, <1>3, <1>4, <1>5, <1>6 DEF ListChange
<1> QED
  BY <1>2, <1>7, ListSet

LEMMA ToppedUpInv ==
  ASSUME NumberingInv, NEW k \in Sync, ToppedUp(k)
  PROVE  NumberingInv'
<1>1. PICK t : t = topUp[k]
  OBVIOUS
<1>2. PICK l : l = [i \in DOMAIN t.held |->
                      IF i \in DOMAIN t.read THEN Merged(t.read[i], t.held[i]) ELSE t.held[i]]
  OBVIOUS
<1>3. PICK how : how = Overtakes(t.phone, t.read) \cup OlderThanRead(t.phone, t.held)
  OBVIOUS
<1>4. /\ lists' = [lists EXCEPT ![t.phone] = l] /\ topUp' = [topUp EXCEPT ![k] = NoTopUp]
      /\ forgot' = [forgot EXCEPT ![t.phone] = @ \cup how]
      /\ UNCHANGED <<serverVars, giving, made>> /\ t.stage = "merging"
  BY <1>1, <1>2, <1>3 DEF ToppedUp, Forgets
<1>5. /\ t.phone \in Phone /\ t.awaited
      /\ TheirList(t.phone, t.held) /\ TheirList(t.phone, t.read)
  <2>1. TopUpOK(t) /\ Own(t)
    BY <1>1 DEF NumberingInv, Typed, NumberingTypeOK, TopUpsOwn
  <2> QED
    BY <1>4, <2>1 DEF TopUpOK, Own, NoTopUp
<1>6. /\ DOMAIN l = DOMAIN t.held
      /\ \A i \in DOMAIN l : l[i] = t.held[i] \/ (i \in DOMAIN t.read /\ l[i] = t.read[i])
      /\ \A i \in DOMAIN t.read : i \in DOMAIN l => t.read[i] <= l[i]
  <2>1. \A i \in DOMAIN t.held : t.held[i] \in Nat
    BY <1>5 DEF TheirList
  <2>2. \A i \in DOMAIN t.read : t.read[i] \in Nat
    BY <1>5 DEF TheirList
  <2> QED
    BY <1>2, <2>1, <2>2 DEF Merged
<1>7. TheirList(t.phone, l)
  BY <1>5, <1>6 DEF TheirList, ListOK
<1>8. how \in SUBSET {"overtaken", "readAnew"}
  BY <1>3 DEF Overtakes, OlderThanRead
<1>9. how = {} => SaysAll(l, lists[t.phone])
  BY <1>3, <1>6 DEF Overtakes, OlderThanRead, SaysAll
<1> QED
  BY <1>1, <1>4, <1>5, <1>7, <1>8, <1>9, AnswerTaken

LEMMA ListsReadInv ==
  ASSUME NumberingInv, NEW k \in Sync, ListsRead(k)
  PROVE  NumberingInv'
<1>1. PICK t : t = topUp[k]
  OBVIOUS
<1>2. PICK how : how = IF SaysAll(t.held, lists[t.phone]) THEN {} ELSE {"readAnew"}
  OBVIOUS
<1>3. /\ lists' = [lists EXCEPT ![t.phone] = t.held] /\ topUp' = [topUp EXCEPT ![k] = NoTopUp]
      /\ forgot' = [forgot EXCEPT ![t.phone] = @ \cup how]
      /\ UNCHANGED <<serverVars, giving, made>> /\ t.stage = "listed" /\ t.awaited
  BY <1>1, <1>2 DEF ListsRead, Forgets
<1>4. TheirList(t.phone, t.held)
  BY <1>1, <1>3 DEF NumberingInv, TopUpsOwn, Own
<1>5. how \in SUBSET {"overtaken", "readAnew"} /\ (how = {} => SaysAll(t.held, lists[t.phone]))
  BY <1>2
<1> QED
  BY <1>1, <1>3, <1>4, <1>5, AnswerTaken

(***************************************************************************)
(* The server's steps on the blocks                                        *)
(***************************************************************************)
\* What a block is never loses: whose it is, and its run.
LEMMA AscendingBack ==
  ASSUME Typed, DOMAIN blocks \subseteq DOMAIN blocks',
         \A i \in DOMAIN blocks : /\ blocks'[i].phone = blocks[i].phone
                                  /\ blocks'[i].first = blocks[i].first
                                  /\ blocks'[i].last = blocks[i].last,
         NEW p \in Phone, Ascending(p)'
  PROVE  Ascending(p)
  BY DEF Ascending

LEMMA Joined ==
  ASSUME NEW S, NEW a \in Seq(S), NEW b \in Seq(S)
  PROVE  /\ a \o b \in Seq(S) /\ DOMAIN (a \o b) = 1 .. Len(a) + Len(b)
         /\ \A i \in 1 .. Len(a) : (a \o b)[i] = a[i]
         /\ \A j \in Len(a) + 1 .. Len(a) + Len(b) : (a \o b)[j] = b[j - Len(a)]
  OBVIOUS

\* A top-up's commit: what the report writes, and the runs it cut.
LEMMA CommitEffect ==
  ASSUME NumberingInv, NEW k \in Sync, Commits(k)
  PROVE  LET runs == topUp[k].taken.runs IN
         /\ blocks' \in Seq(Block) /\ DOMAIN blocks' = 1 .. Len(blocks) + Len(runs)
         /\ Len(runs) \in Nat /\ DOMAIN runs = 1 .. Len(runs)
         /\ \A i \in DOMAIN runs : runs[i].first \in Number /\ runs[i].last \in Number
                                   /\ runs[i].first <= runs[i].last
         /\ \A i \in DOMAIN blocks :
              /\ i \in DOMAIN blocks'
              /\ blocks'[i] = blocks[i]
                 \/ /\ blocks[i].phone = topUp[k].phone
                    /\ i \in DOMAIN topUp[k].writes
                    /\ blocks'[i] = [blocks[i] EXCEPT !.used = topUp[k].writes[i]]
         /\ \A j \in DOMAIN blocks' \ DOMAIN blocks :
              /\ j - Len(blocks) \in DOMAIN runs
              /\ blocks'[j] = [phone |-> topUp[k].phone, first |-> runs[j - Len(blocks)].first,
                               last |-> runs[j - Len(blocks)].last,
                               used |-> runs[j - Len(blocks)].first - 1, status |-> "ISSUED"]
<1> DEFINE t == topUp[k]
           runs == t.taken.runs
           old == Written(t.writes)
           cut == Cut(t.phone, runs)
<1> USE NumberingAssumption
<1>1. /\ t # NoTopUp /\ t.stage = "book" /\ RangesHold(t.taken)
      /\ blocks' = old \o cut
  BY DEF Commits
<1>2. TopUpOK(t) /\ Own(t)
  BY DEF NumberingInv, Typed, NumberingTypeOK, TopUpsOwn
<1>3. /\ t.phone \in Phone /\ DOMAIN t.writes \subseteq DOMAIN blocks
      /\ \A i \in DOMAIN t.writes : t.writes[i] \in RunOf(blocks[i]) /\ blocks[i].phone = t.phone
  BY <1>1, <1>2 DEF TopUpOK, Own, NoTopUp
<1>4. runs \in Seq({run \in [first : Number, last : Number] : run.first <= run.last})
  BY <1>1 DEF RangesHold
<1>5. /\ DOMAIN runs = 1 .. Len(runs) /\ Len(runs) \in Nat
      /\ \A i \in DOMAIN runs : /\ runs[i].first \in Number /\ runs[i].last \in Number
                                /\ runs[i].first <= runs[i].last
  <2> HIDE DEF runs
  <2>1. \A i \in DOMAIN runs :
          runs[i] \in {run \in [first : Number, last : Number] : run.first <= run.last}
    BY <1>4
  <2> QED
    BY <1>4, <2>1
<1>6. \A i \in DOMAIN blocks : blocks[i] \in Block
  BY BlockTypes DEF NumberingInv
<1>7. DOMAIN blocks = 1 .. Len(blocks) /\ Len(blocks) \in Nat
  BY BlockTypes DEF NumberingInv
<1>8. /\ DOMAIN old = DOMAIN blocks
      /\ \A i \in DOMAIN blocks :
           \/ old[i] = blocks[i]
           \/ i \in DOMAIN t.writes /\ old[i] = [blocks[i] EXCEPT !.used = t.writes[i]]
  BY DEF Written
<1>9. \A i \in DOMAIN blocks : old[i] \in Block
  <2>1. ASSUME NEW i \in DOMAIN blocks, i \in DOMAIN t.writes
        PROVE  [blocks[i] EXCEPT !.used = t.writes[i]] \in Block
    <3>1. t.writes[i] \in RunOf(blocks[i])
      BY <1>3, <2>1
    <3>2. t.writes[i] \in 0 .. LastNumber
      <4>1. blocks[i].first \in Nat /\ blocks[i].last \in Nat /\ blocks[i].last <= LastNumber
        BY BlockTypes DEF NumberingInv
      <4> QED
        BY <3>1, <4>1 DEF RunOf
    <3> QED
      BY <1>6, <3>2 DEF Block
  <2> QED
    BY <1>6, <1>8, <2>1
<1>10. old \in Seq(Block) /\ Len(old) = Len(blocks)
  <2>1. old = [i \in 1 .. Len(blocks) |-> old[i]]
    BY <1>7 DEF Written
  <2> HIDE DEF old
  <2> QED
    BY <1>7, <1>8, <1>9, <2>1
<1>11. /\ DOMAIN cut = DOMAIN runs
       /\ \A i \in DOMAIN runs :
            cut[i] = [phone |-> t.phone, first |-> runs[i].first, last |-> runs[i].last,
                      used |-> runs[i].first - 1, status |-> "ISSUED"]
  BY DEF Cut
<1>12. \A i \in DOMAIN runs : cut[i] \in Block
  <2>1. \A i \in DOMAIN runs : runs[i].first - 1 \in 0 .. LastNumber
    BY <1>5 DEF Number
  <2> HIDE DEF runs, cut
  <2> QED
    BY <1>3, <1>5, <1>11, <2>1 DEF Block
<1>13. cut \in Seq(Block) /\ Len(cut) = Len(runs)
  <2>1. cut = [i \in 1 .. Len(runs) |-> cut[i]]
    BY <1>5 DEF Cut
  <2> HIDE DEF runs, cut
  <2> QED
    BY <1>5, <1>11, <1>12, <2>1
<1> HIDE DEF old, cut, runs
<1>14. /\ blocks' \in Seq(Block) /\ DOMAIN blocks' = 1 .. Len(blocks) + Len(runs)
       /\ \A i \in 1 .. Len(blocks) : blocks'[i] = old[i]
       /\ \A j \in Len(blocks) + 1 .. Len(blocks) + Len(runs) : blocks'[j] = cut[j - Len(blocks)]
  <2>1. PICK a \in Seq(Block), b \in Seq(Block) : a = old /\ b = cut
    BY <1>10, <1>13
  <2>2. blocks' = a \o b /\ Len(a) = Len(blocks) /\ Len(b) = Len(runs)
    BY <1>1, <1>10, <1>13, <2>1
  <2>3. /\ a \o b \in Seq(Block) /\ DOMAIN (a \o b) = 1 .. Len(a) + Len(b)
        /\ \A i \in 1 .. Len(a) : (a \o b)[i] = a[i]
        /\ \A j \in Len(a) + 1 .. Len(a) + Len(b) : (a \o b)[j] = b[j - Len(a)]
    BY Joined
  <2> QED
    BY <2>1, <2>2, <2>3
<1>15. \A i \in DOMAIN blocks :
         /\ i \in DOMAIN blocks'
         /\ blocks'[i] = blocks[i]
            \/ /\ blocks[i].phone = t.phone /\ i \in DOMAIN t.writes
               /\ blocks'[i] = [blocks[i] EXCEPT !.used = t.writes[i]]
  BY <1>3, <1>5, <1>7, <1>8, <1>14
<1>16. \A j \in DOMAIN blocks' \ DOMAIN blocks :
         /\ j - Len(blocks) \in DOMAIN runs
         /\ blocks'[j] = [phone |-> t.phone, first |-> runs[j - Len(blocks)].first,
                          last |-> runs[j - Len(blocks)].last,
                          used |-> runs[j - Len(blocks)].first - 1, status |-> "ISSUED"]
  <2>1. \A j \in DOMAIN blocks' \ DOMAIN blocks :
          /\ j - Len(blocks) \in DOMAIN runs
          /\ j \in Len(blocks) + 1 .. Len(blocks) + Len(runs)
    BY <1>5, <1>7, <1>14
  <2> QED
    BY <1>11, <1>14, <2>1
<1> QED
  BY <1>5, <1>14, <1>15, <1>16 DEF runs

\* Blocks may be added; whose one is and its run stay.
BlocksStay ==
  /\ blocks' \in Seq(Block) /\ DOMAIN blocks \subseteq DOMAIN blocks'
  /\ \A i \in DOMAIN blocks : /\ blocks'[i].phone = blocks[i].phone
                              /\ blocks'[i].first = blocks[i].first
                              /\ blocks'[i].last = blocks[i].last

LEMMA TheirListStays ==
  ASSUME BlocksStay, NEW p, NEW l, TheirList(p, l)
  PROVE  TheirList(p, l)'
  BY DEF BlocksStay, TheirList, ListOK

LEMMA ListStays ==
  ASSUME BlocksStay, NEW l, ListOK(l)
  PROVE  ListOK(l)'
  BY DEF BlocksStay, ListOK

LEMMA TopUpStays ==
  ASSUME BlocksStay, NEW t, TopUpOK(t), Own(t), Shaped(t),
         t.stage \in {"series", "report", "book"} => key'[t.phone] = "stands",
         t # NoTopUp /\ t.awaited => key'[t.phone] # "turnedIn"
  PROVE  TopUpOK(t)' /\ Own(t)'
<1>1. TopUpOK(t)'
  BY ListStays DEF BlocksStay, TopUpOK, RunOf
<1>2. t.stage # "none" => t # NoTopUp
  BY DEF NoTopUp
<1>3. t.stage \in {"report", "book"} => DOMAIN t.writes \subseteq DOMAIN blocks
  BY <1>2 DEF TopUpOK
<1>4. t.stage \in {"report", "book"} =>
        \A i \in DOMAIN t.writes : blocks[i].phone = t.phone => blocks'[i].phone = t.phone
  BY <1>3 DEF BlocksStay
<1>5. /\ t.stage \in {"answered", "merging", "listed"} => TheirList(t.phone, t.held)'
      /\ t.stage = "merging" => TheirList(t.phone, t.read)'
  BY TheirListStays DEF Own
<1>6. Own(t)'
  BY <1>2, <1>3, <1>4, <1>5 DEF Own
<1> QED
  BY <1>1, <1>6

\* What a phone holds and is doing is as it was, the blocks being added to.
LEMMA PhonesStay ==
  ASSUME NumberingInv, BlocksStay, UNCHANGED <<lists, giving, made, forgot>>,
         \A p \in Phone : key'[p] = "turnedIn" <=> key[p] = "turnedIn"
  PROVE  /\ \A p \in Phone : ListOK(lists[p])' /\ GivingOK(giving[p])'
         /\ ListsOwn' /\ GivingNew' /\ MadeListed'
<1>1. \A p \in Phone : TheirList(p, lists[p])'
  <2> SUFFICES ASSUME NEW p \in Phone PROVE TheirList(p, lists[p])'
    OBVIOUS
  <2>1. PICK l : l = lists[p]
    OBVIOUS
  <2>2. TheirList(p, l)'
    BY <2>1, TheirListStays DEF NumberingInv, ListsOwn
  <2> QED
    BY <2>1, <2>2 DEF TheirList, ListOK
<1>2. \A p \in Phone : GivingOK(giving[p])'
  <2>1. \A p \in Phone : GivingOK(giving[p])
    BY DEF NumberingInv, Typed, NumberingTypeOK
  <2>2. ASSUME NEW p \in Phone PROVE GivingOK(giving[p])'
    <3>1. PICK g : g = giving[p]
      OBVIOUS
    <3>2. GivingOK(g)'
      BY <2>1, <3>1, ListStays DEF GivingOK
    <3> QED
      BY <3>1, <3>2 DEF GivingOK, ListOK
  <2> QED
    BY <2>2
<1>3. \A p \in Phone : \A i \in DOMAIN lists[p] :
        /\ i \in DOMAIN blocks /\ blocks'[i].first = blocks[i].first
        /\ blocks'[i].last = blocks[i].last
  BY BlockTypes DEF NumberingInv, BlocksStay
<1>4. GivingNew'
  <2> SUFFICES ASSUME NEW p \in Phone, giving[p] # NoTicket
               PROVE  /\ key'[p] # "turnedIn"
                      /\ giving[p].stage = "marking" => TheirList(p, giving[p].read)'
                      /\ forgot[p] = {} =>
                           /\ giving[p].number \notin made[p]
                           /\ \E i \in DOMAIN lists[p] : giving[p].number \in RunOf(blocks'[i])
    BY DEF GivingNew, TheirList, ListOK
  <2> QED
    BY <1>3, TheirListStays DEF NumberingInv, GivingNew, RunOf
<1>5. MadeListed'
  BY <1>3 DEF NumberingInv, MadeListed, Listed
<1> QED
  BY <1>1, <1>2, <1>4, <1>5 DEF ListsOwn, TheirList, NumberingInv

LEMMA CommitsInv ==
  ASSUME NumberingInv, NEW k \in Sync, Commits(k)
  PROVE  NumberingInv'
<1>1. PICK t : t = topUp[k]
  OBVIOUS
<1>2. PICK runs : runs = t.taken.runs
  OBVIOUS
<1>3. PICK held : held = AnswerOf(blocks', t.phone)
  OBVIOUS
<1>4. PICK u : u = [stage |-> "answered", phone |-> t.phone, awaited |-> t.awaited, held |-> held]
  OBVIOUS
<1>5. /\ t # NoTopUp /\ t.stage = "book" /\ RangesHold(t.taken) /\ NeverOverlap(runs)
      /\ topUp' = [topUp EXCEPT ![k] = u] /\ UNCHANGED <<key, phoneVars>>
      /\ next' = next \/ next' = t.taken.next
  BY <1>1, <1>2, <1>3, <1>4 DEF Commits
<1>6. TopUpOK(t) /\ Own(t) /\ Shaped(t)
  BY <1>1 DEF NumberingInv, Typed, NumberingTypeOK, TopUpsOwn
<1>7. /\ t.phone \in Phone /\ key[t.phone] = "stands" /\ DOMAIN t.writes \subseteq DOMAIN blocks
      /\ \A i \in DOMAIN t.writes : t.writes[i] \in RunOf(blocks[i]) /\ blocks[i].phone = t.phone
  BY <1>5, <1>6 DEF TopUpOK, Own, NoTopUp
<1>8. /\ blocks' \in Seq(Block)
      /\ \A i \in DOMAIN runs : /\ runs[i].first \in Number /\ runs[i].last \in Number
                                /\ runs[i].first <= runs[i].last
      /\ \A i \in DOMAIN blocks :
           /\ i \in DOMAIN blocks'
           /\ blocks'[i] = blocks[i]
              \/ /\ blocks[i].phone = t.phone /\ i \in DOMAIN t.writes
                 /\ blocks'[i] = [blocks[i] EXCEPT !.used = t.writes[i]]
      /\ \A j \in DOMAIN blocks' \ DOMAIN blocks :
           /\ j - Len(blocks) \in DOMAIN runs
           /\ blocks'[j] = [phone |-> t.phone, first |-> runs[j - Len(blocks)].first,
                            last |-> runs[j - Len(blocks)].last,
                            used |-> runs[j - Len(blocks)].first - 1, status |-> "ISSUED"]
  BY <1>1, <1>2, CommitEffect
<1>9. \A i \in DOMAIN blocks : /\ blocks[i] \in Block
                               /\ blocks[i].phone = t.phone => blocks[i].status = "ISSUED"
  BY <1>7, BlockTypes DEF NumberingInv, StatusOfKey
<1>10. \A i \in DOMAIN blocks :
         /\ blocks'[i].phone = blocks[i].phone /\ blocks'[i].first = blocks[i].first
         /\ blocks'[i].last = blocks[i].last /\ blocks'[i].status = blocks[i].status
         /\ \/ blocks'[i].used = blocks[i].used
            \/ i \in DOMAIN t.writes /\ blocks'[i].used = t.writes[i]
  BY <1>8, <1>9 DEF Block
<1>11. BlocksStay
  BY <1>8, <1>10 DEF BlocksStay
<1>12. \A i \in DOMAIN blocks : Held(blocks'[i]) = Held(blocks[i])
  <2>1. ASSUME NEW i \in DOMAIN blocks, blocks[i].phone = t.phone
        PROVE  Held(blocks'[i]) = Held(blocks[i])
    BY <1>9, <1>10, <2>1 DEF Held, HeldRun, RunOf
  <2>2. ASSUME NEW i \in DOMAIN blocks, blocks[i].phone # t.phone
        PROVE  Held(blocks'[i]) = Held(blocks[i])
    BY <1>8, <2>2
  <2> QED
    BY <2>1, <2>2
<1>13. \A j \in DOMAIN blocks' \ DOMAIN blocks :
         /\ j - Len(blocks) \in DOMAIN runs
         /\ Held(blocks'[j]) = RunOf(runs[j - Len(blocks)])
         /\ blocks'[j].phone = t.phone /\ blocks'[j].status = "ISSUED"
         /\ blocks'[j].first = runs[j - Len(blocks)].first
         /\ blocks'[j].last = runs[j - Len(blocks)].last
         /\ blocks'[j].used = runs[j - Len(blocks)].first - 1
  BY <1>8 DEF Held, HeldRun, RunOf
<1>14. Apart'
  <2> SUFFICES ASSUME NEW i \in DOMAIN blocks', NEW j \in DOMAIN blocks', i # j
               PROVE  Held(blocks'[i]) \cap Held(blocks'[j]) = {}
    BY DEF Apart
  <2>1. CASE i \in DOMAIN blocks /\ j \in DOMAIN blocks
    BY <1>12, <2>1 DEF NumberingInv, Apart
  <2>2. CASE i \in DOMAIN blocks /\ j \notin DOMAIN blocks
    BY <1>5, <1>12, <1>13, <2>2 DEF NeverOverlap
  <2>3. CASE i \notin DOMAIN blocks /\ j \in DOMAIN blocks
    BY <1>5, <1>12, <1>13, <2>3 DEF NeverOverlap
  <2>4. CASE i \notin DOMAIN blocks /\ j \notin DOMAIN blocks
    <3>1. i \in Nat /\ j \in Nat /\ Len(blocks) \in Nat
      BY <1>8, BlockTypes DEF NumberingInv
    <3>2. i - Len(blocks) # j - Len(blocks)
      BY <3>1
    <3> QED
      BY <1>5, <1>13, <2>4, <3>2 DEF NeverOverlap
  <2> QED
    BY <2>1, <2>2, <2>3, <2>4
<1>15. StatusOfKey'
  BY <1>5, <1>7, <1>10, <1>13 DEF NumberingInv, StatusOfKey
<1>16. UsedWithin'
  <2> SUFFICES ASSUME NEW i \in DOMAIN blocks'
               PROVE  blocks'[i].used + 1 \in blocks'[i].first .. blocks'[i].last + 1
    BY DEF UsedWithin
  <2>1. CASE i \in DOMAIN blocks
    <3>1. blocks[i].first \in Nat /\ blocks[i].last \in Nat
      BY <2>1, BlockTypes DEF NumberingInv
    <3>2. CASE blocks'[i].used = blocks[i].used
      BY <1>10, <2>1, <3>2 DEF NumberingInv, Typed, UsedWithin
    <3>3. CASE i \in DOMAIN t.writes /\ blocks'[i].used = t.writes[i]
      BY <1>7, <1>10, <2>1, <3>1, <3>3 DEF RunOf
    <3> QED
      BY <1>10, <2>1, <3>2, <3>3
  <2>2. CASE i \notin DOMAIN blocks
    BY <1>8, <1>13, <2>2, NumberingAssumption DEF Number
  <2> QED
    BY <2>1, <2>2
<1>17. \A m \in Sync : topUp'[m] = IF m = k THEN u ELSE topUp[m]
  BY <1>5 DEF NumberingInv, Typed
<1>18. /\ lists' = lists /\ key' = key /\ made' = made /\ giving' = giving /\ forgot' = forgot
  BY <1>5 DEF phoneVars
<1>19. /\ DOMAIN held = {i \in DOMAIN blocks' : blocks'[i].phone = t.phone /\ blocks'[i].status = "ISSUED"}
       /\ \A i \in DOMAIN held : held[i] = blocks'[i].used
  BY <1>3 DEF AnswerOf, HeldBy
<1>20. TopUpOK(u)' /\ Own(u)' /\ Shaped(u)
  <2>1. Shaped(u)
    BY <1>4 DEF Shaped
  <2>2. t.awaited \in BOOLEAN
    BY <1>5, <1>6 DEF TopUpOK
  <2>3. \A i \in DOMAIN blocks' : blocks'[i].used \in Nat
    <3>1. \A i \in DOMAIN blocks' : blocks'[i] \in Block
      BY <1>8
    <3> QED
      BY <3>1, NumberingAssumption DEF Block
  <2>4. ListOK(held)' /\ TheirList(t.phone, held)'
    BY <1>16, <1>19, <2>3 DEF UsedWithin, ListOK, TheirList
  <2>5. TopUpOK(u)'
    BY <1>4, <1>7, <2>2, <2>4 DEF TopUpOK
  <2>6. key'[u.phone] = "stands" /\ u.phone = t.phone /\ u.stage = "answered" /\ u.held = held
    BY <1>4, <1>7, <1>18
  <2>7. Own(u)'
    BY <2>4, <2>6 DEF Own
  <2> QED
    BY <2>1, <2>5, <2>7
<1>21. ASSUME NEW m \in Sync PROVE (TopUpOK(topUp[m]) /\ Own(topUp[m]))' /\ Shaped(topUp'[m])
  <2>1. PICK s : s = topUp'[m]
    OBVIOUS
  <2>2. CASE m = k
    BY <1>17, <1>20, <2>2 DEF TopUpOK, Own, TheirList, ListOK
  <2>3. CASE m # k
    <3>1. s = topUp[m] /\ TopUpOK(s) /\ Own(s) /\ Shaped(s)
      BY <1>17, <2>1, <2>3 DEF NumberingInv, Typed, NumberingTypeOK, TopUpsOwn
    <3>2. TopUpOK(s)' /\ Own(s)'
      BY <1>11, <1>18, <3>1, ShapedStage, TopUpStays DEF Own
    <3> QED
      BY <2>1, <3>1, <3>2 DEF TopUpOK, Own, TheirList, ListOK
  <2> QED
    BY <2>2, <2>3
<1>22. next' \in 1 .. LastNumber + 1
  BY <1>5 DEF NumberingInv, Typed, NumberingTypeOK, RangesHold
<1>23. /\ \A p \in Phone : ListOK(lists[p])' /\ GivingOK(giving[p])'
       /\ ListsOwn' /\ GivingNew' /\ MadeListed'
  BY <1>11, <1>18, PhonesStay
<1>24. NumberingTypeOK'
  BY <1>8, <1>18, <1>21, <1>22, <1>23 DEF NumberingInv, Typed, NumberingTypeOK
<1>25. Typed'
  BY <1>5, <1>16, <1>18, <1>21, <1>24 DEF NumberingInv, Typed
<1>26. TopUpsOwn'
  BY <1>21 DEF TopUpsOwn
<1>28. MadeStaysHeld'
  <2> SUFFICES ASSUME NEW p \in Phone, forgot[p] = {}, NEW n \in made[p],
                      \A r \in Phone : Ascending(r)'
               PROVE  \E i \in DOMAIN blocks' : blocks'[i].phone = p /\ n \in Held(blocks'[i])
    BY <1>18 DEF MadeStaysHeld
  <2>1. \A r \in Phone : Ascending(r)
    BY <1>11, AscendingBack DEF BlocksStay, NumberingInv
  <2>2. PICK i \in DOMAIN blocks : blocks[i].phone = p /\ n \in Held(blocks[i])
    BY <2>1 DEF NumberingInv, MadeStaysHeld
  <2> QED
    BY <1>8, <1>10, <1>12, <2>2
<1> QED
  BY <1>14, <1>15, <1>23, <1>25, <1>26, <1>28 DEF NumberingInv

LEMMA KeyLapsesInv ==
  ASSUME NumberingInv, NEW p \in Phone, KeyLapses(p)
  PROVE  NumberingInv'
<1>1. /\ key[p] = "stands" /\ ~RowHeld(p) /\ UNCHANGED <<next, topUp, phoneVars>>
      /\ key' = [key EXCEPT ![p] = "lapsed"]
      /\ blocks' = [i \in DOMAIN blocks |->
           IF i \in HeldBy(blocks, p) THEN [blocks[i] EXCEPT !.status = "RETIRED"] ELSE blocks[i]]
  BY DEF KeyLapses
<1>2. key \in [Phone -> {"stands", "lapsed", "turnedIn"}]
      /\ \A q \in Phone : key'[q] = IF q = p THEN "lapsed" ELSE key[q]
  BY <1>1 DEF NumberingInv, Typed, NumberingTypeOK
<1>3. /\ DOMAIN blocks' = DOMAIN blocks /\ DOMAIN blocks = 1 .. Len(blocks) /\ Len(blocks) \in Nat
      /\ \A i \in DOMAIN blocks : blocks[i] \in Block /\ blocks[i].phone \in Phone
  BY <1>1, BlockTypes DEF NumberingInv
<1>4. ASSUME NEW i \in DOMAIN blocks
      PROVE  /\ blocks'[i] \in Block
             /\ blocks'[i].phone = blocks[i].phone /\ blocks'[i].first = blocks[i].first
             /\ blocks'[i].last = blocks[i].last /\ blocks'[i].used = blocks[i].used
             /\ blocks'[i].status = IF blocks[i].phone = p THEN "RETIRED" ELSE blocks[i].status
             /\ blocks[i].phone = p => blocks[i].status = "ISSUED"
  <2>1. blocks[i].phone = p => blocks[i].status = "ISSUED"
    BY <1>1 DEF NumberingInv, StatusOfKey
  <2>2. blocks'[i] = IF blocks[i].phone = p THEN [blocks[i] EXCEPT !.status = "RETIRED"] ELSE blocks[i]
    BY <1>1, <2>1 DEF HeldBy
  <2> QED
    BY <1>3, <2>1, <2>2 DEF Block
<1>5. blocks' \in Seq(Block)
  <2>1. blocks' = [i \in 1 .. Len(blocks) |-> blocks'[i]]
    BY <1>1, <1>3
  <2> QED
    BY <1>3, <1>4, <2>1
<1>6. BlocksStay
  BY <1>3, <1>4, <1>5 DEF BlocksStay
<1>7. \A i \in DOMAIN blocks : Held(blocks'[i]) = Held(blocks[i])
  BY <1>4 DEF Held, HeldRun, RunOf
<1>8. /\ lists' = lists /\ made' = made /\ giving' = giving /\ forgot' = forgot
      /\ topUp' = topUp /\ next' = next
  BY <1>1 DEF phoneVars
<1>9. \A k \in Sync : TopUpOK(topUp[k])' /\ Own(topUp[k])'
  <2> SUFFICES ASSUME NEW k \in Sync PROVE TopUpOK(topUp[k])' /\ Own(topUp[k])'
    OBVIOUS
  <2>1. PICK t : t = topUp[k]
    OBVIOUS
  <2>2. TopUpOK(t) /\ Own(t) /\ Shaped(t)
    BY <2>1 DEF NumberingInv, Typed, NumberingTypeOK, TopUpsOwn
  <2>3. t # NoTopUp => t.phone \in Phone
    BY <2>2 DEF TopUpOK
  <2>4. t.stage \in {"series", "report", "book"} => key'[t.phone] = "stands"
    BY <1>1, <1>2, <2>1, <2>2, <2>3, ShapedStage DEF RowHeld, Own
  <2>5. t # NoTopUp /\ t.awaited => key'[t.phone] # "turnedIn"
    BY <1>2, <2>2, <2>3, ShapedStage DEF Own
  <2>6. TopUpOK(t)' /\ Own(t)'
    BY <1>6, <1>8, <2>2, <2>4, <2>5, TopUpStays
  <2> QED
    BY <1>8, <2>1, <2>6 DEF TopUpOK, Own, TheirList, ListOK
<1>10. /\ \A q \in Phone : ListOK(lists[q])' /\ GivingOK(giving[q])'
       /\ ListsOwn' /\ GivingNew' /\ MadeListed'
  BY <1>1, <1>2, <1>6, <1>8, PhonesStay
<1>11. NumberingTypeOK'
  <2>1. key' \in [Phone -> {"stands", "lapsed", "turnedIn"}]
    BY <1>1, <1>2
  <2> QED
    BY <1>5, <1>8, <1>9, <1>10, <2>1 DEF NumberingInv, Typed, NumberingTypeOK
<1>12. Typed'
  BY <1>3, <1>4, <1>8, <1>11 DEF NumberingInv, Typed, UsedWithin
<1>13. Apart' /\ StatusOfKey' /\ TopUpsOwn'
  BY <1>2, <1>3, <1>4, <1>7, <1>9 DEF NumberingInv, Apart, StatusOfKey, TopUpsOwn
<1>15. MadeStaysHeld'
  <2> SUFFICES ASSUME NEW q \in Phone, forgot[q] = {}, NEW n \in made[q],
                      \A r \in Phone : Ascending(r)'
               PROVE  \E i \in DOMAIN blocks' : blocks'[i].phone = q /\ n \in Held(blocks'[i])
    BY <1>8 DEF MadeStaysHeld
  <2>1. \A r \in Phone : Ascending(r)
    BY <1>6, AscendingBack DEF BlocksStay, NumberingInv
  <2> QED
    BY <1>3, <1>4, <1>7, <2>1 DEF NumberingInv, MadeStaysHeld
<1> QED
  BY <1>10, <1>12, <1>13, <1>15 DEF NumberingInv

\* A phone whose blocks ascend reports no number below one it made, in the block that holds it.
LEMMA ReportedCovers ==
  ASSUME NumberingInv, NEW p \in Phone, key[p] = "stands", Ascending(p),
         NEW report \in 0 .. LastNumber, IsLastUsed(p, report),
         NEW i \in DOMAIN lists[p], NEW n \in Nat, n >= blocks[i].first, n <= lists[p][i]
  PROVE  n <= Reported(p, report, i)
<1>1. \A j \in DOMAIN lists[p] :
        /\ j \in DOMAIN blocks /\ j \in Nat /\ lists[p][j] \in Nat /\ blocks[j].phone = p
        /\ lists[p][j] <= blocks[j].last /\ blocks[j].first \in Nat /\ blocks[j].last \in Nat
        /\ blocks[j].used \in Nat /\ blocks[j].first >= 1
        /\ j \in HeldBy(blocks, p)
  BY BlockTypes DEF NumberingInv, ListsOwn, TheirList, StatusOfKey, HeldBy
<1>2. report >= lists[p][i] /\ report \in Nat
  BY <1>1, NumberingAssumption DEF IsLastUsed
<1>3. PICK j \in DOMAIN lists[p] : report = lists[p][j] /\ report >= blocks[j].first
  BY <1>1, <1>2 DEF IsLastUsed
<1>4. report \in RunOf(blocks[j]) /\ n <= report /\ n <= blocks[i].last
  BY <1>1, <1>2, <1>3 DEF RunOf
<1>5. CASE \E m \in HeldBy(blocks, p) : i < m /\ report \in RunOf(blocks[m])
  <2>1. PICK m \in HeldBy(blocks, p) : i < m /\ report \in RunOf(blocks[m])
    BY <1>5
  <2>2. m \in DOMAIN blocks /\ m # i /\ Held(blocks[m]) = RunOf(blocks[m])
        /\ Held(blocks[i]) = RunOf(blocks[i])
    BY <1>1, <2>1, HeldWhole DEF HeldBy, NumberingInv
  <2>3. report \notin RunOf(blocks[i])
    BY <1>1, <2>1, <2>2 DEF NumberingInv, Apart
  <2>4. Reported(p, report, i) = blocks[i].last
    BY <1>5, <2>3 DEF Reported
  <2> QED
    BY <1>4, <2>4
<1>6. CASE ~\E m \in HeldBy(blocks, p) : i < m /\ report \in RunOf(blocks[m])
  <2>1. ~(i < j)
    BY <1>1, <1>4, <1>6
  <2>2. ~(j < i)
    <3>1. j < i => blocks[j].last < blocks[i].first
      BY <1>1 DEF Ascending
    <3> QED
      BY <1>1, <1>2, <1>3, <3>1
  <2>3. i = j
    BY <1>1, <2>1, <2>2
  <2>4. Reported(p, report, i) = Max({report, blocks[i].used})
    BY <1>4, <1>6, <2>3 DEF Reported
  <2> QED
    BY <1>1, <1>2, <1>4, <2>4, LargerOf
<1> QED
  BY <1>5, <1>6

LEMMA TurnedInInv ==
  ASSUME NumberingInv, NEW p \in Phone, TurnedIn(p)
  PROVE  NumberingInv'
<1>1. PICK report \in 0 .. LastNumber, ends \in {"RECLAIMED", "RETIRED"} :
        /\ IsLastUsed(p, report)
        /\ blocks' = [i \in DOMAIN blocks |->
             IF i \in HeldBy(blocks, p)
             THEN [blocks[i] EXCEPT !.used = Reported(p, report, i), !.status = ends]
             ELSE blocks[i]]
  BY DEF TurnedIn
<1>2. /\ key[p] # "turnedIn" /\ ~RowHeld(p) /\ UNCHANGED <<next, made, forgot>>
      /\ \A k \in Sync : topUp[k].stage = "merging" => topUp[k].phone # p
      /\ giving' = [giving EXCEPT ![p] = NoTicket]
      /\ key' = [key EXCEPT ![p] = "turnedIn"] /\ lists' = [lists EXCEPT ![p] = <<>>]
      /\ topUp' = [k \in Sync |-> IF topUp[k] # NoTopUp /\ topUp[k].phone = p
                                  THEN [topUp[k] EXCEPT !.awaited = FALSE] ELSE topUp[k]]
  BY DEF TurnedIn
<1>3. /\ key \in [Phone -> {"stands", "lapsed", "turnedIn"}]
      /\ \A q \in Phone : key'[q] = IF q = p THEN "turnedIn" ELSE key[q]
      /\ DOMAIN lists' = Phone /\ DOMAIN giving' = Phone
      /\ \A q \in Phone : lists'[q] = IF q = p THEN <<>> ELSE lists[q]
      /\ \A q \in Phone : giving'[q] = IF q = p THEN NoTicket ELSE giving[q]
  BY <1>2 DEF NumberingInv, Typed, NumberingTypeOK
<1>4. /\ DOMAIN blocks' = DOMAIN blocks /\ DOMAIN blocks = 1 .. Len(blocks) /\ Len(blocks) \in Nat
      /\ \A i \in DOMAIN blocks : blocks[i] \in Block /\ blocks[i].phone \in Phone
  BY <1>1, BlockTypes DEF NumberingInv
<1>5. ASSUME NEW i \in DOMAIN blocks
      PROVE  /\ blocks'[i] \in Block
             /\ blocks'[i].phone = blocks[i].phone /\ blocks'[i].first = blocks[i].first
             /\ blocks'[i].last = blocks[i].last
             /\ blocks'[i].used + 1 \in blocks[i].first .. blocks[i].last + 1
             /\ i \in HeldBy(blocks, p) =>
                  blocks'[i].used = Reported(p, report, i) /\ blocks'[i].status = ends
             /\ i \notin HeldBy(blocks, p) => blocks'[i] = blocks[i]
  <2>1. /\ Reported(p, report, i) \in 0 .. LastNumber
        /\ Reported(p, report, i) + 1 \in blocks[i].first .. blocks[i].last + 1
    BY ReportedWithin DEF NumberingInv
  <2>2. CASE i \in HeldBy(blocks, p)
    <3>1. blocks'[i] = [blocks[i] EXCEPT !.used = Reported(p, report, i), !.status = ends]
      BY <1>1, <2>2
    <3> QED
      BY <1>4, <2>1, <2>2, <3>1 DEF Block
  <2>3. CASE i \notin HeldBy(blocks, p)
    BY <1>1, <1>4, <2>3 DEF NumberingInv, Typed, UsedWithin
  <2> QED
    BY <2>2, <2>3
<1>6. blocks' \in Seq(Block)
  <2>1. blocks' = [i \in 1 .. Len(blocks) |-> blocks'[i]]
    BY <1>1, <1>4
  <2> QED
    BY <1>4, <1>5, <2>1
<1>7. BlocksStay
  BY <1>4, <1>5, <1>6 DEF BlocksStay
<1>8. \A i \in DOMAIN blocks :
        /\ Held(blocks'[i]) \subseteq Held(blocks[i])
        /\ i \notin HeldBy(blocks, p) => Held(blocks'[i]) = Held(blocks[i])
  <2>1. ASSUME NEW i \in DOMAIN blocks, i \in HeldBy(blocks, p)
        PROVE  Held(blocks'[i]) \subseteq Held(blocks[i])
    <3>1. /\ blocks[i].first \in Nat /\ blocks[i].last \in Nat /\ blocks[i].status = "ISSUED"
          /\ blocks'[i].used \in Nat /\ blocks'[i].used <= blocks[i].last
      <4>1. blocks'[i].used \in Nat
        BY <1>5, NumberingAssumption DEF Block
      <4>2. blocks[i].first \in Nat /\ blocks[i].last \in Nat
        BY BlockTypes DEF NumberingInv
      <4> QED
        BY <1>5, <2>1, <4>1, <4>2 DEF HeldBy
    <3> QED
      BY <1>5, <2>1, <3>1 DEF Held, HeldRun, RunOf
  <2>2. ASSUME NEW i \in DOMAIN blocks, i \notin HeldBy(blocks, p)
        PROVE  Held(blocks'[i]) = Held(blocks[i])
    BY <1>5, <2>2
  <2> QED
    BY <2>1, <2>2
<1>9. Apart'
  <2> SUFFICES ASSUME NEW i \in DOMAIN blocks, NEW j \in DOMAIN blocks, i # j
               PROVE  Held(blocks'[i]) \cap Held(blocks'[j]) = {}
    BY <1>4 DEF Apart
  <2>1. Held(blocks[i]) \cap Held(blocks[j]) = {}
    BY DEF NumberingInv, Apart
  <2> QED
    BY <1>8, <2>1
<1>10. StatusOfKey'
  <2> SUFFICES ASSUME NEW i \in DOMAIN blocks
               PROVE  /\ blocks'[i].status = "ISSUED" <=> key'[blocks'[i].phone] = "stands"
                      /\ blocks'[i].status = "RECLAIMED" => key'[blocks'[i].phone] = "turnedIn"
    BY <1>4 DEF StatusOfKey
  <2>1. /\ blocks[i].status = "ISSUED" <=> key[blocks[i].phone] = "stands"
        /\ blocks[i].status = "RECLAIMED" => key[blocks[i].phone] = "turnedIn"
    BY DEF NumberingInv, StatusOfKey
  <2>2. CASE i \in HeldBy(blocks, p)
    BY <1>3, <1>4, <1>5, <2>2 DEF HeldBy
  <2>3. CASE i \notin HeldBy(blocks, p)
    BY <1>3, <1>4, <1>5, <2>1, <2>3 DEF HeldBy
  <2> QED
    BY <2>2, <2>3
<1>11. ASSUME NEW k \in Sync
       PROVE  /\ TopUpOK(topUp[k])' /\ Own(topUp[k])' /\ Shaped(topUp'[k])
  <2>1. PICK t : t = topUp[k]
    OBVIOUS
  <2>2. PICK u : u = topUp'[k]
    OBVIOUS
  <2>3. TopUpOK(t) /\ Own(t) /\ Shaped(t)
    BY <2>1 DEF NumberingInv, Typed, NumberingTypeOK, TopUpsOwn
  <2>4. /\ t # NoTopUp => t.phone \in Phone /\ t.awaited \in BOOLEAN
        /\ t.stage = "none" <=> t = NoTopUp
    BY <2>3, ShapedStage DEF TopUpOK
  <2>5. u = IF t # NoTopUp /\ t.phone = p THEN [t EXCEPT !.awaited = FALSE] ELSE t
    BY <1>2, <2>1, <2>2
  <2>6. t.phone = p /\ t # NoTopUp => t.stage \notin {"series", "report", "book", "merging"}
    BY <1>2, <2>1 DEF RowHeld
  <2>7. CASE t # NoTopUp /\ t.phone = p
    <3>1. /\ Shaped(u) /\ u # NoTopUp /\ u.stage = t.stage /\ u.phone = t.phone /\ u.awaited = FALSE
          /\ t.stage \in {"asked", "series", "report", "book"} => u.report = t.report
          /\ t.stage \in {"answered", "listed"} => u.held = t.held
      BY <2>3, <2>5, <2>7, AwaitedOff
    <3>2. TopUpOK(u)
      BY <2>3, <2>6, <2>7, <3>1 DEF TopUpOK
    <3>3. Own(u)
      BY <2>3, <2>6, <2>7, <3>1 DEF Own
    <3>4. TopUpOK(u)' /\ Own(u)'
      BY <1>7, <2>6, <2>7, <3>1, <3>2, <3>3, TopUpStays
    <3> QED
      BY <2>1, <2>2, <2>4, <2>7, <3>1, <3>4 DEF TopUpOK, Own, TheirList, ListOK
  <2>8. CASE ~(t # NoTopUp /\ t.phone = p)
    <3>1. u = t
      BY <2>5, <2>8
    <3>2. t # NoTopUp => key'[t.phone] = key[t.phone]
      BY <1>3, <2>4, <2>8
    <3>3. t.stage \in {"series", "report", "book"} => key'[t.phone] = "stands"
      BY <2>3, <2>4, <3>2 DEF Own
    <3>4. t # NoTopUp /\ t.awaited => key'[t.phone] # "turnedIn"
      BY <2>3, <2>4, <3>2 DEF Own
    <3>5. TopUpOK(t)' /\ Own(t)'
      BY <1>7, <2>3, <3>2, <3>3, <3>4, TopUpStays
    <3> QED
      BY <2>1, <2>2, <2>3, <2>4, <2>8, <3>1, <3>5 DEF TopUpOK, Own, TheirList, ListOK
  <2> QED
    BY <2>7, <2>8
<1>12. DOMAIN <<>> = {}
  OBVIOUS
<1>13. \A q \in Phone : \A i \in DOMAIN lists'[q] :
         q # p /\ i \in DOMAIN lists[q] /\ lists'[q][i] = lists[q][i] /\ i \in DOMAIN blocks
  BY <1>3, <1>12, BlockTypes DEF NumberingInv
<1>14. \A q \in Phone : TheirList(q, lists[q])' /\ ListOK(lists[q])' /\ GivingOK(giving[q])'
  <2> SUFFICES ASSUME NEW q \in Phone
               PROVE  TheirList(q, lists[q])' /\ ListOK(lists[q])' /\ GivingOK(giving[q])'
    OBVIOUS
  <2>1. CASE q = p
    BY <1>3, <1>12, <2>1 DEF TheirList, ListOK, GivingOK
  <2>2. CASE q # p
    <3>1. TheirList(q, lists[q]) /\ GivingOK(giving[q])
      BY DEF NumberingInv, ListsOwn, Typed, NumberingTypeOK
    <3>2. TheirList(q, lists[q])'
      <4>1. PICK l : l = lists[q]
        OBVIOUS
      <4>2. TheirList(q, l)'
        BY <1>7, <3>1, <4>1, TheirListStays
      <4> QED
        BY <1>3, <2>2, <4>1, <4>2 DEF TheirList, ListOK
    <3>3. GivingOK(giving[q])'
      BY <1>3, <1>7, <2>2, <3>1, ListStays DEF GivingOK, ListOK
    <3> QED
      BY <3>2, <3>3 DEF TheirList
  <2> QED
    BY <2>1, <2>2
<1>15. Typed'
  <2>1. key' \in [Phone -> {"stands", "lapsed", "turnedIn"}]
    BY <1>2, <1>3
  <2>2. NumberingTypeOK'
    BY <1>2, <1>6, <1>11, <1>14, <2>1 DEF NumberingInv, Typed, NumberingTypeOK
  <2> QED
    BY <1>2, <1>3, <1>4, <1>5, <1>11, <1>13, <2>2 DEF NumberingInv, Typed, UsedWithin
<1>16. TopUpsOwn'
  BY <1>11 DEF TopUpsOwn
<1>17. ListsOwn' /\ GivingNew' /\ MadeListed'
  <2>1. \A q \in Phone \ {p} : lists'[q] = lists[q] /\ key'[q] = key[q] /\ giving'[q] = giving[q]
    BY <1>3
  <2>2. key'[p] = "turnedIn" /\ DOMAIN lists'[p] = {} /\ giving'[p] = NoTicket
    BY <1>3, <1>12
  <2>3. ListsOwn'
    BY <1>14, <2>1, <2>2 DEF NumberingInv, ListsOwn
  <2>4. MadeListed'
    <3> SUFFICES ASSUME NEW q \in Phone, q # p, forgot[q] = {}, key[q] # "turnedIn", NEW n \in made[q]
                 PROVE  \E i \in DOMAIN lists'[q] : n >= blocks'[i].first /\ n <= lists'[q][i]
      BY <1>2, <2>1, <2>2 DEF MadeListed, Listed
    <3>1. PICK i \in DOMAIN lists[q] : n >= blocks[i].first /\ n <= lists[q][i]
      BY DEF NumberingInv, MadeListed, Listed
    <3> QED
      BY <1>5, <1>13, <2>1, <3>1, BlockTypes DEF NumberingInv
  <2>5. GivingNew'
    <3> SUFFICES ASSUME NEW q \in Phone, q # p, giving[q] # NoTicket
                 PROVE  /\ key'[q] # "turnedIn"
                        /\ giving[q].stage = "marking" => TheirList(q, giving[q].read)'
                        /\ forgot[q] = {} =>
                             /\ giving[q].number \notin made[q]
                             /\ \E i \in DOMAIN lists'[q] : giving[q].number \in RunOf(blocks'[i])
      BY <1>2, <2>1, <2>2 DEF GivingNew, TheirList, ListOK
    <3>1. giving[q].stage = "marking" => TheirList(q, giving[q].read)'
      <4>1. PICK l : l = giving[q].read
        OBVIOUS
      <4>2. giving[q].stage = "marking" => TheirList(q, l)'
        BY <1>7, <4>1, TheirListStays DEF NumberingInv, GivingNew
      <4> QED
        BY <2>1, <4>1, <4>2 DEF TheirList, ListOK
    <3>2. forgot[q] = {} => \E i \in DOMAIN lists'[q] : giving[q].number \in RunOf(blocks'[i])
      <4> SUFFICES ASSUME forgot[q] = {}
                   PROVE  \E i \in DOMAIN lists'[q] : giving[q].number \in RunOf(blocks'[i])
        OBVIOUS
      <4>1. PICK i \in DOMAIN lists[q] : giving[q].number \in RunOf(blocks[i])
        BY DEF NumberingInv, GivingNew
      <4>2. i \in DOMAIN blocks
        BY BlockTypes DEF NumberingInv
      <4> QED
        BY <1>5, <2>1, <4>1, <4>2 DEF RunOf
    <3> QED
      BY <2>1, <3>1, <3>2 DEF NumberingInv, GivingNew
  <2> QED
    BY <2>3, <2>4, <2>5
<1>18. MadeStaysHeld'
  <2> SUFFICES ASSUME NEW q \in Phone, forgot[q] = {}, NEW n \in made[q],
                      \A r \in Phone : Ascending(r)'
               PROVE  \E i \in DOMAIN blocks' : blocks'[i].phone = q /\ n \in Held(blocks'[i])
    BY <1>2 DEF MadeStaysHeld
  <2>1. \A r \in Phone : Ascending(r)
    BY <1>7, AscendingBack DEF BlocksStay, NumberingInv
  <2>2. CASE q # p
    <3>1. PICK i \in DOMAIN blocks : blocks[i].phone = q /\ n \in Held(blocks[i])
      BY <2>1 DEF NumberingInv, MadeStaysHeld
    <3>2. i \notin HeldBy(blocks, p)
      BY <2>2, <3>1 DEF HeldBy
    <3> QED
      BY <1>4, <1>5, <1>8, <3>1, <3>2
  <2>3. CASE q = p
    <3>1. PICK i \in DOMAIN lists[p] : n >= blocks[i].first /\ n <= lists[p][i]
      BY <1>2, <2>3 DEF NumberingInv, MadeListed, Listed
    <3>2. /\ i \in DOMAIN blocks /\ lists[p][i] \in Nat /\ lists[p][i] <= blocks[i].last
          /\ blocks[i].first \in Nat /\ blocks[i].last \in Nat /\ blocks[i].phone = p /\ n \in Nat
      <4>1. n \in Nat
        BY <2>3, NumberingAssumption DEF NumberingInv, Typed, NumberingTypeOK, Number
      <4> QED
        BY <4>1, BlockTypes DEF NumberingInv, ListsOwn, TheirList
    <3>3. n \in RunOf(blocks[i]) /\ Held(blocks[i]) = RunOf(blocks[i])
      BY <1>2, <3>1, <3>2, HeldWhole DEF NumberingInv, StatusOfKey, RunOf
    <3>4. CASE i \notin HeldBy(blocks, p)
      BY <1>4, <1>5, <1>8, <2>3, <3>2, <3>3, <3>4
    <3>5. CASE i \in HeldBy(blocks, p)
      <4>1. key[p] = "stands"
        BY <3>5 DEF HeldBy, NumberingInv, StatusOfKey
      <4>2. n <= blocks'[i].used
        <5>1. Ascending(p) /\ IsLastUsed(p, report) /\ n \in Nat
          BY <1>1, <2>1, <3>2
        <5>2. n <= Reported(p, report, i)
          BY <3>1, <4>1, <5>1, ReportedCovers
        <5> QED
          BY <1>5, <3>2, <3>5, <5>2
      <4>3. n \in Held(blocks'[i])
        <5>1. blocks'[i].used \in Nat
          BY <1>5, <3>2, NumberingAssumption DEF Block
        <5> QED
          BY <1>5, <3>1, <3>2, <3>3, <4>2, <5>1 DEF Held, HeldRun, RunOf
      <4> QED
        BY <1>4, <1>5, <2>3, <3>2, <4>3
    <3> QED
      BY <3>4, <3>5
  <2> QED
    BY <2>2, <2>3
<1> QED
  BY <1>9, <1>10, <1>15, <1>16, <1>17, <1>18 DEF NumberingInv

(***************************************************************************)
(* The book's arithmetic                                                   *)
(***************************************************************************)
Run == [first : Int, last : Int]
Has(runs, m) == \E i \in DOMAIN runs : m \in RunOf(runs[i])

\* Runs that are not empty, none before one that starts earlier.
Sorted(runs) ==
  \A i \in DOMAIN runs :
    /\ runs[i].first <= runs[i].last
    /\ \A j \in DOMAIN runs : i < j => runs[i].first <= runs[j].first

\* Runs that are not empty, each after those before it.
Rising(runs) ==
  \A i \in DOMAIN runs :
    /\ runs[i].first <= runs[i].last
    /\ \A j \in DOMAIN runs : i < j => runs[i].last < runs[j].first

\* A run put into its place among others.
LEMMA PlacedIs ==
  ASSUME NEW runs \in Seq(Run), NEW run \in Run
  PROVE  LET placed == Placed(runs, run) IN
         /\ placed \in Seq(Run) /\ (Sorted(runs) => Sorted(placed))
         /\ \A m \in Int : Has(placed, m) <=> Has(runs, m) \/ m \in RunOf(run)
<1> DEFINE n == Len(runs)
           placed == Placed(runs, run)
           at == {i \in DOMAIN runs : runs[i].first > run.first} \cup {n + 1}
<1> SUFFICES /\ placed \in Seq(Run) /\ (Sorted(runs) => Sorted(placed))
             /\ \A m \in Int : Has(placed, m) <=> Has(runs, m) \/ m \in RunOf(run)
  OBVIOUS
<1>1. /\ n \in Nat /\ DOMAIN runs = 1 .. n
      /\ \A i \in 1 .. n : runs[i].first \in Int /\ runs[i].last \in Int
      /\ run.first \in Int /\ run.last \in Int
  <2>1. \A i \in 1 .. n : runs[i] \in Run
    BY ElementOfSeq
  <2> QED BY <2>1, LenProperties DEF Run
<1>2. CASE run.first > run.last
  <2>1. RunOf(run) = {}
    BY <1>1, <1>2 DEF RunOf
  <2> QED BY <1>2, <2>1 DEF Placed
<1>3. CASE ~(run.first > run.last)
  <2>1. at \in SUBSET Nat /\ at # {}
    BY <1>1
  <2>2. PICK least \in at : \A j \in at : least <= j
    <3> HIDE DEF at
    <3> QED BY <2>1, LeastIsOne
  <2>3. Min(at) \in at /\ \A j \in at : Min(at) <= j
    <3> HIDE DEF at
    <3> QED BY <2>2 DEF Min
  <2>4. PICK p : p = Min(at)
    OBVIOUS
  <2>5. /\ p \in 1 .. n + 1 /\ \A j \in 1 .. n : runs[j].first > run.first => p <= j
        /\ p = n + 1 \/ runs[p].first > run.first
    BY <1>1, <2>3, <2>4
  <2>6. placed = SubSeq(runs, 1, p - 1) \o <<run>> \o SubSeq(runs, p, n)
    BY <1>3, <2>4 DEF Placed, InsertAt
  <2>7. /\ placed \in Seq(Run) /\ Len(placed) = n + 1 /\ DOMAIN placed = 1 .. n + 1
        /\ \A j \in 1 .. n + 1 : placed[j] = IF j < p THEN runs[j]
                                             ELSE IF j = p THEN run ELSE runs[j - 1]
    <3> DEFINE a == SubSeq(runs, 1, p - 1)
               b == SubSeq(runs, p, n)
    <3>1. a \in Seq(Run) /\ Len(a) = p - 1 /\ \A j \in 1 .. p - 1 : a[j] = runs[j]
      BY <1>1, <2>5
    <3>2. /\ b \in Seq(Run) /\ Len(b) = n + 1 - p
          /\ \A j \in 1 .. n + 1 - p : b[j] = runs[p + j - 1]
      BY <1>1, <2>5
    <3>3. placed = a \o <<run>> \o b
      BY <2>6
    <3> HIDE DEF a, b, placed, n
    <3>4. /\ a \o <<run>> \in Seq(Run) /\ Len(a \o <<run>>) = p
          /\ \A j \in 1 .. p : (a \o <<run>>)[j] = IF j < p THEN runs[j] ELSE run
      BY <1>1, <2>5, <3>1
    <3>5. /\ placed \in Seq(Run) /\ Len(placed) = n + 1
          /\ \A j \in 1 .. p : placed[j] = IF j < p THEN runs[j] ELSE run
          /\ \A j \in p + 1 .. n + 1 : placed[j] = b[j - p]
      <4>1. PICK c \in Seq(Run) : c = a \o <<run>>
        BY <3>4
      <4>2. placed = c \o b /\ Len(c) = p /\ \A j \in 1 .. p : c[j] = IF j < p THEN runs[j] ELSE run
        BY <3>3, <3>4, <4>1
      <4>3. /\ c \o b \in Seq(Run) /\ DOMAIN (c \o b) = 1 .. Len(c) + Len(b)
            /\ \A j \in 1 .. Len(c) : (c \o b)[j] = c[j]
            /\ \A j \in Len(c) + 1 .. Len(c) + Len(b) : (c \o b)[j] = b[j - Len(c)]
        BY <3>2, Joined
      <4>4. Len(c) + Len(b) = n + 1 /\ Len(c \o b) = Len(c) + Len(b)
        <5>1. Len(c \o b) = Len(c) + Len(b)
          BY <3>2, ConcatProperties
        <5>2. Len(c) + Len(b) = n + 1
          BY <1>1, <2>5, <3>2, <4>2
        <5> QED BY <5>1, <5>2
      <4>5. \A j \in p + 1 .. n + 1 : placed[j] = b[j - p]
        BY <4>2, <4>3, <4>4
      <4> QED BY <4>2, <4>3, <4>4, <4>5
    <3>6. ASSUME NEW j \in p + 1 .. n + 1 PROVE placed[j] = runs[j - 1]
      <4>1. j - p \in 1 .. n + 1 - p /\ p + (j - p) - 1 = j - 1
        BY <1>1, <2>5
      <4> QED BY <3>2, <3>5, <4>1
    <3> HIDE DEF at
    <3> QED BY <1>1, <2>5, <3>5, <3>6
  <2>8. Sorted(runs) => Sorted(placed)
    <3> SUFFICES ASSUME Sorted(runs), NEW i \in 1 .. n + 1
                 PROVE  /\ placed[i].first <= placed[i].last
                        /\ \A j \in 1 .. n + 1 : i < j => placed[i].first <= placed[j].first
      BY <2>7 DEF Sorted
    <3>0. placed[i].first <= placed[i].last
      <4> HIDE DEF placed, n, at
      <4>1. \A h \in 1 .. n : runs[h].first <= runs[h].last
        BY <1>1 DEF Sorted
      <4>2. CASE i < p
        BY <1>1, <2>5, <2>7, <4>1, <4>2
      <4>3. CASE i > p
        <5>1. i - 1 \in 1 .. n /\ placed[i] = runs[i - 1]
          BY <1>1, <2>5, <2>7, <4>3
        <5> QED BY <4>1, <5>1
      <4>4. CASE i = p
        BY <1>1, <1>3, <2>5, <2>7, <4>4
      <4> QED BY <2>5, <4>2, <4>3, <4>4
    <3> SUFFICES ASSUME NEW j \in 1 .. n + 1, i < j PROVE placed[i].first <= placed[j].first
      BY <3>0
    <3>1. \A h, k \in 1 .. n : h <= k => runs[h].first <= runs[k].first
      <4> SUFFICES ASSUME NEW h \in 1 .. n, NEW k \in 1 .. n, h <= k
                   PROVE runs[h].first <= runs[k].first
        OBVIOUS
      <4>1. CASE h = k
        BY <1>1, <4>1
      <4>2. CASE h < k
        BY <1>1, <4>2 DEF Sorted
      <4> QED BY <1>1, <4>1, <4>2
    <3>2. \A h \in 1 .. n : h < p => runs[h].first <= run.first
      BY <1>1, <2>5
    <3>3. \A h \in 1 .. n : h >= p => runs[h].first > run.first
      BY <1>1, <2>5, <3>1
    <3> HIDE DEF placed, n, at
    <3>4. CASE j < p
      BY <1>1, <2>5, <2>7, <3>1, <3>4
    <3>5. CASE i > p
      <4>1. i - 1 \in 1 .. n /\ j - 1 \in 1 .. n /\ i - 1 <= j - 1
        BY <1>1, <2>5, <3>5
      <4>2. placed[i] = runs[i - 1] /\ placed[j] = runs[j - 1]
        BY <1>1, <2>5, <2>7, <3>5
      <4> QED BY <3>1, <4>1, <4>2
    <3>6. CASE i <= p /\ p <= j
      <4>1. CASE i < p /\ j = p
        BY <1>1, <2>5, <2>7, <3>2, <4>1
      <4>2. CASE j > p
        <5>1. j - 1 \in 1 .. n /\ j - 1 >= p /\ placed[j] = runs[j - 1]
          BY <1>1, <2>5, <2>7, <4>2
        <5>2. run.first <= placed[j].first
          BY <1>1, <3>3, <5>1
        <5>3. placed[i].first <= run.first
          BY <1>1, <2>5, <2>7, <3>2, <3>6
        <5>4. placed[i].first \in Int /\ placed[j].first \in Int
          <6>1. placed[i] \in Run /\ placed[j] \in Run
            BY <2>7
          <6> QED BY <6>1 DEF Run
        <5> QED BY <1>1, <5>2, <5>3, <5>4
      <4> QED BY <2>5, <3>6, <4>1, <4>2
    <3> QED BY <2>5, <3>4, <3>5, <3>6
  <2>9. ASSUME NEW m \in Int PROVE Has(placed, m) <=> Has(runs, m) \/ m \in RunOf(run)
    <3> HIDE DEF placed, n, at
    <3>1. ASSUME NEW i \in 1 .. n PROVE \E j \in 1 .. n + 1 : placed[j] = runs[i]
      <4>1. CASE i < p
        BY <1>1, <2>5, <2>7, <4>1
      <4>2. CASE i >= p
        <5>1. i + 1 \in 1 .. n + 1 /\ placed[i + 1] = runs[i]
          BY <1>1, <2>5, <2>7, <4>2
        <5> QED BY <5>1
      <4> QED BY <1>1, <2>5, <4>1, <4>2
    <3>2. placed[p] = run
      BY <2>5, <2>7
    <3>3. ASSUME NEW j \in 1 .. n + 1
          PROVE placed[j] = run \/ \E i \in 1 .. n : placed[j] = runs[i]
      <4>1. CASE j < p
        BY <1>1, <2>5, <2>7, <4>1
      <4>2. CASE j > p
        <5>1. j - 1 \in 1 .. n /\ placed[j] = runs[j - 1]
          BY <1>1, <2>5, <2>7, <4>2
        <5> QED BY <5>1
      <4>3. CASE j = p
        BY <3>2, <4>3
      <4> QED BY <2>5, <4>1, <4>2, <4>3
    <3> QED BY <1>1, <2>5, <2>7, <3>1, <3>2, <3>3 DEF Has
  <2> HIDE DEF placed, at, n
  <2> QED BY <2>7, <2>8, <2>9
<1> HIDE DEF placed
<1> QED BY <1>2, <1>3

\* Runs put in order are the same runs.
LEMMA LowestFirstIs ==
  ASSUME NEW n \in Nat, NEW runs \in [1 .. n -> Run]
  PROVE  LET ordered == LowestFirst(runs) IN
         /\ ordered \in Seq(Run) /\ Sorted(ordered)
         /\ \A m \in Int : Has(ordered, m) <=> Has(runs, m)
<1> DEFINE T == Seq(Run)
           G == [k \in 1 .. n |-> [s \in T |-> Placed(s, runs[k])]]
           Is(f) == f = [d \in SUBSET (1 .. n) |->
                           IF d = {} THEN <<>> ELSE Placed(f[d \ {Max(d)}], runs[Max(d)])]
           iter == CHOOSE f : Is(f)
           I == [k \in 0 .. n |-> {s \in T : /\ Sorted(s)
                                             /\ \A m \in Int : Has(s, m) <=>
                                                  \E i \in 1 .. k : m \in RunOf(runs[i])}]
<1>1. <<>> \in T /\ \A k \in 1 .. n : \A s \in T : Placed(s, runs[k]) \in T
  BY PlacedIs
<1>2. G \in [1 .. n -> [T -> T]]
  <2> HIDE DEF T
  <2> QED BY <1>1
<1>3. PICK g \in [SUBSET (1 .. n) -> T] : FoldsLeft(g, n, <<>>, G)
  <2> HIDE DEF G, T
  <2> QED BY <1>1, <1>2, FoldLeftExists
<1>4. Is(g)
  <2>1. ASSUME NEW d \in SUBSET (1 .. n), d # {}
        PROVE g[d] = Placed(g[d \ {Max(d)}], runs[Max(d)])
    <3>1. Max(d) \in 1 .. n /\ d \ {Max(d)} \in SUBSET (1 .. n)
      BY <2>1, MaxIsOne
    <3> HIDE DEF T
    <3> QED BY <1>3, <2>1, <3>1 DEF FoldsLeft
  <2>2. g[{}] = <<>>
    BY <1>3 DEF FoldsLeft
  <2> HIDE DEF T
  <2> QED BY <2>1, <2>2
<1>5. Is(iter)
  <2> HIDE DEF Is
  <2> QED BY <1>4
<1>6. LowestFirst(runs) = iter[1 .. n]
  BY DEF LowestFirst, FoldLeft, MapThenFoldSet
<1>7. FoldsOver(iter, n, T, <<>>, G)
  <2>1. ASSUME NEW d \in SUBSET (1 .. n), d # {}, iter[d \ {Max(d)}] \in T
        PROVE iter[d] = G[Max(d)][iter[d \ {Max(d)}]]
    <3>1. Max(d) \in 1 .. n
      BY <2>1, MaxIsOne
    <3> HIDE DEF iter, T
    <3> QED BY <1>5, <2>1, <3>1
  <2>2. iter[{}] = <<>>
    <3> HIDE DEF iter
    <3> QED BY <1>5
  <2> HIDE DEF iter, T, G
  <2> QED BY <2>1, <2>2 DEF FoldsOver
<1>8. EachStepKeeps(I, n, T, <<>>, G)
  <2>1. <<>> \in I[0]
    <3>1. Sorted(<<>>) /\ \A m \in Int : Has(<<>>, m) <=> \E i \in 1 .. 0 : m \in RunOf(runs[i])
      BY DEF Sorted, Has
    <3> QED BY <1>1, <3>1
  <2>2. ASSUME NEW k \in 1 .. n, NEW s \in T, s \in I[k - 1] PROVE G[k][s] \in I[k]
    <3> DEFINE placed == Placed(s, runs[k])
    <3>1. k \in 0 .. n /\ k - 1 \in 0 .. n
      OBVIOUS
    <3>2. G[k][s] = placed
      <4> HIDE DEF T
      <4> QED OBVIOUS
    <3>3. Sorted(s) /\ \A m \in Int : Has(s, m) <=> \E i \in 1 .. k - 1 : m \in RunOf(runs[i])
      BY <2>2, <3>1
    <3>4. /\ placed \in T /\ Sorted(placed)
          /\ \A m \in Int : Has(placed, m) <=> Has(s, m) \/ m \in RunOf(runs[k])
      BY <3>3, PlacedIs
    <3>5. 1 .. k = (1 .. k - 1) \cup {k}
      OBVIOUS
    <3> HIDE DEF placed
    <3>6. \A m \in Int : Has(placed, m) <=> \E i \in 1 .. k : m \in RunOf(runs[i])
      BY <3>3, <3>4, <3>5
    <3> HIDE DEF T, G
    <3> QED BY <3>1, <3>2, <3>4, <3>6
  <2> HIDE DEF T, G, I
  <2> QED BY <2>1, <2>2 DEF EachStepKeeps
<1>9. iter[1 .. n] \in T /\ iter[1 .. n] \in I[n]
  <2> HIDE DEF iter, T, G, I, Is
  <2> QED BY <1>1, <1>2, <1>7, <1>8, FoldKeeps
<1>10. /\ iter[1 .. n] \in Seq(Run) /\ Sorted(iter[1 .. n])
       /\ \A m \in Int : Has(iter[1 .. n], m) <=> \E i \in 1 .. n : m \in RunOf(runs[i])
  <2> HIDE DEF iter
  <2> QED BY <1>9
<1> HIDE DEF iter
<1> QED BY <1>6, <1>10 DEF Has

\* A run after all the others.
LEMMA AddedIs ==
  ASSUME NEW runs \in Seq(Run), NEW run \in Run
  PROVE  LET more == Append(runs, run) IN
         /\ more \in Seq(Run) /\ \A m \in Int : Has(more, m) <=> Has(runs, m) \/ m \in RunOf(run)
         /\ (Rising(runs) /\ run.first <= run.last /\ \A i \in DOMAIN runs : runs[i].last < run.first)
            => Rising(more) /\ \A i \in DOMAIN more : more[i].last <= run.last
<1> DEFINE n == Len(runs)
           more == Append(runs, run)
<1> SUFFICES /\ more \in Seq(Run)
             /\ \A m \in Int : Has(more, m) <=> Has(runs, m) \/ m \in RunOf(run)
             /\ (Rising(runs) /\ run.first <= run.last
                 /\ \A i \in DOMAIN runs : runs[i].last < run.first)
                => Rising(more) /\ \A i \in DOMAIN more : more[i].last <= run.last
  OBVIOUS
<1>1. /\ n \in Nat /\ DOMAIN runs = 1 .. n
      /\ more \in Seq(Run) /\ DOMAIN more = 1 .. n + 1
      /\ \A i \in 1 .. n + 1 : more[i] = IF i = n + 1 THEN run ELSE runs[i]
  BY AppendProperties, LenProperties
<1> HIDE DEF n, more
<1>2. \A i \in 1 .. n : i \in 1 .. n + 1 /\ i < n + 1 /\ more[i] = runs[i]
  BY <1>1
<1>3. n + 1 \in 1 .. n + 1 /\ more[n + 1] = run /\ \A i \in 1 .. n + 1 : i = n + 1 \/ i \in 1 .. n
  BY <1>1
<1>4. \A i \in 1 .. n : runs[i].first \in Int /\ runs[i].last \in Int
  <2>1. \A i \in 1 .. n : runs[i] \in Run
    BY <1>1
  <2> QED BY <2>1 DEF Run
<1>5. run.first \in Int /\ run.last \in Int
  BY DEF Run
<1>6. ASSUME NEW m \in Int PROVE Has(more, m) <=> Has(runs, m) \/ m \in RunOf(run)
  BY <1>1, <1>2, <1>3 DEF Has
<1>7. ASSUME Rising(runs), run.first <= run.last, \A i \in 1 .. n : runs[i].last < run.first
      PROVE  Rising(more) /\ \A i \in 1 .. n + 1 : more[i].last <= run.last
  <2>1. ASSUME NEW i \in 1 .. n + 1, NEW j \in 1 .. n + 1, i < j
        PROVE more[i].last < more[j].first
    <3>1. i \in 1 .. n
      BY <1>1, <2>1
    <3>2. CASE j \in 1 .. n
      BY <1>1, <1>2, <1>7, <2>1, <3>1, <3>2 DEF Rising
    <3>3. CASE j = n + 1
      BY <1>2, <1>3, <1>7, <3>1, <3>3
    <3> QED BY <1>3, <3>2, <3>3
  <2>2. ASSUME NEW i \in 1 .. n + 1
        PROVE more[i].first <= more[i].last /\ more[i].last <= run.last
    <3>1. CASE i \in 1 .. n
      <4>1. runs[i].first <= runs[i].last /\ runs[i].last < run.first
        BY <1>1, <1>7, <3>1 DEF Rising
      <4> QED BY <1>2, <1>4, <1>5, <1>7, <3>1, <4>1
    <3>2. CASE i = n + 1
      BY <1>3, <1>5, <1>7, <3>2
    <3> QED BY <1>3, <3>1, <3>2
  <2> QED BY <1>1, <2>1, <2>2 DEF Rising
<1> QED BY <1>1, <1>6, <1>7

\* What a rest leaves free up to where it is counted: what was free before, and of itself from
\* where its count started what nothing holds.
FreeTo(s, free, from, rest, held) ==
  /\ Rising(s.free) /\ s.from >= from
  /\ \A i \in DOMAIN s.free : s.free[i].last < s.from
  /\ \A m \in Int : Has(s.free, m) <=>
       \/ Has(free, m)
       \/ from <= m /\ m <= rest.last /\ m < s.from /\ ~Has(held, m)

Count == [from : Int, free : Seq(Run)]

LEMMA PastIs ==
  ASSUME NEW s \in Count, NEW run \in Run, NEW rest \in Run
  PROVE  Past(s, run, rest) \in Count
<1>1. s.from \in Int /\ s.free \in Seq(Run) /\ run.first \in Int /\ run.last \in Int
  BY DEF Count, Run
<1>2. [first |-> s.from, last |-> run.first - 1] \in Run
  BY <1>1 DEF Run
<1>3. Append(s.free, [first |-> s.from, last |-> run.first - 1]) \in Seq(Run)
  BY <1>1, <1>2, AppendProperties
<1> QED BY <1>1, <1>3 DEF Past, Count

LEMMA PastKeeps ==
  ASSUME NEW held \in Seq(Run), Sorted(held), NEW k \in 1 .. Len(held), NEW free \in Seq(Run),
         NEW from \in Int, NEW rest \in Run, NEW s \in Count, FreeTo(s, free, from, rest, held),
         \A i \in 1 .. k - 1 : held[i].last < s.from \/ held[i].first > rest.last
  PROVE  LET t == Past(s, held[k], rest) IN
         /\ FreeTo(t, free, from, rest, held)
         /\ \A i \in 1 .. k : held[i].last < t.from \/ held[i].first > rest.last
<1> DEFINE run == held[k]
           n == Len(held)
           t == Past(s, run, rest)
           gap == [first |-> s.from, last |-> run.first - 1]
<1> SUFFICES /\ FreeTo(t, free, from, rest, held)
             /\ \A i \in 1 .. k : held[i].last < t.from \/ held[i].first > rest.last
  OBVIOUS
<1>1. /\ n \in Nat /\ DOMAIN held = 1 .. n /\ k \in 1 .. n
      /\ s.from \in Int /\ s.free \in Seq(Run) /\ rest.first \in Int /\ rest.last \in Int
      /\ \A i \in 1 .. n : held[i].first \in Int /\ held[i].last \in Int
      /\ run \in Run /\ run.first \in Int /\ run.last \in Int /\ run = held[k]
      /\ run.first <= run.last
  <2>1. \A i \in 1 .. n : held[i] \in Run
    OBVIOUS
  <2>2. run.first <= run.last
    BY LenProperties DEF Sorted
  <2> QED BY <2>1, <2>2, LenProperties DEF Run, Count
<1>2. \A i \in 1 .. k : i = k \/ i \in 1 .. k - 1
  BY <1>1
<1>3. \A i \in 1 .. n : i \in 1 .. k - 1 \/ held[i].first >= run.first
  BY <1>1 DEF Sorted
<1>4. CASE run.last < s.from \/ run.first > rest.last
  BY <1>1, <1>2, <1>4 DEF Past
<1>5. CASE run.last >= s.from /\ run.first <= rest.last
  <2>1. t.from = run.last + 1 /\ t.from > s.from
    BY <1>1, <1>5 DEF Past
  <2>2. t.free = IF run.first > s.from THEN Append(s.free, gap) ELSE s.free
    BY <1>1, <1>5 DEF Past
  <2>3. \A i \in 1 .. k : held[i].last < t.from \/ held[i].first > rest.last
    <3> SUFFICES ASSUME NEW i \in 1 .. k PROVE held[i].last < t.from \/ held[i].first > rest.last
      OBVIOUS
    <3> HIDE DEF t, n
    <3>1. i \in 1 .. n
      BY <1>1
    <3>2. CASE i = k
      BY <1>1, <2>1, <3>2
    <3>3. CASE i \in 1 .. k - 1
      <4>1. held[i].last < s.from \/ held[i].first > rest.last
        BY <3>3
      <4>2. held[i].last \in Int
        BY <1>1, <3>1
      <4> HIDE DEF run
      <4> QED BY <1>1, <2>1, <4>1, <4>2
    <3> QED BY <1>2, <3>2, <3>3
  <2>4. gap \in Run /\ gap.first = s.from /\ gap.last = run.first - 1
    BY <1>1 DEF Run
  <2>5. ASSUME NEW m \in Int, s.from <= m, m < run.first PROVE ~Has(held, m)
    <3> SUFFICES ASSUME NEW i \in 1 .. n, m \in RunOf(held[i]) PROVE FALSE
      BY <1>1 DEF Has
    <3>1. held[i].first <= m /\ m <= held[i].last
      BY <1>1 DEF RunOf
    <3> HIDE DEF n, run, t, gap
    <3>2. CASE i \in 1 .. k - 1
      <4>1. held[i].last < s.from \/ held[i].first > rest.last
        BY <3>2
      <4> QED BY <1>1, <1>5, <2>5, <3>1, <4>1
    <3>3. CASE held[i].first >= run.first
      BY <1>1, <2>5, <3>1, <3>3
    <3> QED BY <1>3, <3>2, <3>3
  <2>6. ASSUME NEW m \in Int, run.first <= m, m <= run.last PROVE Has(held, m)
    BY <1>1, <2>6 DEF Has, RunOf
  <2> HIDE DEF n, run, t, gap
  <2>7. \A i \in DOMAIN s.free : s.free[i].last < s.from /\ s.free[i].last \in Int
    <3>1. \A i \in DOMAIN s.free : s.free[i] \in Run
      BY <1>1
    <3> QED BY <3>1 DEF FreeTo, Run
  <2>8. Rising(t.free) /\ \A i \in DOMAIN t.free : t.free[i].last < t.from
    <3>1. CASE run.first > s.from
      <4>1. Rising(s.free) /\ gap.first <= gap.last
        BY <1>1, <2>4, <3>1 DEF FreeTo
      <4>2. Rising(t.free) /\ \A i \in DOMAIN t.free : t.free[i].last <= gap.last
        BY <1>1, <2>2, <2>4, <2>7, <3>1, <4>1, AddedIs
      <4>3. \A i \in DOMAIN t.free : t.free[i].last \in Int
        <5>1. t.free \in Seq(Run)
          BY <1>1, <2>2, <2>4, <3>1, AddedIs
        <5>2. \A i \in DOMAIN t.free : t.free[i] \in Run
          BY <5>1
        <5> QED BY <5>2 DEF Run
      <4>4. gap.last < t.from /\ gap.last \in Int /\ t.from \in Int
        BY <1>1, <2>1, <2>4
      <4>5. \A x \in Int : x <= gap.last => x < t.from
        BY <4>4
      <4> QED BY <4>2, <4>3, <4>5
    <3>2. CASE ~(run.first > s.from)
      BY <1>1, <2>1, <2>2, <2>7, <3>2 DEF FreeTo
    <3> QED BY <3>1, <3>2
  <2>9. ASSUME NEW m \in Int
        PROVE  Has(t.free, m) <=> Has(s.free, m) \/ (s.from <= m /\ m < run.first)
    <3>1. CASE run.first > s.from
      <4>1. Has(t.free, m) <=> Has(s.free, m) \/ m \in RunOf(gap)
        BY <1>1, <2>2, <2>4, <3>1, AddedIs
      <4>2. m \in RunOf(gap) <=> s.from <= m /\ m < run.first
        BY <1>1, <2>4 DEF RunOf
      <4> QED BY <4>1, <4>2
    <3>2. CASE ~(run.first > s.from)
      BY <1>1, <2>2, <3>2
    <3> QED BY <3>1, <3>2
  <2>10. ASSUME NEW m \in Int
         PROVE  Has(t.free, m) <=> \/ Has(free, m)
                                   \/ from <= m /\ m <= rest.last /\ m < t.from /\ ~Has(held, m)
    <3>1. Has(s.free, m) <=> \/ Has(free, m)
                             \/ from <= m /\ m <= rest.last /\ m < s.from /\ ~Has(held, m)
      BY DEF FreeTo
    <3>2. s.from >= from
      BY DEF FreeTo
    <3>3. CASE m < s.from
      BY <1>1, <2>1, <2>9, <3>1, <3>2, <3>3
    <3>4. CASE s.from <= m /\ m < run.first
      BY <1>1, <1>5, <2>1, <2>5, <2>9, <3>1, <3>2, <3>4
    <3>5. CASE s.from <= m /\ run.first <= m
      BY <1>1, <2>1, <2>6, <2>9, <3>1, <3>2, <3>5
    <3> QED BY <1>1, <3>3, <3>4, <3>5
  <2>11. t.from >= from
    BY <1>1, <2>1 DEF FreeTo
  <2> QED BY <2>3, <2>8, <2>10, <2>11 DEF FreeTo
<1> QED BY <1>1, <1>4, <1>5

\* Where the count of a rest starts is past all that is free before.
LEMMA CountFromIs ==
  ASSUME NEW free \in Seq(Run), NEW rest \in Run
  PROVE  LET from == CountFrom(free, rest) IN
         /\ from \in Int /\ from >= rest.first
         /\ Rising(free) =>
              /\ \A i \in DOMAIN free : free[i].last < from
              /\ from = rest.first \/ Has(free, from - 1)
<1> DEFINE n == Len(free)
           last == free[n].last
           from == CountFrom(free, rest)
<1> SUFFICES /\ from \in Int /\ from >= rest.first
             /\ Rising(free) =>
                  /\ \A i \in DOMAIN free : free[i].last < from
                  /\ from = rest.first \/ Has(free, from - 1)
  OBVIOUS
<1>1. /\ n \in Nat /\ DOMAIN free = 1 .. n /\ rest.first \in Int
      /\ \A i \in 1 .. n : free[i].first \in Int /\ free[i].last \in Int
  <2>1. \A i \in 1 .. n : free[i] \in Run
    OBVIOUS
  <2> QED BY <2>1, LenProperties DEF Run
<1>2. CASE n = 0
  <2>1. free = <<>>
    BY <1>2, EmptySeq
  <2> QED BY <1>1, <1>2, <2>1 DEF CountFrom
<1>3. CASE n # 0
  <2>1. n \in 1 .. n /\ last \in Int /\ free # <<>>
    BY <1>1, <1>3
  <2>2. from = Max({rest.first, last + 1})
    BY <2>1 DEF CountFrom, Last
  <2>3. Max({rest.first, last + 1}) \in {rest.first, last + 1}
        /\ Max({rest.first, last + 1}) >= rest.first /\ Max({rest.first, last + 1}) >= last + 1
    <3> HIDE DEF last
    <3>1. CASE rest.first >= last + 1
      BY <1>1, <2>1, <3>1 DEF Max
    <3>2. CASE last + 1 >= rest.first
      BY <1>1, <2>1, <3>2 DEF Max
    <3> QED BY <1>1, <2>1, <3>1, <3>2
  <2>4. from \in {rest.first, last + 1} /\ from >= rest.first /\ from >= last + 1
    <3> HIDE DEF from, last
    <3> QED BY <2>2, <2>3
  <2>5. ASSUME Rising(free), NEW i \in 1 .. n PROVE free[i].last < from
    <3> HIDE DEF from, n
    <3>1. CASE i = n
      BY <1>1, <2>1, <2>4, <3>1
    <3>2. CASE i < n
      <4>1. free[i].last < free[n].first /\ free[n].first <= free[n].last
        BY <1>1, <2>1, <2>5, <3>2 DEF Rising
      <4> QED BY <1>1, <2>1, <2>4, <4>1
    <3> QED BY <1>1, <3>1, <3>2
  <2>6. ASSUME Rising(free), from # rest.first PROVE Has(free, from - 1)
    <3> HIDE DEF from
    <3>1. from - 1 = free[n].last /\ free[n].first <= free[n].last
      BY <1>1, <2>1, <2>4, <2>6 DEF Rising
    <3>2. from - 1 \in RunOf(free[n])
      BY <1>1, <2>1, <3>1 DEF RunOf
    <3> QED BY <1>1, <2>1, <3>2 DEF Has
  <2> HIDE DEF from, last
  <2> QED BY <1>1, <2>1, <2>4, <2>5, <2>6
<1> HIDE DEF from, last
<1> QED BY <1>2, <1>3

\* A rest counted: what it leaves free is what was free, and of it from where its count starts
\* what nothing holds.
LEMMA CountedIs ==
  ASSUME NEW free \in Seq(Run), NEW rest \in Run, NEW held \in Seq(Run), Sorted(held)
  PROVE  LET counted == Counted(free, rest, held)
             from == CountFrom(free, rest)
         IN /\ counted \in Seq(Run)
            /\ Rising(free) =>
                 /\ Rising(counted)
                 /\ \A m \in Int : Has(counted, m) <=>
                      Has(free, m) \/ (from <= m /\ m <= rest.last /\ ~Has(held, m))
<1> DEFINE n == Len(held)
           T == Count
           from == CountFrom(free, rest)
           b == [from |-> from, free |-> free]
           G == [k \in 1 .. n |-> [s \in T |-> Past(s, held[k], rest)]]
           Is(f) == f = [d \in SUBSET (1 .. n) |->
                           IF d = {} THEN b ELSE Past(f[d \ {Max(d)}], held[Max(d)], rest)]
           iter == CHOOSE f : Is(f)
           Kept(s, k) == /\ FreeTo(s, free, from, rest, held)
                         /\ \A i \in 1 .. k : held[i].last < s.from \/ held[i].first > rest.last
           I == [k \in 0 .. n |-> {s \in T : Rising(free) => Kept(s, k)}]
           end == iter[1 .. n]
           counted == Counted(free, rest, held)
<1> SUFFICES /\ counted \in Seq(Run)
             /\ Rising(free) =>
                  /\ Rising(counted)
                  /\ \A m \in Int : Has(counted, m) <=>
                       Has(free, m) \/ (from <= m /\ m <= rest.last /\ ~Has(held, m))
  OBVIOUS
<1>1. /\ n \in Nat /\ DOMAIN held = 1 .. n /\ \A i \in 1 .. n : held[i] \in Run
      /\ from \in Int /\ from >= rest.first
      /\ Rising(free) => \A i \in DOMAIN free : free[i].last < from
  BY LenProperties, CountFromIs
<1>2. b \in T /\ \A k \in 1 .. n : \A s \in T : Past(s, held[k], rest) \in T
  <2> HIDE DEF from, n
  <2> QED BY <1>1, PastIs DEF Count
<1>3. G \in [1 .. n -> [T -> T]]
  <2> HIDE DEF T, b, n
  <2> QED BY <1>2
<1>4. PICK g \in [SUBSET (1 .. n) -> T] : FoldsLeft(g, n, b, G)
  <2> HIDE DEF G, T, b, n
  <2> QED BY <1>1, <1>2, <1>3, FoldLeftExists
<1>5. Is(g)
  <2>1. ASSUME NEW d \in SUBSET (1 .. n), d # {}
        PROVE g[d] = Past(g[d \ {Max(d)}], held[Max(d)], rest)
    <3>1. Max(d) \in 1 .. n /\ d \ {Max(d)} \in SUBSET (1 .. n)
      BY <1>1, <2>1, MaxIsOne
    <3> HIDE DEF T, b, n
    <3> QED BY <1>4, <2>1, <3>1 DEF FoldsLeft
  <2>2. g[{}] = b
    <3> HIDE DEF b, T, G, n
    <3> QED BY <1>4 DEF FoldsLeft
  <2> HIDE DEF T, b, n
  <2> QED BY <1>4, <2>1, <2>2
<1>6. Is(iter)
  <2> HIDE DEF Is
  <2> QED BY <1>5
<1>7. counted = IF end.from <= rest.last
                THEN Append(end.free, [first |-> end.from, last |-> rest.last]) ELSE end.free
  BY <1>1 DEF Counted, FoldLeft, MapThenFoldSet
<1>8. FoldsOver(iter, n, T, b, G)
  <2>1. ASSUME NEW d \in SUBSET (1 .. n), d # {}, iter[d \ {Max(d)}] \in T
        PROVE iter[d] = G[Max(d)][iter[d \ {Max(d)}]]
    <3>1. Max(d) \in 1 .. n
      BY <1>1, <2>1, MaxIsOne
    <3> HIDE DEF iter, T, b, n
    <3> QED BY <1>6, <2>1, <3>1
  <2>2. iter[{}] = b
    <3> HIDE DEF iter, b, n
    <3> QED BY <1>6
  <2> HIDE DEF iter, T, G, b, n
  <2> QED BY <2>1, <2>2 DEF FoldsOver
<1>9. EachStepKeeps(I, n, T, b, G)
  <2>1. b \in I[0]
    <3>1. Rising(free) => Kept(b, 0)
      <4> SUFFICES ASSUME Rising(free) PROVE FreeTo(b, free, from, rest, held)
        OBVIOUS
      <4>1. b.from = from /\ b.free = free
        OBVIOUS
      <4> HIDE DEF from, b
      <4> QED BY <1>1, <4>1 DEF FreeTo
    <3> HIDE DEF Kept, b, T, n
    <3> QED BY <1>1, <1>2, <3>1
  <2>2. ASSUME NEW k \in 1 .. n, NEW s \in T, s \in I[k - 1] PROVE G[k][s] \in I[k]
    <3>1. k \in 0 .. n /\ k - 1 \in 0 .. n
      BY <1>1
    <3>2. G[k][s] = Past(s, held[k], rest)
      <4> HIDE DEF T, n
      <4> QED OBVIOUS
    <3>3. Rising(free) => Kept(s, k - 1)
      <4> HIDE DEF Kept, T, n
      <4> QED BY <2>2, <3>1
    <3>4. Rising(free) => Kept(Past(s, held[k], rest), k)
      <4> HIDE DEF from
      <4> QED BY <1>1, <3>3, PastKeeps
    <3> HIDE DEF Kept, T, G, n
    <3> QED BY <1>2, <3>1, <3>2, <3>4
  <2> HIDE DEF T, G, I, b, n
  <2> QED BY <2>1, <2>2 DEF EachStepKeeps
<1>10. end \in T /\ end \in I[n]
  <2> HIDE DEF iter, T, G, I, Is, b, n
  <2> QED BY <1>1, <1>2, <1>3, <1>8, <1>9, FoldKeeps
<1>11. end \in Count /\ (Rising(free) => Kept(end, n))
  <2> HIDE DEF iter, Kept, end, b
  <2> QED BY <1>1, <1>10
<1> DEFINE gap == [first |-> end.from, last |-> rest.last]
<1> HIDE DEF iter, I, G, Is, b, end, counted, from, n
<1>12. gap \in Run /\ end.free \in Seq(Run) /\ end.from \in Int /\ rest.last \in Int
       /\ gap.first = end.from /\ gap.last = rest.last
  BY <1>11 DEF Count, Run
<1> HIDE DEF gap
<1>13. counted = IF end.from <= rest.last THEN Append(end.free, gap) ELSE end.free
  BY <1>7 DEF gap
<1>14. counted \in Seq(Run)
  BY <1>12, <1>13, AddedIs
<1>15. ASSUME Rising(free) PROVE Rising(counted)
  <2>1. Rising(end.free) /\ \A i \in DOMAIN end.free : end.free[i].last < end.from
    BY <1>11, <1>15 DEF FreeTo
  <2> QED BY <1>12, <1>13, <2>1, AddedIs
<1>16. ASSUME Rising(free), NEW m \in Int
       PROVE  Has(counted, m) <=>
                Has(free, m) \/ (from <= m /\ m <= rest.last /\ ~Has(held, m))
  <2>1. Has(counted, m) <=> Has(end.free, m) \/ (end.from <= m /\ m <= rest.last)
    <3>1. CASE end.from <= rest.last
      <4>1. Has(counted, m) <=> Has(end.free, m) \/ m \in RunOf(gap)
        BY <1>12, <1>13, <3>1, AddedIs
      <4> QED BY <1>12, <4>1 DEF RunOf
    <3>2. CASE ~(end.from <= rest.last)
      BY <1>12, <1>13, <3>2
    <3> QED BY <3>1, <3>2
  <2>2. /\ end.from >= from
        /\ Has(end.free, m) <=>
             \/ Has(free, m)
             \/ from <= m /\ m <= rest.last /\ m < end.from /\ ~Has(held, m)
        /\ \A i \in 1 .. n : held[i].last < end.from \/ held[i].first > rest.last
    BY <1>11, <1>16 DEF FreeTo
  <2>3. end.from <= m /\ m <= rest.last => ~Has(held, m)
    <3> SUFFICES ASSUME end.from <= m, m <= rest.last, NEW i \in 1 .. n, m \in RunOf(held[i])
                 PROVE FALSE
      BY <1>1 DEF Has
    <3>1. held[i].first \in Int /\ held[i].last \in Int
      BY <1>1 DEF Run
    <3>2. held[i].first <= m /\ m <= held[i].last
      BY <3>1 DEF RunOf
    <3>3. held[i].last < end.from \/ held[i].first > rest.last
      BY <2>2
    <3> QED BY <1>12, <3>1, <3>2, <3>3
  <2> QED BY <1>1, <1>12, <2>1, <2>2, <2>3
<1> QED BY <1>14, <1>15, <1>16

\* Rests counted one after another, lowest first, past all that is held: what is free is of one of
\* them and not held, once.
LEMMA RestsCounted ==
  ASSUME NEW rests \in Seq(Run), Sorted(rests), NEW held \in Seq(Run), Sorted(held)
  PROVE  LET free == Free(rests, held) IN
         /\ free \in Seq(Run) /\ Rising(free)
         /\ \A m \in Int : Has(free, m) <=> Has(rests, m) /\ ~Has(held, m)
<1> DEFINE n == Len(rests)
           T == Seq(Run)
           G == [k \in 1 .. n |-> [s \in T |-> Counted(s, rests[k], held)]]
           Is(f) == f = [d \in SUBSET (1 .. n) |->
                           IF d = {} THEN <<>> ELSE Counted(f[d \ {Max(d)}], rests[Max(d)], held)]
           iter == CHOOSE f : Is(f)
           Upto(k, m) == \E i \in 1 .. k : m \in RunOf(rests[i])
           Kept(s, k) == /\ Rising(s)
                         /\ \A m \in Int : Has(s, m) <=> Upto(k, m) /\ ~Has(held, m)
           I == [k \in 0 .. n |-> {s \in T : Kept(s, k)}]
           free == Free(rests, held)
<1> SUFFICES /\ free \in Seq(Run) /\ Rising(free)
             /\ \A m \in Int : Has(free, m) <=> Has(rests, m) /\ ~Has(held, m)
  OBVIOUS
<1>1. /\ n \in Nat /\ DOMAIN rests = 1 .. n /\ \A i \in 1 .. n : rests[i] \in Run
      /\ \A i \in 1 .. n : rests[i].first \in Int /\ rests[i].last \in Int
  <2>1. \A i \in 1 .. n : rests[i] \in Run
    OBVIOUS
  <2> QED BY <2>1, LenProperties DEF Run
<1>2. <<>> \in T /\ \A k \in 1 .. n : \A s \in T : Counted(s, rests[k], held) \in T
  <2> HIDE DEF n
  <2> QED BY <1>1, CountedIs
<1>3. G \in [1 .. n -> [T -> T]]
  <2> HIDE DEF T, n
  <2> QED BY <1>2
<1>4. PICK g \in [SUBSET (1 .. n) -> T] : FoldsLeft(g, n, <<>>, G)
  <2> HIDE DEF G, T, n
  <2> QED BY <1>1, <1>2, <1>3, FoldLeftExists
<1>5. Is(g)
  <2>1. ASSUME NEW d \in SUBSET (1 .. n), d # {}
        PROVE g[d] = Counted(g[d \ {Max(d)}], rests[Max(d)], held)
    <3>1. Max(d) \in 1 .. n /\ d \ {Max(d)} \in SUBSET (1 .. n)
      BY <1>1, <2>1, MaxIsOne
    <3> HIDE DEF T, n
    <3> QED BY <1>4, <2>1, <3>1 DEF FoldsLeft
  <2>2. g[{}] = <<>>
    <3> HIDE DEF T, G, n
    <3> QED BY <1>4 DEF FoldsLeft
  <2> HIDE DEF T, n
  <2> QED BY <1>4, <2>1, <2>2
<1>6. Is(iter)
  <2> HIDE DEF Is
  <2> QED BY <1>5
<1>7. free = iter[1 .. n]
  BY <1>1 DEF Free, FoldLeft, MapThenFoldSet
<1>8. FoldsOver(iter, n, T, <<>>, G)
  <2>1. ASSUME NEW d \in SUBSET (1 .. n), d # {}, iter[d \ {Max(d)}] \in T
        PROVE iter[d] = G[Max(d)][iter[d \ {Max(d)}]]
    <3>1. Max(d) \in 1 .. n
      BY <1>1, <2>1, MaxIsOne
    <3> HIDE DEF iter, T, n
    <3> QED BY <1>6, <2>1, <3>1
  <2>2. iter[{}] = <<>>
    <3> HIDE DEF iter, n
    <3> QED BY <1>6
  <2> HIDE DEF iter, T, G, n
  <2> QED BY <2>1, <2>2 DEF FoldsOver
<1>9. EachStepKeeps(I, n, T, <<>>, G)
  <2>1. <<>> \in I[0]
    <3>1. Kept(<<>>, 0)
      BY DEF Rising, Has
    <3> HIDE DEF Kept, T, n
    <3> QED BY <1>1, <1>2, <3>1
  <2>2. ASSUME NEW k \in 1 .. n, NEW s \in T, s \in I[k - 1] PROVE G[k][s] \in I[k]
    <3> DEFINE counted == Counted(s, rests[k], held)
               from == CountFrom(s, rests[k])
               rest == rests[k]
    <3>1. k \in 0 .. n /\ k - 1 \in 0 .. n
      BY <1>1
    <3>2. G[k][s] = counted
      <4> HIDE DEF T, n
      <4> QED OBVIOUS
    <3>3. Kept(s, k - 1)
      <4> HIDE DEF Kept, T, n
      <4> QED BY <2>2, <3>1
    <3>4. /\ counted \in T /\ Rising(counted)
          /\ \A m \in Int : Has(counted, m) <=>
               Has(s, m) \/ (from <= m /\ m <= rest.last /\ ~Has(held, m))
      BY <1>1, <3>3, CountedIs
    <3>5. from \in Int /\ from >= rest.first /\ (from = rest.first \/ Has(s, from - 1))
      BY <1>1, <3>3, CountFromIs
    <3> HIDE DEF counted, from
    <3>6. ASSUME NEW m \in Int PROVE Has(counted, m) <=> Upto(k, m) /\ ~Has(held, m)
      <4>1. Has(s, m) <=> Upto(k - 1, m) /\ ~Has(held, m)
        BY <3>3
      <4>2. m \in RunOf(rest) <=> rest.first <= m /\ m <= rest.last
        BY <1>1 DEF RunOf
      <4>3. Upto(k, m) <=> Upto(k - 1, m) \/ m \in RunOf(rest)
        <5>1. 1 .. k = (1 .. k - 1) \cup {k}
          BY <1>1
        <5> QED BY <5>1
      <4>4. m \in RunOf(rest) /\ m < from => Upto(k - 1, m)
        <5> SUFFICES ASSUME rest.first <= m, m <= rest.last, m < from PROVE Upto(k - 1, m)
          BY <4>2
        <5>1. Has(s, from - 1) /\ from - 1 \in Int
          BY <1>1, <3>5
        <5>2. Upto(k - 1, from - 1)
          BY <3>3, <5>1
        <5>3. PICK i \in 1 .. k - 1 : from - 1 \in RunOf(rests[i])
          BY <5>2
        <5>4. i \in 1 .. n /\ i < k
          BY <1>1
        <5>5. rests[i].first <= rest.first
          BY <1>1, <5>4 DEF Sorted
        <5>6. rests[i].first \in Int /\ rests[i].last \in Int /\ rest.first \in Int
          BY <1>1, <5>4
        <5>7. from - 1 <= rests[i].last
          BY <5>3, <5>6 DEF RunOf
        <5>8. m \in RunOf(rests[i])
          BY <3>5, <5>5, <5>6, <5>7 DEF RunOf
        <5> QED BY <5>8
      <4> HIDE DEF Upto, rest
      <4>5. from <= m /\ m <= rest.last => m \in RunOf(rest)
        BY <1>1, <3>5, <4>2 DEF rest
      <4> QED BY <1>1, <3>4, <3>5, <4>1, <4>2, <4>3, <4>4, <4>5
    <3>7. Kept(counted, k)
      BY <3>4, <3>6
    <3> HIDE DEF Kept, T, G, n
    <3> QED BY <3>1, <3>2, <3>4, <3>7
  <2> HIDE DEF T, G, I, n
  <2> QED BY <2>1, <2>2 DEF EachStepKeeps
<1>10. iter[1 .. n] \in T /\ iter[1 .. n] \in I[n]
  <2> HIDE DEF iter, T, G, I, Is, n
  <2> QED BY <1>1, <1>2, <1>3, <1>8, <1>9, FoldKeeps
<1>11. free \in Seq(Run) /\ Kept(free, n)
  <2> HIDE DEF iter, Kept, free
  <2> QED BY <1>1, <1>7, <1>10
<1> HIDE DEF free
<1> QED BY <1>1, <1>11 DEF Has

\* Of a block, what it holds and what its phone handed back are its run.
LEMMA HeldOrRest ==
  ASSUME Typed, NEW i \in DOMAIN blocks
  PROVE  /\ HeldRun(blocks[i]) \in Run /\ RestRun(blocks[i]) \in Run
         /\ \A m \in Int : m \in RunOf(blocks[i]) <=>
              m \in Held(blocks[i]) \/ m \in RunOf(RestRun(blocks[i]))
  BY BlockTypes DEF Held, HeldRun, RestRun, RunOf, Run

\* The book gives what was handed back and no block holds, each number of it once.
LEMMA HandedBackIs ==
  ASSUME Typed
  PROVE  /\ HandedBack(blocks) \in Seq(Run) /\ Rising(HandedBack(blocks))
         /\ \A m \in Int : Has(HandedBack(blocks), m) <=>
              /\ \E i \in DOMAIN blocks : m \in RunOf(RestRun(blocks[i]))
              /\ ~\E i \in DOMAIN blocks : m \in Held(blocks[i])
<1> DEFINE n == Len(blocks)
           heldRuns == [i \in DOMAIN blocks |-> HeldRun(blocks[i])]
           restRuns == [i \in DOMAIN blocks |-> RestRun(blocks[i])]
           held == LowestFirst(heldRuns)
           rests == LowestFirst(restRuns)
<1>1. n \in Nat /\ DOMAIN blocks = 1 .. n
  BY BlockTypes
<1>2. heldRuns \in [1 .. n -> Run] /\ restRuns \in [1 .. n -> Run]
  BY <1>1, HeldOrRest
<1>3. \A m \in Int : /\ Has(heldRuns, m) <=> \E i \in DOMAIN blocks : m \in Held(blocks[i])
                     /\ Has(restRuns, m) <=> \E i \in DOMAIN blocks : m \in RunOf(RestRun(blocks[i]))
  BY DEF Has, Held
<1>4. HandedBack(blocks) = Free(rests, held)
  BY DEF HandedBack
<1> HIDE DEF n, heldRuns, restRuns
<1>5. /\ held \in Seq(Run) /\ Sorted(held) /\ \A m \in Int : Has(held, m) <=> Has(heldRuns, m)
      /\ rests \in Seq(Run) /\ Sorted(rests) /\ \A m \in Int : Has(rests, m) <=> Has(restRuns, m)
  BY <1>1, <1>2, LowestFirstIs
<1> HIDE DEF held, rests
<1>6. /\ HandedBack(blocks) \in Seq(Run) /\ Rising(HandedBack(blocks))
      /\ \A m \in Int : Has(HandedBack(blocks), m) <=> Has(rests, m) /\ ~Has(held, m)
  BY <1>4, <1>5, RestsCounted
<1> QED BY <1>3, <1>5, <1>6

(***************************************************************************)
(* The book and the top-ups                                                *)
(***************************************************************************)
\* The numbers of the blocks are those below the next, and no others.
Covered == \A m \in Number : m < next <=> \E i \in DOMAIN blocks : m \in RunOf(blocks[i])

\* The run of new numbers a top-up takes, where it takes any.
IsNew(run, t) == run.first = t.series /\ run.last = t.taken.next - 1

\* What a top-up takes lies below the next number, but for one run that starts where it read it.
TakenWithin(t) ==
  /\ t.taken.runs \in Seq(Run) /\ t.taken.next \in Int /\ t.series <= t.taken.next
  /\ \A i \in DOMAIN t.taken.runs : t.taken.runs[i].last < next \/ IsNew(t.taken.runs[i], t)
  /\ t.taken.next # t.series => \E i \in DOMAIN t.taken.runs : IsNew(t.taken.runs[i], t)

\* The next number only moves on from where a top-up read it.
SeriesRead(t) ==
  /\ t.stage \in {"series", "report", "book"} => t.series <= next
  /\ t.stage = "book" => TakenWithin(t)

BookInv == Covered /\ \A k \in Sync : SeriesRead(topUp[k])

\* Where every number handed out is of a block, and none of two, the book balances.
LEMMA CoveredBalances ==
  ASSUME NumberingInv, Covered
  PROVE  BookBalances
<1> DEFINE back == HandedBack(blocks)
           H(m) == {i \in DOMAIN blocks : m \in Held(blocks[i])}
           R(m) == {i \in DOMAIN back : m \in RunOf(back[i])}
<1> SUFFICES ASSUME NEW m \in Number
             PROVE  Cardinality(H(m)) + Cardinality(R(m)) = IF m < next THEN 1 ELSE 0
  BY DEF BookBalances
<1>1. Typed /\ Apart /\ m \in Int /\ next \in Int
  BY NumberingAssumption DEF NumberingInv, Typed, NumberingTypeOK, Number
<1>2. /\ back \in Seq(Run) /\ Rising(back)
      /\ Has(back, m) <=> /\ \E i \in DOMAIN blocks : m \in RunOf(RestRun(blocks[i]))
                          /\ ~\E i \in DOMAIN blocks : m \in Held(blocks[i])
  BY <1>1, HandedBackIs
<1> HIDE DEF back
<1>3. \A i \in DOMAIN blocks : m \in RunOf(blocks[i]) <=>
        m \in Held(blocks[i]) \/ m \in RunOf(RestRun(blocks[i]))
  BY <1>1, HeldOrRest
<1>4. m < next <=> \E i \in DOMAIN blocks : m \in RunOf(blocks[i])
  BY DEF Covered
<1>5. ASSUME NEW i \in DOMAIN blocks, NEW j \in DOMAIN blocks, i \in H(m), j \in H(m) PROVE i = j
  BY <1>1, <1>5 DEF Apart
<1>6. ASSUME NEW i \in DOMAIN back, NEW j \in DOMAIN back, i \in R(m), j \in R(m) PROVE i = j
  <2>1. /\ back[i].first \in Int /\ back[i].last \in Int /\ i \in Int
        /\ back[j].first \in Int /\ back[j].last \in Int /\ j \in Int
    <3>1. back[i] \in Run /\ back[j] \in Run /\ i \in Int /\ j \in Int
      BY <1>2, LenProperties
    <3> QED BY <3>1 DEF Run
  <2>2. m <= back[i].last /\ back[i].first <= m /\ m <= back[j].last /\ back[j].first <= m
    BY <1>1, <1>6, <2>1 DEF RunOf
  <2>3. ~(i < j) /\ ~(j < i)
    BY <1>1, <1>2, <2>1, <2>2 DEF Rising
  <2> QED BY <2>1, <2>3
<1>7. CASE H(m) # {}
  <2>1. PICK i \in DOMAIN blocks : i \in H(m)
    BY <1>7
  <2>2. H(m) = {i}
    <3> HIDE DEF H
    <3>1. H(m) \subseteq DOMAIN blocks
      BY DEF H
    <3> QED BY <1>5, <2>1, <3>1
  <2>3. R(m) = {}
    BY <1>2, <2>1 DEF Has
  <2>4. m < next
    BY <1>3, <1>4, <2>1
  <2> HIDE DEF H, R
  <2> QED BY <2>2, <2>3, <2>4, FS_EmptySet, FS_Singleton
<1>8. CASE H(m) = {} /\ m < next
  <2>1. PICK j \in DOMAIN blocks : m \in RunOf(blocks[j])
    BY <1>4, <1>8
  <2>2. Has(back, m)
    BY <1>2, <1>3, <1>8, <2>1
  <2>3. PICK i \in DOMAIN back : i \in R(m)
    BY <2>2 DEF Has
  <2>4. R(m) = {i}
    <3> HIDE DEF R
    <3>1. R(m) \subseteq DOMAIN back
      BY DEF R
    <3> QED BY <1>6, <2>3, <3>1
  <2>5. Cardinality(H(m)) = 0 /\ Cardinality(R(m)) = 1
    <3> HIDE DEF H, R
    <3> QED BY <1>8, <2>4, FS_EmptySet, FS_Singleton
  <2> HIDE DEF H, R
  <2> QED BY <1>8, <2>5
<1>9. CASE H(m) = {} /\ ~(m < next)
  <2>1. R(m) = {}
    BY <1>2, <1>3, <1>4, <1>9 DEF Has
  <2> HIDE DEF H, R
  <2> QED BY <1>9, <2>1, FS_EmptySet
<1> QED BY <1>7, <1>8, <1>9

(***************************************************************************)
(* What a top-up takes                                                     *)
(***************************************************************************)
Tally == [runs : Seq(Run), wanted : Int]

\* Taken below a number, and no more than wanted.
Below(s, most) == s.wanted >= 0 /\ \A i \in DOMAIN s.runs : s.runs[i].last < most

LEMMA TakenKeeps ==
  ASSUME NEW s \in Tally, NEW run \in Run, NEW most \in Int
  PROVE  /\ Taken(s, run) \in Tally
         /\ run.first <= run.last /\ run.last < most /\ Below(s, most) => Below(Taken(s, run), most)
<1> DEFINE upTo == run.first + s.wanted - 1
           last == Min({run.last, upTo})
           t == Taken(s, run)
           part == [first |-> run.first, last |-> last]
<1>1. s.runs \in Seq(Run) /\ s.wanted \in Int /\ run.first \in Int /\ run.last \in Int /\ upTo \in Int
  BY DEF Tally, Run
<1>2. last \in Int /\ last <= run.last /\ last <= upTo
  <2> HIDE DEF upTo
  <2>1. CASE run.last <= upTo
    BY <1>1, <2>1 DEF Min
  <2>2. CASE upTo <= run.last
    BY <1>1, <2>2 DEF Min
  <2> QED BY <1>1, <2>1, <2>2
<1>3. t = IF s.wanted = 0 THEN s
          ELSE [runs |-> Append(s.runs, part), wanted |-> s.wanted - (last + 1 - run.first)]
  BY DEF Taken
<1>4. part \in Run /\ part.last = last
  BY <1>1, <1>2 DEF Run
<1> HIDE DEF t, last, part
<1>5. /\ Append(s.runs, part) \in Seq(Run)
      /\ DOMAIN Append(s.runs, part) = 1 .. Len(s.runs) + 1 /\ Len(s.runs) \in Nat
      /\ DOMAIN s.runs = 1 .. Len(s.runs)
      /\ \A i \in 1 .. Len(s.runs) + 1 :
           Append(s.runs, part)[i] = IF i = Len(s.runs) + 1 THEN part ELSE s.runs[i]
  BY <1>1, <1>4, AppendProperties, LenProperties
<1>6. t \in Tally
  BY <1>1, <1>2, <1>3, <1>5 DEF Tally
<1>7. ASSUME run.first <= run.last, run.last < most, Below(s, most) PROVE Below(t, most)
  <2>1. CASE s.wanted = 0
    BY <1>3, <1>7, <2>1
  <2>2. CASE s.wanted # 0
    <3>1. t.wanted = s.wanted - (last + 1 - run.first) /\ t.runs = Append(s.runs, part)
      BY <1>3, <2>2
    <3>2. t.wanted >= 0
      BY <1>1, <1>2, <1>7, <3>1 DEF Below
    <3>3. part.last < most
      BY <1>1, <1>2, <1>4, <1>7
    <3>4. ASSUME NEW i \in 1 .. Len(s.runs) + 1 PROVE t.runs[i].last < most
      <4>1. CASE i = Len(s.runs) + 1
        BY <1>5, <3>1, <3>3, <4>1
      <4>2. CASE i # Len(s.runs) + 1
        <5>1. i \in DOMAIN s.runs /\ t.runs[i] = s.runs[i]
          BY <1>5, <3>1, <4>2
        <5> QED BY <1>7, <5>1 DEF Below
      <4> QED BY <4>1, <4>2
    <3> QED BY <1>5, <3>1, <3>2, <3>4 DEF Below
  <2> QED BY <2>1, <2>2
<1> QED BY <1>6, <1>7 DEF t

\* What is taken of runs that lie below a number.
LEMMA TakenOfAll ==
  ASSUME NEW back \in Seq(Run), NEW most \in Int, NEW count \in Nat,
         \A i \in DOMAIN back : back[i].first <= back[i].last /\ back[i].last < most
  PROVE  LET s == FoldLeft(Taken, [runs |-> <<>>, wanted |-> count], back) IN
         s \in Tally /\ Below(s, most)
<1> DEFINE n == Len(back)
           T == Tally
           b == [runs |-> <<>>, wanted |-> count]
           G == [k \in 1 .. n |-> [s \in T |-> Taken(s, back[k])]]
           Is(f) == f = [d \in SUBSET (1 .. n) |->
                           IF d = {} THEN b ELSE Taken(f[d \ {Max(d)}], back[Max(d)])]
           iter == CHOOSE f : Is(f)
           I == [k \in 0 .. n |-> {s \in T : Below(s, most)}]
           end == FoldLeft(Taken, [runs |-> <<>>, wanted |-> count], back)
<1> SUFFICES end \in Tally /\ Below(end, most)
  OBVIOUS
<1>1. n \in Nat /\ DOMAIN back = 1 .. n /\ \A i \in 1 .. n : back[i] \in Run
  BY LenProperties
<1>2. b \in T /\ \A k \in 1 .. n : \A s \in T : Taken(s, back[k]) \in T
  <2> HIDE DEF n
  <2>1. b \in Tally
    BY DEF Tally
  <2> HIDE DEF b
  <2> QED BY <1>1, <2>1, TakenKeeps
<1>3. G \in [1 .. n -> [T -> T]]
  <2> HIDE DEF T, n
  <2> QED BY <1>2
<1>4. PICK g \in [SUBSET (1 .. n) -> T] : FoldsLeft(g, n, b, G)
  <2> HIDE DEF G, T, b, n
  <2> QED BY <1>1, <1>2, <1>3, FoldLeftExists
<1>5. Is(g)
  <2>1. ASSUME NEW d \in SUBSET (1 .. n), d # {}
        PROVE g[d] = Taken(g[d \ {Max(d)}], back[Max(d)])
    <3>1. Max(d) \in 1 .. n /\ d \ {Max(d)} \in SUBSET (1 .. n)
      BY <1>1, <2>1, MaxIsOne
    <3> HIDE DEF T, b, n
    <3> QED BY <1>4, <2>1, <3>1 DEF FoldsLeft
  <2>2. g[{}] = b
    <3> HIDE DEF b, T, G, n
    <3> QED BY <1>4 DEF FoldsLeft
  <2> HIDE DEF T, b, n
  <2> QED BY <1>4, <2>1, <2>2
<1>6. Is(iter)
  <2> HIDE DEF Is
  <2> QED BY <1>5
<1>7. end = iter[1 .. n]
  BY <1>1 DEF FoldLeft, MapThenFoldSet
<1>8. FoldsOver(iter, n, T, b, G)
  <2>1. ASSUME NEW d \in SUBSET (1 .. n), d # {}, iter[d \ {Max(d)}] \in T
        PROVE iter[d] = G[Max(d)][iter[d \ {Max(d)}]]
    <3>1. Max(d) \in 1 .. n
      BY <1>1, <2>1, MaxIsOne
    <3> HIDE DEF iter, T, b, n
    <3> QED BY <1>6, <2>1, <3>1
  <2>2. iter[{}] = b
    <3> HIDE DEF iter, b, n
    <3> QED BY <1>6
  <2> HIDE DEF iter, T, G, b, n
  <2> QED BY <2>1, <2>2 DEF FoldsOver
<1>9. EachStepKeeps(I, n, T, b, G)
  <2>1. b \in I[0]
    <3>1. Below(b, most)
      BY DEF Below
    <3> HIDE DEF b, T, n
    <3> QED BY <1>1, <1>2, <3>1
  <2>2. ASSUME NEW k \in 1 .. n, NEW s \in T, s \in I[k - 1] PROVE G[k][s] \in I[k]
    <3>1. k \in 0 .. n /\ k - 1 \in 0 .. n
      BY <1>1
    <3>2. G[k][s] = Taken(s, back[k])
      <4> HIDE DEF T, n
      <4> QED OBVIOUS
    <3>3. Below(s, most)
      <4> HIDE DEF T, n
      <4> QED BY <2>2, <3>1
    <3>4. Below(Taken(s, back[k]), most)
      BY <1>1, <3>3, TakenKeeps
    <3> HIDE DEF T, G, n
    <3> QED BY <1>2, <3>1, <3>2, <3>4
  <2> HIDE DEF T, G, I, b, n
  <2> QED BY <2>1, <2>2 DEF EachStepKeeps
<1>10. iter[1 .. n] \in T /\ iter[1 .. n] \in I[n]
  <2> HIDE DEF iter, T, G, I, Is, b, n
  <2> QED BY <1>1, <1>2, <1>3, <1>8, <1>9, FoldKeeps
<1> HIDE DEF iter, b, end
<1> QED BY <1>1, <1>7, <1>10

\* A top-up takes what was handed back, below the next number, and one run of new ones from where
\* it read the series for what is wanted still.
LEMMA TakeIs ==
  ASSUME Typed, Covered, NEW series \in Nat, NEW count \in Nat, NEW t, t.series = series,
         t.taken = Take(series, blocks, count)
  PROVE  TakenWithin(t)
<1> DEFINE back == HandedBack(blocks)
           s == FoldLeft(Taken, [runs |-> <<>>, wanted |-> count], back)
           new == [first |-> series, last |-> series + s.wanted - 1]
<1>1. back \in Seq(Run) /\ Rising(back) /\ next \in Int
  BY HandedBackIs, NumberingAssumption DEF Typed, NumberingTypeOK
<1>2. ASSUME NEW i \in DOMAIN back PROVE back[i].first <= back[i].last /\ back[i].last < next
  <2>1. back[i].first <= back[i].last
    BY <1>1 DEF Rising
  <2>2. back[i].first \in Int /\ back[i].last \in Int
    <3>1. back[i] \in Run
      BY <1>1
    <3> QED BY <3>1 DEF Run
  <2>3. Has(back, back[i].last)
    <3> HIDE DEF back
    <3> QED BY <2>1, <2>2 DEF Has, RunOf
  <2>4. PICK j \in DOMAIN blocks : back[i].last \in RunOf(RestRun(blocks[j]))
    BY <2>2, <2>3, HandedBackIs
  <2>5. back[i].last \in RunOf(blocks[j])
    BY <2>2, <2>4, HeldOrRest
  <2>6. back[i].last \in Number
    <3> HIDE DEF back
    <3> QED BY <2>2, <2>5, BlockTypes DEF RunOf, Number
  <2> QED BY <2>1, <2>5, <2>6 DEF Covered
<1> HIDE DEF back
<1>3. s \in Tally /\ Below(s, next)
  BY <1>1, <1>2, TakenOfAll
<1>4. t.taken = IF s.wanted = 0 THEN [runs |-> s.runs, next |-> series]
                ELSE [runs |-> Append(s.runs, new), next |-> series + s.wanted]
  BY DEF Take, back
<1> HIDE DEF s
<1>5. s.runs \in Seq(Run) /\ s.wanted \in Int /\ s.wanted >= 0
      /\ \A i \in DOMAIN s.runs : s.runs[i].last < next
  BY <1>3 DEF Tally, Below
<1>6. CASE s.wanted = 0
  BY <1>4, <1>5, <1>6 DEF TakenWithin
<1>7. CASE s.wanted # 0
  <2>1. new \in Run /\ new.first = series /\ new.last = series + s.wanted - 1
    BY <1>5 DEF Run
  <2> HIDE DEF new
  <2>2. /\ Append(s.runs, new) \in Seq(Run)
        /\ DOMAIN Append(s.runs, new) = 1 .. Len(s.runs) + 1 /\ Len(s.runs) \in Nat
        /\ DOMAIN s.runs = 1 .. Len(s.runs)
        /\ \A i \in 1 .. Len(s.runs) + 1 :
             Append(s.runs, new)[i] = IF i = Len(s.runs) + 1 THEN new ELSE s.runs[i]
    BY <1>5, <2>1, AppendProperties, LenProperties
  <2>3. t.taken.runs = Append(s.runs, new) /\ t.taken.next = series + s.wanted
    BY <1>4, <1>7
  <2>4. IsNew(new, t)
    BY <1>5, <2>1, <2>3 DEF IsNew
  <2>5. \A i \in DOMAIN t.taken.runs :
          t.taken.runs[i].last < next \/ IsNew(t.taken.runs[i], t)
    <3> SUFFICES ASSUME NEW i \in 1 .. Len(s.runs) + 1
                 PROVE t.taken.runs[i].last < next \/ IsNew(t.taken.runs[i], t)
      BY <2>2, <2>3
    <3>1. CASE i = Len(s.runs) + 1
      BY <2>2, <2>3, <2>4, <3>1
    <3>2. CASE i # Len(s.runs) + 1
      <4>1. i \in DOMAIN s.runs /\ t.taken.runs[i] = s.runs[i]
        BY <2>2, <2>3, <3>2
      <4> QED BY <1>5, <4>1
    <3> QED BY <3>1, <3>2
  <2>6. \E i \in DOMAIN t.taken.runs : IsNew(t.taken.runs[i], t)
    <3>1. Len(s.runs) + 1 \in DOMAIN t.taken.runs /\ t.taken.runs[Len(s.runs) + 1] = new
      BY <2>2, <2>3
    <3> QED BY <2>4, <3>1
  <2> QED BY <1>5, <2>2, <2>3, <2>5, <2>6 DEF TakenWithin
<1> QED BY <1>6, <1>7

\* How many a phone takes is a number.
LEMMA WantedIs ==
  ASSUME NumberingInv, NEW p \in Phone, NEW w, DOMAIN w \subseteq DOMAIN blocks,
         \A i \in DOMAIN w : w[i] \in RunOf(blocks[i])
  PROVE  Wanted(Written(w), p) \in Nat
<1> DEFINE all == Written(w)
           S == HeldBy(all, p)
           left == [i \in S |-> all[i].last - all[i].used]
<1>1. /\ DOMAIN all = DOMAIN blocks /\ DOMAIN blocks = 1 .. Len(blocks) /\ Len(blocks) \in Nat
  BY BlockTypes DEF Written, NumberingInv
<1>2. IsFiniteSet(S)
  <2>1. S \subseteq 1 .. Len(blocks) /\ IsFiniteSet(1 .. Len(blocks))
    BY <1>1, FS_Interval DEF HeldBy
  <2> HIDE DEF S
  <2> QED BY <2>1, FS_Subset
<1>3. ASSUME NEW i \in S PROVE left[i] \in Nat
  <2>1. i \in DOMAIN blocks
    BY <1>1 DEF HeldBy
  <2>2. /\ blocks[i].first \in Nat /\ blocks[i].last \in Nat /\ blocks[i].used \in Nat
        /\ blocks[i].used <= blocks[i].last /\ blocks[i] \in Block
    BY <2>1, BlockTypes DEF NumberingInv
  <2>3. all[i].last = blocks[i].last
        /\ (all[i].used = blocks[i].used \/ (i \in DOMAIN w /\ all[i].used = w[i]))
    BY <2>1, <2>2 DEF Written, Block
  <2>4. all[i].used \in Nat /\ all[i].used <= all[i].last
    <3> HIDE DEF all
    <3> QED BY <2>2, <2>3 DEF RunOf
  <2> HIDE DEF all
  <2> QED BY <2>2, <2>3, <2>4
<1>4. SumOf(left, S) \in Nat
  <2> HIDE DEF S, left
  <2> QED BY <1>2, <1>3, SumSplits
<1>5. Wanted(all, p) = IF SumOf(left, S) < BlockSize THEN BlockSize - SumOf(left, S) ELSE 0
  BY DEF Wanted, SumOf
<1> HIDE DEF left, S, all
<1> QED BY <1>4, <1>5, NumberingAssumption DEF all

(***************************************************************************)
(* The book balances                                                       *)
(***************************************************************************)
LEMMA BookInitInv == NumberingInit => BookInv
<1> SUFFICES ASSUME NumberingInit PROVE BookInv
  OBVIOUS
<1>1. next = 1 /\ DOMAIN blocks = {}
  BY DEF NumberingInit
<1>2. \A m \in Number : ~(m < 1)
  BY NumberingAssumption DEF Number
<1>3. \A k \in Sync : SeriesRead(topUp[k])
  BY DEF NumberingInit, SeriesRead, NoTopUp
<1> QED BY <1>1, <1>2, <1>3 DEF BookInv, Covered

\* Where the next number and the blocks' runs stay, each number is covered as it was.
LEMMA RunsStay ==
  ASSUME BookInv, next' = next, DOMAIN blocks' = DOMAIN blocks,
         \A i \in DOMAIN blocks : /\ blocks'[i].first = blocks[i].first
                                  /\ blocks'[i].last = blocks[i].last,
         \A k \in Sync : SeriesRead(topUp'[k])
  PROVE  BookInv'
<1>1. Covered'
  BY DEF BookInv, Covered, RunOf
<1>2. \A k \in Sync : SeriesRead(topUp[k])'
  BY DEF SeriesRead, TakenWithin, IsNew
<1> QED BY <1>1, <1>2 DEF BookInv

\* A top-up let go, or no longer awaited, has read what it had.
LEMMA SeriesReadStill ==
  ASSUME NumberingInv, BookInv, NEW k \in Sync, NEW u,
         \/ u = topUp[k] \/ u = NoTopUp
         \/ topUp[k] # NoTopUp /\ u = [topUp[k] EXCEPT !.awaited = FALSE]
  PROVE  SeriesRead(u)
<1>1. SeriesRead(topUp[k]) /\ Shaped(topUp[k])
  BY DEF NumberingInv, Typed, BookInv
<1>2. CASE u = NoTopUp
  BY <1>2 DEF SeriesRead, NoTopUp
<1>3. CASE topUp[k] # NoTopUp /\ u = [topUp[k] EXCEPT !.awaited = FALSE]
  <2>1. PICK t : t = topUp[k]
    OBVIOUS
  <2>2. /\ u.stage = t.stage
        /\ t.stage \in {"series", "report", "book"} => u.series = t.series
        /\ t.stage = "book" => u.taken = t.taken
    BY <1>1, <1>3, <2>1, AwaitedOff
  <2> QED BY <1>1, <2>1, <2>2 DEF SeriesRead, TakenWithin, IsNew
<1> QED BY <1>1, <1>2, <1>3

\* One top-up's reading.
LEMMA ReadingKeepsBook ==
  ASSUME NumberingInv, BookInv, NEW k \in Sync, NEW u, topUp' = [topUp EXCEPT ![k] = u],
         UNCHANGED serverVars, SeriesRead(u)
  PROVE  BookInv'
<1>1. \A m \in Sync : topUp'[m] = IF m = k THEN u ELSE topUp[m]
  BY DEF NumberingInv, Typed
<1>2. \A m \in Sync : SeriesRead(topUp'[m])
  BY <1>1 DEF BookInv
<1> QED BY <1>2, RunsStay DEF serverVars

LEMMA ReadsSeriesBook ==
  ASSUME NumberingInv, BookInv, NEW k \in Sync, ReadsSeries(k)
  PROVE  BookInv'
<1>1. PICK u : u = [stage |-> "series", phone |-> topUp[k].phone, awaited |-> topUp[k].awaited,
                    report |-> topUp[k].report, series |-> next]
  OBVIOUS
<1>2. next \in Int
  BY NumberingAssumption DEF NumberingInv, Typed, NumberingTypeOK
<1>3. SeriesRead(u)
  BY <1>1, <1>2 DEF SeriesRead
<1>4. topUp' = [topUp EXCEPT ![k] = u] /\ UNCHANGED serverVars
  BY <1>1 DEF ReadsSeries
<1> QED BY <1>3, <1>4, ReadingKeepsBook

LEMMA ReadsReportedBook ==
  ASSUME NumberingInv, BookInv, NEW k \in Sync, ReadsReported(k)
  PROVE  BookInv'
<1>1. PICK u : u = [stage |-> "report", phone |-> topUp[k].phone, awaited |-> topUp[k].awaited,
                    report |-> topUp[k].report, series |-> topUp[k].series,
                    writes |-> Writes(topUp[k].phone, topUp[k].report)]
  OBVIOUS
<1>2. SeriesRead(topUp[k]) /\ topUp[k].stage = "series"
  BY DEF ReadsReported, BookInv
<1>3. SeriesRead(u)
  BY <1>1, <1>2 DEF SeriesRead
<1>4. topUp' = [topUp EXCEPT ![k] = u] /\ UNCHANGED serverVars
  BY <1>1 DEF ReadsReported
<1> QED BY <1>3, <1>4, ReadingKeepsBook

LEMMA ReadsBookBook ==
  ASSUME NumberingInv, BookInv, NEW k \in Sync, ReadsBook(k)
  PROVE  BookInv'
<1>1. PICK t : t = topUp[k]
  OBVIOUS
<1>2. PICK wanted : wanted = Wanted(Written(t.writes), t.phone)
  OBVIOUS
<1>3. PICK u : u = [stage |-> "book", phone |-> t.phone, awaited |-> t.awaited, report |-> t.report,
                    series |-> t.series, writes |-> t.writes,
                    taken |-> IF wanted = 0 THEN [runs |-> <<>>, next |-> t.series]
                              ELSE Take(t.series, blocks, wanted)]
  OBVIOUS
<1>4. /\ TopUpOK(t) /\ SeriesRead(t) /\ t.stage = "report" /\ t # NoTopUp
      /\ topUp' = [topUp EXCEPT ![k] = u] /\ UNCHANGED serverVars
  BY <1>1, <1>2, <1>3 DEF NumberingInv, Typed, NumberingTypeOK, BookInv, ReadsBook
<1>5. /\ t.series \in 1 .. LastNumber + 1 /\ t.phone \in Phone /\ DOMAIN t.writes \subseteq DOMAIN blocks
      /\ \A i \in DOMAIN t.writes : t.writes[i] \in RunOf(blocks[i])
  BY <1>4 DEF TopUpOK, NoTopUp
<1>6. t.series \in Nat /\ t.series <= next
  BY <1>4, <1>5, NumberingAssumption DEF SeriesRead
<1>7. wanted \in Nat
  BY <1>2, <1>5, WantedIs
<1>8. TakenWithin(u)
  <2>1. CASE wanted = 0
    <3>1. u.taken.runs = <<>> /\ u.taken.next = t.series
      BY <1>3, <2>1
    <3>2. u.taken.runs \in Seq(Run) /\ DOMAIN u.taken.runs = {}
      BY <3>1
    <3>3. u.series = t.series
      BY <1>3
    <3> QED BY <1>6, <3>1, <3>2, <3>3 DEF TakenWithin
  <2>2. CASE wanted # 0
    BY <1>3, <1>6, <1>7, <2>2, TakeIs DEF BookInv, NumberingInv
  <2> QED BY <2>1, <2>2
<1>9. SeriesRead(u)
  BY <1>3, <1>6, <1>8 DEF SeriesRead
<1> QED BY <1>4, <1>9, ReadingKeepsBook

\* What a top-up commits lies below the next number, or takes it on from where it stands.
LEMMA CommitsBook ==
  ASSUME NumberingInv, BookInv, NEW k \in Sync, Commits(k)
  PROVE  BookInv'
<1> USE NumberingAssumption
<1>1. PICK t : t = topUp[k]
  OBVIOUS
<1>2. PICK runs : runs = t.taken.runs
  OBVIOUS
<1>3. /\ t # NoTopUp /\ t.stage = "book" /\ Advances(t) /\ RangesHold(t.taken)
      /\ next' = IF t.taken.next = t.series THEN next ELSE t.taken.next
      /\ SeriesRead(t) /\ TakenWithin(t)
  BY <1>1 DEF Commits, BookInv, SeriesRead
<1>4. PICK u : u = [stage |-> "answered", phone |-> t.phone, awaited |-> t.awaited,
                    held |-> AnswerOf(Written(t.writes) \o Cut(t.phone, runs), t.phone)]
  OBVIOUS
<1>5. /\ DOMAIN blocks' = 1 .. Len(blocks) + Len(runs) /\ DOMAIN blocks = 1 .. Len(blocks)
      /\ Len(blocks) \in Nat /\ Len(runs) \in Nat /\ DOMAIN runs = 1 .. Len(runs)
      /\ \A i \in DOMAIN runs : runs[i].first \in Number /\ runs[i].last \in Number
      /\ \A i \in DOMAIN blocks : i \in DOMAIN blocks' /\ RunOf(blocks'[i]) = RunOf(blocks[i])
      /\ \A i \in DOMAIN runs : /\ i + Len(blocks) \in DOMAIN blocks'
                                /\ RunOf(blocks'[i + Len(blocks)]) = RunOf(runs[i])
      /\ \A j \in DOMAIN blocks' \ DOMAIN blocks : j - Len(blocks) \in DOMAIN runs
                                                  /\ RunOf(blocks'[j]) = RunOf(runs[j - Len(blocks)])
  <2>1. /\ blocks' \in Seq(Block) /\ DOMAIN blocks' = 1 .. Len(blocks) + Len(runs)
        /\ Len(runs) \in Nat /\ DOMAIN runs = 1 .. Len(runs)
        /\ \A i \in DOMAIN runs : runs[i].first \in Number /\ runs[i].last \in Number
        /\ \A i \in DOMAIN blocks :
             /\ i \in DOMAIN blocks'
             /\ blocks'[i] = blocks[i]
                \/ blocks'[i] = [blocks[i] EXCEPT !.used = t.writes[i]]
        /\ \A j \in DOMAIN blocks' \ DOMAIN blocks :
             /\ j - Len(blocks) \in DOMAIN runs
             /\ blocks'[j] = [phone |-> t.phone, first |-> runs[j - Len(blocks)].first,
                              last |-> runs[j - Len(blocks)].last,
                              used |-> runs[j - Len(blocks)].first - 1, status |-> "ISSUED"]
    BY <1>1, <1>2, CommitEffect
  <2>2. DOMAIN blocks = 1 .. Len(blocks) /\ Len(blocks) \in Nat
        /\ \A i \in DOMAIN blocks : blocks[i] \in Block
    BY BlockTypes DEF NumberingInv
  <2>3. \A i \in DOMAIN blocks : blocks'[i].first = blocks[i].first /\ blocks'[i].last = blocks[i].last
    BY <2>1, <2>2 DEF Block
  <2>4. \A j \in DOMAIN blocks' \ DOMAIN blocks :
          /\ blocks'[j].first = runs[j - Len(blocks)].first
          /\ blocks'[j].last = runs[j - Len(blocks)].last
    BY <2>1
  <2>5. ASSUME NEW i \in DOMAIN runs
        PROVE  /\ i + Len(blocks) \in DOMAIN blocks' \ DOMAIN blocks
               /\ (i + Len(blocks)) - Len(blocks) = i
    BY <2>1, <2>2
  <2> QED BY <2>1, <2>2, <2>3, <2>4, <2>5 DEF RunOf
<1>6. /\ next \in Int /\ t.series \in Int /\ t.taken.next \in Int /\ t.series <= next
      /\ t.series <= t.taken.next
      /\ t.taken.next # t.series => next = t.series
  <2>1. TopUpOK(t)
    BY <1>1 DEF NumberingInv, Typed, NumberingTypeOK
  <2>2. t.series \in 1 .. LastNumber + 1
    BY <1>3, <2>1 DEF TopUpOK, NoTopUp
  <2>3. next \in 1 .. LastNumber + 1
    BY DEF NumberingInv, Typed, NumberingTypeOK
  <2> QED BY <1>3, <2>2, <2>3 DEF SeriesRead, TakenWithin, Advances
<1>7. next' \in Int /\ next <= next' /\ t.taken.next <= next'
  BY <1>3, <1>6
<1>8. \A i \in DOMAIN runs : /\ runs[i].first \in Int /\ runs[i].last \in Int
                             /\ runs[i].last < next \/ IsNew(runs[i], t)
  BY <1>2, <1>3, <1>5 DEF TakenWithin, Number
<1>9. ASSUME NEW m \in Number
      PROVE  m < next' <=> \E i \in DOMAIN blocks' : m \in RunOf(blocks'[i])
  <2>1. m \in Int /\ (m < next <=> \E i \in DOMAIN blocks : m \in RunOf(blocks[i]))
    BY DEF BookInv, Covered, Number
  <2>2. ASSUME m < next' PROVE \E i \in DOMAIN blocks' : m \in RunOf(blocks'[i])
    <3>1. CASE m < next
      BY <1>5, <2>1, <3>1
    <3>2. CASE ~(m < next)
      <4>1. t.taken.next # t.series /\ next' = t.taken.next /\ next = t.series
        BY <1>3, <1>6, <2>1, <2>2, <3>2
      <4>2. PICK i \in DOMAIN runs : IsNew(runs[i], t)
        BY <1>2, <1>3, <4>1 DEF TakenWithin
      <4>3. m \in RunOf(runs[i])
        BY <1>6, <1>8, <2>1, <2>2, <3>2, <4>1, <4>2 DEF IsNew, RunOf
      <4> QED BY <1>5, <4>3
    <3> QED BY <3>1, <3>2
  <2>3. ASSUME NEW j \in DOMAIN blocks', m \in RunOf(blocks'[j]) PROVE m < next'
    <3>1. CASE j \in DOMAIN blocks
      <4>1. m < next
        BY <1>5, <2>1, <2>3, <3>1
      <4> QED BY <1>6, <1>7, <2>1, <4>1
    <3>2. CASE j \notin DOMAIN blocks
      <4>1. PICK i \in DOMAIN runs : m \in RunOf(runs[i])
        BY <1>5, <2>3, <3>2
      <4>2. m <= runs[i].last
        BY <1>8, <2>1, <4>1 DEF RunOf
      <4> QED BY <1>6, <1>7, <1>8, <2>1, <4>2 DEF IsNew
    <3> QED BY <3>1, <3>2
  <2> QED BY <2>2, <2>3
<1>10. ASSUME NEW m \in Sync PROVE SeriesRead(topUp[m])'
  <2>1. topUp'[m] = IF m = k THEN u ELSE topUp[m]
    BY <1>1, <1>2, <1>4 DEF Commits, NumberingInv, Typed
  <2>2. CASE m = k
    BY <1>4, <2>1, <2>2 DEF SeriesRead
  <2>3. CASE m # k
    <3>1. PICK v : v = topUp[m]
      OBVIOUS
    <3>2. SeriesRead(v) /\ TopUpOK(v) /\ topUp'[m] = v
      BY <2>1, <2>3, <3>1 DEF BookInv, NumberingInv, Typed, NumberingTypeOK
    <3>3. v.stage \in {"series", "report", "book"} => v.series \in Int /\ v.series <= next'
      BY <1>6, <1>7, <3>2 DEF SeriesRead, TopUpOK, NoTopUp
    <3>4. v.stage = "book" =>
            \A i \in DOMAIN v.taken.runs : v.taken.runs[i].last < next' \/ IsNew(v.taken.runs[i], v)
      <4> SUFFICES ASSUME v.stage = "book", NEW i \in DOMAIN v.taken.runs, v.taken.runs[i].last < next
                   PROVE v.taken.runs[i].last < next'
        BY <3>2 DEF SeriesRead, TakenWithin
      <4>1. v.taken.runs[i] \in Run
        BY <3>2 DEF SeriesRead, TakenWithin
      <4> QED BY <1>6, <1>7, <4>1 DEF Run
    <3> QED BY <3>2, <3>3, <3>4 DEF SeriesRead, TakenWithin, IsNew
  <2> QED BY <2>2, <2>3
<1> QED BY <1>9, <1>10 DEF BookInv, Covered

LEMMA BookStep ==
  ASSUME NumberingInv, BookInv, [NumberingNext]_vars
  PROVE  BookInv'
<1>1. ASSUME next' = next, blocks' = blocks,
             \A k \in Sync : \/ topUp'[k] = topUp[k] \/ topUp'[k] = NoTopUp
                             \/ topUp[k] # NoTopUp /\ topUp'[k] = [topUp[k] EXCEPT !.awaited = FALSE]
      PROVE  BookInv'
  BY <1>1, SeriesReadStill, RunsStay
<1>2. DOMAIN topUp = Sync
  BY DEF NumberingInv, Typed
<1>3. \A i \in DOMAIN blocks : blocks[i] \in Block
  BY BlockTypes DEF NumberingInv
<1>4. CASE UNCHANGED vars
  BY <1>1, <1>4 DEF vars, serverVars
<1>5. ASSUME NEW p \in Phone, NumberChosen(p) \/ ReadsToMark(p) \/ Gives(p) PROVE BookInv'
  BY <1>1, <1>5 DEF NumberChosen, ReadsToMark, Gives, serverVars
<1>6. ASSUME NEW p \in Phone, TurnedIn(p) PROVE BookInv'
  <2>1. \A k \in Sync : \/ topUp'[k] = topUp[k]
                        \/ topUp[k] # NoTopUp /\ topUp'[k] = [topUp[k] EXCEPT !.awaited = FALSE]
    BY <1>6 DEF TurnedIn
  <2>2. \A k \in Sync : SeriesRead(topUp'[k])
    BY <2>1, SeriesReadStill
  <2>3. /\ DOMAIN blocks' = DOMAIN blocks /\ next' = next
        /\ \A i \in DOMAIN blocks : blocks'[i].first = blocks[i].first /\ blocks'[i].last = blocks[i].last
    <3>1. PICK report \in 0 .. LastNumber, ends \in {"RECLAIMED", "RETIRED"} :
            blocks' = [i \in DOMAIN blocks |->
              IF i \in HeldBy(blocks, p)
              THEN [blocks[i] EXCEPT !.used = Reported(p, report, i), !.status = ends]
              ELSE blocks[i]]
      BY <1>6 DEF TurnedIn
    <3> QED BY <1>3, <1>6, <3>1 DEF TurnedIn, Block
  <2> QED BY <2>2, <2>3, RunsStay
<1>7. ASSUME NEW p \in Phone, KeyLapses(p) PROVE BookInv'
  <2>1. \A k \in Sync : SeriesRead(topUp'[k])
    BY <1>7, SeriesReadStill DEF KeyLapses
  <2>2. /\ DOMAIN blocks' = DOMAIN blocks /\ next' = next
        /\ \A i \in DOMAIN blocks : blocks'[i].first = blocks[i].first /\ blocks'[i].last = blocks[i].last
    BY <1>3, <1>7 DEF KeyLapses, Block
  <2> QED BY <2>1, <2>2, RunsStay
<1>8. ASSUME NEW p \in Phone, NEW k \in Sync, Asks(p, k) PROVE BookInv'
  <2>1. PICK u : topUp' = [topUp EXCEPT ![k] = u] /\ u.stage = "asked" /\ UNCHANGED serverVars
    BY <1>8 DEF Asks
  <2>2. SeriesRead(u)
    BY <2>1 DEF SeriesRead
  <2> QED BY <2>1, <2>2, ReadingKeepsBook
<1>9. ASSUME NEW k \in Sync, SeriesMovedOn(k) PROVE BookInv'
  <2>1. PICK u : topUp' = [topUp EXCEPT ![k] = u] /\ u.stage = "asked" /\ UNCHANGED serverVars
    BY <1>9 DEF SeriesMovedOn
  <2>2. SeriesRead(u)
    BY <2>1 DEF SeriesRead
  <2> QED BY <2>1, <2>2, ReadingKeepsBook
<1>10. ASSUME NEW k \in Sync, StopsWaiting(k) PROVE BookInv'
  BY <1>1, <1>2, <1>10 DEF StopsWaiting, serverVars, NoTopUp
<1>11. ASSUME NEW k \in Sync, ToppedUp(k) \/ ListsRead(k) \/ Ends(k) PROVE BookInv'
  BY <1>1, <1>2, <1>11 DEF ToppedUp, ListsRead, Ends, serverVars
<1>12. ASSUME NEW p \in Phone, NEW k \in Sync, ListsAnswered(p, k) PROVE BookInv'
  <2>1. PICK u : topUp' = [topUp EXCEPT ![k] = u] /\ u.stage = "listed" /\ UNCHANGED serverVars
    BY <1>12 DEF ListsAnswered
  <2>2. SeriesRead(u)
    BY <2>1 DEF SeriesRead
  <2> QED BY <2>1, <2>2, ReadingKeepsBook
<1>13. ASSUME NEW k \in Sync, ReadsToMerge(k) PROVE BookInv'
  <2>1. PICK u : topUp' = [topUp EXCEPT ![k] = u] /\ u.stage = "merging" /\ UNCHANGED serverVars
    BY <1>13 DEF ReadsToMerge
  <2>2. SeriesRead(u)
    BY <2>1 DEF SeriesRead
  <2> QED BY <2>1, <2>2, ReadingKeepsBook
<1> QED BY <1>4, <1>5, <1>6, <1>7, <1>8, <1>9, <1>10, <1>11, <1>12, <1>13, ReadsSeriesBook, ReadsReportedBook,
           ReadsBookBook, CommitsBook DEF NumberingNext

(***************************************************************************)
(* The theorems                                                            *)
(***************************************************************************)
LEMMA NumberingStep ==
  ASSUME NumberingInv, [NumberingNext]_vars
  PROVE  NumberingInv'
<1>1. CASE UNCHANGED vars
  BY <1>1 DEF vars, serverVars, phoneVars, NumberingInv, Typed, NumberingTypeOK, TopUpOK, UsedWithin,
     Shaped, Apart, StatusOfKey, TopUpsOwn, Own, ListsOwn, TheirList, ListOK, GivingOK, GivingNew,
     MadeListed, Listed, MadeStaysHeld, Ascending
<1>2. CASE NumberingNext
  BY <1>2, NumberChosenInv, ReadsToMarkInv, GivesInv, ListsAnsweredInv, ListsReadInv, ReadsToMergeInv, TurnedInInv, KeyLapsesInv, AsksInv, StopsWaitingInv, ToppedUpInv,
     ReadsSeriesInv, ReadsReportedInv, ReadsBookInv, CommitsInv, SeriesMovedOnInv, EndsInv
  DEF NumberingNext
<1> QED
  BY <1>1, <1>2

\* Every variable of the series, its blocks, the phones and the top-ups keeps its type.
THEOREM NumberingTypes == NumberingSpec => []NumberingTypeOK
<1>1. NumberingInv => NumberingTypeOK
  BY DEF NumberingInv, Typed
<1> QED
  BY <1>1, NumberingInitInv, NumberingStep, PTL DEF NumberingSpec

\* No two phones whose lists never came to say less used than they had make one number, while no
\* phone was cut a block below one it has; and a number such a phone made stays held by a block of
\* it, whatever becomes of it (migration 20261003225700, 4; ADR-065).
THEOREM PhonesApart == NumberingSpec => [](NumbersApart /\ MadeStaysHeld)
<1>1. NumberingInv => NumbersApart /\ MadeStaysHeld
  <2> SUFFICES ASSUME NumberingInv, \A p \in Phone : Ascending(p),
                      NEW p \in Phone, NEW q \in Phone, p # q, forgot[p] = {}, forgot[q] = {},
                      NEW n \in made[p], n \in made[q]
               PROVE  FALSE
    BY DEF NumberingInv, NumbersApart
  <2>1. PICK i \in DOMAIN blocks : blocks[i].phone = p /\ n \in Held(blocks[i])
    BY DEF NumberingInv, MadeStaysHeld
  <2>2. PICK j \in DOMAIN blocks : blocks[j].phone = q /\ n \in Held(blocks[j])
    BY DEF NumberingInv, MadeStaysHeld
  <2> QED
    BY <2>1, <2>2 DEF NumberingInv, Apart
<1> QED
  BY <1>1, NumberingInitInv, NumberingStep, PTL DEF NumberingSpec

\* A phone makes no number again, however late a sync's answers come and whatever order its blocks
\* are in, until a write of its lists puts down what had been overtaken, or lists read anew say
\* less used (AC-11-76).
THEOREM NoneMadeAgain == NumberingSpec => []NeverMadeAgain
<1>1. NumberingInv => NeverMadeAgain
  <2> SUFFICES ASSUME NumberingInv, NEW p \in Phone, forgot[p] = {},
                      NEW i \in DOMAIN lists[p], NEW n \in made[p],
                      n \in (lists[p][i] + 1) .. blocks[i].last
               PROVE  FALSE
    BY DEF NeverMadeAgain, NoneAgain, NumberingInv, GivingNew
  <2>1. key[p] # "turnedIn"
    BY DEF NumberingInv, ListsOwn
  <2>2. PICK j \in DOMAIN lists[p] : n >= blocks[j].first /\ n <= lists[p][j]
    BY <2>1 DEF NumberingInv, MadeListed, Listed
  <2>3. \A m \in DOMAIN lists[p] :
          /\ m \in DOMAIN blocks /\ lists[p][m] \in Nat /\ lists[p][m] + 1 >= blocks[m].first
          /\ lists[p][m] <= blocks[m].last /\ blocks[m].first \in Nat /\ blocks[m].last \in Nat
          /\ Held(blocks[m]) = RunOf(blocks[m])
    BY <2>1, BlockTypes, HeldWhole DEF NumberingInv, ListsOwn, TheirList, StatusOfKey
  <2>4. n \in Nat /\ i # j
    BY <2>2, <2>3
  <2>5. n \in RunOf(blocks[i]) /\ n \in RunOf(blocks[j])
    BY <2>2, <2>3, <2>4 DEF RunOf
  <2> QED
    BY <2>3, <2>4, <2>5 DEF NumberingInv, Apart
<1> QED
  BY <1>1, NumberingInitInv, NumberingStep, PTL DEF NumberingSpec

\* Every number handed out is held by one block or handed back, once, and no other number is
\* (`NumberSeriesBook.handedBack').
THEOREM BookAlwaysBalances == NumberingSpec => []BookBalances
<1>1. NumberingInv /\ BookInv => BookBalances
  BY CoveredBalances DEF BookInv
<1>2. NumberingInv /\ BookInv /\ [NumberingNext]_vars => (NumberingInv /\ BookInv)'
  BY NumberingStep, BookStep
<1> QED
  BY <1>1, <1>2, NumberingInitInv, BookInitInv, PTL DEF NumberingSpec
=============================================================================
