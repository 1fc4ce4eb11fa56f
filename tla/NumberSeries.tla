---------------------------- MODULE NumberSeries ----------------------------
(***************************************************************************)
(* The book of one series of one project: which numbers the next block     *)
(* takes (packages/domain/src/numbers.ts, NumberSeriesBook).  Only the     *)
(* arithmetic, over a sequence of blocks in the order they were issued.    *)
(* A block's `used' is the last number its phone is known to have used,    *)
(* and one before its first where it used none (`usedTo').                 *)
(***************************************************************************)
EXTENDS Naturals, Sequences, SequencesExt

RunOf(run) == run.first .. run.last

\* What a block still holds, as a run: one handed back only what its phone used.
HeldRun(block) == [first |-> block.first,
                   last |-> IF block.status = "RECLAIMED" THEN block.used ELSE block.last]
Held(block) == RunOf(HeldRun(block))

\* What a phone that was reset handed back of a block, as a run: nothing of one it wasn't.
RestRun(block) == [first |-> IF block.status = "RECLAIMED" THEN block.used + 1 ELSE block.last + 1,
                   last |-> block.last]

\* A run put before those that start after it; an empty one left out.
Placed(runs, run) ==
  LET after == {i \in DOMAIN runs : runs[i].first > run.first}
  IN IF run.first > run.last THEN runs ELSE InsertAt(runs, Min(after \cup {Len(runs) + 1}), run)

LowestFirst(runs) == FoldLeft(Placed, <<>>, runs)

\* (A mutant: every rest counted whole, though cut again and handed back again.)
CountWhole(free, rest) == rest.first

\* Where the count of a rest starts: past what an earlier rest counted.
CountFrom(free, rest) ==
  IF free = <<>> THEN rest.first ELSE Max({rest.first, Last(free).last + 1})

\* A rest counted past a run that is held.
Past(s, run, rest) ==
  IF run.last < s.from \/ run.first > rest.last THEN s
  ELSE [from |-> run.last + 1,
        free |-> IF run.first > s.from
                 THEN Append(s.free, [first |-> s.from, last |-> run.first - 1])
                 ELSE s.free]

\* What is free once a rest is counted too, past all that is held.
Counted(free, rest, held) ==
  LET end == FoldLeft(LAMBDA s, run : Past(s, run, rest),
                      [from |-> CountFrom(free, rest), free |-> free], held)
  IN IF end.from <= rest.last THEN Append(end.free, [first |-> end.from, last |-> rest.last])
     ELSE end.free

\* The numbers handed back that no block holds now, lowest first.
Free(rests, held) == FoldLeft(LAMBDA free, rest : Counted(free, rest, held), <<>>, rests)
HandedBack(blocks) == Free(LowestFirst([i \in DOMAIN blocks |-> RestRun(blocks[i])]),
                           LowestFirst([i \in DOMAIN blocks |-> HeldRun(blocks[i])]))

\* What is wanted taken of a run, as far as it goes.
Taken(s, run) ==
  LET last == Min({run.last, run.first + s.wanted - 1}) IN
  IF s.wanted = 0 THEN s
  ELSE [runs |-> Append(s.runs, [first |-> run.first, last |-> last]),
        wanted |-> s.wanted - (last + 1 - run.first)]

\* The next numbers, as many as asked: what was handed back first, then new ones.
Take(next, blocks, count) ==
  LET back == FoldLeft(Taken, [runs |-> <<>>, wanted |-> count], HandedBack(blocks))
  IN IF back.wanted = 0 THEN [runs |-> back.runs, next |-> next]
     ELSE [runs |-> Append(back.runs, [first |-> next, last |-> next + back.wanted - 1]),
           next |-> next + back.wanted]
=============================================================================
