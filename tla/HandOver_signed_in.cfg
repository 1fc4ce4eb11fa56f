SPECIFICATION FairHandOver
CONSTANTS
  ana = ana
  sam = sam
  kim = kim
  Monitor = {ana, sam}
  First = ana
  Record = {r1, r2}
  Nobody = Nobody
  Own = Own
  MaxHandOvers = 2
  MaxSignOuts = 1
  MaxRefusals = 1
  MaxFaults = 1
  Quiet = FALSE
CHECK_DEADLOCK FALSE
INVARIANT ShelfIsItsMonitors
