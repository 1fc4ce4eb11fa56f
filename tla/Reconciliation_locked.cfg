SPECIFICATION Spec
CONSTANTS
  t1 = t1
  t2 = t2
  Ticket = {t1, t2}
  Neighbours <- Pair
  SetupMoves <- BothMove
  Worker = {w1}
  Nobody = Nobody
  Tries = 1
  AtMost = 2
  MaxJobs = 3
  MaxFacts = 2
  Change = {}
  MayMiss = {}
  MayExpire = FALSE
  MayClose = FALSE
  ClosesAlone = TRUE
CHECK_DEADLOCK FALSE
PROPERTY LockedIsLeft
