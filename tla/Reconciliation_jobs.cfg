SPECIFICATION FairSpec
CONSTANTS
  t1 = t1
  t2 = t2
  Ticket = {t1}
  Neighbours <- Alone
  SetupMoves <- NoMove
  Worker = {w1, w2}
  Nobody = Nobody
  Tries = 2
  AtMost = 1
  MaxJobs = 2
  MaxFacts = 2
  Change = {}
  MayMiss = {}
  MayExpire = TRUE
  MayClose = TRUE
  ClosesAlone = TRUE
CHECK_DEADLOCK FALSE
INVARIANT TriedAtMost
PROPERTIES
  EndedStays
  EveryJobEnds
