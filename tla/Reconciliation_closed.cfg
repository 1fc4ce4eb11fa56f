SPECIFICATION Spec
CONSTANTS
  t1 = t1
  t2 = t2
  Ticket = {t1}
  Neighbours <- Alone
  SetupMoves <- NoMove
  Worker = {w1, w2}
  Nobody = Nobody
  Tries = 2
  AtMost = 1
  MaxJobs = 2
  MaxFacts = 2
  Change = {}
  MayMiss = {t1}
  MayExpire = FALSE
  MayClose = TRUE
  ClosesAlone = FALSE
CHECK_DEADLOCK FALSE
INVARIANT NoneWaitsClosed
