SPECIFICATION Spec
CONSTANTS
  t1 = t1
  t2 = t2
  Ticket = {t1}
  Neighbours <- Alone
  SetupMoves <- OneMoves
  Worker = {w1}
  Nobody = Nobody
  Tries = 1
  AtMost = 1
  MaxJobs = 2
  MaxFacts = 2
  Change = {c}
  MayMiss = {t1}
  MayExpire = FALSE
  MayClose = FALSE
  ClosesAlone = TRUE
CHECK_DEADLOCK FALSE
INVARIANT NothingForgotten
