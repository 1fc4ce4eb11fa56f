SPECIFICATION Spec
CONSTANTS
  t1 = t1
  t2 = t2
  Ticket = {t1, t2}
  Neighbours <- OneReads
  SetupMoves <- BothMove
  Worker = {w1, w2}
  Nobody = Nobody
  Tries = 1
  AtMost = 2
  MaxJobs = 2
  MaxFacts = 1
  Change = {c}
  MayMiss = {t1, t2}
  MayExpire = FALSE
  MayClose = FALSE
  ClosesAlone = TRUE
SYMMETRY WorkersAlike
CHECK_DEADLOCK FALSE
INVARIANTS
  TypeOK
  OnlyMissedForgotten
PROPERTIES
  NeverOlder
  InvoicedStands
