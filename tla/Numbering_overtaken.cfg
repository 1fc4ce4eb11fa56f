SPECIFICATION NumberingSpec
CONSTANTS
  Phone = {a}
  Sync = {s}
  LastNumber = 4
  BlockSize = 2
  MayForget = {a}
CHECK_DEADLOCK FALSE
INVARIANT
  MarkedAtOnce
