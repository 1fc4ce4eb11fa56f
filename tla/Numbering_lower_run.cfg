SPECIFICATION NumberingSpec
CONSTANTS
  Phone = {a, b, c}
  Sync = {s}
  LastNumber = 4
  BlockSize = 2
  MayForget = {}
SYMMETRY AnyOrder
CHECK_DEADLOCK FALSE
INVARIANT
  NoNumberTwice
