SPECIFICATION NumberingSpec
CONSTANTS
  Phone = {a, b}
  Sync = {s, t}
  LastNumber = 4
  BlockSize = 2
  MayForget = {}
SYMMETRY AnyOrder
CHECK_DEADLOCK FALSE
INVARIANTS
  NumberingTypeOK
  NumbersApart
  NeverMadeAgain
  BookBalances
