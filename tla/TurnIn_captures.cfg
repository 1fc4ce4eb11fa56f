SPECIFICATION TurnInSpec
CONSTANTS
  Thing = {x, y}
  Ask = {k1, k2}
  NoAsk = NoAsk
SYMMETRY AnyOrder
CHECK_DEADLOCK FALSE
INVARIANTS
  TurnedInLosesNothing
