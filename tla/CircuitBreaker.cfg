SPECIFICATION Spec
CONSTANTS
  s1 = s1  h1 = h1  h2 = h2
  Signatures = {s1}
  Requests = {h1, h2}
  Repeats = 1
  Window = 1
  CoolOff = 1
  Actions = 2
  MinTTL = 1
  BudgetFloor = 2
  EpochTTL = 2
  MaxCalls = 3
  LastCall = 2
  MaxTime = 3
SYMMETRY Symmetry
INVARIANTS BudgetButForOverlaps LoopsCaught
PROPERTY ResetHolds
CHECK_DEADLOCK FALSE
