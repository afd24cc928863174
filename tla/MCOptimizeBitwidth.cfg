SPECIFICATION Spec
CONSTANTS
  S_MAX = 8
  Fuel = 40
  Programs <- RightPrograms
INVARIANTS ForwardFits SameResult Settles
CHECK_DEADLOCK FALSE
