SPECIFICATION Spec
CONSTANTS
  S_MAX = 8
  Fuel = 40
  Programs <- ConstantBounds
INVARIANTS ForwardFits
CHECK_DEADLOCK FALSE
