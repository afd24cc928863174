SPECIFICATION Spec
CONSTANTS
  Programs <- UnbufferedOptions
  Garbage <- MCGarbage
  Period = 4
  BufferDelay = 0
  Scale = 2
  MaxBuffers = 2
  MaxSlots = 2
CHECK_DEADLOCK FALSE
INVARIANTS EveryCycleIsElastic
