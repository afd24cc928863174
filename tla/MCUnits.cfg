SPECIFICATION BenchSpec
CONSTANTS
  Units <- MCUnits
  MaxTokens = 2
  Ordering <- MCOrdering
  SHARERS = 3
  FIFO_DEPTH = 2
  Runs <- MCRuns
INVARIANTS ResultsAligned ResultsInOrder SquareStuck OwnResults
PROPERTIES EventuallyServed
