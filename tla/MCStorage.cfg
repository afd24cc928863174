SPECIFICATION BenchSpec
CONSTANTS
  Data = {d0, d1}
  Zero = d0
  NoToken = NoToken
  FIFO_DEPTH = 3
  LOAD_COUNT = 2
  MaxLoads = 3
  STORE_COUNT = 2
  BB_COUNT = 2
  COUNTER_MOD = 16
  MaxRuns = 2
INVARIANTS TypeOK FlagsAgree AnswersInOrder ExitAfterLastStore
PROPERTIES IsElasticQueue IsStreamBuffer FIFOsAreQueues EventuallyDelivered
PROPERTIES EventuallyFinished
