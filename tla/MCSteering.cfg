SPECIFICATION BenchSpec
CONSTANTS
  Data = {d0, d1}
  Zero = d0
  NoToken = NoToken
  SIZE = 3
  LIVE_INS = 2
  MaxTokens = 2
  MaxLimit = 3
  Places = {"phi_C", "phi_i", "cond", "addr", "i_br", "br", "sync"}
INVARIANTS SomeoneWaits SameIteration StoresInProgramOrder ExitsOnceAndLast
PROPERTIES IsBroadcast EventuallyConsumed EventuallyDrained
