SPECIFICATION Spec
CONSTANT Programs <- LongIndices
CHECK_DEADLOCK FALSE
INVARIANT ResultsMatch
