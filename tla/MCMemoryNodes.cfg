SPECIFICATION FairSpec
CONSTANT Programs <- MCPrograms
CHECK_DEADLOCK FALSE
INVARIANTS AccessesFollowControl ProgramOrder
PROPERTIES EventuallyDrained
