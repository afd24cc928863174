SPECIFICATION FairSpec
CONSTANT Programs <- OrderPrograms
CHECK_DEADLOCK FALSE
INVARIANT ProgramOrder
