SPECIFICATION Spec
CONSTANT Programs <- MCPrograms
CHECK_DEADLOCK FALSE
INVARIANTS SanityHolds PortsConnected ResultsMatch NeverStuck
