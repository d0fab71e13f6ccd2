CONSTANTS
  Sink = {gateway, guard}
  HasKey = FALSE
  HasAnchor = FALSE
  MaxRecords = 3
SPECIFICATION Spec
INVARIANT ChainContinues
CHECK_DEADLOCK FALSE
