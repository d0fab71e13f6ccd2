CONSTANTS
  Sink = {gateway}
  HasKey = TRUE
  HasAnchor = TRUE
  MaxRecords = 4
SPECIFICATION ExportSpec
INVARIANTS Durable ChainContinues ReturnVerifies TamperEvident ReplayEvident ExportSound RefusedForCause
CHECK_DEADLOCK FALSE
