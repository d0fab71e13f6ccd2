CONSTANTS
  Normalised <- MCNormalised
  Skeleton <- MCSkeleton
  ReadTools <- MCReadTools
  ReadVerbTools <- MCReadTools
  MutatingTools = {"delete_file"}
  NoArguments = "none"
  Violates <- MCViolates
  Postures <- MCPostures
  Grants <- MCGrants
  Handler = {"h1", "h2", "h3"}
  Operator = {"o1", "o2"}
  Workload <- MCWorkload
SPECIFICATION Spec
INVARIANTS TrustStays PinsServed CallsMatchVetted PermittedCallIsGranted PolicyLag
  GenerationsCount
PROPERTIES HaltStops
CHECK_DEADLOCK FALSE
