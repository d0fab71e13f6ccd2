CONSTANTS
  Detector <- MCDetector
  Tier <- MCTier
  Plane <- MCPlane
  Unit = 100
  Score = {20, 40, 80, 42, 60, 65, 70, 75, 82, 85, 86, 88, 90, 94, 95, 97, 99, 100}
  Severities = {1, 2, 3, 4}
  FreeScore = {80}
  FreeSeverity = {4}
  Free <- MCFree
  Requests <- MCRequests
  threshold <- MCThreshold
  margin <- MCMargin
SPECIFICATION ReviewSpec
INVARIANT RemembersSigned
CHECK_DEADLOCK FALSE
