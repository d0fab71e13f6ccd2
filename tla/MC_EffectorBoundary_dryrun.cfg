CONSTANTS
  Approver = {alice, bob}
  Digest = {"chmod", "ls"}
  Call = {c1, c2}
  Verdict <- MCVerdict
  RouteApprovals <- MCRouteApprovals
  Fused <- MCFused
  TTL = 0
  MaxTime = 1
SPECIFICATION Spec
INVARIANT ApprovalKeptForExecution
CHECK_DEADLOCK FALSE
