CONSTANTS
  Approver = {alice, bob}
  Digest = {chmod}
  Instance = {guard1, guard2}
  Verdict <- MCVerdict
  RouteApprovals <- MCRouteApprovals
  TTL = 1
  MaxTime = 0
  MaxPermits = 2
SPECIFICATION Spec
PROPERTY NeverTwice
