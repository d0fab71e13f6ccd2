CONSTANTS
  Approver = {alice, bob}
  Digest = {chmod, kubectl}
  Verdict <- MCVerdict
  RouteApprovals <- MCRouteApprovals
  TTL = 1
  MaxTime = 3
  MaxPermits = 2
SPECIFICATION Spec
INVARIANTS SignaturesAreConsents
PROPERTIES PermitEarned PermitFresh ImplementsOneTimePermit
