CONSTANTS
  Approver = {alice, bob}
  Digest = {chmod}
  Instance = {service}
  Thread = {t1, t2}
  Requests <- MCRequests
  Verdict <- MCVerdict
  RouteApprovals <- MCRouteApprovals
  TTL = 0
  MaxTime = 1
  MaxPermits = 1
SPECIFICATION TransportSpec
PROPERTIES ImplementsQueue RepeatTold WebhookNeverBlocks
