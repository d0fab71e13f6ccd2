CONSTANTS
  Approver = {alice, bob}
  Digest = {"chmod"}
  Call = {c1, c2}
  Shell = "chmod"
  Verdict <- MCVerdict
  RouteApprovals <- MCRouteApprovals
  Fused <- MCFused
  TTL = 0
  MaxTime = 1
SPECIFICATION WorkSpec
INVARIANTS ExecutedIsAudited ReportHolds SharedTicketPaid
PROPERTIES HaltHolds EscalationsConsented
SYMMETRY MCSymmetry
CHECK_DEADLOCK FALSE
