CONSTANTS
  Posture = {"strict", "wide"}
  Operator = {alice, bob}
  Session = {cli}
  MaxRevisions = 3
  Run = {r1, r2}
  Profile <- MCProfile
  Row <- MCRow
  Options <- MCOptions
  TTL = 0
  MaxTime = 0
SPECIFICATION GuardSpec
INVARIANTS TwoIdentities LineageChains FailsClosed GovernedByApproved ExposureForetells
PROPERTIES AppendOnly SignedForPosture
SYMMETRY MCSymmetry
CHECK_DEADLOCK FALSE
