SPECIFICATION FairClientSpec
CONSTANTS
  r1 = r1
  r2 = r2
  k1 = k1
  k2 = k2
  bad = bad
  None = None
  Nobody = Nobody
  Holder = Holder
  Requests <- TwoRequests
  Bodyless = {}
  Keys <- MCKeys
  UsableKeys <- MCUsableKeys
  MaxAdminCalls = 2
INVARIANTS
  ClientTypeOK
  ClosedUntilVerified
PROPERTIES
  VerifyReturnsTheCurrentState
  ImplementsTrustCell
  VerifyTerminates
  SentRequestsSettle
