SPECIFICATION Spec
CONSTANTS
  r1 = r1
  r2 = r2
  r3 = r3
  k1 = k1
  k2 = k2
  bad = bad
  None = None
  Nobody = Nobody
  Holder = Holder
  Requests <- ThreeRequests
  Bodyless = {r3}
  Keys <- MCKeys
  UsableKeys <- MCUsableKeys
  MaxAdminCalls = 2
SYMMETRY Symmetric
INVARIANTS
  TypeOK
  MismatchNamesTheChannel
  RejectedStateIsClosed
  GroundTruthMatchesKey
PROPERTIES
  RefreshOnlyReopens
  ClosedUntilFreshTrust
