SPECIFICATION Spec
CONSTANTS
  r1 = r1
  r2 = r2
  b1 = b1
  b2 = b2
  None = None
  Requests <- MCRequests
  Builds <- MCBuilds
  MaxReleases = 2
  MaxEnclaves = 3
  MaxVerifies = 2
CHECK_DEADLOCK FALSE
PROPERTIES
  UnverifiedClientSendsNothing
