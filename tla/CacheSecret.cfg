SPECIFICATION FairSpec
CONSTANTS
  p1 = p1
  p2 = p2
  c1 = c1
  c2 = c2
  r1 = r1
  r2 = r2
  r3 = r3
  CallerSecret = CallerSecret
  EnvSecret = EnvSecret
  ForeignSecret = ForeignSecret
  NoSecret = NoSecret
  Unset = Unset
  Missing = Missing
  Unusable = Unusable
  Failed = Failed
  Processes <- MCProcesses
  Clients <- MCClients
  Requests <- MCRequests
  ProcessOf <- MCProcessOf
  ClientOf <- MCClientOf
  MaxReplacements = 1
  MaxFailures = 1
  MaxForeign = 1
CHECK_DEADLOCK FALSE
INVARIANTS
  TypeOK
  PersistedSecretsConverge
  OneSecretPerSource
  CandidatesAreRemoved
PROPERTIES
  PublishedOnceAndWhole
  BuildsGetASecret
