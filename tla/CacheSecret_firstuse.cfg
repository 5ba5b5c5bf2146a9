SPECIFICATION Spec
CONSTANTS
  p1 = p1
  p2 = p2
  c1 = c1
  c2 = c2
  r1 = r1
  r2 = r2
  r3 = r3
  CallerSecret = CallerSecret
  EnvSecret = EnvSecret
  ForeignSecret = ForeignSecret
  NoSecret = NoSecret
  Unset = Unset
  Missing = Missing
  Unusable = Unusable
  Failed = Failed
  Processes <- MCProcesses
  Clients <- MCClients
  Requests <- MCRequests
  ProcessOf <- MCProcessOf
  ClientOf <- MCClientOf
  MaxReplacements = 0
  MaxFailures = 0
  MaxForeign = 0
CHECK_DEADLOCK FALSE
INVARIANTS
  FallbackOnlyWithoutAHome
