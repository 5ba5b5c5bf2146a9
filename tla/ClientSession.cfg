SPECIFICATION Spec
CONSTANTS
  routerA = routerA
  routerB = routerB
  inference = inference
  enclaveA = enclaveA
  enclaveD = enclaveD
  other = other
  s1 = s1
  s2 = s2
  None = None
  Hosts = {routerA, routerB, inference}
  DEFAULT_ROUTER = inference
  Lists <- MCLists
  Servers = {enclaveA, enclaveD, other}
  CertifiedFor <- MCCertifiedFor
  Genuine = {enclaveA, enclaveD}
  RetryAfters <- MCRetryAfters
  MaxU64 = 65535
  Secrets = {s1, s2}
  TypedRequests <- MCTypedRequests
  Values <- MCValues
  RawRequests <- MCRawRequests
  Ports = {443, 8443}
  DefaultPort = 443
  MaxAttempts = 2
  MaxHops = 1
INVARIANTS
  TypeOK
  FetchEndsAsItsLastAttempt
  OnlyTheVerifiedOrigin
  RouterReadsTheCallersBody
PROPERTIES
  EveryRouterGetsItsTurn
CHECK_DEADLOCK FALSE
