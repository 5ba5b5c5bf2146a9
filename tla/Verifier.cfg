SPECIFICATION Spec
CONSTANTS
  Options <- MCOptions
  CertChain <- MCCertChain
  PinnedArk = "ark-key"
  ZeroChip = "zeros"
  FulcioCas <- MCFulcioCas
  CtLogs <- MCCtLogs
  RekorKeys <- MCRekorKeys
  TimestampAuthorities <- MCTimestampAuthorities
  MaxTimestamps = 2
  Repo = "repo"
  Releases <- MCReleases
  Runs <- MCRuns
  Mixes <- MCMixes
  Others <- MCOthers
  PinnedSet <- MCPinned
  Firmware <- MCFirmware
  MaxMicrocode = 2
  Chip = "chip"
  Guests <- MCGuests
  AltKeys <- MCAltKeys
  Vceks <- MCVceks
  TlsCerts <- MCTlsCerts
  Files <- MCFiles
  Artifacts <- MCArtifacts
INVARIANTS
  TypeOK
  AcceptedPlatformHolds
  OneSigningEvent
  HonestPartiesVerify
  VerifiedCodeIsTheRelease
  CertificateHoldsBothValues
  ToolAcceptsOneSigningEvent
  ToolAgreesWithTheLibrary
CHECK_DEADLOCK FALSE
