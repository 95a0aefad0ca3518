CONSTANTS
  Gateways = {g1}
  References = {r1}
  Sessions = {s1, s2}
  Codes = {c1, c2}
  Administrator = Administrator
  NoOne = NoOne
  ReferenceTtl = 1
  Latency = 0
  MaxClock = 1
  MaxCredentials = 1
  PairingTtl = 1
  PollInterval = 2
  SlowDownStep = 1
  MaxInterval = 3
  MaxWrongCodes = 2
  MaxPendingSessions = 1
  MaxStarts = 2
  MaxFailures = 3
  LastStart = 1
  ProcessCrashes = FALSE
  PanCodes = {k1, k2}
  PanGateways = {l1}
  NoCode = NoCode
  NoGateway = NoGateway
  SelProperties = {p1, p2}
  SelAreas = {a1, a2}
  NoneSelected = NoneSelected
  CatRows = {t1}
  CatCalls = {x1, x2}
  CatMaxSaves = 2
SYMMETRY Symmetry
SPECIFICATION PagesSpec
INVARIANTS
  LockedOutSessionIsOver
  CapacityOvershootBounded
  PagesTypeOK
  ApprovesWhatWasConfirmed
  SelectionFollowsAddress
  OneSubmissionAtATime
  QuietPageIsSettled
CHECK_DEADLOCK FALSE
