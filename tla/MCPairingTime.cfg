CONSTANTS
  Gateways = {g1}
  References = {r1}
  Sessions = {s1}
  Codes = {c1, c2}
  Administrator = Administrator
  NoOne = NoOne
  ReferenceTtl = 1
  Latency = 1
  MaxClock = 2
  MaxCredentials = 2
  PairingTtl = 1
  PollInterval = 2
  SlowDownStep = 1
  MaxInterval = 3
  MaxWrongCodes = 2
  MaxPendingSessions = 1
  MaxStarts = 1
  MaxFailures = 3
  LastStart = 0
  ProcessCrashes = TRUE
SPECIFICATION FairSpec
PROPERTIES
  GrantsUsedInTime
  PolledSessionResolves
