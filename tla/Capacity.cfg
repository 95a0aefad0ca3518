CONSTANTS
  Gateways = {g1}
  References = {r1}
  Sessions = {s1}
  Codes = {c1}
  Administrator = Administrator
  NoOne = NoOne
  ReferenceTtl = 2
  Latency = 0
  MaxClock = 2
  MaxCredentials = 2
  PairingTtl = 2
  PollInterval = 2
  SlowDownStep = 1
  MaxInterval = 3
  MaxWrongCodes = 2
  MaxPendingSessions = 1
  MaxStarts = 1
  MaxFailures = 0
  LastStart = 0
  ProcessCrashes = FALSE
SPECIFICATION HistorySpec
INVARIANT RefusedOnlyWhenFull
