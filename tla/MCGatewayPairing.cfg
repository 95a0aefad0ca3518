CONSTANTS
  Gateways = {g1, g2}
  References = {r1, r2}
  Sessions = {s1, s2}
  Codes = {c1, c2}
  Administrator = Administrator
  NoOne = NoOne
  ReferenceTtl = 1
  Latency = 1
  MaxClock = 1
  MaxCredentials = 2
  PairingTtl = 1
  PollInterval = 2
  SlowDownStep = 1
  MaxInterval = 3
  MaxWrongCodes = 2
  MaxPendingSessions = 2
  MaxStarts = 1
  MaxFailures = 0
  LastStart = 0
  ProcessCrashes = FALSE
SYMMETRY Symmetry
SPECIFICATION Spec
INVARIANTS
  TypeOK
  CredentialIffActive
  OutstandingReferencePending
  GrantUsedOnce
  CredentialMatchesGrant
PROPERTIES
  ActivationUsesOneGrant
  RotationNeedsConsent
  TerminalSessionsStay
  ImplementsCredentialGrants
