CONSTANTS
  Events = {e1, e2, e3}
  Thresholds = {h1}
  Severities = {warning}
  Requests = {p1}
  NoOne = NoOne
  MaxTime = 2
  Window = 1
  Regime = "late"
SPECIFICATION Spec
INVARIANTS
  LateReadingsAccepted
