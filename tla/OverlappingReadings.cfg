CONSTANTS
  Events = {e1, e2}
  Thresholds = {h1, h2}
  Severities = {warning}
  Requests = {p1, p2}
  NoOne = NoOne
  MaxTime = 2
  Window = 1
  Regime = "any"
SYMMETRY Symmetry
SPECIFICATION Spec
INVARIANTS
  AcknowledgedIsStored
  BreachAnnounced
