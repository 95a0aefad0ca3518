CONSTANTS
  Events = {e1, e2, e3}
  Thresholds = {h1, h2}
  Severities = {warning, critical}
  Requests = {p1, p2}
  NoOne = NoOne
  MaxTime = 2
  Window = 1
  Regime = "ordered"
SYMMETRY Symmetry
SPECIFICATION Spec
INVARIANTS
  TypeOK
  OrderedReadingsAccepted
  OrderedAlertsSpaced
