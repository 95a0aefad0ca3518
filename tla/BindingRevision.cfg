CONSTANTS
  Slots = {a1}
  Uids = {u1, u2}
  Events = {e1, e2}
  Requests = {p1, p2}
  NoOne = NoOne
  MaxRows = 2
  MaxVersion = 1
SYMMETRY Symmetry
SPECIFICATION Spec
INVARIANT NoChangeHidden
