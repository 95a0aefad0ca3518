CONSTANTS
  Slots = {a1, a2}
  Uids = {u1, u2}
  Events = {e1, e2}
  Requests = {p1, p2}
  NoOne = NoOne
  MaxRows = 2
  MaxVersion = 3
SYMMETRY Symmetry
SPECIFICATION Spec
INVARIANTS
  TypeOK
  CurrentBindingsUnique
  EventRecordedOnce
  VersionsNeverReused
  SequentialAgentSeesChanges
  SequentialCandidatesDistinct
PROPERTIES
  ImplementsBoundDevices
  SlotsFollowCanonicalStates
