CONSTANTS
  NoEvent = NoEvent
  NoSnapshot = NoSnapshot
  o1 = o1
  o2 = o2
  r1 = r1
  Savers = {v1, v2}
  Readers = {k1}
  Orders = {o1, o2}
  Commands <- MCCommands
  Faults = {"none", "payload", "schema", "version", "ahead"}
  TailLimit = 1
  MaxSaves = 3
  MaxFaulty = 1
  SchemaVersion = 1
  ReducerVersion = 1
SPECIFICATION Spec
CHECK_DEADLOCK FALSE
SYMMETRY SaverSymmetry
INVARIANTS
  TrustedResolutionIsReplay
  ObservedVerdictsAreReal
  SavedEvidenceStays
  EveryResultIsReportable
