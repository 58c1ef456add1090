CONSTANTS
  NoEvent = NoEvent
  i1 = i1
  i2 = i2
  e1 = e1
  e2 = e2
  Persisters = {p1, p2}
  Attentive = {p1}
  Receipts <- MCReceipts
  AcceptedEvents <- MCAcceptedEvents
SPECIFICATION FairSpec
CHECK_DEADLOCK FALSE
INVARIANTS
  ResultsAreCoherent
  ConflictsAreClassified
PROPERTIES
  ImplementsContract
  EveryPersistEnds
