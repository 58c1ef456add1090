CONSTANTS
  NoEvent = NoEvent
  r1 = r1
  r2 = r2
  o1 = o1
  o2 = o2
  Invocations = {w1, w2, w3}
  Requests <- MCRequests
  Orders <- MCOrders
  Amounts <- MCAmounts
  Commands <- RacingCommands
  Configs <- MixedConfigs
  StreamKey <- DistinctKeys
SPECIFICATION Spec
CHECK_DEADLOCK FALSE
SYMMETRY InvocationSymmetry
INVARIANTS
  TypeOK
  GaplessStreams
  ExactlyOnce
  TruthfulHistory
  DeliveredResultsAreFacts
  TraceAlwaysAccepted
PROPERTY ImplementsAcceptedHistory
