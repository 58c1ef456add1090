CONSTANTS
  NoEvent = NoEvent
  r1 = r1
  r2 = r2
  o1 = o1
  o2 = o2
  Invocations = {w1, w2, w3}
  Requests <- MCRequests
  Orders <- MCOrders
  Amounts <- MCAmounts
  Commands <- WaitingCommands
  Configs <- InTransactionOptimistic
  StreamKey <- DistinctKeys
SPECIFICATION FairSpec
CHECK_DEADLOCK FALSE
PROPERTY EveryCallEnds
