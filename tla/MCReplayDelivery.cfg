CONSTANTS
  NoEvent = NoEvent
  r1 = r1
  r2 = r2
  o1 = o1
  o2 = o2
  w3 = w3
  A1 = A1
  A2 = A2
  Threads = {t1, t2}
  Invocations <- MCInvocations
  Requests <- MCRequests
  Orders <- MCOrders
  Amounts <- MCAmounts
  Commands <- MCCommands
  Configs <- MCConfigs
  StreamKey <- MCStreamKey
SPECIFICATION RecoverySpec
CHECK_DEADLOCK FALSE
SYMMETRY ThreadSymmetry
INVARIANT ReplayReturnsPriorResult
