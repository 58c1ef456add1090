CONSTANTS
  NoEvent = NoEvent
  r1 = r1
  r2 = r2
  o1 = o1
  w3 = w3
  A1 = A1
  A2 = A2
  MaxPersists = 2
  Threads = {t1, t2}
  Invocations <- MCInvocations
  Requests <- MCRequests
  Orders <- MCOrders
  Amounts <- MCAmounts
  Commands <- MCCommands
  Configs <- MCConfigs
  StreamKey <- MCStreamKey
SPECIFICATION RuntimeSpec
CHECK_DEADLOCK FALSE
SYMMETRY ThreadSymmetry
INVARIANTS
  ReceiptsMatchHistory
  OneReceiptPerAttempt
  EveryResultIsExplained
