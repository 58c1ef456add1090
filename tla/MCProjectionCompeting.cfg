CONSTANTS
  NoEvent = NoEvent
  o1 = o1
  o2 = o2
  r1 = r1
  Workers = {k1, k2}
  Orders = {o1, o2}
  Commands <- MCCommands
  MaxPosition = 3
  MaxFailures = 1
SPECIFICATION FairSpec
CHECK_DEADLOCK FALSE
INVARIANTS
  StateIsReplayOfProgress
PROPERTIES
  NoEventMeansCaughtUp
  EveryEventProjected
