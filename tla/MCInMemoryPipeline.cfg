CONSTANTS
  NoEvent = NoEvent
  o1 = o1
  o2 = o2
  r1 = r1
  r2 = r2
  Callers = {p1, p2}
  Orders = {o1, o2}
  Commands <- MCCommands
  Modes = {"NoOp"}
  MaxAccepted = 3
  MaxDeaths = 1
  MaxClears = 2
SPECIFICATION FairSpec
CHECK_DEADLOCK FALSE
INVARIANTS
  AnswersAreFacts
  NothingSkipped
PROPERTY
  ProjectionCatchesUp
