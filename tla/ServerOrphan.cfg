CONSTANTS
  r1 = r1
  r2 = r2
  w1 = w1
  Request <- MCRequest
  Worker <- MCWorker
  CanReach <- MCReach
  Space = {0, 1}
  Speed = {0}
  NoID = NoID
  Leavers = {r1, r2}
SPECIFICATION Spec
CHECK_DEADLOCK FALSE
INVARIANTS
  CancelledIsRemoved
