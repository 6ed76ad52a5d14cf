CONSTANTS
  r1 = r1
  r2 = r2
  r3 = r3
  w1 = w1
  w2 = w2
  Request <- MCRequest
  Worker <- MCWorker
  CanReach <- MCReach
  Addrs <- MCAddrs
  Space = {0, 1}
  Speed = {0, 1}
  NoID = NoID
SPECIFICATION Spec
INVARIANTS
  TypeOK
  QueueIsWaiting
  AnswerProtocol
  WorkConserving
  RoutedPrivately
PROPERTIES
  NoOvertaking
  CancelIsFinal
  ImplementsDispatch
