CONSTANTS
  s1 = s1
  s2 = s2
  p1 = p1
  p2 = p2
  Server = {s1}
  Port = {p1, p2}
  NoServer = NoServer
  NoPort = NoPort
  Junk = Junk
SPECIFICATION FairSpec
INVARIANTS
  TypeOK
  StopLeavesNothing
  ClosedSocketUnused
  NobodyStuck
PROPERTIES
  OpenSearchReturns
  ServerStops
