CONSTANTS
  m1 = m1
  m2 = m2
  m3 = m3
  h1 = h1
  h3 = h3
  tick = tick
  job = job
  Monitor <- MCMonitor
  Host <- MCHost
  hostOf <- MCHostOf
  NoMonitor = NoMonitor
  Producer <- MCProducer
  Ticker = tick
SPECIFICATION StuckWrites
INVARIANTS
  NoDeadEntries
  NobodyStuck
PROPERTIES
  ProducersNotBlocked
  MonitorsNotBlocked
  EntryIsServed
  LeftMonitorForgotten
