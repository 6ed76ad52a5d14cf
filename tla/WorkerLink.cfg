CONSTANTS
  w1 = w1
  w2 = w2
  c1 = c1
  c2 = c2
  c3 = c3
  Worker <- MCWorker
  Conn <- MCConn
  NoConn = NoConn
  NoWorker = NoWorker
  MaxMail = 1
SPECIFICATION FairSpec
INVARIANTS
  TypeOK
  EveryEntryIsWatched
PROPERTIES
  LostWorkerForgotten
  StableWorkerRegistered
