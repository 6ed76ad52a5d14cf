CONSTANTS
  c1 = c1
  c2 = c2
  w1 = w1
  Server = Server
  None = None
  Client <- MCClient
  Worker <- MCWorker
  Setup <- MCSetup
SPECIFICATION Spec
INVARIANTS
  NoLocalFails
