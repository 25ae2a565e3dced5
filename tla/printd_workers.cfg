SPECIFICATION Spec
CONSTANTS
  c1 = c1
  c2 = c2
  c3 = c3
  Clients <- TwoClients
  Senders <- TwoClients
  MaxJob = 3
  MaxStops = 1
  NULL = NULL
INVARIANTS
  WorkersListed
