SPECIFICATION FairSpec
CONSTANTS
  c1 = c1
  c2 = c2
  c3 = c3
  Clients <- ThreeClients
  Senders <- TwoClients
  MaxJob = 3
  MaxStops = 1
  NULL = NULL
INVARIANTS
  AcceptedKept
  NothingForgotten
  PrintsWhole
PROPERTIES
  EventuallyPrinted
