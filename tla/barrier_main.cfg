SPECIFICATION MainSpec
CONSTANTS
  Parties = 3
  Threads <- ThreadNumbers
  Main = Main
  Nobody = Nobody
  Count = 3
  OUTLOOPS = 2
  MaxCalls <- Rounds2
  JoinFirst = TRUE
INVARIANTS
  BarrierSync
  CycleInv
  RoundsApart
PROPERTIES
  ImplementsRendezvous
  Terminates
