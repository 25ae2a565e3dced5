SPECIFICATION FairSpec
CONSTANTS
  CLIENT_THREADS = 2
  Writes = 2
  Lines = 3
INVARIANTS
  RequestsAlive
  LinesEchoed
PROPERTIES
  MainReturnsInTheEnd
