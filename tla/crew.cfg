SPECIFICATION FairSpec
CONSTANTS
  w1 = w1
  w2 = w2
  c1 = c1
  c2 = c2
  c3 = c3
  root = root
  sub = sub
  leaf1 = leaf1
  leaf2 = leaf2
  Workers <- TwoWorkers
  Callers <- ThreeCallers
  Paths <- AllPaths
  Dirs <- TwoDirs
  Entries <- Tree
  Root = root
  CanFail = TRUE
INVARIANTS
  CountsOutstanding
  ItemsOnce
  ReturnsWhenDone
  OneLeavesPerRequest
PROPERTIES
  ReturnsWhileCrewLasts
