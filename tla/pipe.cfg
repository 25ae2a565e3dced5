SPECIFICATION FairSpec
CONSTANTS
  c1 = c1
  c2 = c2
  Callers <- TwoCallers
  Stages = 2
  MaxStarts = 5
INVARIANTS
  ActiveCounts
PROPERTIES
  ImplementsFifo
  ResultReturns
CHECK_DEADLOCK FALSE
