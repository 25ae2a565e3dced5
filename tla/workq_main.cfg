SPECIFICATION MainSpec
CONSTANTS
  c1 = c1
  c2 = c2
  s1 = s1
  s2 = s2
  Clients <- TwoClients
  Servers <- TwoServers
  Parallelism = 2
  MaxAdds = 2
  JoinFirst = TRUE
INVARIANTS
  QuietDestroy
  DestroyDrains
PROPERTIES
  ImplementsWorkPool
  ProgramEnds
