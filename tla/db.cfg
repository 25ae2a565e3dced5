SPECIFICATION DbSpec
CONSTANTS
  p1 = p1
  p2 = p2
  a = a
  b = b
  c = c
  x = x
  y = y
  z = z
  Procs <- TwoProcs
  Creators <- TwoProcs
  Keys <- AllKeys
  Data <- AllData
  KeyLen <- KeyLens
  DatLen <- DatLens
  Hash <- Hashes
  NHASH = 2
  Calls <- AllCalls
  MaxCalls <- CallBounds
  Blank = Blank
  None = None
  Pending = Pending
INVARIANTS
  ListsSound
  SpaceAccounted
PROPERTIES
  RecordsKeepSize
  NextrecWhole
  ImplementsStore
