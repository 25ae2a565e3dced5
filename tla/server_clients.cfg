SPECIFICATION Spec
CONSTANTS
  CLIENT_THREADS = 3
  Writes = 2
  Lines = 2
INVARIANT CreatesClients
