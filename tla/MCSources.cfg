SPECIFICATION Spec
CONSTANTS
  FileLen = 5
  ChunkSize = 2
  Limits = {1, 2, 4}
  c1 = c1
  c2 = c2
  Clients <- MCTwo
  Requests <- MCRequests
  Calls = 2
  IOErrors = TRUE
  Distance = 2
  MaxTasks = 1
INVARIANTS ReadsExact LruMatchesMap MemoryBounded CountCoversHeld
PROPERTY CallsReturn
CHECK_DEADLOCK FALSE
