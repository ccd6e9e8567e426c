SPECIFICATION Spec
CONSTANTS
  Width = 4
  Block = 2
  Files <- MCFiles
  Number <- MCNumber
  Pictures <- MCPictures
  Subdir = Subdir
  Empty = Empty
  Hashes = {0, 1, 6}
  Dup = 2
  Buckets = 3
  Ids = 2
  Clients = 2
  Requests = 4
  HistSize = 3
  Chunk = 2

INVARIANTS MemorySafe LookupRight HistogramsComparable RequestsInOrder
PROPERTIES ClientLoads
