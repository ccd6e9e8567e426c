SPECIFICATION Spec
CONSTANTS
  Threads = {t1, t2}
  NBlock = 6
  SzAtom = 16
  LogMax = 3
  MaxRequest = 64
  Requests = {0, 16, 20, 65}
  MaxOut = 100
  Stale = {FALSE, TRUE}
  NoThread = NoThread
  Null = 1000
  Garbage = 1001
SYMMETRY Symmetry
INVARIANTS TypeOK PoolPartitioned ControlExact Coalesced
PROPERTIES ImplementsAllocator
