SPECIFICATION Spec
CONSTANTS
  Threads = {t1, t2}
  Pages <- MCPages
  Written <- MCWritten
  NumBuckets = 2
  EvictAt = 2
  Cells <- MCCells
  Ports = {"linux", "windows"}
  Null = Null
SYMMETRY ThreadSymmetry
INVARIANTS TableExact
