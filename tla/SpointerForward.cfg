SPECIFICATION Spec
CONSTANTS
  Aptrs = {a1, a2}
  Tmp = Tmp
  PageSize = 4
  NumPages = 3
  ElemSize = 2
  Moves <- Forward
  Lengths = {1, 5}
  MaxOffset = 9
  Dummy = Dummy
  Null = Null
  None = None
SYMMETRY Symmetry
INVARIANTS TypeOK AccessesRight PinsExact
