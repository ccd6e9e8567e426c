SPECIFICATION Spec
CHECK_DEADLOCK FALSE
CONSTANTS
  Clients = {c1, c2}
  Workers = {w1, w2}
  w1 = w1
  w2 = w2
  p1 = p1
  p2 = p2
  Persons = {p1, p2}
  Queries <- RightAndWrong
  Builds = {"enclave"}
  ThreadsOf <- TwoInside
  PerClient = 1
  MsgLen = 4
  WriteLen = 2
  Losses = {}
  QueueSize = 2
  NoPerson = NoPerson
  Garbage = Garbage
  None = None
INVARIANTS AnswersRight
