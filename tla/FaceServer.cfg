SPECIFICATION Spec
CHECK_DEADLOCK FALSE
CONSTANTS
  Clients = {c1, c2}
  Workers = {w1, w2}
  w1 = w1
  w2 = w2
  p1 = p1
  p2 = p2
  Persons = {p1, p2}
  Queries <- RightAndWrong
  Builds = {"native", "enclave"}
  ThreadsOf <- TwoOutside
  PerClient = 2
  MsgLen = 4
  WriteLen = 2
  Losses = {c2}
  QueueSize = 2
  NoPerson = NoPerson
  Garbage = Garbage
  None = None
CONSTRAINT Followed
INVARIANTS TypeOK AnswersRight BuffersStable QueuesBounded
PROPERTIES ClientsFinish
