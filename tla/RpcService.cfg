SPECIFICATION FairSpec
CHECK_DEADLOCK FALSE
CONSTANTS
  Callers = {c1, c2}
  Workers = {w1, w2}
  Requests = {r1, r2}
  Calls = {ocall, Async}
  Async = Async
  QueueSize = 2
  IntMax = 3
  MaxCalls = 4
  LockInit = {0, 1}
  Closes = TRUE
  NoRequest = NoRequest
  NoCaller = NoCaller
INVARIANTS TypeOK NeverAborts RequestsExclusive
PROPERTIES ImplementsService
