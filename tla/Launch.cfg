SPECIFICATION Spec
CONSTANTS
  Procs = {"p1", "p2"}
  Choices <- MCChoices
  Threads = {"t1", "t2"}
  AvgTimes = 1
  MaxCrashes = 1
  MaxTokens = 3
CHECK_DEADLOCK FALSE
INVARIANTS TokenWhole PhasesOrdered
PROPERTIES EndsUnlessLost
