CONSTANTS
  Callers = {j1}
  Sessions = {s1}
  MaxCount = 2
  MaxStarts = 1
  NoCaller = NoCaller
SPECIFICATION FairSpec
PROPERTIES StopReturns
CHECK_DEADLOCK FALSE
