CONSTANTS
  Callers = {j1, j2}
  Sessions = {s1, s2, s3}
  MaxCount = 2
  MaxStarts = 2
  NoCaller = NoCaller
SPECIFICATION FairSpec
INVARIANTS TypeOK OneTunnel SessionsTracked TimerServesSessions
PROPERTIES StopOfRunningReturns
CHECK_DEADLOCK FALSE
