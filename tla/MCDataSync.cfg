SPECIFICATION FairSpec
CONSTANTS
  p1 = p1  p2 = p2  t1 = t1  w1 = w1  s1 = s1  s2 = s2
  NoProc = NoProc  None = None
  Procs = {p1}
  Enabled = {p1}
  Requesters = {t1}
  Workers = {w1}
  UseRedis = TRUE
  Unreachable = TRUE
  SourceList <- MCTwoSources
  MaxFaults = 1
  Interval = 1
  MaxNow = 1
  Changing = {s1}
  MaxVersion = 2
  MaxQueue = 1
PROPERTIES DueIsTried
