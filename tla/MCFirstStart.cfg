SPECIFICATION StoreSpec
CHECK_DEADLOCK FALSE
CONSTANTS
  NoPR = NoPR
  Tasks = {t1, t2}
  PRs = {p1}
  MaxRuns = 2
  MaxAge = 1
PROPERTIES
  FirstStartKept
