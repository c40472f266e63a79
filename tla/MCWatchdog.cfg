SPECIFICATION FairSpec
CONSTANTS
  NoPR = NoPR
  NoTask = NoTask
  Tasks = {t1}
  Handlers = {h1}
  PRs = {p1}
  MaxRuns = 1
  MaxAge = 3
  Sidecar = TRUE
  TokenLife = 4
  MaxFaults = 0
  MaxMinosCrashes = 0
  MaxArgusCrashes = 0
  ReminderTTL = 0
  AbandonTTL = 0
  MaxWallClock = 3
  EscalationAt = 2
  WarningAt = 1
  StallThreshold = 2
PROPERTIES
  BudgetEndsRun
