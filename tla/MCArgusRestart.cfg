SPECIFICATION FairSpec
CONSTANTS
  NoPR = NoPR
  NoTask = NoTask
  Tasks = {t1}
  Handlers = {h1}
  PRs = {p1}
  MaxRuns = 1
  MaxAge = 1
  Sidecar = FALSE
  TokenLife = 0
  MaxFaults = 0
  MaxMinosCrashes = 0
  MaxArgusCrashes = 1
  ReminderTTL = 0
  AbandonTTL = 0
  MaxWallClock = 1
  EscalationAt = 0
  WarningAt = 0
  StallThreshold = 0
PROPERTIES
  BudgetEndsRun
