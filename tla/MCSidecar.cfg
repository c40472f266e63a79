SPECIFICATION FairSpec
CONSTANTS
  NoPR = NoPR
  NoTask = NoTask
  Tasks = {t1}
  Handlers = {h1}
  PRs = {p1}
  MaxRuns = 1
  MaxAge = 0
  Sidecar = TRUE
  TokenLife = 1
  MaxFaults = 0
  MaxMinosCrashes = 0
  MaxArgusCrashes = 0
  ReminderTTL = 0
  AbandonTTL = 0
  MaxWallClock = 0
  EscalationAt = 0
  WarningAt = 0
  StallThreshold = 2
PROPERTIES
  SuccessNotTerminated
