SPECIFICATION Spec
CONSTANTS
  NoPR = NoPR
  NoTask = NoTask
  Tasks = {t1}
  Handlers = {h1, h2}
  PRs = {p1}
  MaxRuns = 3
  MaxAge = 0
  Sidecar = FALSE
  TokenLife = 0
  MaxFaults = 0
  MaxMinosCrashes = 0
  MaxArgusCrashes = 0
  ReminderTTL = 0
  AbandonTTL = 0
  MaxWallClock = 0
  EscalationAt = 0
  WarningAt = 0
  StallThreshold = 0
INVARIANTS
  OneLivePod
