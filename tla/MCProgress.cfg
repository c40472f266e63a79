SPECIFICATION FairSpec
CONSTANTS
  NoPR = NoPR
  NoTask = NoTask
  Tasks = {t1}
  Handlers = {h1}
  PRs = {p1}
  MaxRuns = 3
  MaxAge = 2
  Sidecar = FALSE
  TokenLife = 0
  MaxFaults = 0
  MaxMinosCrashes = 0
  MaxArgusCrashes = 1
  ReminderTTL = 1
  AbandonTTL = 2
  MaxWallClock = 0
  EscalationAt = 0
  WarningAt = 0
  StallThreshold = 0
INVARIANTS
  OneLivePod
  ArgusJudgesCurrentRun
  WallClockIsRunAge
PROPERTIES
  QueueDrains
  RunWatched
  RunEndsWithWorker
  ReviewEnds
