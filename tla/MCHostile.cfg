SPECIFICATION Spec
CONSTANTS
  NoPR = NoPR
  NoTask = NoTask
  Tasks = {t1}
  Handlers = {h1, h2}
  PRs = {p1}
  MaxRuns = 2
  MaxAge = 1
  Sidecar = FALSE
  TokenLife = 0
  MaxFaults = 2
  MaxMinosCrashes = 1
  MaxArgusCrashes = 1
  ReminderTTL = 0
  AbandonTTL = 1
  MaxWallClock = 1
  EscalationAt = 0
  WarningAt = 0
  StallThreshold = 1
INVARIANTS
  RunningHasOwnRun
  ReviewHasSuccess
  WallClockIsRunAge
PROPERTIES
  ControlPlaneImplementsLifecycle
  LivePodDeletedOnlyByTerminate
