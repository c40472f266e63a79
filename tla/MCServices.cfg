SPECIFICATION ServicesSpec
CHECK_DEADLOCK FALSE
CONSTANTS
  Tasks = {t1, t2}
  PRs = {p1, p2}
  NoPR = NoPR
  MaxRuns = 2
  MaxAge = 1
  People = {alice, bob, carol, scheduler}
  MaxTokens = 2
  ChatHandlers = {h1, h2}
  ConfigAdmins = {alice, bob}
  ConfigSystems = {scheduler}
  AskedRoles = {"admin", "observer"}
  AskedCaps = {"identity.manage"}
  MaxOpenTx = 1
  MaxCommands = 3
  Github = {d1}
  Slack = {r1}
  Skew = 1
  Window = 3
  Stall = 1
  MaxTime = 5
  MaxRespawns = 1
  Endpoints <- ProjectEndpoints
  HecateRefs = {cred}
  TokenLife = 2
  Jtis = {j1, j2}
  MaxClock = 4
  MaxReuse = 2
  MaxPods = 2
  GithubLife = 1
  MaxFaults = 1
  Conversations = {c1, c2}
  MaxMessages = 3
  Capacity = 2
  MaxRestarts = 1
  MaxBatch = 2
  MaxIrisRestarts = 1
  MaxFailures = 1
INVARIANTS
  ServicesTypeOK
  PRBoundOnce
  StampsMatchState
  SlackOnce
  SuccessMeansPullRequest
  SecretsFollowPods
  FirstRunLands
  IrisTypeOK
  ServedAtMostOnce
  CursorSound
PROPERTIES
  ImplementsLifecycle
  AdminsNeverEnd
  RevocationSticks
  AccessImplementsRegistry
  RedeliveredOnlyAfterWindow
  SingleUse
  UnmergedBranchIsFrozen
  RecordsNameTheirRun
  InboxDrains
