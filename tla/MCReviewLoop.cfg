SPECIFICATION ServicesSpec
CHECK_DEADLOCK FALSE
CONSTANTS
  Tasks = {t1}
  PRs = {p1}
  NoPR = NoPR
  MaxRuns = 1
  MaxAge = 1
  People = {alice}
  MaxTokens = 0
  ChatHandlers = {h1}
  ConfigAdmins = {alice}
  ConfigSystems = {}
  AskedRoles = {"admin", "observer"}
  AskedCaps = {"identity.manage"}
  MaxOpenTx = 1
  MaxCommands = 0
  Github = {d1}
  Slack = {r1}
  Skew = 1
  Window = 3
  Stall = 1
  MaxTime = 2
  MaxRespawns = 1
  Endpoints <- ProjectEndpoints
  HecateRefs = {cred}
  TokenLife = 2
  Jtis = {j1}
  MaxClock = 1
  MaxReuse = 1
  MaxPods = 2
  GithubLife = 1
  MaxFaults = 0
  Conversations = {c1, c2}
  MaxMessages = 1
  Capacity = 1
  MaxRestarts = 0
  MaxBatch = 1
  MaxIrisRestarts = 0
  MaxFailures = 0
INVARIANT
  EveryRunLands
