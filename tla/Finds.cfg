SPECIFICATION FindsSpec
CONSTANTS
  Parts = {"ports", "docker", "http", "health", "routes", "bytes", "identity", "patterns", "map", "memory", "origin"}
  Numbers = {1, 2}
  ListenPorts = {1}
  LastStarted = 3
  ContainerIds = {"db"}
  Published <- PublishedPorts
  InspectInterval = 2
  RetryAfter = 2
  LastDockerTime = 5
  ProbePorts = {1, 2}
  SkipPorts = {}
  ForcePorts = {2}
  TlsPorts = {1}
  ProbeInterval = 2
  LastServer = 2
  LastProbeTime = 3
  HealthPorts = {1}
  CheckClients = {1, 2}
  LastProcess = 2
  Servers <- NginxServers
  HttpdConfigs <- Httpds
  ProxyPorts = {80, 3000}
  HostNamePorts = {80}
  HostsFiles <- OneHostsFile
  Pids = {1}
  MostBytes = 3
  Signals <- SomeSignals
  PatternPorts = {80}
  PatternDays = 2
  SeenLimit = 1
  SeenKeep = 1
  LastDay = 3
  LastIssue = 2
  Scenes <- SmallScenes
  Machine = "machine"
  NoStar = "none"
  KeptDays = 1
  UsualDays = 2
  DaysKept = 2
  TicksPerDay = 2
  LastTick = 3
  MemoryPorts = {1}
  Holders <- SomeHolders
  Slashed <- NoSlash
  PortUsualDays = 2
  UsualRefreshes = 1
  ServicesKept = 2
  LastMemoryDay = 3
  LastRefresh = 5
  OriginPids = {1, 2}
  Chains <- OneChain
  ShellNames = {"zsh"}
  TerminalNames = {"tmux", "launchd", "systemd", "ssh session"}
  SupervisorNames = {"launchd", "systemd", "ssh session"}
  LongestChain = 12
  BranchSeconds = 1
  TmuxSeconds = 1
  LastCheckout = 1
  LastOriginTime = 3
INVARIANTS
  FindsTypeOK
  CountsAreEarned
  FiguresAreOwn
  ContainersAreShown
  NamesAreOfTheRow
PROPERTIES
  OwnResult
CHECK_DEADLOCK FALSE
