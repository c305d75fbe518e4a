SPECIFICATION WaitsSpec
CONSTANTS
  Parts = {"mirror", "kube", "manager", "mcp"}
  d1 = d1
  Dashboards = {d1}
  LogCap = 3
  SavedCap = 3
  ReloadedCap = 2
  ShownCap = 2
  LastEvent = 3
  Namespaces = {"a", "b"}
  Workers = {"w1", "w2"}
  LastPick = 2
  Managers = {"launchd", "systemd"}
  StartLimit = 2
  c1 = c1
  Callers = {c1}
  LastHolder = 2
  McpInterval = 0
  ShowStopped = 1
  LastMcpTime = 2
INVARIANT
  WaitsInvariant
PROPERTIES
  EveryoneIsTold
  EarlierNamespaceGoes
  InstalledRuns
  EveryCallIsAnswered
CHECK_DEADLOCK FALSE
