\* An old development server that is used now and then.
CONSTANTS
  tcp = tcp  udp = udp  a1 = a1  b1 = b1
  Keys = {tcp}
  UdpKeys = {}
  Steady = {}
  Pids = {a1}
  NameOf <- MCNameOf
  Statuses = {"healthy", "warning"}
  Activities = {TRUE, FALSE}
  Retention = 3
  SaveInterval = 3
  RestartsSaved = 1
  MaxRows = 2
  StaleAfter = 2
  RestartWarning = 2
  RestartWindow = 3
  StoppedWindow = 2
  ToggleInRefresh = FALSE
  MaxStep = 1
  MaxTime = 7
SPECIFICATION CycleSpec
CHECK_DEADLOCK FALSE
INVARIANTS DegradedIsShown
