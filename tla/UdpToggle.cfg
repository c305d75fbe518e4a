\* A TCP port that comes and goes and a UDP port that is always there, while
\* UDP is hidden and shown at any time.
CONSTANTS
  tcp = tcp  udp = udp  a1 = a1  b1 = b1
  Keys = {tcp, udp}
  UdpKeys = {udp}
  Steady = {udp}
  Pids = {a1, b1}
  NameOf <- MCNameOf
  Statuses = {"healthy"}
  Activities = {TRUE}
  Retention = 3
  SaveInterval = 2
  RestartsSaved = 1
  MaxRows = 2
  StaleAfter = 2
  RestartWarning = 2
  RestartWindow = 3
  StoppedWindow = 2
  ToggleInRefresh = TRUE
  MaxStep = 2
  MaxTime = 8
SPECIFICATION CycleSpec
CHECK_DEADLOCK FALSE
PROPERTIES SteadyIsQuiet
