\* The README's rule for counting restarts.
CONSTANTS
  tcp = tcp  udp = udp  a1 = a1  a2 = a2  b1 = b1
  Keys = {tcp}
  UdpKeys = {}
  Pids = {a1, a2, b1}
  NameOf <- MCNameOf
  Statuses = {"healthy", "warning", "error"}
  Activities = {FALSE}
  Retention = 3
  SaveInterval = 3
  RestartsSaved = 1
  MaxRows = 2
  MaxStep = 2
  MaxTime = 9
SPECIFICATION Spec
CHECK_DEADLOCK FALSE
PROPERTIES RestartMeansEveryPidGone
