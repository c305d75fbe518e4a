\* A daemon that is started as soon as the old one was told to stop.
CONSTANTS
  Daemons = {d1, d2, d3}
  Dashboards = {u1, u2}
  NoSocket = nosocket
  Alone = alone
  CleanupSocket = FALSE
  Discipline = "after stop"
SPECIFICATION Spec
CHECK_DEADLOCK FALSE
PROPERTIES DashboardsAttach
