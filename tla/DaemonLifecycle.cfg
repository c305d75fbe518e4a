\* Daemons that are started and stopped one after the other, and crash.
CONSTANTS
  Daemons = {d1, d2, d3}
  Dashboards = {u1, u2}
  NoSocket = nosocket
  Alone = alone
  CleanupSocket = FALSE
  Discipline = "serial"
SPECIFICATION FairSpec
CHECK_DEADLOCK FALSE
INVARIANTS OneEngine
PROPERTIES DashboardsAttach StartsSucceed
