\* A client, an agent and the daemon's loop share the engine.
CONSTANTS
  Clients = {c1}
  McpCalls = {m1}
  LoopTask = loop
  Free = free
  MaxAges = {0, 1}
  Oldest = 2
SPECIFICATION FairSpec
CHECK_DEADLOCK FALSE
INVARIANTS TypeOK NoOverlap FreshAnswer NoEmptyFrame ReloadIsKept
PROPERTIES Answered StopEnds
