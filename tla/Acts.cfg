SPECIFICATION ActsSpec
CONSTANTS
  Parts = {"table", "news", "replay", "demo", "settings", "row", "stack", "pods", "forwards", "sky"}
  RowKeys = {1, 2}
  ProjectOf <- TwoProjects
  NameOf <- Alphabet
  ValueOf <- Turned
  FilterTexts <- SomeTexts
  SnapshotEvents = 2
  CycleEvents = 3
  LastEventId = 4
  LastNewsTime = 5
  Tasks = {"app"}
  Boxes = {"db"}
  LastFrame = 3
  LastChange = 3
  Served = {3001, 8001}
  Catalog <- TwoContainers
  DemoPods = {"worker"}
  Instants = {1, 30, 50, 80}
  ForwardPorts = {9090}
  LastDemoPid = 5
  MostRestarts = 6
  Defaults <- AllOn
  LastWrite = 1
  LastEdit = 2
  Desks = {1}
  ProcessIds = {1, 2}
  ProcessNames = {"app", "docker-proxy"}
  LastBorn = 3
  ConflictShown = 1
  Measures <- SomeMeasures
  Containers = {"web", "db", "lone"}
  StackLabel <- ShopLabels
  Clusters = {"dev", "prod"}
  PodIds = {1, 2}
  OwnedPods = {2}
  TypedNames <- SomeTyped
  Users = {1, 2}
  LocalPorts = {1, 2}
  LastForward = 2
  Skies <- TwoSkies
  Sizes = {"narrow", "wide"}
  LastCell = 2
  LowScale = 10
  HighScale = 11
  DefaultScale = 10
  ZoomScale = 11
INVARIANTS
  ActsTypeOK
  ReportedIsTracked
  
  EventsAreToldOnce
  KilledStaysKilled
  ActsAsAsked
PROPERTIES
  RestartAfterGone
  WhatIsShownStays
CHECK_DEADLOCK FALSE
