------------------------------- MODULE MCActs -------------------------------
(* A small instance of the components that show, tell and act: the table    *)
(* (Dashboard), what is told of events (EventNews), recordings and the demo  *)
(* (Replay, DemoWorld), the settings (Settings), and the actions on rows     *)
(* (RowActions), compose projects (StackActions), pods (KubeActions) and     *)
(* port forwards (KubeForwards), and the star map (StarMap).  They share no  *)
(* variable: each behaviour is one of one component, `part`, and the others  *)
(* stay in one of their initial states.                                      *)
EXTENDS Dashboard, EventNews, Replay, DemoWorld, Settings, RowActions, StackActions,
        KubeActions, KubeForwards, StarMap

CONSTANTS
  Parts  \* the components of this run

VARIABLE part

-----------------------------------------------------------------------------
(* Values of the constants. *)

AllOn == [k \in ConfigKeys |-> TRUE]

TwoContainers == [c \in {"jobs-worker-1", "blog-mysql-1"} |->
                    IF c = "blog-mysql-1" THEN {3306} ELSE {9100}]

Calm == [procs |-> <<>>, container |-> "none",
         role |-> "backend", http |-> "ok", health |-> "none", cpu |-> "ok", memory |-> "ok",
         churns |-> FALSE, idle |-> FALSE, shared |-> FALSE, squatted |-> FALSE, left |-> FALSE,
         tunnel |-> FALSE]
SomeMeasures == {Calm, [Calm EXCEPT !.health = "closed"], [Calm EXCEPT !.idle = TRUE]}

ShopLabels == [c \in {"web", "db", "lone"} |-> IF c = "lone" THEN "" ELSE "shop"]

SomeTyped == {[exact |-> 1, prefix |-> {1, 2}], [exact |-> 0, prefix |-> {2}]}

TwoProjects == [r \in {1, 2} |-> IF r = 1 THEN "local" ELSE "shop"]
Alphabet == [p \in {"local", "shop"} |-> IF p = "local" THEN 1 ELSE 2]
Turned == [r \in {1, 2} |-> 9 - r]
SomeTexts == {<<>>, <<[key |-> "project", value |-> "shop", negate |-> FALSE]>>}

\* A system service goes; a service moves to another project and stops; a cluster comes.
Star(kind, project, parent, live) ==
  [kind |-> kind, project |-> project, parent |-> parent, live |-> live]
TwoSkies ==
  {"api" :> Star("backend", "shop", NoneSelected, TRUE)
     @@ "dns" :> Star("system", "shop", NoneSelected, TRUE),
   "api" :> Star("backend", "blog", NoneSelected, FALSE)
     @@ "k8s" :> Star("cluster", "", NoneSelected, TRUE)
     @@ "svc" :> Star("service", "", "k8s", TRUE)}

-----------------------------------------------------------------------------
ActsInit ==
  /\ part \in Parts
  /\ DashboardInit /\ (part = "table" \/ (~isGrouped))
  /\ NewsInit /\ (part = "news" \/ (teller = "watch" /\ newsLog = <<>>))
  /\ ReplayInit /\ (part = "replay" \/ (machine = {}))
  /\ DemoInit
  /\ SettingsInit /\ (part = "settings" \/ (file.there /\ ~file.old /\ welcomed))
  /\ RowInit /\ (part = "row" \/ (service = "none"))
  /\ StackInit /\ (part = "stack" \/ (upBoxes = {}))
  /\ KubeActionsInit /\ (part = "pods" \/ (chosen = "none" /\ current = CHOOSE k \in Clusters : TRUE))
  /\ ForwardInit
  /\ SkyInit /\ (part = "sky" \/ (held = "itself" /\ sky = CHOOSE g \in Skies : TRUE))

\* Every component but one stays as it is.
Resting(x) ==
  /\ UNCHANGED part
  /\ IF x = "table" THEN TRUE ELSE UNCHANGED dashVars
  /\ IF x = "news" THEN TRUE ELSE UNCHANGED newsVars
  /\ IF x = "replay" THEN TRUE ELSE UNCHANGED replayVars
  /\ IF x = "demo" THEN TRUE ELSE UNCHANGED demoVars
  /\ IF x = "settings" THEN TRUE ELSE UNCHANGED settingsVars
  /\ IF x = "row" THEN TRUE ELSE UNCHANGED rowVars
  /\ IF x = "stack" THEN TRUE ELSE UNCHANGED stackVars
  /\ IF x = "pods" THEN TRUE ELSE UNCHANGED kubeActionVars
  /\ IF x = "forwards" THEN TRUE ELSE UNCHANGED forwardVars
  /\ IF x = "sky" THEN TRUE ELSE UNCHANGED skyVars

ActsNext ==
  \/ part = "table" /\ DashboardNext /\ Resting("table")
  \/ part = "news" /\ NewsNext /\ Resting("news")
  \/ part = "replay" /\ ReplayNext /\ Resting("replay")
  \/ part = "demo" /\ DemoNext /\ Resting("demo")
  \/ part = "settings" /\ SettingsNext /\ Resting("settings")
  \/ part = "row" /\ RowNext /\ Resting("row")
  \/ part = "stack" /\ StackNext /\ Resting("stack")
  \/ part = "pods" /\ KubeActionsNext /\ Resting("pods")
  \/ part = "forwards" /\ ForwardNext /\ Resting("forwards")
  \/ part = "sky" /\ SkyNext /\ Resting("sky")

actsVars ==
  <<part,
    dashVars, newsVars, replayVars, demoVars, settingsVars, rowVars, stackVars,
    kubeActionVars, forwardVars, skyVars>>

ActsSpec == ActsInit /\ [][ActsNext]_actsVars

-----------------------------------------------------------------------------
\* Every variable of the component has its type.
ActsTypeOK ==
  /\ part = "table" => DashboardTypeOK
  /\ part = "news" => NewsTypeOK
  /\ part = "replay" => ReplayTypeOK
  /\ part = "demo" => DemoTypeOK
  /\ part = "settings" => SettingsTypeOK
  /\ part = "row" => RowTypeOK
  /\ part = "stack" => StackTypeOK
  /\ part = "pods" => KubeActionsTypeOK
  /\ part = "forwards" => ForwardTypeOK
  /\ part = "sky" => SkyTypeOK

\* The dashboard follows what it is given: its configuration the file (tui/app_settings.py),
\* its table the snapshot and the view that is asked for (tui/app_table.py).
DashboardFollows ==
  /\ part = "settings" => ConfigFollowsFile
  /\ part = "table" => TableIsDrawn

\* An event is told once, by `lirts watch` and the dashboard (tui/app.py) and in a
\* recording that is played (replay.py).
EventsAreToldOnce ==
  /\ part = "news" => ToldOnce
  /\ part = "replay" => EventsOnceInOrder

\* An action does to pods and containers what its question named, and all of it
\* (tui/screens/kube.py, tui/screens/stack.py); a fix spares the forwarder that holds a
\* port for a container (insights_ports.py).
ActsAsAsked ==
  /\ part = "pods" => NamedPodIsTouched
  /\ part = "stack" => StackIsReached
  /\ part = "row" => FixSparesForwarder

\* A refresh does not take away what the user is looking at: the row a key would act on
\* (tui/app_table.py), the cell of a star (tui/starmap_layout.py).
WhatIsShownStays ==
  [][/\ part = "table" => TargetsAreKept
     /\ part = "sky" => CellsAreKept]_actsVars
=============================================================================
