------------------------------- MODULE MCFinds -------------------------------
(* A small instance of the components that find and keep: the collectors of *)
(* ports and processes (Collector), containers (DockerProvider), answers     *)
(* (HttpProber, HealthChecks), routes (ProxyRoutes) and bytes (Throughput),  *)
(* what names a row (Identity), where it was started (OriginResolver), and   *)
(* what is learned over days (PatternStore, TopologyStore, PortMemory).      *)
(* They share no variable: each behaviour is one of one component, `part`,   *)
(* and the others stay in one of their initial states.                       *)
EXTENDS Collector, DockerProvider, HttpProber, HealthChecks, ProxyRoutes, Throughput,
        Identity, PatternStore, TopologyStore, PortMemory, OriginResolver

CONSTANTS
  Parts  \* the components of this run

VARIABLE part

-----------------------------------------------------------------------------
(* Values of the constants. *)

\* What a refresh finds: nothing, a stack with a proxy, a session with a tunnel.
Line(star, port, pid, live, kind, target) ==
  [star |-> star, port |-> port, tcp |-> TRUE, pids |-> {pid}, live |-> live, kind |-> kind,
   target |-> target]
WebLine(live) == Line("web", 80, 1, live, "local", "none")
DbLine(live) == Line("db", 54, 2, live, "local", "none")
FlowOf(pid, from, port) == [pid |-> pid, client |-> from, port |-> port]
SmallScenes ==
  {[rows |-> <<>>, edges |-> {}, routes |-> {}, cluster |-> {}],
   [rows |-> <<WebLine(TRUE), DbLine(TRUE)>>,
    edges |-> {FlowOf(1, "w", 54), FlowOf(2, "d", 54), FlowOf(9, "cli", 80)},
    routes |-> {[listen |-> 80, upstream |-> 54]}, cluster |-> {}],
   [rows |-> <<WebLine(TRUE), Line("tunnel", 90, 4, TRUE, "tunnel", "host"),
               Line("host", 22, 3, TRUE, "ssh", "none"), DbLine(FALSE)>>,
    edges |-> {FlowOf(9, "none", 80)}, routes |-> {}, cluster |-> {"k8s"}]}

\* A container may publish nothing twice, but one port as TCP and as UDP.
PublishedPorts ==
  [c \in {"web", "db", "api"} |->
     CASE c = "web" -> <<<<1, "TCP">>>>
       [] c = "db"  -> <<<<1, "UDP">>, <<2, "TCP">>>>
       [] OTHER     -> <<<<1, "TCP">>, <<1, "UDP">>>>]

NginxServers == {[listen |-> {}, names |-> {"api"}, passes |-> {3000}]}
Httpds == {[listen |-> {}, vhosts |-> {}, passes |-> {}],
           [listen |-> {3000}, passes |-> {80},
            vhosts |-> {[listen |-> {}, names |-> {"web"}, passes |-> {}]}]}
OneHostsFile == {[names |-> {"dev.local"}, mtime |-> 1]}

SomeHolders == {[service |-> "web", project |-> "shop"], [service |-> "node", project |-> "blog"],
                [service |-> "db", project |-> "none"]}
\* No service has a slash in its name (with one, OwnPortIsNotSquatted fails).
NoSlash == <<>>

\* Rows of every source: a process, a container, the Docker proxy with an alias,
\* a kubectl tunnel; with and without an answer on HTTP.
SomeSignals ==
  {[port |-> p, processes |-> ps, aliases |-> a, image |-> c[1], label |-> c[2],
    stack |-> IF c[2] = "x1" THEN "none" ELSE "shop", namespace |-> "prod",
    folders |-> <<"hidden", "app">>, answered |-> w[1], header |-> w[2], kind |-> w[3]] :
     p \in {80, 45000},
     ps \in {<<>>, <<"dockerproxy">>, <<"node">>, <<"parcel", "kubectl">>},
     a \in {<<>>, <<"Shop">>},
     c \in {<<"none", "none">>, <<"none", "x1">>, <<"postgres", "x1">>},
     w \in {<<FALSE, "none", "other">>, <<TRUE, "none", "json">>, <<TRUE, "nginx", "html">>,
            <<TRUE, "none", "vite">>, <<TRUE, "none", "openapi">>, <<FALSE, "none", "json">>}}

\* Servers started from a shell in tmux, with a terminal or without.
OneChain == {<<"zsh", "tmux", "launchd">>}

-----------------------------------------------------------------------------
FindsInit ==
  /\ part \in Parts
  /\ CollectorInit
  /\ DockerInit
  /\ ProberInit
  /\ HealthInit
  /\ RouteInit /\ (part = "routes" \/ (httpd = CHOOSE h \in HttpdConfigs : TRUE))
  /\ ThroughputInit /\ (part = "bytes" \/ (backend = "ss" /\ connections))
  /\ IdentityInit /\ (part = "identity" \/ (signals = CHOOSE s \in Signals : TRUE))
  /\ PatternInit
  /\ MapInit
  /\ MemoryInit
  /\ OriginInit

\* Every component but one stays as it is.
Resting(x) ==
  /\ UNCHANGED part
  /\ IF x = "ports" THEN TRUE ELSE UNCHANGED collectorVars
  /\ IF x = "docker" THEN TRUE ELSE UNCHANGED dockerVars
  /\ IF x = "http" THEN TRUE ELSE UNCHANGED proberVars
  /\ IF x = "health" THEN TRUE ELSE UNCHANGED healthVars
  /\ IF x = "routes" THEN TRUE ELSE UNCHANGED routeVars
  /\ IF x = "bytes" THEN TRUE ELSE UNCHANGED throughputVars
  /\ IF x = "identity" THEN TRUE ELSE UNCHANGED identityVars
  /\ IF x = "patterns" THEN TRUE ELSE UNCHANGED patternVars
  /\ IF x = "map" THEN TRUE ELSE UNCHANGED mapVars
  /\ IF x = "memory" THEN TRUE ELSE UNCHANGED memoryVars
  /\ IF x = "origin" THEN TRUE ELSE UNCHANGED originVars

FindsNext ==
  \/ part = "ports" /\ CollectorNext /\ Resting("ports")
  \/ part = "docker" /\ DockerNext /\ Resting("docker")
  \/ part = "http" /\ ProberNext /\ Resting("http")
  \/ part = "health" /\ HealthNext /\ Resting("health")
  \/ part = "routes" /\ RouteNext /\ Resting("routes")
  \/ part = "bytes" /\ ThroughputNext /\ Resting("bytes")
  \/ part = "identity" /\ IdentityNext /\ Resting("identity")
  \/ part = "patterns" /\ PatternNext /\ Resting("patterns")
  \/ part = "map" /\ MapNext /\ Resting("map")
  \/ part = "memory" /\ MemoryNext /\ Resting("memory")
  \/ part = "origin" /\ OriginNext /\ Resting("origin")

findsVars ==
  <<part,
    collectorVars, dockerVars, proberVars, healthVars, routeVars, throughputVars,
    identityVars, patternVars, mapVars, memoryVars, originVars>>

FindsSpec == FindsInit /\ [][FindsNext]_findsVars

-----------------------------------------------------------------------------
\* Every variable of the component has its type.
FindsTypeOK ==
  /\ part = "ports" => CollectorTypeOK
  /\ part = "docker" => DockerTypeOK
  /\ part = "http" => ProberTypeOK
  /\ part = "health" => HealthTypeOK
  /\ part = "routes" => RouteTypeOK
  /\ part = "bytes" => ThroughputTypeOK
  /\ part = "identity" => IdentityTypeOK
  /\ part = "patterns" => PatternTypeOK
  /\ part = "map" => MapTypeOK
  /\ part = "memory" => MemoryTypeOK
  /\ part = "origin" => OriginTypeOK

\* What lirts counts over days and restarts is counted once and earned: the events of a
\* pattern (patterns.py), the usual stars of the map (topology_store.py), the usual
\* holder of a port (ports.py).
CountsAreEarned ==
  /\ part = "patterns" => CountedOnce
  /\ part = "map" => UsualIsEarned
  /\ part = "memory" => UsualIsKnown

\* A figure is of the process it is shown for: its bytes (bandwidth.py), its CPU time
\* (system.py), its answer on HTTP (http.py).
FiguresAreOwn ==
  /\ part = "bytes" => NeverTooMuch
  /\ part = "ports" => OwnMeasure
  /\ part = "http" => FreshProbe

\* A row's names are of one moment: those of proxies and hosts files (routes.py), those
\* of an alias (identity.py), its branch (origin.py).
NamesAreOfTheRow ==
  /\ part = "routes" => RowsAreOfOnePiece
  /\ part = "identity" => AliasesName
  /\ part = "origin" => BranchIsRecent
=============================================================================
