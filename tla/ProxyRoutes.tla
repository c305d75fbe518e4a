----------------------------- MODULE ProxyRoutes -----------------------------
(***************************************************************************)
(* What the local proxies serve, and how a refresh puts it on the rows:    *)
(* collectors/proxies*.py, collectors/hosts.py, engine/routes.py, and the  *)
(* graph screen that asks again.                                           *)
(*                                                                         *)
(* The proxies' configurations, the hosts file and the rows change at any  *)
(* time; a thread of a refresh and one of the screen may ask at once.      *)
(* Abstracted: paths, remote upstreams (which are none), document roots.   *)
(***************************************************************************)
EXTENDS Integers, FiniteSets, TLC

CONSTANTS
  Servers,       \* nginx servers: listen, names, passes (the local ports they pass to)
  HttpdConfigs,  \* httpd: its Listen ports, its virtual hosts, its own passes
  ProxyPorts,    \* ports that may have a row
  HostNamePorts, \* HOST_NAME_PORTS: their rows show the names of the hosts file
  HostsFiles     \* the hosts file: its loopback names, and its modification time

ASSUME RouteAssumption ==
  /\ \A s \in Servers : s.passes \subseteq ProxyPorts
  /\ \A h \in HttpdConfigs : /\ h.passes \subseteq ProxyPorts
                              /\ \A v \in h.vhosts : v.passes \subseteq ProxyPorts

Asking == {"refresh", "screen"}
NotAsking == [at |-> "idle", found |-> {}]
NoPage(P) == [at |-> "begun", rows |-> P, hosts |-> <<>>, targets |-> <<>>, names |-> {}, applied |-> {}, routes |-> {}]

VARIABLES
  nginx, httpd, hostsFile,  \* what the system has now; no hosts file is <<>>
  routes,       \* EngineBase.routes
  routesLoaded, \* _routes_loaded
  proxiesOn,    \* proxies_enabled
  asking,       \* per thread how far refresh_routes is
  hosts,        \* HostsMap: mapping and _mtime
  page          \* the refresh under way or shown last: its rows, their hosts and
                \* proxy_targets, the snapshot's hosts_names, routes; history: the routes applied

proxyWorld == <<nginx, httpd, hostsFile>>
routeEngine == <<routes, routesLoaded, proxiesOn>>
routeVars == <<proxyWorld, routeEngine, asking, hosts, page>>

-----------------------------------------------------------------------------
(* The parsers. *)

\* A port that is not given.
OrPort80(P) == IF P = {} THEN {80} ELSE P

\* One route per port and pass; a server that passes nothing has one per port.
RoutesOf(listen, names, passes) ==
  [listen: OrPort80(listen), names: {names}, upstream: IF passes = {} THEN {0} ELSE passes]

NginxRoutes == UNION {RoutesOf(s.listen, s.names, s.passes) : s \in nginx}

\* httpd_routes_from_files: a virtual host without a port is on every Listen
\* port; the main server's passes count only when there are no virtual hosts.
HttpdRoutes ==
  IF httpd.vhosts = {} THEN RoutesOf(httpd.listen, {}, httpd.passes)
  ELSE UNION {RoutesOf(IF v.listen = {} THEN httpd.listen ELSE v.listen, v.names, v.passes) : v \in httpd.vhosts}

-----------------------------------------------------------------------------
(* refresh_routes *)

StartAsking(t) ==
  /\ asking[t].at = "begin"
  /\ routesLoaded' = TRUE
  /\ IF proxiesOn
       THEN asking' = [asking EXCEPT ![t].at = "nginx"] /\ UNCHANGED routes
       ELSE asking' = [asking EXCEPT ![t] = NotAsking] /\ routes' = {}
  /\ UNCHANGED <<proxyWorld, proxiesOn, hosts, page>>

AskNginx(t) ==
  /\ asking[t].at = "nginx"
  /\ \E found \in {NginxRoutes, {}} : asking' = [asking EXCEPT ![t] = [at |-> "httpd", found |-> found]]
  /\ UNCHANGED <<proxyWorld, routeEngine, hosts, page>>

AskHttpd(t) ==
  /\ asking[t].at = "httpd"
  /\ \E found \in {HttpdRoutes, {}} : routes' = asking[t].found \cup found
  /\ asking' = [asking EXCEPT ![t] = NotAsking]
  /\ UNCHANGED <<proxyWorld, routesLoaded, proxiesOn, hosts, page>>

\* action_reload of the graph screen.
ReloadRoutes ==
  /\ asking["screen"].at = "idle"
  /\ asking' = [asking EXCEPT !["screen"].at = "begin"]
  /\ UNCHANGED <<proxyWorld, routeEngine, hosts, page>>

\* The setting proxies.enabled.
SetProxies ==
  /\ proxiesOn' = ~proxiesOn
  /\ routesLoaded' = FALSE
  /\ UNCHANGED <<proxyWorld, routes, asking, hosts, page>>

-----------------------------------------------------------------------------
(* A refresh. *)

\* HostsMap.refresh: read again when its time changed; a missing file empties
\* the mapping but not the time.
HostsNow ==
  IF hostsFile = <<>> THEN [hosts EXCEPT !.names = {}]
  ELSE IF hostsFile[1].mtime = hosts.mtime THEN hosts
  ELSE hostsFile[1]

BeginListing(P) ==
  /\ page.at = "shown"
  /\ hosts' = HostsNow
  /\ page' = NoPage(P)
  /\ asking' = IF proxiesOn /\ ~routesLoaded THEN [asking EXCEPT !["refresh"].at = "begin"] ELSE asking
  /\ UNCHANGED <<proxyWorld, routeEngine>>

Applied(P) == IF proxiesOn THEN {r \in routes : r.listen \in P} ELSE {}

\* Mutant: the upstream's row is not named.
NamedRowsProxyOnly(r, P) == {r.listen} \cap P

\* The rows that get a route's names.
NamedRows(r, P) == {r.listen, r.upstream} \cap P

OwnNames(p, P) == UNION {r.names : r \in {q \in Applied(P) : p \in NamedRows(q, P)}}

\* The rows of HOST_NAME_PORTS share one list, the snapshot's hosts_names.
SharedNames(P) == hosts.names \cup UNION {OwnNames(p, P) : p \in P \cap HostNamePorts}

\* _apply_routes.
ApplyRoutes ==
  /\ page.at = "begun" /\ asking["refresh"].at = "idle"
  /\ LET P == page.rows
     IN page' = [at      |-> "publish",
                 rows    |-> P,
                 hosts   |-> [p \in P |-> IF p \in HostNamePorts THEN SharedNames(P) ELSE OwnNames(p, P)],
                 targets |-> [p \in P |-> {r.upstream : r \in {q \in Applied(P) : q.listen = p}} \cap (P \ {p})],
                 names   |-> SharedNames(P),
                 applied |-> Applied(P),
                 routes  |-> {}]
  /\ UNCHANGED <<proxyWorld, routeEngine, asking, hosts>>

\* The snapshot, after the system was sampled in a thread.
PublishRoutes ==
  /\ page.at = "publish"
  /\ page' = [page EXCEPT !.at = "shown", !.routes = IF proxiesOn THEN routes ELSE {}]
  /\ UNCHANGED <<proxyWorld, routeEngine, asking, hosts>>

Reconfigure ==
  /\ \/ nginx' \in SUBSET Servers /\ UNCHANGED <<httpd, hostsFile>>
     \/ httpd' \in HttpdConfigs /\ UNCHANGED <<nginx, hostsFile>>
     \/ hostsFile' \in {<<>>} \cup {<<f>> : f \in HostsFiles} /\ UNCHANGED <<nginx, httpd>>
  /\ UNCHANGED <<routeEngine, asking, hosts, page>>

RouteInit ==
  /\ nginx = {} /\ httpd \in HttpdConfigs /\ hostsFile = <<>>
  /\ routes = {} /\ routesLoaded = FALSE /\ proxiesOn = TRUE
  /\ asking = [t \in Asking |-> NotAsking]
  /\ hosts = [names |-> {}, mtime |-> 0]
  /\ page = [NoPage({}) EXCEPT !.at = "shown"]

RouteNext ==
  \/ \E t \in Asking : StartAsking(t) \/ AskNginx(t) \/ AskHttpd(t)
  \/ ReloadRoutes \/ SetProxies \/ Reconfigure \/ ApplyRoutes \/ PublishRoutes
  \/ \E P \in SUBSET ProxyPorts : BeginListing(P)

RouteSpec == RouteInit /\ [][RouteNext]_routeVars

-----------------------------------------------------------------------------
\* The type of every variable.
RouteTypeOK ==
  /\ nginx \subseteq Servers /\ httpd \in HttpdConfigs
  /\ {routesLoaded, proxiesOn} \subseteq BOOLEAN
  /\ \A r \in routes : r.upstream \in ProxyPorts \cup {0}
  /\ \A t \in Asking : asking[t].at \in {"idle", "begin", "nginx", "httpd"}
  /\ DOMAIN page.hosts = DOMAIN page.targets

\* Whatever is asked, switched and reconfigured while a refresh runs, its rows
\* are of one piece: each route that it applied is on its proxy's row and, if
\* the upstream is on this machine, on that row too; a row is named after a
\* host or after a route that was applied; and no row forwards to itself or to
\* a port without a row.
RowsAreOfOnePiece ==
  LET P == DOMAIN page.hosts
  IN /\ \A r \in page.applied :
          /\ r.names \subseteq page.hosts[r.listen]
          /\ r.upstream \in P => r.names \subseteq page.hosts[r.upstream]
          /\ r.upstream \in P \ {r.listen} => r.upstream \in page.targets[r.listen]
     /\ \A p \in P : /\ page.targets[p] \subseteq P \ {p}
                     /\ page.hosts[p] \ page.names \subseteq UNION {r.names : r \in page.applied}

\* models.py:340 says of the snapshot's hosts_names: "/etc/hosts names on loopback".
\* TLC refutes this; it has no run of its own (README, section 5).
HostsNamesAreHosts == page.names \subseteq UNION {f.names : f \in HostsFiles}

=============================================================================
