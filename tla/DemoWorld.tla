------------------------------ MODULE DemoWorld -------------------------------
(***************************************************************************)
(* The pretend machine of `lirts --demo` (demo/): a script that plays once *)
(* per refresh (timeline.py) and the actions of the dashboard, which act   *)
(* on its processes, containers, pods and forwards (machine.py,            *)
(* providers.py) between two refreshes.                                    *)
(*                                                                         *)
(* Abstracted: a process serves one port and a seeded one has its port as  *)
(* number, as in the catalog; the Docker proxy is the set of ports it      *)
(* publishes; cpu, traffic and the answers to probes are left out.         *)
(***************************************************************************)
EXTENDS Integers, FiniteSets, Sequences

CONSTANTS
  Served,        \* ports the seeded processes serve
  Catalog,       \* the published ports of every seeded container
  DemoPods,      \* the seeded pods, "worker" among them
  Instants,      \* bound: the seconds at which the dashboard refreshes
  ForwardPorts,  \* ports kubectl may forward
  LastDemoPid,   \* bound: processes started
  MostRestarts   \* bound: restart count of the worker

ASSUME DemoAssumption ==
  /\ Served \cup Instants \cup ForwardPorts \subseteq Nat /\ {LastDemoPid, MostRestarts} \subseteq Nat
  /\ {3002, 15432} \cap Served = {}  \* only the script opens these
  /\ "jobs-worker-1" \in DOMAIN Catalog /\ "worker" \in DemoPods

VARIABLES
  now,         \* second of the last refresh
  procs,       \* the processes, <<number, port>>
  startedPids, \* how many numbers were given out
  boxes,       \* the containers that are there
  published,   \* ports of the Docker proxy
  sick,        \* containers whose health check fails
  restarts,    \* restart count of the worker container and of its pod
  pods,
  forwards,    \* local ports
  fired,       \* events of the script that happened
  shown,       \* rows and containers of the last refresh that worked
  refreshed,   \* "ok", "failed"
  killed       \* ports whose process the user killed for good

demoVars == <<now, procs, startedPids, boxes, published, sick, restarts, pods, forwards, fired,
              shown, refreshed, killed>>

Worker == "jobs-worker-1"
Numbered == Served \cup (60001 .. 60000 + LastDemoPid)
Ports == Served \cup {3001, 3002, 8001, 15432}

\* _once: the events of the script and their seconds.
Script == [ssh |-> 12, api_restart |-> 25, mysql_unhealthy |-> 30, admin_stop |-> 40,
           admin_back |-> 75]

DemoTypeOK ==
  /\ now \in Instants \cup {0}
  /\ procs \subseteq Numbered \X Ports /\ startedPids \in 0 .. LastDemoPid
  /\ boxes \cup sick \subseteq DOMAIN Catalog
  /\ published \subseteq UNION {Catalog[c] : c \in DOMAIN Catalog}
  /\ restarts \in [box : Nat, pod : Nat]
  /\ pods \subseteq DemoPods /\ forwards \subseteq ForwardPorts
  /\ fired \subseteq DOMAIN Script
  /\ shown \in [rows : SUBSET (Numbered \X Ports), boxes : SUBSET DOMAIN Catalog]
  /\ refreshed \in {"ok", "failed"} /\ killed \subseteq Ports

-----------------------------------------------------------------------------
(* The processes. *)

\* _add, with the number that _pid gives out as the n-th.
Added(ps, n, port) == ps \cup {<<60000 + n, port>>}

On(ps, port) == {p \in ps : p[2] = port}

\* kill
Killed(ps, pids) == {p \in ps : p[1] \notin pids}

\* restart_port: a fresh process takes the place of the one that serves the port, if one does.
Restarted(ps, n, port) ==
  IF On(ps, port) = {} THEN ps ELSE Added(ps \ On(ps, port), n, port)

\* Mutant: an event happens at every refresh from its second on.
DueAlways(name, t) == t >= Script[name]

\* _once
Due(name, t) == t >= Script[name] /\ name \notin fired

-----------------------------------------------------------------------------
(* tick: the script, in the order of the code.  A tunnel is the second     *)
(* number of its event, the restarted api and the admin server the next.   *)

TickProcs(t) ==
  LET ssh == IF Due("ssh", t) THEN 2 ELSE 0
      tunnel == IF ssh > 0 THEN Added(procs, startedPids + 2, 15432) ELSE procs
      api == IF Due("api_restart", t) /\ On(tunnel, 8001) # {} THEN 1 ELSE 0
      again == IF api > 0 THEN Restarted(tunnel, startedPids + ssh + 1, 8001) ELSE tunnel
      left == IF Due("admin_stop", t) THEN Killed(again, {3001}) ELSE again
      back == IF Due("admin_back", t) THEN 1 ELSE 0
      begin == startedPids + ssh + api + back
  IN [procs |-> IF back > 0 THEN Added(left, begin, 3002) ELSE left, started |-> begin]

\* The crash loop looks for the worker's container and pod: without them the refresh fails,
\* after the events of the script.
Tick(t) ==
  /\ t > now
  /\ now' = t
  /\ LET after == TickProcs(t)
     IN /\ after.started <= LastDemoPid
        /\ procs' = after.procs /\ startedPids' = after.started
  /\ sick' = IF Due("mysql_unhealthy", t) THEN sick \cup (boxes \cap {"blog-mysql-1"}) ELSE sick
  /\ fired' = fired \cup {name \in DOMAIN Script : Due(name, t)}
  /\ restarts' = [box |-> IF Worker \in boxes THEN 4 + t \div 45 ELSE restarts.box,
                  pod |-> IF {Worker} \subseteq boxes /\ "worker" \in pods
                          THEN 7 + t \div 45 ELSE restarts.pod]
  /\ IF Worker \in boxes /\ "worker" \in pods
     THEN refreshed' = "ok" /\ shown' = [rows |-> procs', boxes |-> boxes]
     ELSE refreshed' = "failed" /\ UNCHANGED shown
  /\ UNCHANGED <<boxes, published, pods, forwards, killed>>

-----------------------------------------------------------------------------
(* The actions, on what the last refresh has shown. *)

Kill(row) ==
  /\ row \in shown.rows
  /\ procs' = Killed(procs, {row[1]})
  /\ killed' = IF row \in procs THEN killed \cup {row[2]} ELSE killed
  /\ UNCHANGED <<now, startedPids, boxes, published, sick, restarts, pods, forwards, fired,
                 shown, refreshed>>

Restart(row) ==
  /\ row \in shown.rows
  /\ On(procs, row[2]) # {} /\ startedPids < LastDemoPid
  /\ procs' = Restarted(procs, startedPids + 1, row[2])
  /\ startedPids' = startedPids + 1
  /\ UNCHANGED <<now, boxes, published, sick, restarts, pods, forwards, fired, shown,
                 refreshed, killed>>

StopContainer(c) ==
  /\ c \in shown.boxes \cap boxes
  /\ boxes' = boxes \ {c}
  /\ published' = published \ Catalog[c]
  /\ UNCHANGED <<now, procs, startedPids, sick, restarts, pods, forwards, fired, shown,
                 refreshed, killed>>

RestartContainer(c) ==
  /\ c \in shown.boxes \cap boxes
  /\ restarts' = IF c = Worker /\ restarts.box < MostRestarts THEN [restarts EXCEPT !.box = @ + 1]
                 ELSE restarts
  /\ sick' = sick \ {c}
  /\ UNCHANGED <<now, procs, startedPids, boxes, published, pods, forwards, fired, shown,
                 refreshed, killed>>

DeletePod(p) ==
  /\ pods' = pods \ {p}
  /\ UNCHANGED <<now, procs, startedPids, boxes, published, sick, restarts, forwards, fired,
                 shown, refreshed, killed>>

RolloutRestart(p) ==
  /\ p \in pods
  /\ restarts' = IF p = "worker" THEN [restarts EXCEPT !.pod = 0] ELSE restarts
  /\ UNCHANGED <<now, procs, startedPids, boxes, published, sick, pods, forwards, fired, shown,
                 refreshed, killed>>

StartForward(port) ==
  /\ forwards' = forwards \cup {port}
  /\ UNCHANGED <<now, procs, startedPids, boxes, published, sick, restarts, pods, fired, shown,
                 refreshed, killed>>

\* stop_forward, of one port from the dashboard; the Kubernetes screen asks by the number of
\* the process, which is not looked at: all of them stop.
StopForwards(served) ==
  /\ forwards' = forwards \ served
  /\ UNCHANGED <<now, procs, startedPids, boxes, published, sick, restarts, pods, fired, shown,
                 refreshed, killed>>

-----------------------------------------------------------------------------
DemoInit ==
  /\ now = 0 /\ startedPids = 0
  /\ procs = {<<p, p>> : p \in Served}
  /\ boxes = DOMAIN Catalog /\ published = UNION {Catalog[c] : c \in DOMAIN Catalog}
  /\ sick = {} /\ restarts = [box |-> 4, pod |-> 7] /\ pods = DemoPods
  /\ forwards = ForwardPorts /\ fired = {}
  /\ shown = [rows |-> {}, boxes |-> {}] /\ refreshed = "ok" /\ killed = {}

DemoNext ==
  \/ \E t \in Instants : Tick(t)
  \/ \E row \in shown.rows : Kill(row) \/ Restart(row)
  \/ \E c \in DOMAIN Catalog : StopContainer(c) \/ RestartContainer(c)
  \/ \E p \in DemoPods : DeletePod(p) \/ RolloutRestart(p)
  \/ \E port \in ForwardPorts : StartForward(port) \/ StopForwards({port})
  \/ StopForwards(ForwardPorts)

DemoSpec == DemoInit /\ [][DemoNext]_demoVars

-----------------------------------------------------------------------------
(* Nothing brings back what the user killed: neither the script, which     *)
(* restarts one server and moves another, nor a restart of a row that is   *)
(* still on the screen (k, then t before the next refresh).                *)
KilledStaysKilled == \A p \in procs : p[2] \notin killed

(* The demo goes on whatever the user stops: "kill, restart and stop act   *)
(* on the pretend machine" (README.md, of the demo).                       *)
(* TLC refutes this; it has no run of its own (README, section 5).         *)
DemoGoesOn == refreshed = "ok"
=============================================================================
