----------------------------- MODULE RowInsights -----------------------------
(***************************************************************************)
(* What lirts concludes about one row: insights_analyse.py, the left-over  *)
(* rule of insights_ports.py, the status of a row (models.py) and the fix  *)
(* it proposes (fixes.py).                                                 *)
(*                                                                         *)
(* A row is a record: procs, a sequence of [pid, born, since, name, dead,  *)
(* open], where since is the create_time lirts read, 0 when it could not;  *)
(* container, one of Containers; and what was measured: role, http,        *)
(* health, cpu, memory, churns, idle, shared, left, tunnel.  Thresholds    *)
(* are applied already: a figure is "ok", "yellow" or "red".  The usual    *)
(* holder of a port is PortMemory's; "squatted" says it is another one.    *)
(***************************************************************************)
EXTENDS Integers, FiniteSets, SequencesExt, Lists

CONSTANT
  ConflictShown  \* CONFLICT_PROCESSES_SHOWN: the processes a conflict tells of

ASSUME InsightAssumption == ConflictShown \in Nat \ {0}

Levels == [INFO |-> 0, WARNING |-> 1, ERROR |-> 2]

\* "none", or what Docker says of the row's container.
RowContainers == {"none", "runs", "unhealthy", "starting", "exited", "loops"}

Forwarders == {"docker-proxy", "com.docker.backend"}

\* real_processes: without Docker's forwarders.
RealProcesses(r) == Only(r.procs, {q \in Range(r.procs) : q.name \notin Forwarders})

\* (create_time or 0.0, pid): who is not younger, or is of unknown age.
Elder(q, o) == q.since < o.since \/ (q.since = o.since /\ q.pid <= o.pid)

\* primary: the oldest process, one of unknown age only when all are; and the newest.
Primary(r) ==
  CHOOSE q \in Range(r.procs) : \A o \in Range(r.procs) :
    IF o.since = 0 THEN q.since # 0 \/ Elder(q, o) ELSE q.since # 0 /\ Elder(q, o)
Youngest(r) == CHOOSE q \in Range(r.procs) : \A o \in Range(r.procs) : Elder(o, q)

HolderPids(r) == {q.pid : q \in Range(r.procs)}

NoFix == [kind |-> "none", pid |-> 0]
KillFix(q) == [kind |-> "kill", pid |-> q.pid]
RowFix(kind) == [kind |-> kind, pid |-> 0]

Insight(level, code, fix) == [level |-> level, code |-> code, fix |-> fix]
When(cond, level, code, fix) == IF cond THEN <<Insight(level, code, fix)>> ELSE <<>>

\* Logs are proposed where there is a container to read them from.
LogsFix(r) == IF r.container = "none" THEN NoFix ELSE RowFix("logs")

-----------------------------------------------------------------------------
\* Processes of different names have the port: next to Docker's forwarder, if the
\* insight tells of it, the local one is to go, else the oldest.
Conflict(r) ==
  LET names == {q.name : q \in Range(r.procs)}
      told  == {r.procs[i].name : i \in DOMAIN r.procs \cap (1..ConflictShown)}
      local == RealProcesses(r)
  IN IF Cardinality(names) > 1
     THEN <<Insight("ERROR", "port-conflict",
              IF told \cap Forwarders # {} /\ local # <<>> THEN KillFix(Head(local))
              ELSE IF Primary(r).pid # Youngest(r).pid THEN KillFix(Primary(r)) ELSE NoFix)>>
     ELSE When(r.shared, "INFO", "shared-port", NoFix)

DeadProcesses(r) ==
  LET dead == Only(r.procs, {q \in Range(r.procs) : q.dead})
  IN [i \in DOMAIN dead |-> Insight("ERROR", "zombie", KillFix(dead[i]))]

ContainerInsights(r) ==
     When(r.container = "unhealthy", "ERROR", "container-unhealthy", RowFix("restart-container"))
  \o When(r.container = "starting", "INFO", "container-starting", NoFix)
  \o When(r.container = "exited", "ERROR", "container-state", RowFix("restart-container"))
  \o When(r.container = "loops", "WARNING", "container-restarts", RowFix("logs"))

Churn(r) == When(r.churns, "WARNING", "restarts", LogsFix(r))

\* The probe: a hard failure counts for web roles only.
Probed(r) ==
     When(r.http = "down" /\ r.role \in {"frontend", "backend", "proxy"}, "WARNING", "unreachable", LogsFix(r))
  \o When(r.http = "5xx", "WARNING", "http-5xx", LogsFix(r))
  \o When(r.http = "slow", "WARNING", "latency", NoFix)

\* The health check on demand.
HealthChecked(r) ==
     When(r.health = "closed", "ERROR", "unreachable-tcp",
          IF r.container = "none" THEN RowFix("restart-process") ELSE RowFix("restart-container"))
  \o When(r.health = "failing", "WARNING", "health-failing", LogsFix(r))

Thresholds(r) ==
     When(r.cpu = "red", "WARNING", "cpu-high", NoFix) \o When(r.cpu = "yellow", "INFO", "cpu-elevated", NoFix)
  \o When(r.memory = "red", "WARNING", "mem-high", NoFix) \o When(r.memory = "yellow", "INFO", "mem-elevated", NoFix)

\* A server nobody talked to for long; a row of Docker is none.
Stale(r) ==
  IF r.idle /\ r.role \in {"frontend", "backend"} /\ r.container = "none" /\ r.procs # <<>>
  THEN <<Insight("WARNING", "stale", KillFix(Primary(r)))>> ELSE <<>>

NoAccess(r) ==
  When(r.procs # <<>> /\ \A q \in Range(r.procs) : ~q.open, "INFO", "no-access", NoFix)

\* _holder_action.
HolderFix(r) ==
  IF RealProcesses(r) # <<>> THEN KillFix(Head(RealProcesses(r)))
  ELSE IF r.container # "none" THEN RowFix("stop-container") ELSE NoFix

Squatted(r) == When(r.squatted, "WARNING", "squatter", HolderFix(r))

\* leftover_reason: the last container of its stack, or a development server
\* whose parent is gone and that nothing supervises.
LeftOver(r) ==
  /\ r.left
  /\ r.container = "none" => /\ r.role \in {"frontend", "backend", "tool"}
                             /\ r.procs # <<>>
                             /\ Primary(r).name \notin Forwarders

Orphaned(r) ==
  IF LeftOver(r)
  THEN <<Insight("WARNING", "orphaned",
           IF r.container # "none" THEN RowFix("stop-container") ELSE KillFix(Primary(r)))>>
  ELSE <<>>

\* analyse: in this order.
Analysed(r) ==
  Conflict(r) \o DeadProcesses(r) \o ContainerInsights(r) \o Churn(r) \o Probed(r) \o HealthChecked(r)
  \o Thresholds(r) \o Stale(r) \o NoAccess(r) \o Squatted(r) \o Orphaned(r)

\* status: the level of the worst insight.
RowStatus(r) ==
  LET levels == {i.level : i \in Range(Analysed(r))}
  IN IF "ERROR" \in levels THEN "error" ELSE IF "WARNING" \in levels THEN "warning"
     ELSE IF levels = {} /\ r.procs = <<>> /\ r.container = "none" THEN "unknown" ELSE "healthy"

-----------------------------------------------------------------------------
\* parse_action: whether the row can still take the fix.
Applies(r, fix) ==
  CASE fix.kind = "kill" -> fix.pid \in HolderPids(r)
    [] fix.kind \in {"restart-container", "stop-container", "logs"} -> r.container # "none"
    [] fix.kind = "restart-process" -> r.procs # <<>> /\ r.container = "none"
    [] fix.kind = "stop-forward" -> r.tunnel
    [] OTHER -> FALSE

\* fix_for: of the worst insight that proposes one, the first of those.
FixFor(r) ==
  LET found == Analysed(r)
      able  == {i \in DOMAIN found : Applies(r, found[i].fix)}
      rank(i) == Levels[found[i].level]
  IN IF able = {} THEN NoFix
     ELSE found[CHOOSE i \in able : \A j \in able :
                  rank(i) > rank(j) \/ (rank(i) = rank(j) /\ i <= j)].fix

=============================================================================
