------------------------------ MODULE RowActions ------------------------------
(***************************************************************************)
(* What a user does to a row: kill, restart, free, stop, fix (engine/      *)
(* actions.py; tui/app_actions.py and its dialogs, cli/actions.py,         *)
(* cli/ports.py, mcp_tools.py), while processes end, others take their     *)
(* numbers.                                                                *)
(*                                                                         *)
(* One port with its row.  A desk is whoever asks: a dashboard's dialog or *)
(* its worker, a command, an MCP call.  Several rows at once are killed as *)
(* one row with the processes of all.  SIGTERM and SIGKILL do not differ:  *)
(* a process that got one ends at some time, or does not.                  *)
(***************************************************************************)
EXTENDS RowInsights

CONSTANTS
  Desks,
  ProcessIds,
  ProcessNames,
  Measures,     \* what is measured of the row: rows with no procs and no container yet
  LastBorn      \* bound: the processes of a behaviour

ASSUME RowAssumption ==
  /\ ProcessIds \subseteq Nat \ {0} /\ IsFiniteSet(ProcessIds)
  /\ LastBorn \in Nat
  /\ \A m \in Measures : {"procs", "container"} \subseteq DOMAIN m

VARIABLES
  alive,      \* per number the process that has it: [born, name, dead, dated], where
              \* dated says that its create_time can be read
  lastBorn,
  service,    \* the port's container: one of Containers
  plan,       \* per desk what it asked to do, of which row
  stage,      \* per desk: "idle", "asks", "signals", "waits", "finishes"
  todo,       \* per desk the numbers not signalled yet
  watched,    \* per desk the processes waited for: number and process
  failed      \* per desk whether something could not be stopped

deskVars == <<plan, stage, todo, watched, failed>>
rowVars == <<alive, lastBorn, service, deskVars>>

Gone == [born |-> 0, name |-> "none", dead |-> FALSE, dated |-> FALSE]

IsAlive(n) == alive[n] # Gone

NoPlan == [pids |-> {}, container |-> "none", again |-> FALSE, of |-> {}, why |-> "none"]

-----------------------------------------------------------------------------
(* The machine. *)

Starts(n, name, dated) ==
  /\ ~IsAlive(n) /\ lastBorn < LastBorn
  /\ lastBorn' = lastBorn + 1
  /\ alive' = [alive EXCEPT ![n] = [born |-> lastBorn', name |-> name, dead |-> FALSE, dated |-> dated]]
  /\ UNCHANGED <<service, deskVars>>

\* A process ends, or stays as a zombie first.
Stops(n) ==
  /\ IsAlive(n)
  /\ \/ alive' = [alive EXCEPT ![n] = Gone]
     \/ ~alive[n].dead /\ alive' = [alive EXCEPT ![n].dead = TRUE]
  /\ UNCHANGED <<lastBorn, service, deskVars>>

-----------------------------------------------------------------------------
(* The plans. *)

\* create_time, 0 when it is not readable.
Since(n) == IF alive[n].dated THEN alive[n].born ELSE 0

Earlier(n, o) == Since(n) < Since(o) \/ (Since(n) = Since(o) /\ n < o)

\* The row a desk sees: the processes by their age, those of unknown age first, and
\* what was measured.  It gets old while the dialog is open.
Row(m) ==
  LET there == {n \in ProcessIds : IsAlive(n)}
      numbers == Sorted(there, {no \in there \X there : Earlier(no[1], no[2])})
      holder(n) == [pid |-> n, born |-> alive[n].born, since |-> Since(n), name |-> alive[n].name,
                    dead |-> alive[n].dead, open |-> TRUE]
  IN [m EXCEPT !.procs = [i \in DOMAIN numbers |-> holder(numbers[i])], !.container = service]

ShownRow(r) == {<<q.pid, q.born, q.name, q.since>> : q \in Range(r.procs)}

\* action_kill, kill_command: every process of the row.
KillPlan(r) == [NoPlan EXCEPT !.pids = HolderPids(r), !.of = ShownRow(r), !.why = "kill"]

\* restart_plan: the processes, and then their command again.
LocalRestart(r) == [KillPlan(r) EXCEPT !.again = r.procs # <<>>, !.why = "restart"]

\* action_restart: the container, if there is one.
RestartPlan(r) ==
  IF r.container # "none" THEN [NoPlan EXCEPT !.container = "restart", !.why = "restart"]
  ELSE LocalRestart(r)

\* action_docker_stop.
StopPlan(r) == [NoPlan EXCEPT !.container = IF r.container = "none" THEN "none" ELSE "stop", !.why = "stop"]

\* _free_plan: not Docker's forwarders, but the container.
FreePlan(r) ==
  [StopPlan(r) EXCEPT !.pids = {q.pid : q \in Range(RealProcesses(r))}, !.of = ShownRow(r), !.why = "free"]

\* run_fix; logs are only shown.
FixPlan(r) ==
  LET fix == FixFor(r)
  IN CASE fix.kind = "kill" -> [NoPlan EXCEPT !.pids = {fix.pid}, !.of = ShownRow(r), !.why = "fix"]
       [] fix.kind = "restart-process" -> [RestartPlan(r) EXCEPT !.why = "fix"]
       [] fix.kind = "restart-container" -> [NoPlan EXCEPT !.container = "restart", !.why = "fix"]
       [] fix.kind = "stop-container" -> [NoPlan EXCEPT !.container = "stop", !.why = "fix"]
       [] OTHER -> NoPlan

Plans(r) == {KillPlan(r), RestartPlan(r), StopPlan(r), FreePlan(r), FixPlan(r)}

DoesSomething(p) == p.pids # {} \/ p.container # "none"

\* The dialog, with what it shows of the row as it is now.
AskRow(d) ==
  /\ stage[d] = "idle"
  /\ \E m \in Measures : \E p \in Plans(Row(m)) : DoesSomething(p) /\ plan' = [plan EXCEPT ![d] = p]
  /\ stage' = [stage EXCEPT ![d] = "asks"]
  /\ UNCHANGED <<alive, lastBorn, service, todo, watched, failed>>

Cancel(d) ==
  /\ stage[d] = "asks"
  /\ stage' = [stage EXCEPT ![d] = "idle"] /\ plan' = [plan EXCEPT ![d] = NoPlan]
  /\ UNCHANGED <<alive, lastBorn, service, todo, watched, failed>>

Confirm(d) ==
  /\ stage[d] = "asks"
  /\ stage' = [stage EXCEPT ![d] = "signals"]
  /\ todo' = [todo EXCEPT ![d] = plan[d].pids]
  /\ failed' = [failed EXCEPT ![d] = FALSE]
  /\ UNCHANGED <<alive, lastBorn, service, plan, watched>>

-----------------------------------------------------------------------------
(* kill_and_wait. *)

\* kill: one number after another; whoever has it gets the signal, unless that
\* is refused; nobody having it counts as done.
Signal(d, n) ==
  /\ stage[d] = "signals" /\ n \in todo[d]
  /\ todo' = [todo EXCEPT ![d] = @ \ {n}]
  /\ \E refused \in BOOLEAN : failed' = [failed EXCEPT ![d] = @ \/ (refused /\ IsAlive(n))]
  /\ UNCHANGED <<alive, lastBorn, service, plan, stage, watched>>

\* What has the numbers after the signals is waited for.
Watch(d) ==
  /\ stage[d] = "signals" /\ todo[d] = {}
  /\ stage' = [stage EXCEPT ![d] = "waits"]
  /\ watched' = [watched EXCEPT ![d] = {<<n, alive[n].born>> : n \in {m \in plan[d].pids : IsAlive(m)}}]
  /\ UNCHANGED <<alive, lastBorn, service, plan, todo, failed>>

StillRuns(w) == alive[w[1]].born = w[2]

\* Mutant: what still runs after the wait is not noticed.
SettledAnyway(d) == failed' = failed

\* The wait is over when all are gone or the time is.
Settled(d) == failed' = [failed EXCEPT ![d] = @ \/ \E w \in watched[d] : StillRuns(w)]

Wait(d) ==
  /\ stage[d] = "waits"
  /\ Settled(d)
  /\ stage' = [stage EXCEPT ![d] = "finishes"]
  /\ watched' = [watched EXCEPT ![d] = {}]
  /\ UNCHANGED <<alive, lastBorn, service, plan, todo>>

Done(d) ==
  /\ stage' = [stage EXCEPT ![d] = "idle"]
  /\ plan' = [plan EXCEPT ![d] = NoPlan]
  /\ failed' = [failed EXCEPT ![d] = FALSE]
  /\ UNCHANGED <<todo, watched>>

\* run_container_action, docker.stop in a free: after the signals, or alone.
FinishContainer(d) ==
  /\ stage[d] = "finishes" /\ ~plan[d].again
  /\ \E works \in BOOLEAN :
       service' = IF ~works \/ service = "none" THEN service
                  ELSE IF plan[d].container = "stop" THEN "exited"
                  ELSE IF plan[d].container = "restart" THEN "starting" ELSE service
  /\ Done(d)
  /\ UNCHANGED <<alive, lastBorn>>

\* restart_process: the command is started when nothing could not be stopped,
\* and if it can be.
FinishRestart(d) ==
  /\ stage[d] = "finishes" /\ plan[d].again
  /\ \/ UNCHANGED <<alive, lastBorn>>
     \/ /\ ~failed[d] /\ lastBorn < LastBorn
        /\ \E n \in {m \in ProcessIds : ~IsAlive(m)} :
             /\ lastBorn' = lastBorn + 1
             /\ alive' = [alive EXCEPT ![n] = [born |-> lastBorn', name |-> "app", dead |-> FALSE, dated |-> TRUE]]
  /\ Done(d)
  /\ UNCHANGED service

RowInit ==
  /\ alive = [n \in ProcessIds |-> Gone] /\ lastBorn = 0
  /\ service \in {"none", "unhealthy"}
  /\ plan = [d \in Desks |-> NoPlan] /\ stage = [d \in Desks |-> "idle"]
  /\ todo = [d \in Desks |-> {}] /\ watched = [d \in Desks |-> {}]
  /\ failed = [d \in Desks |-> FALSE]

RowNext ==
  \/ \E n \in ProcessIds : Stops(n) \/ \E name \in ProcessNames, dated \in BOOLEAN : Starts(n, name, dated)
  \/ \E d \in Desks :
       \/ AskRow(d) \/ Cancel(d) \/ Confirm(d) \/ Watch(d) \/ Wait(d)
       \/ FinishContainer(d) \/ FinishRestart(d)
       \/ \E n \in ProcessIds : Signal(d, n)

RowSpec == RowInit /\ [][RowNext]_rowVars

-----------------------------------------------------------------------------
\* The type of every variable.
RowTypeOK ==
  /\ \A n \in ProcessIds : alive[n].born \in 0..LastBorn
  /\ service \in RowContainers
  /\ \A d \in Desks : /\ stage[d] \in {"idle", "asks", "signals", "waits", "finishes"}
                      /\ todo[d] \subseteq plan[d].pids /\ plan[d].pids \subseteq ProcessIds
                      /\ stage[d] = "idle" => plan[d] = NoPlan

\* A fix, whichever insight it came from, spares Docker's forwarder while a process of
\* its own holds the row: killing it would take every published port of the machine
\* down (insights_events.py:69).  So it is for every row that has no more processes than
\* a conflict tells of (insights_analyse.py:161) or none of unknown age; in others the
\* forwarder may be behind those of unknown age, and yet the oldest.
FixSparesForwarder ==
  \A d \in Desks :
    LET row == plan[d].of
    IN /\ plan[d].why = "fix" /\ ~plan[d].again
       /\ Cardinality(row) <= ConflictShown \/ \A w \in row : w[4] # 0
       => \A w \in row : w[1] \in plan[d].pids /\ w[3] \in Forwarders =>
            \A o \in row : o[3] \in Forwarders

\* A command is started again only when every process the row was shown with is
\* gone, however numbers are reused while it is being stopped: a restart leaves
\* no second copy next to the first (actions.py:174).
RestartAfterGone ==
  [][\A d \in Desks : stage[d] = "finishes" /\ plan[d].again /\ lastBorn' > lastBorn /\ stage'[d] = "idle" =>
       \A w \in plan[d].of : ~StillRuns(w)]_rowVars

=============================================================================
