---------------------------- MODULE KubeForwards ----------------------------
(***************************************************************************)
(* The port-forwards lirts tracks in kube-forwards.json: KubeForwardsMixin *)
(* (collectors/kube_forwards.py), used by several lirts at once            *)
(* (dashboards, lirts kube).                                               *)
(*                                                                         *)
(* Reading the file and writing it are steps of their own; kubectl         *)
(* processes live and die in between, and one of them holds a local port.  *)
(* A process number is never used twice.                                   *)
(***************************************************************************)
EXTENDS Integers

CONSTANTS
  Users,        \* the lirts processes
  LocalPorts,
  LastForward   \* bound: how many kubectl processes are started

ASSUME ForwardAssumption == LastForward \in Nat

VARIABLES
  kubectls,   \* the kubectl port-forward processes that run: pid and local port
  lastPid,
  tracked,    \* the file
  doing,      \* per lirts the operation under way
  settled,    \* history: the forwards whose start reported success, not stopped since
  overtaken,  \* history: the lirts whose copy of the file is older than the file
  raced       \* history: a lirts wrote the file from an older copy

NoOperation == [op |-> "none", at |-> "idle", port |-> 0, held |-> {}, pid |-> 0]
kubectlVars == <<kubectls, lastPid>>
forwardVars == <<kubectlVars, tracked, doing, settled, overtaken, raced>>

Alive(F) == F \cap kubectls

-----------------------------------------------------------------------------
\* A lirts starts to read the file for an operation on a port (0 for all).
BeginOperation(u, op, port) ==
  /\ doing[u].at = "idle"
  /\ op = "start" => lastPid < LastForward
  /\ doing' = [doing EXCEPT ![u] = [NoOperation EXCEPT !.op = op, !.at = "read", !.port = port]]
  /\ UNCHANGED <<kubectlVars, tracked, settled, overtaken, raced>>

\* What follows a read: a list is done, a start refuses a port that is
\* forwarded or goes on, a stop goes on.
AfterRead(u, live) ==
  LET d == doing[u]
  IN IF d.op = "list" \/ (d.op = "start" /\ d.pid = 0 /\ \E f \in live : f.port = d.port)
       THEN NoOperation
     ELSE [d EXCEPT !.held = live,
                    !.at = IF d.op = "stop" THEN "stop" ELSE IF d.pid = 0 THEN "launch" ELSE "save"]

\* forwards: a file that is being written reads as empty; the dead are dropped,
\* and if there are any the file is written next.
Forwards(u) ==
  /\ doing[u].at = "read"
  /\ \E live \in {Alive(tracked)} \cup
               (IF \E v \in Users \ {u} : doing[v].at \in {"prune", "save"} THEN {{}} ELSE {}) :
       /\ doing' = [doing EXCEPT ![u] =
            IF live = Alive(tracked) /\ live # tracked THEN [@ EXCEPT !.at = "prune", !.held = live]
            ELSE AfterRead(u, live)]
       /\ overtaken' = IF live = Alive(tracked) THEN overtaken \ {u} ELSE overtaken \cup {u}
  /\ UNCHANGED <<kubectlVars, tracked, settled, raced>>

\* _save_forwards: every other lirts' copy is older now.
SaveForwards(u, F) ==
  /\ tracked' = F
  /\ raced' = (raced \/ u \in overtaken)
  /\ overtaken' = Users \ {u}

PruneForwards(u) ==
  /\ doing[u].at = "prune"
  /\ SaveForwards(u, doing[u].held)
  /\ doing' = [doing EXCEPT ![u] = AfterRead(u, doing[u].held)]
  /\ UNCHANGED <<kubectlVars, settled>>

\* start_forward launches kubectl, which exits at once if the port is taken.
LaunchForward(u) ==
  /\ doing[u].at = "launch" /\ lastPid < LastForward
  /\ lastPid' = lastPid + 1
  /\ \E exits \in BOOLEAN :
       kubectls' = IF exits \/ \E f \in kubectls : f.port = doing[u].port THEN kubectls
                   ELSE kubectls \cup {[pid |-> lastPid', port |-> doing[u].port]}
  /\ doing' = [doing EXCEPT ![u].pid = lastPid', ![u].at = "settle"]
  /\ UNCHANGED <<tracked, settled, overtaken, raced>>

\* After KUBECTL_SETTLE_SECONDS: one that exited is reported, else it is saved
\* next to what the file holds then.
SettleForward(u) ==
  /\ doing[u].at = "settle"
  /\ doing' = [doing EXCEPT ![u] = IF \E f \in kubectls : f.pid = @.pid THEN [@ EXCEPT !.at = "read"] ELSE NoOperation]
  /\ UNCHANGED <<kubectlVars, tracked, settled, overtaken, raced>>

\* Mutant: the forwards of others are forgotten.
WithNewOnly(u) == {[pid |-> doing[u].pid, port |-> doing[u].port]}

WithNew(u) == doing[u].held \cup {[pid |-> doing[u].pid, port |-> doing[u].port]}

SaveNew(u) ==
  /\ doing[u].at = "save" /\ doing[u].op = "start"
  /\ SaveForwards(u, WithNew(u))
  /\ settled' = settled \cup {[pid |-> doing[u].pid, port |-> doing[u].port]}
  /\ doing' = [doing EXCEPT ![u] = NoOperation]
  /\ UNCHANGED kubectlVars

\* stop_forward terminates what matches, one after another, and keeps what it
\* may not terminate; kubectl ends at once or a little later.
StopTracked(u) ==
  /\ doing[u].at = "stop"
  /\ \E refused \in SUBSET {f \in doing[u].held : doing[u].port \in {0, f.port}} :
       LET keep == {f \in doing[u].held : doing[u].port \notin {0, f.port}} \cup refused
       IN /\ doing' = [doing EXCEPT ![u].held = keep, ![u].at = "save"]
          /\ settled' = settled \ (doing[u].held \ keep)
  /\ UNCHANGED <<kubectlVars, tracked, overtaken, raced>>

SaveKept(u) ==
  /\ doing[u].at = "save" /\ doing[u].op = "stop"
  /\ SaveForwards(u, doing[u].held)
  /\ doing' = [doing EXCEPT ![u] = NoOperation]
  /\ UNCHANGED <<kubectlVars, settled>>

KubectlEnds(f) ==
  /\ kubectls' = kubectls \ {f}
  /\ UNCHANGED <<lastPid, tracked, doing, settled, overtaken, raced>>

ForwardInit ==
  /\ kubectls = {} /\ lastPid = 0 /\ tracked = {} /\ settled = {}
  /\ doing = [u \in Users |-> NoOperation]
  /\ overtaken = {} /\ raced = FALSE

ForwardNext ==
  \/ \E u \in Users :
       \/ BeginOperation(u, "list", 0)
       \/ \E p \in LocalPorts : BeginOperation(u, "start", p)
       \/ \E p \in LocalPorts \cup {0} : BeginOperation(u, "stop", p)
       \/ Forwards(u) \/ PruneForwards(u) \/ LaunchForward(u) \/ SettleForward(u) \/ SaveNew(u) \/ StopTracked(u) \/ SaveKept(u)
  \/ \E f \in kubectls : KubectlEnds(f)

ForwardSpec == ForwardInit /\ [][ForwardNext]_forwardVars

-----------------------------------------------------------------------------
\* The type of every variable.
ForwardTypeOK ==
  /\ lastPid \in 0..LastForward
  /\ kubectls \cup tracked \cup settled \subseteq [pid: 1..LastForward, port: LocalPorts]
  /\ \A u \in Users : doing[u].at \in {"idle", "read", "prune", "launch", "settle", "save", "stop"}
  /\ overtaken \subseteq Users /\ raced \in BOOLEAN
  /\ \A f, g \in kubectls : f.port = g.port => f = g

\* A forward whose start was reported is in the file until it ends or is
\* stopped, whatever starts, stops, listings and deaths come between, as long
\* as no lirts writes the file from a copy older than the file.
ReportedIsTracked == ~raced => settled \cap kubectls \subseteq tracked

\* What kube_forwards.py:3-5 promises without that condition: lirts "starts them
\* on request, writes them to kube-forwards.json ... and stops them again".
\* TLC refutes this; it has no run of its own (README, section 5).
EveryForwardIsTracked == settled \cap kubectls \subseteq tracked

=============================================================================
