------------------------------ MODULE Collector ------------------------------
(***************************************************************************)
(* How a refresh collects listeners, edges and processes:                  *)
(* collectors/ports.py.                                                    *)
(*                                                                         *)
(* The sockets are listed first, the processes are read one after another  *)
(* later, while processes end and their numbers are taken by others.       *)
(* Abstracted: what is read of a process (that it was read, and which      *)
(* process it was, stand for it), addresses, UDP, the ssh sessions, whose  *)
(* processes count as clients.                                             *)
(***************************************************************************)
EXTENDS Lists

CONSTANTS
  Numbers,      \* process numbers
  ListenPorts,
  LastStarted   \* bound: the processes of a behaviour

ASSUME CollectorAssumption == LastStarted \in Nat

\* A process that was never sampled, or one that is gone.
NoSample == [who |-> 0, since |-> 0]

VARIABLES
  running,     \* per number the process that has it, 0 if none
  begun,
  sockets,     \* the listening sockets: number and port
  peers,       \* the established connections: the client's number and the port
  cached,      \* ProcessSampler._procs: per number the psutil.Process, and whose CPU time it saw
  scan,        \* the refresh under way: "idle", "describe"; the sockets and peers it listed
  toDescribe,  \* the numbers not read yet
  described,   \* ProcessSampler._cycle: who was read, and from whom its CPU figure counts
  table        \* the last refresh's table: per port the processes; and its edges

machineNow == <<running, begun, sockets, peers>>
collectorVars == <<machineNow, cached, scan, toDescribe, described, table>>

-----------------------------------------------------------------------------
Begins(n) ==
  /\ running[n] = 0 /\ begun < LastStarted
  /\ begun' = begun + 1
  /\ running' = [running EXCEPT ![n] = begun']
  /\ UNCHANGED <<sockets, peers, cached, scan, toDescribe, described, table>>

ProcessEnds(n) ==
  /\ running[n] # 0
  /\ running' = [running EXCEPT ![n] = 0]
  /\ sockets' = {s \in sockets : s[1] # n} /\ peers' = {s \in peers : s[1] # n}
  /\ UNCHANGED <<begun, cached, scan, toDescribe, described, table>>

Listens(n, p) ==
  /\ running[n] # 0
  /\ sockets' = sockets \cup {<<n, p>>}
  /\ UNCHANGED <<running, begun, peers, cached, scan, toDescribe, described, table>>

Connects(n, p) ==
  /\ running[n] # 0 /\ \E s \in sockets : s[2] = p
  /\ peers' = peers \cup {<<n, p>>}
  /\ UNCHANGED <<running, begun, sockets, cached, scan, toDescribe, described, table>>

-----------------------------------------------------------------------------
\* _gather_sockets, in one call, or process by process where that is refused:
\* then sockets of some processes are missing.  collect_edges: connections to
\* a port that is listed.
Gather(L, C) ==
  /\ scan.at = "idle"
  /\ scan' = [at |-> "describe", sockets |-> L, peers |-> {c \in C : \E s \in L : s[2] = c[2]}]
  /\ toDescribe' = {s[1] : s \in L \cup scan'.peers}
  /\ described' = <<>>
  /\ UNCHANGED <<machineNow, cached, table>>

GatherSockets == \E refused \in SUBSET Numbers :
  Gather({s \in sockets : s[1] \notin refused}, {c \in peers : c[1] \notin refused})

\* Mutant: a cached process is used without asking whether it still runs.
ProcessUnasked(n) == IF n \in DOMAIN cached THEN cached[n] ELSE [who |-> running[n], since |-> 0]

\* _process: a cached one that is not running any more is replaced.
Process(n) ==
  IF n \in DOMAIN cached /\ cached[n].who = running[n] THEN cached[n]
  ELSE [who |-> running[n], since |-> 0]

\* describe: cpu_percent counts from the last time the same psutil.Process was
\* asked; a process that is gone is shown without anything.
Describe(n) ==
  /\ scan.at = "describe" /\ n \in toDescribe
  /\ toDescribe' = toDescribe \ {n}
  /\ described' = Noted(described, n,
                        IF running[n] = 0 THEN NoSample
                        ELSE [who |-> running[n], since |-> Process(n).since])
  /\ cached' = IF running[n] = 0 THEN cached
               ELSE Noted(cached, n, [Process(n) EXCEPT !.since = running[n]])
  /\ UNCHANGED <<machineNow, scan, table>>

\* collect_listeners, end_cycle: the table, the edges; what was not seen is forgotten.
EndCycle ==
  /\ scan.at = "describe" /\ toDescribe = {}
  /\ table' = [on |-> [p \in {s[2] : s \in scan.sockets} |->
                        [n \in {s[1] : s \in {t \in scan.sockets : t[2] = p}} |-> described[n]]],
              edges |-> scan.peers]
  /\ cached' = Restrict(cached, DOMAIN cached \cap {s[1] : s \in scan.sockets \cup scan.peers})
  /\ scan' = [at |-> "idle", sockets |-> {}, peers |-> {}]
  /\ described' = <<>>
  /\ UNCHANGED <<machineNow, toDescribe>>

CollectorInit ==
  /\ running = [n \in Numbers |-> 0] /\ begun = 0 /\ sockets = {} /\ peers = {}
  /\ cached = <<>> /\ toDescribe = {} /\ described = <<>>
  /\ scan = [at |-> "idle", sockets |-> {}, peers |-> {}]
  /\ table = [on |-> <<>>, edges |-> {}]

CollectorNext ==
  \/ \E n \in Numbers :
       \/ Begins(n) \/ ProcessEnds(n) \/ Describe(n)
       \/ \E p \in ListenPorts : Listens(n, p) \/ Connects(n, p)
  \/ GatherSockets \/ EndCycle

CollectorSpec == CollectorInit /\ [][CollectorNext]_collectorVars

-----------------------------------------------------------------------------
\* The type of every variable; between refreshes the cache holds processes of
\* the last one only.
CollectorTypeOK ==
  /\ running \in [Numbers -> 0..LastStarted] /\ begun \in 0..LastStarted
  /\ sockets \cup peers \subseteq Numbers \X ListenPorts
  /\ DOMAIN cached \cup DOMAIN described \cup toDescribe \subseteq Numbers
  /\ scan.at = "idle" => DOMAIN cached \subseteq
       {e[1] : e \in table.edges} \cup UNION {DOMAIN table.on[p] : p \in DOMAIN table.on}

\* A CPU figure is measured between two readings of one process: a process that
\* took over another's number is never charged with its time, however processes
\* come and go between and during refreshes (ports.py:65).  A row is read after
\* its socket was listed, and every edge ends at a row of the same refresh.
OwnMeasure ==
  /\ \A p \in DOMAIN table.on : \A n \in DOMAIN table.on[p] :
       table.on[p][n].since \in {0, table.on[p][n].who}
  /\ \A e \in table.edges : e[2] \in DOMAIN table.on

=============================================================================
