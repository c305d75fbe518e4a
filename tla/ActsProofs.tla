------------------------------ MODULE ActsProofs ------------------------------
(***************************************************************************)
(* Proofs about the components that show, tell and act (module MCActs),    *)
(* for every value of their constants.                                     *)
(***************************************************************************)
EXTENDS MCActs, ListProofs

-----------------------------------------------------------------------------
(* Port forwards (module KubeForwards). *)

Processes == [pid: 1..LastForward, port: LocalPorts]

Operations ==
  [op: {"none", "list", "start", "stop"},
   at: {"idle", "read", "prune", "launch", "settle", "save", "stop"},
   port: LocalPorts \cup {0}, held: SUBSET Processes, pid: 0..LastForward]

Types ==
  /\ lastPid \in 0..LastForward
  /\ kubectls \in SUBSET Processes /\ tracked \in SUBSET Processes /\ settled \in SUBSET Processes
  /\ doing \in [Users -> Operations]
  /\ overtaken \in SUBSET Users /\ raced \in BOOLEAN

\* A start knows its port, it alone launches, and what it saves was launched; a stop alone stops.
Sound(d) ==
  /\ d.at # "idle" => d.op # "none"
  /\ d.op = "start" => d.port \in LocalPorts
  /\ d.at \in {"launch", "settle"} => d.op = "start"
  /\ d.op = "start" /\ d.at = "save" => d.pid # 0
  /\ d.at = "stop" => d.op = "stop"

\* Numbers are given out in order.
Numbering ==
  /\ \A f \in settled : f.pid <= lastPid
  /\ \A u \in Users : doing[u].pid <= lastPid /\ Sound(doing[u])

OnePerPort == \A f, g \in kubectls : f.port = g.port => f = g

\* Every reported forward that runs.
Reported == settled \cap kubectls

\* The file, and what may be written without a race, has them all.
Complete ==
  /\ Reported \subseteq tracked
  /\ \A u \in Users \ overtaken :
       doing[u].at \in {"prune", "stop", "save"} => Reported \subseteq doing[u].held

\* The inductive invariant.
FInv == Types /\ Numbering /\ OnePerPort /\ (~raced => Complete)

-----------------------------------------------------------------------------
\* No operation under way is an operation that holds and starts nothing.
LEMMA NothingUnderWay ==
  /\ NoOperation \in Operations /\ NoOperation.at = "idle" /\ NoOperation.op = "none"
  /\ NoOperation.pid = 0 /\ Sound(NoOperation)
  BY ForwardAssumption DEF NoOperation, Operations, Sound

\* At the start nothing was started and nothing is tracked.
LEMMA InitFInv == ForwardInit => FInv
<1> SUFFICES ASSUME ForwardInit PROVE FInv
  OBVIOUS
<1>1. \A u \in Users : doing[u] = NoOperation
  BY DEF ForwardInit
<1>2. doing \in [Users -> Operations]
  BY NothingUnderWay DEF ForwardInit
<1>3. Types
  <2>1. raced \in BOOLEAN
    BY Zenon DEF ForwardInit
  <2> QED
    BY <1>2, <2>1, ForwardAssumption DEF ForwardInit, Types
<1>4. Numbering
  BY <1>1, NothingUnderWay DEF ForwardInit, Numbering
<1>5. OnePerPort /\ Complete
  BY DEF ForwardInit, OnePerPort, Complete, Reported
<1> QED
  BY <1>3, <1>4, <1>5 DEF FInv

\* One lirts goes on, and the processes and reports are as they were.
LEMMA OperationChanges ==
  ASSUME FInv, NEW u \in Users, NEW d \in Operations, doing' = [doing EXCEPT ![u] = d],
         d.pid <= lastPid, Sound(d),
         ~raced /\ u \notin overtaken' /\ d.at \in {"prune", "stop", "save"}
           => Reported \subseteq d.held,
         overtaken \ {u} \subseteq overtaken', overtaken' \subseteq Users,
         UNCHANGED <<kubectlVars, tracked, settled, raced>>
  PROVE  FInv'
<1> USE DEF FInv, kubectlVars
<1>1. \A v \in Users : doing'[v] = IF v = u THEN d ELSE doing[v]
  BY DEF Types
<1>2. Types'
  BY DEF Types
<1>3. Numbering'
  BY <1>1 DEF Numbering
<1>4. ~raced' => Complete'
  BY <1>1 DEF Complete, Reported
<1> QED
  BY <1>2, <1>3, <1>4 DEF OnePerPort

\* One lirts writes the file and goes on: everybody else's copy is old.
LEMMA SaveChanges ==
  ASSUME FInv, NEW u \in Users, NEW d \in Operations, doing' = [doing EXCEPT ![u] = d],
         d.pid <= lastPid, Sound(d),
         NEW F \in SUBSET Processes, SaveForwards(u, F),
         settled' \in SUBSET Processes, \A f \in settled' : f.pid <= lastPid,
         ~raced /\ u \notin overtaken =>
           /\ settled' \cap kubectls \subseteq F
           /\ d.at \in {"prune", "stop", "save"} => settled' \cap kubectls \subseteq d.held,
         UNCHANGED kubectlVars
  PROVE  FInv'
<1> USE DEF FInv, kubectlVars, SaveForwards
<1>1. \A v \in Users : doing'[v] = IF v = u THEN d ELSE doing[v]
  BY DEF Types
<1>2. Types'
  <2>1. raced' \in BOOLEAN
    BY Zenon DEF Types
  <2> QED
    BY <2>1 DEF Types
<1>3. Numbering'
  BY <1>1 DEF Numbering
<1>4. ~raced' => Complete'
  BY <1>1 DEF Complete, Reported
<1> QED
  BY <1>2, <1>3, <1>4 DEF OnePerPort

\* What follows a read that is as new as the file, or the copy that was just written.
LEMMA AfterReadIs ==
  ASSUME FInv, NEW u \in Users, NEW live \in SUBSET Processes, doing[u].at # "idle"
  PROVE  /\ AfterRead(u, live) \in Operations /\ AfterRead(u, live).pid <= lastPid
         /\ Sound(AfterRead(u, live))
         /\ AfterRead(u, live).at \in {"prune", "stop", "save"} => AfterRead(u, live).held = live
<1> DEFINE o == doing[u]
           at == IF o.op = "stop" THEN "stop" ELSE IF o.pid = 0 THEN "launch" ELSE "save"
           on == [o EXCEPT !.held = live, !.at = at]
<1>1. o \in Operations /\ o.pid <= lastPid /\ Sound(o)
  BY DEF FInv, Types, Numbering
<1>2. at \in {"launch", "save", "stop"} /\ (at = "save" => o.pid # 0) /\ (at = "launch" => o.op # "stop")
      /\ (at = "stop" => o.op = "stop")
  OBVIOUS
<1>3. /\ on \in Operations /\ on.pid = o.pid /\ on.op = o.op /\ on.port = o.port
      /\ on.held = live /\ on.at = at
  BY <1>1, <1>2 DEF Operations
<1>4. AfterRead(u, live) = NoOperation \/ (AfterRead(u, live) = on /\ o.op # "list")
  BY DEF AfterRead
<1>5. lastPid \in Nat
  BY ForwardAssumption DEF FInv, Types
<1> HIDE DEF on, at
<1>6. CASE AfterRead(u, live) = on /\ o.op # "list"
  <2>1. o.op \in {"start", "stop"}
    BY <1>1, <1>6 DEF Operations, Sound
  <2>2. Sound(on)
    BY <1>1, <1>2, <1>3, <2>1 DEF Sound
  <2> QED
    BY <1>1, <1>2, <1>3, <1>6, <2>2
<1>7. CASE AfterRead(u, live) = NoOperation
  BY <1>5, <1>7, NothingUnderWay
<1> QED
  BY <1>4, <1>6, <1>7

-----------------------------------------------------------------------------
\* Reading the file takes all that was reported into the copy.
LEMMA BeginKeepsFInv ==
  ASSUME FInv, NEW u \in Users, NEW op \in {"list", "start", "stop"},
         NEW port \in LocalPorts \cup {0}, op = "start" => port \in LocalPorts,
         BeginOperation(u, op, port)
  PROVE  FInv'
<1> DEFINE d == [NoOperation EXCEPT !.op = op, !.at = "read", !.port = port]
<1>1. ASSUME NEW x \in Operations
      PROVE  LET y == [x EXCEPT !.op = op, !.at = "read", !.port = port]
             IN y \in Operations /\ y.op = op /\ y.at = "read" /\ y.port = port /\ y.pid = x.pid
  BY DEF Operations
<1>2. d \in Operations /\ d.op = op /\ d.at = "read" /\ d.port = port /\ d.pid = 0
  BY <1>1, NothingUnderWay
<1>3. doing' = [doing EXCEPT ![u] = d]
  BY DEF BeginOperation
<1>4. d.pid <= lastPid /\ Sound(d)
  BY <1>2, ForwardAssumption DEF FInv, Types, Sound
<1> HIDE DEF d
<1> QED
  BY <1>2, <1>4, <1>3, OperationChanges DEF BeginOperation, FInv, Types

\* The file is read: as it is, or while somebody writes it.
LEMMA ReadKeepsFInv ==
  ASSUME FInv, NEW u \in Users, Forwards(u)
  PROVE  FInv'
<1>1. PICK live \in {Alive(tracked), {}} :
        /\ doing' = [doing EXCEPT ![u] =
             IF live = Alive(tracked) /\ live # tracked THEN [@ EXCEPT !.at = "prune", !.held = live]
             ELSE AfterRead(u, live)]
        /\ overtaken' = IF live = Alive(tracked) THEN overtaken \ {u} ELSE overtaken \cup {u}
  BY DEF Forwards
<1>2. live \in SUBSET Processes
  BY <1>1 DEF FInv, Types, Alive
<1> DEFINE pruned == [doing[u] EXCEPT !.at = "prune", !.held = live]
           d == IF live = Alive(tracked) /\ live # tracked THEN pruned ELSE AfterRead(u, live)
<1>3. doing[u] \in Operations /\ doing[u].pid <= lastPid /\ Sound(doing[u]) /\ doing[u].at = "read"
  BY DEF FInv, Types, Numbering, Forwards
<1>4. /\ pruned \in Operations /\ pruned.pid = doing[u].pid /\ pruned.op = doing[u].op
      /\ pruned.port = doing[u].port /\ pruned.held = live /\ pruned.at = "prune"
  BY <1>2, <1>3 DEF Operations
<1>5. Sound(pruned)
  BY <1>3, <1>4 DEF Sound
<1>6. /\ d \in Operations /\ d.pid <= lastPid /\ Sound(d)
      /\ d.at \in {"prune", "stop", "save"} => d.held = live
  BY <1>2, <1>3, <1>4, <1>5, AfterReadIs
<1> HIDE DEF pruned
<1>7. doing' = [doing EXCEPT ![u] = d]
  BY <1>1 DEF pruned
<1> HIDE DEF d
<1>8. ~raced /\ u \notin overtaken' => Reported \subseteq live
  BY <1>1 DEF FInv, Complete, Reported, Alive
<1>9. overtaken \ {u} \subseteq overtaken' /\ overtaken' \subseteq Users
  BY <1>1 DEF FInv, Types
<1> QED
  BY <1>6, <1>7, <1>8, <1>9, OperationChanges DEF Forwards

\* What is pruned from the copy has ended.
LEMMA PruneKeepsFInv ==
  ASSUME FInv, NEW u \in Users, PruneForwards(u)
  PROVE  FInv'
<1> DEFINE live == doing[u].held
           d == AfterRead(u, live)
<1>1. live \in SUBSET Processes
  BY DEF FInv, Types, Operations
<1>2. /\ d \in Operations /\ d.pid <= lastPid /\ Sound(d)
      /\ d.at \in {"prune", "stop", "save"} => d.held = live
  BY <1>1, AfterReadIs DEF PruneForwards
<1> HIDE DEF d
<1>3. doing' = [doing EXCEPT ![u] = d] /\ SaveForwards(u, live)
      /\ UNCHANGED kubectlVars /\ settled' = settled
  BY DEF PruneForwards, d
<1>4. ~raced /\ u \notin overtaken => settled \cap kubectls \subseteq live
  BY DEF PruneForwards, FInv, Complete, Reported
<1>5. settled \in SUBSET Processes /\ \A f \in settled : f.pid <= lastPid
  BY DEF FInv, Types, Numbering
<1> QED
  BY <1>1, <1>2, <1>3, <1>4, <1>5, SaveChanges

\* kubectl is started: nobody has reported its number.
LEMMA LaunchKeepsFInv ==
  ASSUME FInv, NEW u \in Users, LaunchForward(u)
  PROVE  FInv'
<1> USE ForwardAssumption DEF FInv
<1> DEFINE d == [doing[u] EXCEPT !.pid = lastPid + 1, !.at = "settle"]
           new == [pid |-> lastPid + 1, port |-> doing[u].port]
<1>1. lastPid \in 0..LastForward /\ lastPid' = lastPid + 1 /\ lastPid' \in 0..LastForward
  BY DEF LaunchForward, Types
<1>2. doing[u] \in Operations /\ doing[u].op = "start" /\ doing[u].port \in LocalPorts
  BY DEF Types, Numbering, Sound, LaunchForward
<1>3. /\ d \in Operations /\ d.pid = lastPid + 1 /\ d.op = "start"
      /\ d.port = doing[u].port /\ d.at = "settle"
  BY <1>1, <1>2 DEF Operations
<1>4. doing' = [doing EXCEPT ![u] = d]
  BY <1>1 DEF LaunchForward, Types
<1>5. Sound(d)
  BY <1>2, <1>3 DEF Sound
<1> HIDE DEF d
<1>6. UNCHANGED <<tracked, settled, overtaken, raced>>
  BY DEF LaunchForward
<1>7. \/ kubectls' = kubectls
      \/ kubectls' = kubectls \cup {new} /\ \A f \in kubectls : f.port # new.port
  BY <1>1 DEF LaunchForward
<1>8. new \in Processes
  BY <1>1, <1>2 DEF Processes
<1>9. \A v \in Users : doing'[v] = IF v = u THEN d ELSE doing[v]
  BY <1>4 DEF Types
<1>10. Types'
  BY <1>1, <1>3, <1>4, <1>6, <1>7, <1>8 DEF Types
<1>11. Numbering'
  <2>1. \A f \in settled' : f.pid <= lastPid'
    BY <1>1, <1>6 DEF Numbering, Types, Processes
  <2>2. \A v \in Users : doing'[v].pid <= lastPid' /\ Sound(doing'[v])
    BY <1>1, <1>3, <1>5, <1>9 DEF Numbering, Types, Operations
  <2> QED
    BY <2>1, <2>2 DEF Numbering
<1>12. OnePerPort'
  BY <1>7 DEF OnePerPort
<1>13. Reported' = Reported
  <2>1. new \notin settled
    BY <1>1 DEF Numbering
  <2> QED
    BY <1>6, <1>7, <2>1 DEF Reported
<1>14. ~raced' => Complete'
  BY <1>3, <1>6, <1>9, <1>13 DEF Complete
<1> QED
  BY <1>10, <1>11, <1>12, <1>14

\* It runs on, and its start reads the file once more; or it has ended.
LEMMA SettleKeepsFInv ==
  ASSUME FInv, NEW u \in Users, SettleForward(u)
  PROVE  FInv'
<1> DEFINE again == [doing[u] EXCEPT !.at = "read"]
<1>1. doing[u] \in Operations /\ doing[u].pid <= lastPid /\ Sound(doing[u]) /\ doing[u].at = "settle"
  BY DEF FInv, Types, Numbering, SettleForward
<1>2. /\ again \in Operations /\ again.pid = doing[u].pid /\ again.op = doing[u].op
      /\ again.port = doing[u].port /\ again.at = "read"
  BY <1>1 DEF Operations
<1>3. Sound(again)
  BY <1>1, <1>2 DEF Sound
<1>4. PICK d \in {again, NoOperation} : doing' = [doing EXCEPT ![u] = d]
  BY DEF SettleForward
<1> HIDE DEF again
<1>5. lastPid \in Nat /\ overtaken \subseteq Users
  BY ForwardAssumption DEF FInv, Types
<1>6. d \in Operations /\ d.pid <= lastPid /\ Sound(d) /\ d.at \in {"read", "idle"}
  BY <1>1, <1>2, <1>3, <1>4, <1>5, NothingUnderWay
<1> QED
  BY <1>4, <1>5, <1>6, OperationChanges DEF SettleForward

\* A start is reported, and is in the file.
LEMMA SaveNewKeepsFInv ==
  ASSUME FInv, NEW u \in Users, SaveNew(u)
  PROVE  FInv'
<1> DEFINE new == [pid |-> doing[u].pid, port |-> doing[u].port]
           F == doing[u].held \cup {new}
<1>1. /\ doing[u] \in Operations /\ doing[u].pid <= lastPid /\ Sound(doing[u])
      /\ doing[u].op = "start" /\ doing[u].at = "save"
  BY DEF FInv, Types, Numbering, SaveNew
<1>2. new \in Processes /\ F \in SUBSET Processes
  BY <1>1, ForwardAssumption DEF Operations, Sound, Processes
<1>3. /\ SaveForwards(u, F) /\ settled' = settled \cup {new} /\ UNCHANGED kubectlVars
      /\ doing' = [doing EXCEPT ![u] = NoOperation]
  BY DEF SaveNew, WithNew
<1>4. settled' \in SUBSET Processes /\ \A f \in settled' : f.pid <= lastPid
  BY <1>1, <1>2, <1>3 DEF FInv, Types, Numbering
<1>5. ~raced /\ u \notin overtaken => settled' \cap kubectls \subseteq F
  BY <1>1, <1>3 DEF FInv, Complete, Reported
<1>6. NoOperation.pid <= lastPid /\ NoOperation.at \notin {"prune", "stop", "save"}
  BY NothingUnderWay, ForwardAssumption DEF FInv, Types
<1> HIDE DEF F, new
<1> QED
  BY <1>2, <1>3, <1>4, <1>5, <1>6, NothingUnderWay, SaveChanges

\* What is stopped is not reported any more.
LEMMA StopKeepsFInv ==
  ASSUME FInv, NEW u \in Users, StopTracked(u)
  PROVE  FInv'
<1> USE DEF FInv
<1>1. PICK keep \in SUBSET doing[u].held :
        /\ doing' = [doing EXCEPT ![u].held = keep, ![u].at = "save"]
        /\ settled' = settled \ (doing[u].held \ keep)
  BY DEF StopTracked
<1> DEFINE d == [doing[u] EXCEPT !.held = keep, !.at = "save"]
<1>2. doing[u] \in Operations /\ doing[u].pid <= lastPid /\ Sound(doing[u]) /\ doing[u].at = "stop"
  BY DEF Types, Numbering, StopTracked
<1>3. /\ d \in Operations /\ d.pid = doing[u].pid /\ d.op = doing[u].op
      /\ d.port = doing[u].port /\ d.held = keep /\ d.at = "save"
  BY <1>2 DEF Operations
<1>4. doing' = [doing EXCEPT ![u] = d]
  BY <1>1 DEF Types
<1> HIDE DEF d
<1>5. UNCHANGED <<kubectls, lastPid, tracked, overtaken, raced>>
  BY DEF StopTracked, kubectlVars
<1>6. \A v \in Users : doing'[v] = IF v = u THEN d ELSE doing[v]
  BY <1>4 DEF Types
<1>7. Types'
  BY <1>1, <1>3, <1>4, <1>5 DEF Types
<1>8. ~raced' => Complete'
  BY <1>1, <1>2, <1>3, <1>5, <1>6, ZenonT(60) DEF Complete, Reported
<1>9. Numbering'
  <2>1. Sound(d)
    BY <1>2, <1>3 DEF Sound
  <2> QED
    BY <1>1, <1>2, <1>3, <1>5, <1>6, <2>1 DEF Numbering
<1>10. OnePerPort'
  BY <1>5 DEF OnePerPort
<1> QED
  BY <1>7, <1>8, <1>9, <1>10

\* The copy that replaces the file has all that was reported, or the write is a race.
LEMMA SaveKeptKeepsFInv ==
  ASSUME FInv, NEW u \in Users, SaveKept(u)
  PROVE  FInv'
<1> DEFINE F == doing[u].held
<1>1. doing[u] \in Operations /\ doing[u].at = "save" /\ F \in SUBSET Processes
  BY DEF FInv, Types, Operations, SaveKept
<1>2. /\ SaveForwards(u, F) /\ settled' = settled /\ UNCHANGED kubectlVars
      /\ doing' = [doing EXCEPT ![u] = NoOperation]
  BY DEF SaveKept
<1>3. settled \in SUBSET Processes /\ \A f \in settled : f.pid <= lastPid
  BY DEF FInv, Types, Numbering
<1>4. ~raced /\ u \notin overtaken => settled \cap kubectls \subseteq F
  BY <1>1 DEF FInv, Complete, Reported
<1>5. NoOperation.pid <= lastPid /\ NoOperation.at \notin {"prune", "stop", "save"}
  BY NothingUnderWay, ForwardAssumption DEF FInv, Types
<1> HIDE DEF F
<1> QED
  BY <1>1, <1>2, <1>3, <1>4, <1>5, NothingUnderWay, SaveChanges

\* A kubectl that ends takes its forward from what was reported.
LEMMA EndKeepsFInv ==
  ASSUME FInv, NEW f \in kubectls, KubectlEnds(f)
  PROVE  FInv'
<1>1. Reported' \subseteq Reported
  BY DEF KubectlEnds, Reported
<1>2. ~raced' => Complete'
  BY <1>1 DEF KubectlEnds, FInv, Complete
<1> QED
  BY <1>2 DEF KubectlEnds, FInv, Types, Numbering, OnePerPort

-----------------------------------------------------------------------------
\* Every step keeps it.
LEMMA StepKeepsFInv == FInv /\ [ForwardNext]_forwardVars => FInv'
<1> SUFFICES ASSUME FInv, [ForwardNext]_forwardVars PROVE FInv'
  OBVIOUS
<1>1. ASSUME NEW u \in Users, BeginOperation(u, "list", 0) PROVE FInv'
  BY <1>1, BeginKeepsFInv
<1>2. ASSUME NEW u \in Users, NEW p \in LocalPorts, BeginOperation(u, "start", p) PROVE FInv'
  BY <1>2, BeginKeepsFInv
<1>3. ASSUME NEW u \in Users, NEW p \in LocalPorts \cup {0}, BeginOperation(u, "stop", p) PROVE FInv'
  BY <1>3, BeginKeepsFInv
<1>4. CASE UNCHANGED forwardVars
  BY <1>4 DEF forwardVars, kubectlVars, FInv, Types, Numbering, OnePerPort, Complete, Reported
<1> QED
  BY <1>1, <1>2, <1>3, <1>4, ReadKeepsFInv, PruneKeepsFInv, LaunchKeepsFInv, SettleKeepsFInv,
     SaveNewKeepsFInv, StopKeepsFInv, SaveKeptKeepsFInv, EndKeepsFInv
     DEF ForwardNext

\* The invariant holds in every reachable state.
THEOREM ForwardsInductive == ForwardSpec => []FInv
  BY InitFInv, StepKeepsFInv, PTL DEF ForwardSpec

\* The state of the forwards keeps its type, and one kubectl holds a local port
\* (collectors/kube_forwards.py).
THEOREM ForwardsTypeCorrect == ForwardSpec => []ForwardTypeOK
<1>1. FInv => ForwardTypeOK
  BY DEF FInv, Types, Operations, Processes, OnePerPort, ForwardTypeOK
<1> QED
  BY ForwardsInductive, <1>1, PTL

\* A forward whose start was reported is in the file until it ends or is stopped, as long as no
\* lirts writes the file from an older copy (collectors/kube_forwards.py, start_forward and
\* stop_forward).
THEOREM ReportedStaysTracked == ForwardSpec => []ReportedIsTracked
<1>1. FInv => ReportedIsTracked
  BY DEF FInv, Complete, Reported, ReportedIsTracked
<1> QED
  BY ForwardsInductive, <1>1, PTL

-----------------------------------------------------------------------------
(* The demo (module DemoWorld). *)

OneEach(ps) == \A p, q \in ps : p[2] = q[2] => p = q

\* Nobody of ps serves a port of K.
Spared(ps, K) == \A p \in ps : p[2] \notin K

\* What an event opens has not been there before it.
Ahead(name, port) ==
  name \notin fired => port \notin killed /\ On(procs, port) = {}

\* No port was killed that somebody serves or that the script is yet to open.
KilledInv ==
  /\ OneEach(procs)
  /\ Spared(procs, killed)
  /\ Ahead("ssh", 15432) /\ Ahead("admin_back", 3002)

-----------------------------------------------------------------------------
\* With fewer processes nothing can come back.
LEMMA FewerProcesses ==
  ASSUME NEW ps, NEW qs \in SUBSET ps, NEW K, OneEach(ps), Spared(ps, K)
  PROVE  OneEach(qs) /\ Spared(qs, K)
  BY DEF OneEach, Spared

\* A process on a port that nobody serves and nobody was killed on.
LEMMA OneMore ==
  ASSUME NEW ps, NEW n, NEW port, NEW K, OneEach(ps), Spared(ps, K),
         On(ps, port) = {}, port \notin K
  PROVE  OneEach(Added(ps, n, port)) /\ Spared(Added(ps, n, port), K)
  BY DEF OneEach, Spared, Added, On

\* Only what is served is started again.
LEMMA Again ==
  ASSUME NEW ps, NEW n, NEW port, NEW K, OneEach(ps), Spared(ps, K)
  PROVE  OneEach(Restarted(ps, n, port)) /\ Spared(Restarted(ps, n, port), K)
<1>1. CASE On(ps, port) = {}
  BY <1>1 DEF Restarted
<1>2. CASE On(ps, port) # {}
  <2> DEFINE rest == ps \ On(ps, port)
  <2>1. OneEach(rest) /\ Spared(rest, K)
    BY FewerProcesses, rest \in SUBSET ps
  <2>2. On(rest, port) = {} /\ port \notin K
    BY <1>2 DEF On, Spared
  <2>3. OneEach(Added(rest, n, port)) /\ Spared(Added(rest, n, port), K)
    BY <2>1, <2>2, OneMore
  <2> QED
    BY <1>2, <2>3 DEF Restarted
<1> QED
  BY <1>1, <1>2

\* No step of the tick but the event itself opens the port of an event.
LEMMA OnlyItsEvent ==
  ASSUME NEW ps, NEW n, NEW port, NEW other, On(ps, port) = {}, other # port
  PROVE  /\ On(Added(ps, n, other), port) = {}
         /\ On(Restarted(ps, n, other), port) = {}
         /\ \A K : On(Killed(ps, K), port) = {}
  BY DEF On, Added, Restarted, Killed

-----------------------------------------------------------------------------
\* At the start nothing was killed.
LEMMA InitKilledInv == DemoInit => KilledInv
<1> SUFFICES ASSUME DemoInit PROVE KilledInv
  OBVIOUS
<1>1. OneEach(procs) /\ Spared(procs, killed)
  BY DEF DemoInit, OneEach, Spared
<1>2. On(procs, 15432) = {} /\ On(procs, 3002) = {}
  BY DemoAssumption DEF DemoInit, On
<1> QED
  BY <1>1, <1>2 DEF KilledInv, Ahead, DemoInit

\* A refresh plays the script.
LEMMA TickKeepsKilledInv ==
  ASSUME KilledInv, NEW t \in Instants, Tick(t)
  PROVE  KilledInv'
<1> DEFINE ssh == IF Due("ssh", t) THEN 2 ELSE 0
           tunnel == IF ssh > 0 THEN Added(procs, startedPids + 2, 15432) ELSE procs
           api == IF Due("api_restart", t) /\ On(tunnel, 8001) # {} THEN 1 ELSE 0
           again == IF api > 0 THEN Restarted(tunnel, startedPids + ssh + 1, 8001) ELSE tunnel
           left == IF Due("admin_stop", t) THEN Killed(again, {3001}) ELSE again
           back == IF Due("admin_back", t) THEN 1 ELSE 0
           begin == startedPids + ssh + api + back
           later == IF back > 0 THEN Added(left, begin, 3002) ELSE left
<1>1. procs' = later /\ killed' = killed
  <2>1. procs' = TickProcs(t).procs /\ killed' = killed
    BY DEF Tick
  <2>2. TickProcs(t) = [procs |-> later, started |-> begin]
    BY DEF TickProcs
  <2> QED
    BY <2>1, <2>2
<1>2. OneEach(tunnel) /\ Spared(tunnel, killed)
  <2>1. CASE Due("ssh", t)
    <3>1. On(procs, 15432) = {} /\ 15432 \notin killed
      BY <2>1 DEF Due, KilledInv, Ahead
    <3> QED
      BY <2>1, <3>1, OneMore DEF KilledInv
  <2>2. CASE ~Due("ssh", t)
    BY <2>2 DEF KilledInv
  <2> QED
    BY <2>1, <2>2
<1>3. OneEach(again) /\ Spared(again, killed)
  BY <1>2, Again
<1>4. OneEach(left) /\ Spared(left, killed)
  <2>1. Killed(again, {3001}) \in SUBSET again
    BY DEF Killed
  <2> QED
    BY <1>3, <2>1, FewerProcesses
<1>5. "admin_back" \notin fired => On(left, 3002) = {} /\ 3002 \notin killed
  <2> SUFFICES ASSUME "admin_back" \notin fired PROVE On(left, 3002) = {} /\ 3002 \notin killed
    OBVIOUS
  <2>1. On(procs, 3002) = {} /\ 3002 \notin killed
    BY DEF KilledInv, Ahead
  <2>2. On(tunnel, 3002) = {}
    BY <2>1, OnlyItsEvent
  <2>3. On(again, 3002) = {}
    BY <2>2, OnlyItsEvent
  <2>4. On(left, 3002) = {}
    BY <2>3 DEF On, Killed
  <2> QED
    BY <2>1, <2>4
<1>6. OneEach(later) /\ Spared(later, killed)
  <2> HIDE DEF left, begin
  <2>1. CASE Due("admin_back", t)
    <3>1. later = Added(left, begin, 3002)
      BY <2>1
    <3> QED
      BY <2>1, <3>1, <1>4, <1>5, OneMore DEF Due
  <2>2. CASE ~Due("admin_back", t)
    BY <2>2, <1>4
  <2> QED
    BY <2>1, <2>2
<1>7. fired' = fired \cup {name \in DOMAIN Script : Due(name, t)}
  BY DEF Tick
<1>8. Ahead("ssh", 15432)'
  <2> SUFFICES ASSUME "ssh" \notin fired' PROVE On(later, 15432) = {} /\ 15432 \notin killed
    BY <1>1 DEF Ahead, On
  <2>1. "ssh" \notin fired /\ ~Due("ssh", t)
    BY <1>7 DEF Script
  <2>2. On(tunnel, 15432) = {} /\ 15432 \notin killed
    BY <2>1 DEF KilledInv, Ahead
  <2>3. On(again, 15432) = {}
    BY <2>2, OnlyItsEvent
  <2>4. On(left, 15432) = {}
    BY <2>3 DEF On, Killed
  <2>5. On(later, 15432) = {}
    BY <2>4, OnlyItsEvent
  <2> QED
    BY <2>2, <2>5
<1>9. Ahead("admin_back", 3002)'
  <2> SUFFICES ASSUME "admin_back" \notin fired' PROVE On(later, 3002) = {} /\ 3002 \notin killed
    BY <1>1 DEF Ahead, On
  <2>1. "admin_back" \notin fired /\ ~Due("admin_back", t)
    BY <1>7 DEF Script
  <2> QED
    BY <2>1, <1>5
<1> QED
  BY <1>1, <1>6, <1>8, <1>9 DEF KilledInv

\* The user kills what a row shows: the number of the process is all that is looked at.
LEMMA KillKeepsKilledInv ==
  ASSUME KilledInv, NEW row, Kill(row)
  PROVE  KilledInv'
<1>1. procs' = {p \in procs : p[1] # row[1]} /\ fired' = fired
  BY DEF Kill, Killed
<1>2. OneEach(procs)'
  BY <1>1 DEF KilledInv, OneEach
<1>3. \A p \in procs' : row \in procs => p[2] # row[2]
  BY <1>1 DEF KilledInv, OneEach
<1>4. Spared(procs, killed)'
  <2>1. Spared(procs', killed)
    BY <1>1 DEF KilledInv, Spared
  <2>2. killed' = IF row \in procs THEN killed \cup {row[2]} ELSE killed
    BY DEF Kill
  <2> QED
    BY <1>3, <2>1, <2>2 DEF Spared
<1>5. ASSUME NEW name, NEW port, Ahead(name, port) PROVE Ahead(name, port)'
  BY <1>1, <1>5 DEF Kill, Ahead, On
<1> QED
  BY <1>2, <1>4, <1>5 DEF KilledInv

\* A restart takes the place of a process on its port, so the port was not killed.
LEMMA RestartKeepsKilledInv ==
  ASSUME KilledInv, NEW row, Restart(row)
  PROVE  KilledInv'
<1>1. procs' = Restarted(procs, startedPids + 1, row[2])
  BY DEF Restart
<1>2. killed' = killed /\ fired' = fired /\ On(procs, row[2]) # {}
  BY DEF Restart
<1>3. OneEach(procs') /\ Spared(procs', killed)
  BY <1>1, Again DEF KilledInv
<1>4. ASSUME NEW name, NEW port, Ahead(name, port) PROVE Ahead(name, port)'
  <2>1. CASE name \in fired
    BY <2>1, <1>2 DEF Ahead
  <2>2. CASE name \notin fired
    <3>1. port # row[2] /\ On(procs, port) = {} /\ port \notin killed
      BY <2>2, <1>2, <1>4 DEF Ahead
    <3>2. On(procs', port) = {}
      BY <3>1, <1>1, OnlyItsEvent
    <3> QED
      BY <3>1, <3>2, <1>2 DEF Ahead, On
  <2> QED
    BY <2>1, <2>2
<1> QED
  BY <1>2, <1>3, <1>4 DEF KilledInv, OneEach, Spared

-----------------------------------------------------------------------------
\* A server of the demo that the user killed (k) does not run again: neither the script
\* (demo/timeline.py) nor a restart of a row that is still on the screen
\* (demo/machine.py, restart_port) brings it back.
THEOREM KilledStays == DemoSpec => []KilledStaysKilled
<1>1. KilledInv /\ [DemoNext]_demoVars => KilledInv'
  <2> SUFFICES ASSUME KilledInv, [DemoNext]_demoVars PROVE KilledInv'
    OBVIOUS
  <2>1. CASE UNCHANGED <<procs, killed, fired>>
    BY <2>1 DEF KilledInv, OneEach, Spared, Ahead, On
  <2>2. ASSUME NEW t \in Instants, Tick(t) PROVE KilledInv'
    BY <2>2, TickKeepsKilledInv
  <2>3. ASSUME NEW row \in shown.rows, Kill(row) PROVE KilledInv'
    BY <2>3, KillKeepsKilledInv
  <2>4. ASSUME NEW row \in shown.rows, Restart(row) PROVE KilledInv'
    BY <2>4, RestartKeepsKilledInv
  <2>5. ASSUME NEW c \in DOMAIN Catalog, StopContainer(c) \/ RestartContainer(c)
        PROVE  UNCHANGED <<procs, killed, fired>>
    BY <2>5 DEF StopContainer, RestartContainer
  <2>6. ASSUME NEW p \in DemoPods, DeletePod(p) \/ RolloutRestart(p)
        PROVE  UNCHANGED <<procs, killed, fired>>
    BY <2>6 DEF DeletePod, RolloutRestart
  <2>7. ASSUME NEW port \in ForwardPorts, StartForward(port) \/ StopForwards({port})
        PROVE  UNCHANGED <<procs, killed, fired>>
    BY <2>7 DEF StartForward, StopForwards
  <2>8. ASSUME StopForwards(ForwardPorts) PROVE UNCHANGED <<procs, killed, fired>>
    BY <2>8 DEF StopForwards
  <2>9. ASSUME UNCHANGED demoVars PROVE UNCHANGED <<procs, killed, fired>>
    BY <2>9 DEF demoVars
  <2> QED
    BY <2>1, <2>2, <2>3, <2>4, <2>5, <2>6, <2>7, <2>8, <2>9 DEF DemoNext
<1>2. KilledInv => KilledStaysKilled
  BY DEF KilledInv, Spared, KilledStaysKilled
<1> QED
  BY InitKilledInv, <1>1, <1>2, PTL DEF DemoSpec

\* What a refresh of the demo leaves has its type: its processes have numbers that were given out.
LEMMA TickIsTyped ==
  ASSUME DemoTypeOK, NEW t \in Instants, Tick(t)
  PROVE  DemoTypeOK'
<1>1. /\ t \in Nat /\ LastDemoPid \in Nat /\ startedPids \in Nat
      /\ procs \subseteq Numbered \X Ports
  BY DemoAssumption DEF DemoTypeOK
<1>2. ASSUME NEW ps \in SUBSET (Numbered \X Ports), NEW n \in Nat \ {0}, n <= LastDemoPid,
             NEW port \in Ports
      PROVE  Added(ps, n, port) \in SUBSET (Numbered \X Ports)
  <2>1. 60000 + n \in Numbered
    BY <1>1, <1>2 DEF Numbered
  <2> QED
    BY <1>2, <2>1 DEF Added
<1> DEFINE ssh == IF Due("ssh", t) THEN 2 ELSE 0
           tunnel == IF ssh > 0 THEN Added(procs, startedPids + 2, 15432) ELSE procs
           api == IF Due("api_restart", t) /\ On(tunnel, 8001) # {} THEN 1 ELSE 0
           again == IF api > 0 THEN Restarted(tunnel, startedPids + ssh + 1, 8001) ELSE tunnel
           left == IF Due("admin_stop", t) THEN Killed(again, {3001}) ELSE again
           back == IF Due("admin_back", t) THEN 1 ELSE 0
           begin == startedPids + ssh + api + back
           later == IF back > 0 THEN Added(left, begin, 3002) ELSE left
<1>3. TickProcs(t) = [procs |-> later, started |-> begin]
  BY DEF TickProcs
<1>4. /\ ssh \in {0, 2} /\ api \in {0, 1} /\ back \in {0, 1}
      /\ begin = startedPids + ssh + api + back
      /\ tunnel = IF ssh > 0 THEN Added(procs, startedPids + 2, 15432) ELSE procs
      /\ again = IF api > 0 THEN Restarted(tunnel, startedPids + ssh + 1, 8001) ELSE tunnel
      /\ left \subseteq again
      /\ later = IF back > 0 THEN Added(left, begin, 3002) ELSE left
  BY DEF Killed
<1> HIDE DEF ssh, tunnel, api, again, left, back, begin, later
<1>5. procs' = later /\ startedPids' = begin /\ begin <= LastDemoPid
  BY <1>3 DEF Tick
<1>6. {3002, 8001, 15432} \subseteq Ports
  BY DEF Ports
<1>7. tunnel \in SUBSET (Numbered \X Ports)
  <2>1. CASE ssh > 0
    <3>1. startedPids + 2 \in Nat \ {0} /\ startedPids + 2 <= LastDemoPid
      BY <1>1, <1>4, <1>5, <2>1
    <3>2. Added(procs, startedPids + 2, 15432) \in SUBSET (Numbered \X Ports)
      BY <1>1, <1>2, <1>6, <3>1
    <3>3. tunnel = Added(procs, startedPids + 2, 15432)
      BY <1>4, <2>1
    <3> QED
      BY <3>2, <3>3
  <2>2. CASE ~(ssh > 0)
    BY <1>1, <1>4, <2>2
  <2> QED
    BY <2>1, <2>2
<1>8. again \in SUBSET (Numbered \X Ports)
  <2>1. CASE api > 0
    <3>1. startedPids + ssh + 1 \in Nat \ {0} /\ startedPids + ssh + 1 <= LastDemoPid
      BY <1>1, <1>4, <1>5, <2>1
    <3>2. tunnel \ On(tunnel, 8001) \in SUBSET (Numbered \X Ports)
      BY <1>7
    <3>3. Added(tunnel \ On(tunnel, 8001), startedPids + ssh + 1, 8001) \in SUBSET (Numbered \X Ports)
      BY <1>2, <1>6, <3>1, <3>2
    <3>4. Restarted(tunnel, startedPids + ssh + 1, 8001) \in SUBSET (Numbered \X Ports)
      BY <1>7, <3>3 DEF Restarted
    <3>5. again = Restarted(tunnel, startedPids + ssh + 1, 8001)
      BY <1>4, <2>1
    <3> QED
      BY <3>4, <3>5
  <2>2. CASE ~(api > 0)
    BY <1>4, <1>7, <2>2
  <2> QED
    BY <2>1, <2>2
<1>9. later \in SUBSET (Numbered \X Ports)
  <2>1. left \in SUBSET (Numbered \X Ports)
    BY <1>4, <1>8
  <2>2. CASE back > 0
    <3>1. begin \in Nat \ {0}
      BY <1>1, <1>4, <2>2
    <3>2. Added(left, begin, 3002) \in SUBSET (Numbered \X Ports)
      BY <1>2, <1>5, <1>6, <2>1, <3>1
    <3>3. later = Added(left, begin, 3002)
      BY <1>4, <2>2
    <3> QED
      BY <3>2, <3>3
  <2>3. CASE ~(back > 0)
    BY <1>4, <2>1, <2>3
  <2> QED
    BY <2>2, <2>3
<1>10. startedPids' \in 0..LastDemoPid /\ procs' \subseteq Numbered \X Ports
  BY <1>1, <1>4, <1>5, <1>9
<1>11. /\ now' = t /\ UNCHANGED <<boxes, published, pods, forwards, killed>>
       /\ fired' = fired \cup {name \in DOMAIN Script : Due(name, t)}
       /\ sick' = IF Due("mysql_unhealthy", t) THEN sick \cup (boxes \cap {"blog-mysql-1"}) ELSE sick
       /\ restarts' = [box |-> IF Worker \in boxes THEN 4 + t \div 45 ELSE restarts.box,
                       pod |-> IF {Worker} \subseteq boxes /\ "worker" \in pods
                               THEN 7 + t \div 45 ELSE restarts.pod]
  BY DEF Tick
<1>12. boxes' \cup sick' \subseteq DOMAIN Catalog
  BY <1>11 DEF DemoTypeOK
<1>13. fired' \subseteq DOMAIN Script
  BY <1>11 DEF DemoTypeOK
<1>14. restarts' \in [box : Nat, pod : Nat]
  <2>1. 4 + t \div 45 \in Nat /\ 7 + t \div 45 \in Nat
    BY <1>1
  <2>2. restarts.box \in Nat /\ restarts.pod \in Nat
    BY DEF DemoTypeOK
  <2> QED
    BY <1>11, <2>1, <2>2
<1>15. /\ shown' \in [rows : SUBSET (Numbered \X Ports), boxes : SUBSET DOMAIN Catalog]
       /\ refreshed' \in {"ok", "failed"}
  <2>1. CASE Worker \in boxes /\ "worker" \in pods
    <3>1. shown' = [rows |-> procs', boxes |-> boxes] /\ refreshed' = "ok"
      BY <2>1, Zenon DEF Tick
    <3>2. boxes \subseteq DOMAIN Catalog
      BY DEF DemoTypeOK
    <3> QED
      BY <1>10, <3>1, <3>2
  <2>2. CASE ~(Worker \in boxes /\ "worker" \in pods)
    <3>1. shown' = shown /\ refreshed' = "failed"
      BY <2>2, Zenon DEF Tick
    <3> QED
      BY <3>1 DEF DemoTypeOK
  <2> QED
    BY <2>1, <2>2
<1>16. now' \in Instants \cup {0}
  BY <1>11
<1> QED
  BY <1>10, <1>11, <1>12, <1>13, <1>14, <1>15, <1>16, Zenon DEF DemoTypeOK

\* The actions take from what is there, and number the process they start.
LEMMA ActionIsTyped ==
  ASSUME DemoTypeOK,
         \/ \E row \in shown.rows : Kill(row) \/ Restart(row)
         \/ \E c \in DOMAIN Catalog : StopContainer(c) \/ RestartContainer(c)
         \/ \E p \in DemoPods : DeletePod(p) \/ RolloutRestart(p)
         \/ \E port \in ForwardPorts : StartForward(port) \/ StopForwards({port})
         \/ StopForwards(ForwardPorts)
         \/ UNCHANGED demoVars
  PROVE  DemoTypeOK'
<1>1. CASE \E row \in shown.rows : Kill(row) \/ Restart(row)
  <2>1. PICK row \in shown.rows : Kill(row) \/ Restart(row)
    BY <1>1
  <2>2. row \in Numbered \X Ports
    BY DEF DemoTypeOK
  <2>3. /\ UNCHANGED <<now, boxes, published, sick, restarts, pods, forwards, fired, shown, refreshed>>
    BY <2>1 DEF Kill, Restart
  <2>4. procs' \subseteq Numbered \X Ports /\ startedPids' \in 0..LastDemoPid
    <3>1. CASE Kill(row)
      BY <3>1 DEF Kill, Killed, DemoTypeOK
    <3>2. CASE Restart(row)
      <4>1. /\ startedPids < LastDemoPid /\ startedPids' = startedPids + 1
            /\ procs' = Restarted(procs, startedPids + 1, row[2])
        BY <3>2 DEF Restart
      <4>2. startedPids + 1 \in 1..LastDemoPid /\ LastDemoPid \in Nat
        BY <4>1, DemoAssumption DEF DemoTypeOK
      <4>3. 60000 + (startedPids + 1) \in Numbered
        BY <4>2 DEF Numbered
      <4>4. procs' \subseteq procs \cup {<<60000 + (startedPids + 1), row[2]>>}
        BY <4>1 DEF Restarted, Added
      <4>5. procs' \subseteq Numbered \X Ports
        BY <2>2, <4>3, <4>4 DEF DemoTypeOK
      <4> QED
        BY <4>1, <4>2, <4>5
    <3> QED
      BY <2>1, <3>1, <3>2
  <2>5. killed' \subseteq Ports
    <3>1. killed' \subseteq killed \cup {row[2]}
      BY <2>1 DEF Kill, Restart
    <3> QED
      BY <2>2, <3>1 DEF DemoTypeOK
  <2> QED
    BY <2>3, <2>4, <2>5, Zenon DEF DemoTypeOK
<1>2. CASE \E c \in DOMAIN Catalog : StopContainer(c) \/ RestartContainer(c)
  <2>1. /\ UNCHANGED <<now, procs, startedPids, pods, forwards, fired, shown, refreshed, killed>>
        /\ boxes' \subseteq boxes /\ published' \subseteq published /\ sick' \subseteq sick
    BY <1>2 DEF StopContainer, RestartContainer
  <2>2. restarts' = restarts \/ restarts' = [restarts EXCEPT !.box = @ + 1]
    BY <1>2, Zenon DEF StopContainer, RestartContainer
  <2>3. restarts' \in [box : Nat, pod : Nat]
    BY <2>2 DEF DemoTypeOK
  <2>4. /\ boxes' \cup sick' \subseteq DOMAIN Catalog
        /\ published' \subseteq UNION {Catalog[c] : c \in DOMAIN Catalog}
    <3>1. boxes' \cup sick' \subseteq boxes \cup sick
      BY <2>1
    <3> QED
      BY <2>1, <3>1, Zenon DEF DemoTypeOK
  <2> QED
    BY <2>1, <2>3, <2>4, Zenon DEF DemoTypeOK
<1>3. CASE \E p \in DemoPods : DeletePod(p) \/ RolloutRestart(p)
  <2>1. /\ UNCHANGED <<now, procs, startedPids, boxes, published, sick, forwards, fired, shown, refreshed,
                       killed>>
        /\ pods' \subseteq pods
    BY <1>3 DEF DeletePod, RolloutRestart
  <2>2. restarts' = restarts \/ restarts' = [restarts EXCEPT !.pod = 0]
    BY <1>3, Zenon DEF DeletePod, RolloutRestart
  <2>3. restarts' \in [box : Nat, pod : Nat]
    BY <2>2 DEF DemoTypeOK
  <2>4. pods' \subseteq DemoPods
    BY <2>1 DEF DemoTypeOK
  <2> QED
    BY <2>1, <2>3, <2>4, Zenon DEF DemoTypeOK
<1>4. CASE \/ \E port \in ForwardPorts : StartForward(port) \/ StopForwards({port})
           \/ StopForwards(ForwardPorts)
           \/ UNCHANGED demoVars
  <2>1. /\ UNCHANGED <<now, procs, startedPids, boxes, published, sick, restarts, pods, fired, shown,
                       refreshed, killed>>
    BY <1>4 DEF StartForward, StopForwards, demoVars
  <2>2. forwards' \subseteq ForwardPorts
    BY <1>4 DEF StartForward, StopForwards, demoVars, DemoTypeOK
  <2> QED
    BY <2>1, <2>2, Zenon DEF DemoTypeOK
<1> QED
  BY <1>1, <1>2, <1>3, <1>4, Zenon

\* The demo's machine has its types: a process the user or the script starts gets a number that was
\* given out, and what is shown is of this machine.
THEOREM DemoTypeCorrect == DemoSpec => []DemoTypeOK
<1>1. DemoInit => DemoTypeOK
  <2> SUFFICES ASSUME DemoInit PROVE DemoTypeOK
    OBVIOUS
  <2>1. procs \subseteq Numbered \X Ports
    BY DEF DemoInit, Numbered, Ports
  <2>2. startedPids \in 0..LastDemoPid
    BY DemoAssumption DEF DemoInit
  <2>3. restarts \in [box : Nat, pod : Nat]
    BY DEF DemoInit
  <2>4. shown \in [rows : SUBSET (Numbered \X Ports), boxes : SUBSET DOMAIN Catalog]
    BY DEF DemoInit
  <2> QED
    BY <2>1, <2>2, <2>3, <2>4 DEF DemoInit, DemoTypeOK
<1>2. DemoTypeOK /\ [DemoNext]_demoVars => DemoTypeOK'
  <2> SUFFICES ASSUME DemoTypeOK, [DemoNext]_demoVars PROVE DemoTypeOK'
    OBVIOUS
  <2>1. ASSUME NEW t \in Instants, Tick(t) PROVE DemoTypeOK'
    BY <2>1, TickIsTyped
  <2>2. CASE \/ \E row \in shown.rows : Kill(row) \/ Restart(row)
             \/ \E c \in DOMAIN Catalog : StopContainer(c) \/ RestartContainer(c)
             \/ \E p \in DemoPods : DeletePod(p) \/ RolloutRestart(p)
             \/ \E port \in ForwardPorts : StartForward(port) \/ StopForwards({port})
             \/ StopForwards(ForwardPorts)
             \/ UNCHANGED demoVars
    BY <2>2, ActionIsTyped
  <2> QED
    BY <2>1, <2>2, Zenon DEF DemoNext
<1> QED
  BY <1>1, <1>2, PTL DEF DemoSpec

-----------------------------------------------------------------------------
(* Actions on rows (module RowActions). *)

\* The insights and fixes there can be for a row.
Fixes(r) ==
  {NoFix, KillFix(Primary(r))} \cup {KillFix(q) : q \in Range(r.procs)}
    \cup {RowFix(kind) : kind \in {"restart-container", "restart-process", "stop-container", "logs"}}
Codes ==
  {"port-conflict", "shared-port", "zombie", "container-unhealthy", "container-starting",
   "container-state", "container-restarts", "restarts", "unreachable", "http-5xx", "latency",
   "unreachable-tcp", "health-failing", "cpu-high", "cpu-elevated", "mem-high", "mem-elevated",
   "stale", "no-access", "squatter", "orphaned"}
Insights(r) == {Insight(level, code, fix) : level \in {"INFO", "WARNING", "ERROR"}, code \in Codes, fix \in Fixes(r)}

\* The members of a list.
LEMMA RangeIs ==
  ASSUME NEW S, NEW s \in Seq(S)
  PROVE  /\ Range(s) = {s[i] : i \in 1..Len(s)} /\ Range(s) \subseteq S
         /\ IsFiniteSet(Range(s))
<1>1. Range(s) = {s[i] : i \in 1..Len(s)} /\ Range(s) \subseteq S
  BY DEF Range
<1>2. Len(s) \in Nat /\ s \in [1..Len(s) -> Range(s)]
  BY <1>1, LenProperties
<1>3. s \in Surjection(1..Len(s), Range(s))
  BY <1>1, <1>2 DEF Surjection
<1>4. IsFiniteSet(1..Len(s))
  BY <1>2, FS_Interval
<1> QED
  BY <1>1, <1>3, <1>4, FS_Surjection

\* The rows' processes of which a list keeps some.
LEMMA KeptIs ==
  ASSUME NEW S, NEW s \in Seq(S), NEW kept \in SUBSET Range(s)
  PROVE  /\ Only(s, kept) \in Seq(kept) /\ Only(s, kept) \in Seq(S)
         /\ Range(Only(s, kept)) = kept
<1>1. PICK t : t = Only(s, kept)
  OBVIOUS
<1>2. /\ t \in Seq(S)
      /\ \A e : (\E j \in 1..Len(t) : t[j] = e) <=> (e \in kept /\ \E i \in 1..Len(s) : s[i] = e)
  BY <1>1, OnlyIs
<1>3. Range(t) = {t[i] : i \in 1..Len(t)} /\ Range(s) = {s[i] : i \in 1..Len(s)}
  BY <1>2, RangeIs
<1>4. \A j \in 1..Len(t) : t[j] \in kept
  BY <1>2
<1>5. t \in Seq(kept)
  BY <1>2, <1>4
<1>6. Range(t) = kept
  BY <1>2, <1>3
<1> QED
  BY <1>1, <1>2, <1>5, <1>6

\* Whatever is measured: analyse returns insights, those of a conflict first.
LEMMA AnalysedIs ==
  ASSUME NEW r, NEW H, r.procs \in Seq(H)
  PROVE  /\ Conflict(r) \in Seq(Insights(r))
         /\ \E rest \in Seq(Insights(r)) : Analysed(r) = Conflict(r) \o rest
<1>1. \A q \in Range(r.procs) : KillFix(q) \in Fixes(r)
  BY DEF Fixes
<1>2. /\ NoFix \in Fixes(r) /\ KillFix(Primary(r)) \in Fixes(r) /\ LogsFix(r) \in Fixes(r)
      /\ RowFix("restart-container") \in Fixes(r) /\ RowFix("restart-process") \in Fixes(r)
      /\ RowFix("stop-container") \in Fixes(r) /\ RowFix("logs") \in Fixes(r)
  BY DEF Fixes, LogsFix
<1>3. RealProcesses(r) # <<>> => KillFix(Head(RealProcesses(r))) \in Fixes(r)
  <2>1. PICK t : t = RealProcesses(r)
    OBVIOUS
  <2>2. PICK kept \in SUBSET Range(r.procs) : t = Only(r.procs, kept)
    BY <2>1 DEF RealProcesses
  <2>3. t \in Seq(kept)
    BY <2>2, KeptIs
  <2>4. t # <<>> => Head(t) \in kept
    BY <2>3
  <2> QED
    BY <1>1, <2>1, <2>2, <2>4
<1>4. /\ \A level \in {"INFO", "WARNING", "ERROR"}, code \in Codes, fix \in Fixes(r) :
             <<Insight(level, code, fix)>> \in Seq(Insights(r))
      /\ <<>> \in Seq(Insights(r))
  BY DEF Insights
<1>5. Conflict(r) \in Seq(Insights(r))
  BY <1>2, <1>3, <1>4 DEF When, Codes, Conflict
<1>6. DeadProcesses(r) \in Seq(Insights(r))
  <2>1. PICK kept \in SUBSET Range(r.procs) : kept = {q \in Range(r.procs) : q.dead}
    OBVIOUS
  <2>2. PICK t : t = Only(r.procs, kept)
    OBVIOUS
  <2>3. t \in Seq(kept) /\ Len(t) \in Nat /\ DOMAIN t = 1..Len(t)
    BY <2>2, KeptIs
  <2>4. \A i \in 1..Len(t) : Insight("ERROR", "zombie", KillFix(t[i])) \in Insights(r)
    BY <1>1, <2>3 DEF Codes, Insights
  <2>5. DeadProcesses(r) = [i \in 1..Len(t) |-> Insight("ERROR", "zombie", KillFix(t[i]))]
    BY <2>1, <2>2, <2>3 DEF DeadProcesses
  <2> QED
    BY <2>3, <2>4, <2>5
<1>7. ContainerInsights(r) \in Seq(Insights(r)) /\ Churn(r) \in Seq(Insights(r))
  <2>1. \A a, b \in Seq(Insights(r)) : a \o b \in Seq(Insights(r))
    OBVIOUS
  <2> QED
    BY <1>2, <1>4, <2>1 DEF When, Codes, ContainerInsights, Churn
<1>8. Probed(r) \in Seq(Insights(r)) /\ HealthChecked(r) \in Seq(Insights(r))
  <2>1. \A a, b \in Seq(Insights(r)) : a \o b \in Seq(Insights(r))
    OBVIOUS
  <2> QED
    BY <1>2, <1>4, <2>1 DEF When, Codes, Probed, HealthChecked
<1>9. Thresholds(r) \in Seq(Insights(r)) /\ NoAccess(r) \in Seq(Insights(r))
  <2>1. \A a, b \in Seq(Insights(r)) : a \o b \in Seq(Insights(r))
    OBVIOUS
  <2> QED
    BY <1>2, <1>4, <2>1 DEF When, Codes, Thresholds, NoAccess
<1>10. Stale(r) \in Seq(Insights(r)) /\ Orphaned(r) \in Seq(Insights(r))
  BY <1>2, <1>4 DEF Codes, Stale, Orphaned
<1>11. Squatted(r) \in Seq(Insights(r))
  BY <1>2, <1>3, <1>4 DEF When, Codes, Squatted, HolderFix
<1>12. PICK c : c = Conflict(r)
  OBVIOUS
<1> DEFINE After(x) == \E rest \in Seq(Insights(r)) : x = c \o rest
<1>13. ASSUME NEW x, After(x), NEW b \in Seq(Insights(r)) PROVE After(x \o b)
  <2>1. PICK rest \in Seq(Insights(r)) : x = c \o rest
    BY <1>13
  <2>2. rest \o b \in Seq(Insights(r)) /\ x \o b = c \o (rest \o b)
    BY <1>5, <1>12, <2>1
  <2> QED
    BY <2>2
<1>14. \A b \in Seq(Insights(r)) : After(c \o b)
  OBVIOUS
<1> HIDE DEF After
<1>15. \A x : After(x) => \A b \in Seq(Insights(r)) : After(x \o b)
  BY <1>13
<1>16. After(Analysed(r))
  BY <1>6, <1>7, <1>8, <1>9, <1>10, <1>11, <1>12, <1>14, <1>15, Zenon DEF Analysed
<1> QED
  BY <1>5, <1>12, <1>16 DEF After

\* A row in the order of its processes' ages, each with a number of its own.
InRowOrder(r) ==
  /\ \A q \in Range(r.procs) : q.since \in Nat /\ q.pid \in Nat
  /\ \A q, o \in Range(r.procs) : q.pid = o.pid => q = o
  /\ \A i, j \in 1..Len(r.procs) : i < j => Elder(r.procs[i], r.procs[j])

\* A conflict tells of all its processes, or knows the age of each.
Told(r) == Len(r.procs) <= ConflictShown \/ \A q \in Range(r.procs) : q.since # 0

\* Of a row whose ages are known the first is the oldest, and not the newest of several.
LEMMA OldestIsFirst ==
  ASSUME NEW r, NEW H, r.procs \in Seq(H), InRowOrder(r),
         \A q \in Range(r.procs) : q.since # 0,
         NEW f \in Range(r.procs), NEW o \in Range(r.procs), f # o
  PROVE  /\ 1 \in DOMAIN r.procs /\ Primary(r) = r.procs[1] /\ r.procs[1] \in Range(r.procs)
         /\ Primary(r).pid # Youngest(r).pid
<1>1. PICK s : s = r.procs
  OBVIOUS
<1>2. PICK R : R = Range(s)
  OBVIOUS
<1>3. Len(s) \in Nat /\ DOMAIN s = 1..Len(s) /\ R = {s[i] : i \in 1..Len(s)}
  BY <1>1, <1>2, RangeIs, LenProperties
<1>4. 1 \in 1..Len(s) /\ Len(s) \in 1..Len(s) /\ s[1] \in R /\ s[Len(s)] \in R
  BY <1>1, <1>2, <1>3
<1>5. \A q \in R : q.since \in Nat /\ q.pid \in Nat /\ Elder(q, q)
  BY <1>1, <1>2 DEF InRowOrder, Elder
<1>6. \A q \in R : Elder(s[1], q) /\ Elder(q, s[Len(s)])
  <2> SUFFICES ASSUME NEW i \in 1..Len(s) PROVE Elder(s[1], s[i]) /\ Elder(s[i], s[Len(s)])
    BY <1>3
  <2>1. \A j, k \in 1..Len(s) : j < k => Elder(s[j], s[k])
    BY <1>1 DEF InRowOrder
  <2>2. s[i] \in R /\ Elder(s[i], s[i])
    BY <1>3, <1>5
  <2>3. (i = 1 \/ 1 < i) /\ (i = Len(s) \/ i < Len(s))
    BY <1>3
  <2> QED
    BY <1>4, <2>1, <2>2, <2>3, Zenon
<1>7. ASSUME NEW q \in R, NEW x \in R, Elder(q, x), Elder(x, q) PROVE q = x
  <2>1. PICK a \in Nat, b \in Nat, c \in Nat, e \in Nat :
          a = q.since /\ b = q.pid /\ c = x.since /\ e = x.pid
    BY <1>5
  <2>2. (a < c \/ (a = c /\ b <= e)) /\ (c < a \/ (c = a /\ e <= b))
    BY <1>7, <2>1 DEF Elder
  <2>3. b = e
    BY <2>2
  <2> QED
    BY <1>1, <1>2, <2>1, <2>3, Zenon DEF InRowOrder
<1>8. PICK p : p = Primary(r)
  OBVIOUS
<1>9. p \in R /\ \A q \in R : Elder(p, q)
  <2> DEFINE Oldest(q) == \A x \in R : IF x.since = 0 THEN q.since # 0 \/ Elder(q, x)
                                     ELSE q.since # 0 /\ Elder(q, x)
  <2>1. \A x \in R : x.since # 0
    BY <1>1, <1>2
  <2>2. Oldest(s[1])
    BY <1>4, <1>6, <2>1, Zenon
  <2>3. p = CHOOSE q \in R : Oldest(q)
    BY <1>1, <1>2, <1>8 DEF Primary
  <2>4. p \in R /\ Oldest(p)
    BY <1>4, <2>2, <2>3, Zenon
  <2> QED
    BY <2>1, <2>4, Zenon
<1>10. p = s[1]
  BY <1>4, <1>6, <1>7, <1>9, Zenon
<1>11. PICK y : y = Youngest(r)
  OBVIOUS
<1>12. y \in R /\ \A q \in R : Elder(q, y)
  <2>1. y = CHOOSE q \in R : \A x \in R : Elder(x, q)
    BY <1>1, <1>2, <1>11, Zenon DEF Youngest
  <2> QED
    BY <1>4, <1>6, <2>1, Zenon
<1>13. p.pid # y.pid
  <2> SUFFICES ASSUME p.pid = y.pid PROVE FALSE
    OBVIOUS
  <2>1. p = y
    BY <1>1, <1>2, <1>9, <1>12, Zenon DEF InRowOrder
  <2>2. f \in R /\ o \in R
    BY <1>1, <1>2
  <2>3. f = p /\ o = p
    BY <1>7, <1>9, <1>12, <2>1, <2>2, Zenon
  <2> QED
    BY <2>3
<1> QED
  BY <1>1, <1>2, <1>3, <1>4, <1>8, <1>10, <1>11, <1>13

\* Where Docker's forwarder and another process have the port, the fix is to end one that is
\* not the forwarder's, if the conflict tells of all or knows their ages.
LEMMA ConflictIsFixed ==
  ASSUME NEW r, NEW H, r.procs \in Seq(H), InRowOrder(r), Told(r),
         NEW f \in Range(r.procs), f.name \in Forwarders,
         NEW o \in Range(r.procs), o.name \notin Forwarders
  PROVE  \E q \in Range(r.procs) : q.name \notin Forwarders /\ FixFor(r) = KillFix(q)
<1>1. PICK local : local = RealProcesses(r)
  OBVIOUS
<1>2. PICK kept \in SUBSET Range(r.procs) : /\ kept = {q \in Range(r.procs) : q.name \notin Forwarders}
                                            /\ local = Only(r.procs, kept)
  BY <1>1 DEF RealProcesses
<1>3. local \in Seq(kept) /\ o \in Range(local)
  BY <1>2, KeptIs
<1>4. local # <<>>
  BY <1>3 DEF Range
<1>5. Head(local) \in Range(r.procs) /\ Head(local).name \notin Forwarders
  BY <1>2, <1>3, <1>4
<1>6. PICK saidNames : saidNames = {r.procs[i].name : i \in DOMAIN r.procs \cap (1..ConflictShown)}
  OBVIOUS
<1>7. PICK names : names = {x.name : x \in Range(r.procs)}
  OBVIOUS
<1>8. Cardinality(names) > 1
  <2>1. IsFiniteSet(names)
    <3>1. IsFiniteSet(Range(r.procs))
      BY RangeIs
    <3>2. PICK g : g = [x \in Range(r.procs) |-> x.name]
      OBVIOUS
    <3>3. g \in Surjection(Range(r.procs), names)
      BY <1>7, <3>2 DEF Surjection
    <3> QED
      BY <3>1, <3>3, FS_Surjection
  <2>2. {f.name, o.name} \in SUBSET names /\ f.name # o.name
    BY <1>7
  <2>3. IsFiniteSet({f.name}) /\ Cardinality({f.name}) = 1
    BY FS_Singleton
  <2>4. {f.name} \cup {o.name} = {f.name, o.name} /\ o.name \notin {f.name}
    BY <2>2
  <2>5. Cardinality({f.name} \cup {o.name}) = 2
    <3>1. Cardinality({f.name} \cup {o.name})
            = IF o.name \in {f.name} THEN Cardinality({f.name}) ELSE Cardinality({f.name}) + 1
      BY <2>3, FS_AddElement, Zenon
    <3> QED
      BY <2>3, <2>4, <3>1
  <2>6. Cardinality({f.name, o.name}) = 2
    BY <2>4, <2>5
  <2>7. Cardinality({f.name, o.name}) <= Cardinality(names) /\ Cardinality(names) \in Nat
    BY <2>1, <2>2, FS_Subset, FS_CardinalityType
  <2> QED
    BY <2>6, <2>7
<1>9. PICK q \in Range(r.procs) : /\ q.name \notin Forwarders
                                /\ Conflict(r) = <<Insight("ERROR", "port-conflict", KillFix(q))>>
  <2>1. CASE saidNames \cap Forwarders # {}
    <3>1. Conflict(r) = <<Insight("ERROR", "port-conflict", KillFix(Head(local)))>>
      BY <1>1, <1>4, <1>6, <1>7, <1>8, <2>1 DEF Conflict
    <3> QED
      BY <1>5, <3>1
  <2>2. CASE saidNames \cap Forwarders = {}
    <3>1. Len(r.procs) \in Nat /\ DOMAIN r.procs = 1..Len(r.procs)
          /\ Range(r.procs) = {r.procs[i] : i \in 1..Len(r.procs)}
      BY RangeIs, LenProperties
    <3>2. PICK i \in 1..Len(r.procs) : f = r.procs[i]
      BY <3>1
    <3>3. i \notin 1..ConflictShown
      BY <1>6, <2>2, <3>1, <3>2
    <3>4. ~(Len(r.procs) <= ConflictShown)
      BY <3>1, <3>3, InsightAssumption
    <3>5. \A x \in Range(r.procs) : x.since # 0
      BY <3>4 DEF Told
    <3>6. f # o
      OBVIOUS
    <3>7. /\ 1 \in DOMAIN r.procs /\ Primary(r) = r.procs[1] /\ r.procs[1] \in Range(r.procs)
          /\ Primary(r).pid # Youngest(r).pid
      BY <3>5, <3>6, OldestIsFirst
    <3>8. r.procs[1].name \in saidNames
      BY <1>6, <3>7, InsightAssumption
    <3>9. Conflict(r) = <<Insight("ERROR", "port-conflict", KillFix(Primary(r)))>>
      BY <1>1, <1>6, <1>7, <1>8, <2>2, <3>7 DEF Conflict
    <3> QED
      BY <2>2, <3>7, <3>8, <3>9
  <2> QED
    BY <2>1, <2>2
<1>10. PICK found : found = Analysed(r)
  OBVIOUS
<1>11. PICK rest \in Seq(Insights(r)) : found = Conflict(r) \o rest
  BY <1>10, AnalysedIs
<1>12. /\ found \in Seq(Insights(r)) /\ Len(found) \in Nat \ {0}
       /\ found[1] = Insight("ERROR", "port-conflict", KillFix(q))
  <2>1. PICK c \in Seq(Insights(r)) : c = Conflict(r)
    BY AnalysedIs
  <2>2. Len(c) = 1 /\ c[1] = Insight("ERROR", "port-conflict", KillFix(q))
    BY <1>9, <2>1
  <2>3. found \in Seq(Insights(r)) /\ found[1] = c[1] /\ Len(found) = 1 + Len(rest)
    <3>1. \A a, b \in Seq(Insights(r)) : Len(a) = 1 =>
             a \o b \in Seq(Insights(r)) /\ (a \o b)[1] = a[1] /\ Len(a \o b) = 1 + Len(b)
      <4> SUFFICES ASSUME NEW a \in Seq(Insights(r)), NEW b \in Seq(Insights(r)), Len(a) = 1
                   PROVE  /\ a \o b \in Seq(Insights(r)) /\ (a \o b)[1] = a[1]
                          /\ Len(a \o b) = 1 + Len(b)
        OBVIOUS
      <4>1. Len(b) \in Nat
        BY LenProperties
      <4>2. /\ a \o b \in Seq(Insights(r)) /\ Len(a \o b) = Len(a) + Len(b)
            /\ \A i \in 1 .. Len(a) + Len(b) :
                 (a \o b)[i] = IF i <= Len(a) THEN a[i] ELSE b[i - Len(a)]
        BY ConcatProperties, Zenon
      <4>3. 1 \in 1 .. Len(a) + Len(b) /\ 1 <= Len(a)
        BY <4>1
      <4>4. (a \o b)[1] = a[1]
        BY <4>2, <4>3, Zenon
      <4> QED
        BY <4>2, <4>4
    <3> QED
      BY <1>11, <2>1, <2>2, <3>1, Zenon
  <2>4. Len(rest) \in Nat
    BY <1>11, LenProperties
  <2> QED
    BY <2>2, <2>3, <2>4
<1>13. \A i \in DOMAIN found : Levels[found[i].level] \in 0..2
  <2>1. \A level \in {"INFO", "WARNING", "ERROR"} : Levels[level] \in 0..2
    BY DEF Levels
  <2>2. \A i \in DOMAIN found : found[i].level \in {"INFO", "WARNING", "ERROR"}
    BY <1>12 DEF Insights, Insight
  <2> QED
    BY <2>1, <2>2
<1>14. Levels[found[1].level] = 2 /\ found[1].fix = KillFix(q)
  BY <1>12 DEF Levels, Insight
<1>15. PICK able : able = {i \in DOMAIN found : Applies(r, found[i].fix)}
  OBVIOUS
<1>16. able \subseteq DOMAIN found /\ DOMAIN found = 1..Len(found)
  BY <1>12, <1>15
<1>17. 1 \in able
  <2>1. Applies(r, KillFix(q))
    BY <1>9 DEF Applies, KillFix, HolderPids
  <2> QED
    BY <1>12, <1>14, <1>15, <2>1
<1>18. PICK first : first = CHOOSE i \in able : \A j \in able :
                  Levels[found[i].level] > Levels[found[j].level]
                    \/ (Levels[found[i].level] = Levels[found[j].level] /\ i <= j)
  OBVIOUS
<1>19. first = 1
  <2>1. \A j \in able : Levels[found[1].level] > Levels[found[j].level]
                    \/ (Levels[found[1].level] = Levels[found[j].level] /\ 1 <= j)
    BY <1>12, <1>13, <1>14, <1>16
  <2>2. /\ first \in able
        /\ Levels[found[first].level] > Levels[found[1].level]
             \/ (Levels[found[first].level] = Levels[found[1].level] /\ first <= 1)
    BY <1>17, <1>18, <2>1
  <2> QED
    BY <1>12, <1>13, <1>14, <1>16, <2>2
<1>20. FixFor(r) = found[first].fix
  BY <1>10, <1>15, <1>17, <1>18 DEF FixFor
<1> QED
  BY <1>9, <1>14, <1>19, <1>20

-----------------------------------------------------------------------------
\* What a plan knows of its row: numbers and ages of processes there were; a plan that starts
\* the command again ends every process it was drawn; a fix spares the forwarder.
Spares(p) ==
  /\ p.why = "fix" /\ ~p.again
  /\ Cardinality(p.of) <= ConflictShown \/ \A w \in p.of : w[4] # 0
  => \A w \in p.of : w[1] \in p.pids /\ w[3] \in Forwarders =>
      \A o \in p.of : o[3] \in Forwarders

PlanSound(p, last) ==
  /\ p.pids \in SUBSET ProcessIds /\ p.again \in BOOLEAN
  /\ \A w \in p.of : w[1] \in ProcessIds /\ w[2] \in 1..last
  /\ p.again => \A w \in p.of : w[1] \in p.pids
  /\ Spares(p)

\* The processes of the machine.
Living(last) ==
  /\ alive \in [ProcessIds -> [born : 0..last, name : ProcessNames \cup {"none", "app"}, dead : BOOLEAN, dated : BOOLEAN]]
  /\ \A n \in ProcessIds : alive[n].born = 0 => alive[n] = Gone

\* The row a desk sees has the processes that run, each once, by their age.
LEMMA RowIs ==
  ASSUME NEW m \in Measures, Living(lastBorn), lastBorn \in Nat
  PROVE  /\ \E H : Row(m).procs \in Seq(H)
         /\ \A q \in Range(Row(m).procs) :
              /\ q.pid \in ProcessIds /\ q.born \in 1..lastBorn
              /\ q.born = alive[q.pid].born /\ q.name = alive[q.pid].name
         /\ InRowOrder(Row(m))
         /\ Len(Row(m).procs) = Cardinality(ShownRow(Row(m)))
<1>1. PICK S : S = {n \in ProcessIds : IsAlive(n)}
  OBVIOUS
<1>2. S \in SUBSET (Nat \ {0}) /\ IsFiniteSet(S)
  BY <1>1, RowAssumption, FS_Subset
<1>3. PICK R : R = {no \in S \X S : Earlier(no[1], no[2])}
  OBVIOUS
<1>4. \A n \in S : /\ n \in ProcessIds /\ alive[n].born \in 1..lastBorn
                   /\ Since(n) \in Nat
  <2> SUFFICES ASSUME NEW n \in S
               PROVE  n \in ProcessIds /\ alive[n].born \in 1..lastBorn /\ Since(n) \in Nat
    OBVIOUS
  <2>1. n \in ProcessIds /\ alive[n] # Gone
    BY <1>1 DEF IsAlive
  <2>2. alive[n].born \in 0..lastBorn /\ alive[n].born # 0
    BY <2>1 DEF Living
  <2> QED
    BY <2>1, <2>2 DEF Since
<1>5. PICK since : since = [n \in S |-> Since(n)]
  OBVIOUS
<1>6. since \in [S -> Nat]
  BY <1>4, <1>5
<1>7. R = {no \in S \X S : since[no[1]] < since[no[2]] \/ (since[no[1]] = since[no[2]] /\ no[1] < no[2])}
  BY <1>3, <1>5 DEF Earlier
<1>8. Orders(R, S)
  <2>1. \A x, y \in S : <<x, y>> \in R <=> since[x] < since[y] \/ (since[x] = since[y] /\ x < y)
    BY <1>7
  <2>2. \A x \in S : x \in Nat /\ since[x] \in Nat
    BY <1>2, <1>6
  <2>3. \A x \in S : <<x, x>> \notin R
    BY <2>1, <2>2
  <2>4. \A x, y \in S : x # y => <<x, y>> \in R \/ <<y, x>> \in R
    BY <2>1, <2>2
  <2>5. ASSUME NEW x \in S, NEW y \in S, NEW z \in S, <<x, y>> \in R, <<y, z>> \in R
        PROVE  <<x, z>> \in R
    <3>1. since[x] \in Nat /\ since[y] \in Nat /\ since[z] \in Nat /\ x \in Nat /\ y \in Nat /\ z \in Nat
      BY <2>2
    <3>2. since[x] < since[y] \/ (since[x] = since[y] /\ x < y)
      BY <2>1, <2>5
    <3>3. since[y] < since[z] \/ (since[y] = since[z] /\ y < z)
      BY <2>1, <2>5
    <3>4. since[x] < since[z] \/ (since[x] = since[z] /\ x < z)
      BY <3>1, <3>2, <3>3
    <3> QED
      BY <2>1, <3>4
  <2> QED
    BY <2>3, <2>4, <2>5, Zenon DEF Orders
<1>9. PICK t : t = Sorted(S, R)
  OBVIOUS
<1>10. /\ t \in Seq(S) /\ Len(t) = Cardinality(S) /\ DOMAIN t = 1..Len(t)
       /\ \A x \in S : \E i \in 1..Len(t) : t[i] = x
       /\ \A i, j \in 1..Len(t) : i < j => <<t[i], t[j]>> \in R
  BY <1>2, <1>8, <1>9, SortedIs
<1>11. PICK holders : holders = [n \in S |-> [pid |-> n, born |-> alive[n].born, since |-> Since(n),
                    name |-> alive[n].name, dead |-> alive[n].dead, open |-> TRUE]]
  OBVIOUS
<1>12. PICK H : H = {holders[n] : n \in S}
  OBVIOUS
<1>13. PICK r : r = Row(m)
  OBVIOUS
<1>14. r.procs = [i \in DOMAIN t |-> [pid |-> t[i], born |-> alive[t[i]].born, since |-> Since(t[i]),
                    name |-> alive[t[i]].name, dead |-> alive[t[i]].dead, open |-> TRUE]]
  BY <1>1, <1>3, <1>9, <1>13, RowAssumption, Zenon DEF Row
<1>15. r.procs = [i \in 1..Len(t) |-> holders[t[i]]]
  BY <1>10, <1>11, <1>14
<1>16. r.procs \in Seq(H) /\ Len(r.procs) = Len(t)
  BY <1>10, <1>12, <1>15
<1>17. Range(r.procs) = H
  <2>1. Range(r.procs) = {r.procs[i] : i \in 1..Len(r.procs)}
    BY <1>16, RangeIs
  <2>2. \A i \in 1..Len(r.procs) : r.procs[i] \in H
    BY <1>16
  <2>3. ASSUME NEW n \in S PROVE \E i \in 1..Len(r.procs) : r.procs[i] = holders[n]
    <3>1. PICK i \in 1..Len(t) : t[i] = n
      BY <1>10
    <3> QED
      BY <1>15, <1>16, <3>1
  <2> QED
    BY <1>12, <2>1, <2>2, <2>3, Zenon
<1>18. \A n \in S : /\ holders[n].pid = n /\ holders[n].born = alive[n].born
                    /\ holders[n].name = alive[n].name /\ holders[n].since = since[n]
  BY <1>5, <1>11
<1>19. \A q \in H : /\ q.pid \in ProcessIds /\ q.born \in 1..lastBorn
                    /\ q.born = alive[q.pid].born /\ q.name = alive[q.pid].name
  BY <1>4, <1>12, <1>18
<1>20. InRowOrder(r)
  <2>1. \A q \in Range(r.procs) : q.since \in Nat /\ q.pid \in Nat
    BY <1>2, <1>6, <1>12, <1>17, <1>18
  <2>2. ASSUME NEW q \in Range(r.procs), NEW x \in Range(r.procs), q.pid = x.pid PROVE q = x
    <3>1. PICK n \in S, o \in S : q = holders[n] /\ x = holders[o]
      BY <1>12, <1>17, Zenon
    <3>2. n = o
      BY <1>18, <2>2, <3>1, Zenon
    <3> QED
      BY <3>1, <3>2
  <2>3. ASSUME NEW i \in 1..Len(r.procs), NEW j \in 1..Len(r.procs), i < j
        PROVE  Elder(r.procs[i], r.procs[j])
    <3>1. t[i] \in S /\ t[j] \in S /\ <<t[i], t[j]>> \in R
      BY <1>10, <1>16, <2>3
    <3>2. PICK a \in S, b \in S : a = t[i] /\ b = t[j]
      BY <3>1
    <3>3. r.procs[i] = holders[t[i]] /\ r.procs[j] = holders[t[j]]
      BY <1>15, <1>16
    <3>4. since[a] < since[b] \/ (since[a] = since[b] /\ a <= b)
      <4>1. <<a, b>> \in R /\ a \in Nat /\ b \in Nat
        BY <1>2, <3>1, <3>2
      <4>2. since[a] < since[b] \/ (since[a] = since[b] /\ a < b)
        BY <1>7, <4>1
      <4> QED
        BY <4>1, <4>2
    <3>5. /\ r.procs[i].since = since[a] /\ r.procs[i].pid = a
          /\ r.procs[j].since = since[b] /\ r.procs[j].pid = b
      BY <1>18, <3>2, <3>3, Zenon
    <3> QED
      BY <3>4, <3>5, Zenon DEF Elder
  <2> QED
    BY <2>1, <2>2, <2>3, Zenon DEF InRowOrder
<1>21. Cardinality(ShownRow(r)) = Cardinality(S)
  <2>1. PICK g : g = [n \in S |-> <<n, alive[n].born, alive[n].name, since[n]>>]
    OBVIOUS
  <2>2. ShownRow(r) = {g[n] : n \in S}
    <3>1. \A n \in S : g[n] = <<holders[n].pid, holders[n].born, holders[n].name, holders[n].since>>
      BY <1>18, <2>1
    <3>2. ShownRow(r) = {<<q.pid, q.born, q.name, q.since>> : q \in H}
      BY <1>17 DEF ShownRow
    <3>3. ASSUME NEW w \in ShownRow(r) PROVE \E n \in S : w = g[n]
      <4>1. PICK q \in H : w = <<q.pid, q.born, q.name, q.since>>
        BY <3>2
      <4>2. PICK n \in S : q = holders[n]
        BY <1>12
      <4> QED
        BY <3>1, <4>1, <4>2, Zenon
    <3>4. ASSUME NEW n \in S PROVE g[n] \in ShownRow(r)
      <4>1. holders[n] \in H
        BY <1>12
      <4> QED
        BY <3>1, <3>2, <4>1, Zenon
    <3> QED
      BY <3>3, <3>4
  <2>3. g \in [S -> ShownRow(r)] /\ \A n, o \in S : g[n] = g[o] => n = o
    <3>1. \A n \in S : g[n] \in ShownRow(r)
      BY <2>2
    <3>2. g \in [S -> ShownRow(r)]
      BY <2>1, <3>1
    <3>3. ASSUME NEW n \in S, NEW o \in S, g[n] = g[o] PROVE n = o
      <4>1. <<n, alive[n].born, alive[n].name, since[n]>> = <<o, alive[o].born, alive[o].name, since[o]>>
        BY <2>1, <3>3, Zenon
      <4> QED
        BY <4>1
    <3> QED
      BY <3>2, <3>3
  <2>4. g \in Bijection(S, ShownRow(r))
    <3>1. DOMAIN g = S
      BY <2>1
    <3>2. g \in Injection(S, ShownRow(r))
      BY <2>3, <3>1, Zenon DEF Injection, IsInjective
    <3>3. g \in Surjection(S, ShownRow(r))
      BY <2>2, <2>3 DEF Surjection
    <3> QED
      BY <3>2, <3>3 DEF Bijection
  <2> QED
    BY <1>2, <2>4, FS_Bijection DEF ExistsBijection
<1> QED
  BY <1>10, <1>13, <1>16, <1>17, <1>19, <1>20, <1>21

-----------------------------------------------------------------------------
\* The analysis of a row is a list of insights about that row.
LEMMA AnalysedAreInsights ==
  ASSUME NEW r, NEW H, r.procs \in Seq(H)
  PROVE  Analysed(r) \in Seq(Insights(r))
<1>1. PICK c : c = Conflict(r)
  OBVIOUS
<1>2. PICK rest \in Seq(Insights(r)) : Analysed(r) = c \o rest
  BY <1>1, AnalysedIs
<1>3. c \in Seq(Insights(r))
  BY <1>1, AnalysedIs
<1> QED
  BY <1>2, <1>3

\* Of those with the highest rank there is a first.
LEMMA FirstOfBest ==
  ASSUME NEW able \in SUBSET Nat, able # {}, NEW rank \in [able -> 0..2]
  PROVE  \E i \in able : \A j \in able : rank[i] > rank[j] \/ (rank[i] = rank[j] /\ i <= j)
<1>1. PICK most \in 0..2 : /\ \E i \in able : rank[i] = most
                           /\ \A j \in able : rank[j] <= most
  <2>1. \A i \in able : rank[i] \in {0, 1, 2}
    OBVIOUS
  <2>2. CASE \E i \in able : rank[i] = 2
    BY <2>1, <2>2
  <2>3. CASE (\A i \in able : rank[i] # 2) /\ \E i \in able : rank[i] = 1
    BY <2>1, <2>3
  <2>4. CASE \A i \in able : rank[i] \notin {1, 2}
    <3>1. \A i \in able : rank[i] = 0
      BY <2>1, <2>4
    <3>2. PICK i \in able : rank[i] = 0
      BY <3>1
    <3> QED
      BY <3>1, <3>2
  <2> QED
    BY <2>2, <2>3, <2>4
<1>2. PICK T : T = {i \in able : rank[i] = most}
  OBVIOUS
<1>3. T \in SUBSET Nat /\ T # {}
  BY <1>1, <1>2
<1>4. PICK i \in T : \A j \in T : i <= j
  BY <1>3, LeastNatural
<1>5. ASSUME NEW j \in able PROVE rank[i] > rank[j] \/ (rank[i] = rank[j] /\ i <= j)
  <2>1. rank[j] \in 0..2 /\ rank[j] <= most /\ rank[i] = most
    BY <1>1, <1>2
  <2>2. rank[j] = most => j \in T
    BY <1>2
  <2> QED
    BY <1>4, <2>1, <2>2
<1> QED
  BY <1>2, <1>5

\* A plan that leaves the processes alone is sound, and one that was drawn a row's.
LEMMA NoProcesses ==
  ASSUME NEW p, NEW last, p.pids = {}, p.again = FALSE, p.of = {}
  PROVE  PlanSound(p, last)
<1>1. p.pids \in SUBSET ProcessIds /\ p.again \in BOOLEAN
  OBVIOUS
<1>2. \A w \in p.of : FALSE
  OBVIOUS
<1> QED
  BY <1>1, <1>2, Zenon DEF PlanSound, Spares

\* The plan of a row that kills, and the plan of a row that does nothing to its processes.
LEMMA PlansAreSound ==
  ASSUME NEW m \in Measures, Living(lastBorn), lastBorn \in Nat, NEW planned \in Plans(Row(m))
  PROVE  PlanSound(planned, lastBorn)
<1>1. PICK r : r = Row(m)
  OBVIOUS
<1>2. PICK H : r.procs \in Seq(H)
  BY <1>1, RowIs
<1>3. \A q \in Range(r.procs) :
        /\ q.pid \in ProcessIds /\ q.born \in 1..lastBorn
        /\ q.born = alive[q.pid].born /\ q.name = alive[q.pid].name
  BY <1>1, RowIs
<1>4. PICK drawn : drawn = ShownRow(r)
  OBVIOUS
<1>5. \A w \in drawn : /\ w[1] \in HolderPids(r) /\ w[1] \in ProcessIds /\ w[2] \in 1..lastBorn
                       /\ \E q \in Range(r.procs) : w[1] = q.pid /\ w[3] = q.name
  BY <1>3, <1>4 DEF ShownRow, HolderPids
<1>21. InRowOrder(r) /\ Len(r.procs) = Cardinality(drawn)
  BY <1>1, <1>4, RowIs
<1>22. (\A w \in drawn : w[4] # 0) => \A q \in Range(r.procs) : q.since # 0
  <2> SUFFICES ASSUME \A w \in drawn : w[4] # 0, NEW q \in Range(r.procs)
               PROVE  q.since # 0
    OBVIOUS
  <2>1. PICK w : w = <<q.pid, q.born, q.name, q.since>>
    OBVIOUS
  <2>2. w \in drawn
    BY <1>4, <2>1, Zenon DEF ShownRow
  <2> QED
    BY <2>1, <2>2
<1>6. HolderPids(r) \in SUBSET ProcessIds
  BY <1>3 DEF HolderPids
<1>7. PICK kill : kill = KillPlan(r)
  OBVIOUS
<1>8. /\ kill.pids = HolderPids(r) /\ kill.again = FALSE /\ kill.of = drawn /\ kill.why = "kill"
      /\ "why" \in DOMAIN kill /\ "again" \in DOMAIN kill
  BY <1>4, <1>7 DEF KillPlan, NoPlan
<1>9. PlanSound(kill, lastBorn)
  <2>1. kill.pids \in SUBSET ProcessIds /\ kill.again \in BOOLEAN /\ kill.why # "fix" /\ ~kill.again
    BY <1>6, <1>8
  <2> QED
    BY <1>5, <1>8, <2>1, Zenon DEF PlanSound, Spares
<1>10. r.procs = <<>> => drawn = {}
  BY <1>4 DEF ShownRow, Range
<1>11. ASSUME NEW p, p.pids = HolderPids(r), p.again = (r.procs # <<>>), p.of = drawn
       PROVE  PlanSound(p, lastBorn)
  <2>1. p.pids \in SUBSET ProcessIds
    BY <1>6, <1>11
  <2>2. (r.procs # <<>>) \in BOOLEAN
    BY Zenon
  <2> QED
    BY <1>5, <1>10, <1>11, <2>1, <2>2, Zenon DEF PlanSound, Spares
<1>12. PICK again : again = LocalRestart(r)
  OBVIOUS
<1>13. again.pids = HolderPids(r) /\ again.again = (r.procs # <<>>) /\ again.of = drawn
  BY <1>7, <1>8, <1>12 DEF LocalRestart
<1>14. PICK fixed : fixed = [again EXCEPT !.why = "fix"]
  OBVIOUS
<1>15. PlanSound(RestartPlan(r), lastBorn) /\ PlanSound([RestartPlan(r) EXCEPT !.why = "fix"], lastBorn)
  <2>1. CASE r.container # "none"
    <3>1. PICK p : p = RestartPlan(r)
      OBVIOUS
    <3>2. PICK q : q = [p EXCEPT !.why = "fix"]
      OBVIOUS
    <3>3. /\ p.pids = {} /\ p.again = FALSE /\ p.of = {}
          /\ q.pids = {} /\ q.again = FALSE /\ q.of = {}
      BY <2>1, <3>1, <3>2 DEF RestartPlan, NoPlan
    <3> QED
      BY <3>1, <3>2, <3>3, NoProcesses
  <2>2. CASE r.container = "none"
    <3>1. RestartPlan(r) = again
      BY <1>12, <2>2 DEF RestartPlan
    <3>2. fixed.pids = again.pids /\ fixed.again = again.again /\ fixed.of = again.of
      BY <1>14
    <3>3. PlanSound(again, lastBorn)
      BY <1>11, <1>13, Zenon
    <3>4. PlanSound(fixed, lastBorn)
      BY <1>11, <1>13, <3>2, Zenon
    <3> QED
      BY <1>14, <3>1, <3>3, <3>4, Zenon
  <2> QED
    BY <2>1, <2>2
<1>16. PlanSound(StopPlan(r), lastBorn)
  <2>1. PICK p : p = StopPlan(r)
    OBVIOUS
  <2>2. p.pids = {} /\ p.again = FALSE /\ p.of = {}
    BY <2>1 DEF StopPlan, NoPlan
  <2> QED
    BY <2>1, <2>2, NoProcesses
<1>17. PlanSound(FreePlan(r), lastBorn)
  <2>1. PICK real : real = {q.pid : q \in Range(RealProcesses(r))}
    OBVIOUS
  <2>2. real \in SUBSET ProcessIds
    <3>1. PICK kept \in SUBSET Range(r.procs) : RealProcesses(r) = Only(r.procs, kept)
      BY DEF RealProcesses
    <3>2. Range(RealProcesses(r)) \subseteq Range(r.procs)
      BY <1>2, <3>1, KeptIs
    <3> QED
      BY <1>3, <2>1, <3>2
  <2>3. PICK p : p = FreePlan(r)
    OBVIOUS
  <2>4. p.pids = real /\ p.again = FALSE /\ p.of = drawn /\ p.why = "free"
    BY <1>4, <2>1, <2>3 DEF FreePlan, StopPlan, NoPlan
  <2>5. p.pids \in SUBSET ProcessIds /\ p.again \in BOOLEAN /\ p.why # "fix" /\ ~p.again
    BY <2>2, <2>4
  <2>6. \A w \in p.of : w[1] \in ProcessIds /\ w[2] \in 1..lastBorn
    BY <1>5, <2>4, Zenon
  <2> QED
    BY <2>3, <2>5, <2>6, Zenon DEF PlanSound, Spares
<1>18. PlanSound(NoPlan, lastBorn)
  <2>1. NoPlan.pids = {} /\ NoPlan.again = FALSE /\ NoPlan.of = {}
    BY DEF NoPlan
  <2> QED
    BY <2>1, NoProcesses
<1>19. ASSUME NEW fix, fix = FixFor(r), fix.kind = "kill",
              NEW p, p = [NoPlan EXCEPT !.pids = {fix.pid}, !.of = ShownRow(r), !.why = "fix"]
       PROVE  PlanSound(p, lastBorn)
  <2>1. p.pids = {fix.pid} /\ p.again = FALSE /\ p.of = drawn
    BY <1>4, <1>19 DEF NoPlan
  <2>2. fix.pid \in ProcessIds
    <3>1. PICK found : found = Analysed(r)
      OBVIOUS
    <3>2. PICK able : able = {i \in DOMAIN found : Applies(r, found[i].fix)}
      OBVIOUS
    <3>3. able # {}
      BY <1>19, <3>1, <3>2 DEF FixFor, NoFix
    <3>4. found \in Seq(Insights(r)) /\ Len(found) \in Nat /\ DOMAIN found = 1..Len(found)
      BY <1>2, <3>1, AnalysedAreInsights, LenProperties
    <3>5. able \in SUBSET (Nat \ {0})
      BY <3>2, <3>4
    <3>6. PICK rank : rank = [i \in able |-> Levels[found[i].level]]
      OBVIOUS
    <3>7. rank \in [able -> 0..2]
      <4>1. \A level \in {"INFO", "WARNING", "ERROR"} : Levels[level] \in 0..2
        BY DEF Levels
      <4>2. \A i \in able : found[i].level \in {"INFO", "WARNING", "ERROR"}
        BY <3>2, <3>4 DEF Insights, Insight
      <4> QED
        BY <3>6, <4>1, <4>2
    <3>8. PICK first : first = CHOOSE i \in able : \A j \in able :
                  Levels[found[i].level] > Levels[found[j].level]
                    \/ (Levels[found[i].level] = Levels[found[j].level] /\ i <= j)
      OBVIOUS
    <3>9. \E i \in able : \A j \in able :
                  Levels[found[i].level] > Levels[found[j].level]
                    \/ (Levels[found[i].level] = Levels[found[j].level] /\ i <= j)
      <4>1. PICK i \in able : \A j \in able : rank[i] > rank[j] \/ (rank[i] = rank[j] /\ i <= j)
        BY <3>3, <3>5, <3>7, FirstOfBest
      <4> QED
        BY <3>6, <4>1
    <3>10. first \in able
      BY <3>8, <3>9
    <3>11. fix = found[first].fix
      BY <1>19, <3>1, <3>2, <3>3, <3>8 DEF FixFor
    <3>12. fix.pid \in HolderPids(r)
      BY <1>19, <3>2, <3>10, <3>11 DEF Applies
    <3> QED
      BY <1>6, <3>12
  <2>3. ASSUME Cardinality(p.of) <= ConflictShown \/ \A x \in p.of : x[4] # 0,
               NEW w \in drawn, w[1] = fix.pid, w[3] \in Forwarders, NEW o \in drawn
        PROVE  o[3] \in Forwarders
    <3> SUFFICES ASSUME o[3] \notin Forwarders PROVE FALSE
      OBVIOUS
    <3>1. PICK f \in Range(r.procs) : w[1] = f.pid /\ w[3] = f.name
      BY <1>5
    <3>2. PICK other \in Range(r.procs) : o[3] = other.name
      BY <1>5
    <3>3. PICK q \in Range(r.procs) : q.name \notin Forwarders /\ FixFor(r) = KillFix(q)
      <4>1. Told(r)
        BY <1>21, <1>22, <2>1, <2>3 DEF Told
      <4> QED
        BY <1>2, <1>21, <2>3, <3>1, <3>2, <4>1, ConflictIsFixed
    <3>4. fix.pid = q.pid
      BY <1>19, <3>3 DEF KillFix
    <3>5. f.name = q.name
      BY <1>3, <2>3, <3>1, <3>4
    <3> QED
      BY <2>3, <3>1, <3>3, <3>5
  <2>4. \A w \in p.of : w[1] \in ProcessIds /\ w[2] \in 1..lastBorn
    BY <1>5, <2>1, Zenon
  <2>5. Cardinality(p.of) <= ConflictShown \/ (\A w \in p.of : w[4] # 0) =>
          \A w \in p.of : w[1] \in p.pids /\ w[3] \in Forwarders =>
            \A o \in p.of : o[3] \in Forwarders
    BY <2>1, <2>3
  <2>6. p.pids \in SUBSET ProcessIds /\ p.again \in BOOLEAN /\ ~p.again
    BY <2>1, <2>2
  <2> QED
    BY <2>4, <2>5, <2>6, Zenon DEF PlanSound, Spares
<1>20. PlanSound(FixPlan(r), lastBorn)
  <2>1. PICK fix : fix = FixFor(r)
    OBVIOUS
  <2>2. CASE fix.kind = "kill"
    BY <1>19, <2>1, <2>2 DEF FixPlan
  <2>3. CASE fix.kind = "restart-process"
    BY <1>15, <2>1, <2>3 DEF FixPlan
  <2>4. CASE fix.kind \in {"restart-container", "stop-container"}
    <3>1. PICK p : p = FixPlan(r)
      OBVIOUS
    <3>2. p.pids = {} /\ p.again = FALSE /\ p.of = {}
      BY <2>1, <2>4, <3>1 DEF FixPlan, NoPlan
    <3> QED
      BY <3>1, <3>2, NoProcesses
  <2>5. CASE fix.kind \notin {"kill", "restart-process", "restart-container", "stop-container"}
    <3>1. FixPlan(r) = NoPlan
      BY <2>1, <2>5 DEF FixPlan
    <3> QED
      BY <1>18, <3>1
  <2> QED
    BY <2>2, <2>3, <2>4, <2>5
<1> QED
  BY <1>1, <1>7, <1>9, <1>15, <1>16, <1>17, <1>20 DEF Plans

-----------------------------------------------------------------------------
\* A desk that acts has still to signal some of what its question named; while it waits it waits
\* for all of it that runs, and it starts the command again only when all of it is gone.
Desk(d) ==
  /\ PlanSound(plan[d], lastBorn)
  /\ stage[d] \in {"idle", "asks", "signals", "waits", "finishes"}
  /\ todo[d] \in SUBSET plan[d].pids
  /\ stage[d] # "signals" => todo[d] = {}
  /\ stage[d] = "idle" => plan[d] = NoPlan
  /\ stage[d] = "waits" /\ plan[d].again =>
       \A w \in plan[d].of : StillRuns(w) => <<w[1], w[2]>> \in watched[d]
  /\ stage[d] = "finishes" /\ plan[d].again /\ ~failed[d] =>
       \A w \in plan[d].of : ~StillRuns(w)

\* The inductive invariant: the machine and every desk.
RowInv ==
  /\ lastBorn \in 0..LastBorn
  /\ Living(lastBorn)
  /\ service \in RowContainers
  /\ DOMAIN plan = Desks /\ DOMAIN stage = Desks /\ DOMAIN todo = Desks /\ DOMAIN watched = Desks
  /\ failed \in [Desks -> BOOLEAN]
  /\ \A d \in Desks : Desk(d)

\* While the machine goes on, a process that does not run will not run again.
Machine ==
  /\ lastBorn' \in lastBorn..LastBorn /\ Living(lastBorn)'
  /\ \A n \in ProcessIds : \/ alive'[n].born = alive[n].born
                            \/ alive'[n].born = 0
                            \/ alive'[n].born > lastBorn

SameDesk(d) ==
  /\ plan'[d] = plan[d] /\ stage'[d] = stage[d] /\ todo'[d] = todo[d]
  /\ watched'[d] = watched[d] /\ failed'[d] = failed[d]

\* A step of the machine leaves a desk that waits in its place.
LEMMA MachineKeeps ==
  ASSUME RowInv, Machine, NEW d \in Desks, SameDesk(d)
  PROVE  Desk(d)'
<1>1. Desk(d)
  BY Zenon DEF RowInv
<1>2. lastBorn \in Nat /\ lastBorn' \in Nat /\ lastBorn <= lastBorn'
  BY DEF RowInv, Machine
<1>3. \A w \in plan[d].of : w[1] \in ProcessIds /\ w[2] \in 1..lastBorn
  BY <1>1, Zenon DEF Desk, PlanSound
<1>4. \A w \in plan[d].of : w[2] \in 1..lastBorn'
  BY <1>2, <1>3
<1>5. \A w \in plan[d].of : StillRuns(w)' => StillRuns(w)
  <2> SUFFICES ASSUME NEW w \in plan[d].of, alive'[w[1]].born = w[2] PROVE alive[w[1]].born = w[2]
    BY DEF StillRuns
  <2>1. w[1] \in ProcessIds /\ w[2] \in 1..lastBorn
    BY <1>3
  <2> QED
    BY <1>2, <2>1 DEF Machine
<1>6. PlanSound(plan[d], lastBorn')
  BY <1>1, <1>3, <1>4, Zenon DEF PlanSound, Desk
<1> QED
  BY <1>1, <1>5, <1>6, Zenon DEF Desk, SameDesk

\* What one desk does leaves the other desks and the machine alone.
Apart(d) ==
  /\ Machine /\ service' \in RowContainers
  /\ DOMAIN plan' = Desks /\ DOMAIN stage' = Desks /\ DOMAIN todo' = Desks /\ DOMAIN watched' = Desks
  /\ failed' \in [Desks -> BOOLEAN]
  /\ \A e \in Desks \ {d} : SameDesk(e)

\* The machine that stays as it is is one that goes on.
LEMMA QuietMachine ==
  ASSUME RowInv, UNCHANGED <<alive, lastBorn>>
  PROVE  Machine
<1>1. lastBorn' \in lastBorn..LastBorn
  BY DEF RowInv
<1>2. \A n \in ProcessIds : alive'[n].born = alive[n].born
  OBVIOUS
<1> QED
  BY <1>1, <1>2, Zenon DEF Machine, RowInv, Living

\* So a step of one desk is about that desk alone.
LEMMA ApartKeeps ==
  ASSUME RowInv, NEW d \in Desks, Apart(d), Desk(d)'
  PROVE  RowInv'
<1>1. ASSUME NEW e \in Desks PROVE Desk(e)'
  <2>1. CASE e = d
    BY <2>1
  <2>2. CASE e # d
    BY <2>2, MachineKeeps, Zenon DEF Apart
  <2> QED
    BY <2>1, <2>2
<1>2. lastBorn' \in 0..LastBorn
  BY DEF Apart, Machine, RowInv
<1> QED
  BY <1>1, <1>2, Zenon DEF RowInv, Apart, Machine

\* A question: its plan is sound, from the row as it is.
LEMMA AskKeeps == ASSUME RowInv, NEW d \in Desks, AskRow(d) PROVE RowInv'
<1>1. PICK m \in Measures : \E p \in Plans(Row(m)) : plan' = [plan EXCEPT ![d] = p]
  BY Zenon DEF AskRow
<1>2. PICK p \in Plans(Row(m)) : plan' = [plan EXCEPT ![d] = p]
  BY <1>1
<1>3. /\ stage' = [stage EXCEPT ![d] = "asks"]
      /\ UNCHANGED <<alive, lastBorn, service, todo, watched, failed>>
      /\ stage[d] = "idle"
  BY Zenon DEF AskRow
<1>4. DOMAIN plan = Desks /\ DOMAIN stage = Desks
  BY DEF RowInv
<1>5. plan'[d] = p /\ stage'[d] = "asks"
  BY <1>2, <1>3, <1>4
<1>6. \A e \in Desks \ {d} : plan'[e] = plan[e] /\ stage'[e] = stage[e]
  BY <1>2, <1>3, <1>4
<1>7. Apart(d)
  <2>1. DOMAIN plan' = Desks /\ DOMAIN stage' = Desks
    BY <1>2, <1>3, <1>4
  <2> QED
    BY <1>3, <1>6, <2>1, QuietMachine, Zenon DEF Apart, SameDesk, RowInv
<1>8. PlanSound(p, lastBorn)
  BY PlansAreSound DEF RowInv
<1>9. todo[d] = {}
  BY <1>3 DEF RowInv, Desk
<1>10. todo'[d] \in SUBSET plan'[d].pids
  BY <1>3, <1>9
<1>11. todo'[d] = {}
  BY <1>3, <1>9
<1>12. Desk(d)'
  <2>1. stage'[d] \in {"idle", "asks", "signals", "waits", "finishes"} /\ stage'[d] # "idle"
        /\ stage'[d] # "waits" /\ stage'[d] # "finishes"
    BY <1>5
  <2> QED
    BY <1>3, <1>5, <1>8, <1>10, <1>11, <2>1, Zenon DEF Desk, PlanSound
<1> QED
  BY <1>7, <1>12, ApartKeeps

\* A desk that is idle again has no plan; what it was to signal is done.
LEMMA IdleDesk ==
  ASSUME RowInv, NEW d \in Desks, todo[d] = {}, stage' = [stage EXCEPT ![d] = "idle"],
         plan' = [plan EXCEPT ![d] = NoPlan], UNCHANGED <<todo, watched>>,
         service' \in RowContainers, lastBorn' \in lastBorn..LastBorn,
         failed' \in [Desks -> BOOLEAN]
  PROVE  Desk(d)'
<1>1. DOMAIN plan = Desks /\ DOMAIN stage = Desks
  BY DEF RowInv
<1>2. plan'[d] = NoPlan /\ stage'[d] = "idle"
  BY <1>1
<1>3. PlanSound(NoPlan, lastBorn')
  <2>1. NoPlan.pids = {} /\ NoPlan.again = FALSE /\ NoPlan.of = {}
    BY DEF NoPlan
  <2> QED
    BY <2>1, NoProcesses
<1>4. todo'[d] \in SUBSET plan'[d].pids /\ todo'[d] = {}
  BY <1>2 DEF NoPlan
<1>5. stage'[d] \in {"idle", "asks", "signals", "waits", "finishes"}
        /\ stage'[d] # "waits" /\ stage'[d] # "finishes"
  BY <1>2
<1> QED
  BY <1>2, <1>3, <1>4, <1>5, Zenon DEF Desk, PlanSound

\* A question that is refused.
LEMMA CancelKeeps == ASSUME RowInv, NEW d \in Desks, Cancel(d) PROVE RowInv'
<1>1. /\ stage[d] = "asks" /\ stage' = [stage EXCEPT ![d] = "idle"]
      /\ plan' = [plan EXCEPT ![d] = NoPlan]
      /\ UNCHANGED <<alive, lastBorn, service, todo, watched, failed>>
  BY Zenon DEF Cancel
<1>2. DOMAIN plan' = Desks /\ DOMAIN stage' = Desks
      /\ \A e \in Desks \ {d} : plan'[e] = plan[e] /\ stage'[e] = stage[e]
  BY <1>1 DEF RowInv
<1>3. Apart(d)
  BY <1>1, <1>2, QuietMachine, Zenon DEF Apart, SameDesk, RowInv
<1>4. todo[d] = {} /\ lastBorn' \in lastBorn..LastBorn
  BY <1>1 DEF RowInv, Desk
<1>5. service' \in RowContainers /\ failed' \in [Desks -> BOOLEAN]
  BY <1>1, Zenon DEF RowInv
<1>6. Desk(d)'
  BY <1>1, <1>4, <1>5, IdleDesk
<1> QED
  BY <1>3, <1>6, ApartKeeps

\* A question that is answered: all its processes are to be signalled.
LEMMA ConfirmKeeps == ASSUME RowInv, NEW d \in Desks, Confirm(d) PROVE RowInv'
<1>1. /\ stage' = [stage EXCEPT ![d] = "signals"]
      /\ todo' = [todo EXCEPT ![d] = plan[d].pids]
      /\ failed' = [failed EXCEPT ![d] = FALSE]
      /\ UNCHANGED <<alive, lastBorn, service, plan, watched>>
  BY Zenon DEF Confirm
<1>2. /\ DOMAIN todo' = Desks /\ DOMAIN stage' = Desks
      /\ todo'[d] = plan[d].pids /\ stage'[d] = "signals"
      /\ \A e \in Desks \ {d} : todo'[e] = todo[e] /\ stage'[e] = stage[e]
  BY <1>1 DEF RowInv
<1>3. failed' \in [Desks -> BOOLEAN] /\ \A e \in Desks \ {d} : failed'[e] = failed[e]
  BY <1>1 DEF RowInv
<1>4. Apart(d)
  BY <1>1, <1>2, <1>3, QuietMachine, Zenon DEF Apart, SameDesk, RowInv
<1>5. PlanSound(plan[d], lastBorn)
  BY DEF RowInv, Desk
<1>6. /\ stage'[d] \in {"idle", "asks", "signals", "waits", "finishes"}
      /\ stage'[d] # "waits" /\ stage'[d] # "finishes" /\ stage'[d] # "idle"
  BY <1>2
<1>7. todo'[d] \in SUBSET plan[d].pids
  BY <1>2
<1>8. Desk(d)'
  BY <1>1, <1>2, <1>5, <1>6, <1>7, Zenon DEF Desk, PlanSound
<1> QED
  BY <1>4, <1>8, ApartKeeps

\* A signal to one process; the last one starts the wait, for those that still run.
LEMMA SignalKeeps == ASSUME RowInv, NEW d \in Desks, NEW n, Signal(d, n) PROVE RowInv'
<1>1. /\ stage[d] = "signals" /\ todo' = [todo EXCEPT ![d] = @ \ {n}]
      /\ \E refused \in BOOLEAN : failed' = [failed EXCEPT ![d] = @ \/ (refused /\ IsAlive(n))]
      /\ UNCHANGED <<alive, lastBorn, service, plan, stage, watched>>
  BY Zenon DEF Signal
<1>2. DOMAIN todo' = Desks /\ todo'[d] = todo[d] \ {n}
      /\ \A e \in Desks \ {d} : todo'[e] = todo[e]
  BY <1>1 DEF RowInv
<1>3. failed' \in [Desks -> BOOLEAN] /\ \A e \in Desks \ {d} : failed'[e] = failed[e]
  <2>1. PICK value \in BOOLEAN : failed' = [failed EXCEPT ![d] = value]
    BY <1>1 DEF RowInv
  <2> QED
    BY <2>1 DEF RowInv
<1>4. Apart(d)
  BY <1>1, <1>2, <1>3, QuietMachine, Zenon DEF Apart, SameDesk, RowInv
<1>5. Desk(d)
  BY DEF RowInv
<1>6. /\ todo'[d] \in SUBSET plan[d].pids
      /\ stage'[d] # "waits" /\ stage'[d] # "finishes" /\ stage'[d] # "idle" /\ stage'[d] = "signals"
  BY <1>1, <1>2, <1>5 DEF Desk
<1>7. Desk(d)'
  BY <1>1, <1>2, <1>5, <1>6, Zenon DEF Desk, PlanSound
<1> QED
  BY <1>4, <1>7, ApartKeeps

\* What is not seen by the wait has its number from a later process, or is gone.
LEMMA WatchKeeps == ASSUME RowInv, NEW d \in Desks, Watch(d) PROVE RowInv'
<1>1. /\ stage[d] = "signals" /\ todo[d] = {} /\ stage' = [stage EXCEPT ![d] = "waits"]
      /\ watched' = [watched EXCEPT ![d] = {<<n, alive[n].born>> : n \in {m \in plan[d].pids : IsAlive(m)}}]
      /\ UNCHANGED <<alive, lastBorn, service, plan, todo, failed>>
  BY Zenon DEF Watch
<1>2. DOMAIN watched' = Desks /\ DOMAIN stage' = Desks /\ stage'[d] = "waits"
      /\ watched'[d] = {<<n, alive[n].born>> : n \in {m \in plan[d].pids : IsAlive(m)}}
      /\ \A e \in Desks \ {d} : watched'[e] = watched[e] /\ stage'[e] = stage[e]
  BY <1>1 DEF RowInv
<1>3. Apart(d)
  BY <1>1, <1>2, QuietMachine, Zenon DEF Apart, SameDesk, RowInv
<1>4. Desk(d)
  BY DEF RowInv
<1>5. ASSUME NEW w \in plan[d].of, plan[d].again, StillRuns(w) PROVE <<w[1], w[2]>> \in watched'[d]
  <2>1. w[1] \in plan[d].pids /\ w[1] \in ProcessIds /\ w[2] \in 1..lastBorn
    BY <1>4, <1>5, Zenon DEF Desk, PlanSound
  <2>2. alive[w[1]].born = w[2]
    BY <1>5 DEF StillRuns
  <2>3. IsAlive(w[1])
    BY <2>1, <2>2 DEF IsAlive, Gone, RowInv
  <2> QED
    BY <1>2, <2>1, <2>2, <2>3
<1>6. stage'[d] \in {"idle", "asks", "signals", "waits", "finishes"} /\ todo'[d] = {}
      /\ stage'[d] # "idle" /\ stage'[d] # "finishes"
  BY <1>1, <1>2
<1>7. Desk(d)'
  BY <1>1, <1>2, <1>4, <1>5, <1>6, Zenon DEF Desk, PlanSound, StillRuns
<1> QED
  BY <1>3, <1>7, ApartKeeps

\* The end of a wait: what was waited for is gone, or something could not be stopped.
LEMMA WaitKeeps == ASSUME RowInv, NEW d \in Desks, Wait(d) PROVE RowInv'
<1>1. /\ stage[d] = "waits" /\ stage' = [stage EXCEPT ![d] = "finishes"]
      /\ watched' = [watched EXCEPT ![d] = {}]
      /\ failed' = [failed EXCEPT ![d] = @ \/ \E w \in watched[d] : StillRuns(w)]
      /\ UNCHANGED <<alive, lastBorn, service, plan, todo>>
  BY Zenon DEF Wait, Settled
<1>2. DOMAIN watched' = Desks /\ DOMAIN stage' = Desks /\ stage'[d] = "finishes"
      /\ \A e \in Desks \ {d} : watched'[e] = watched[e] /\ stage'[e] = stage[e]
  BY <1>1 DEF RowInv
<1>3. /\ failed' \in [Desks -> BOOLEAN] /\ \A e \in Desks \ {d} : failed'[e] = failed[e]
      /\ failed'[d] \/ \A w \in watched[d] : ~StillRuns(w)
  <2>1. PICK value \in BOOLEAN : value <=> (failed[d] \/ \E w \in watched[d] : StillRuns(w))
    OBVIOUS
  <2>2. failed' = [failed EXCEPT ![d] = value]
    BY <1>1, <2>1 DEF RowInv
  <2>3. failed'[d] = value /\ failed' \in [Desks -> BOOLEAN]
        /\ \A e \in Desks \ {d} : failed'[e] = failed[e]
    BY <2>2 DEF RowInv
  <2> QED
    BY <2>1, <2>3, Zenon
<1>4. Apart(d)
  BY <1>1, <1>2, <1>3, QuietMachine, Zenon DEF Apart, SameDesk, RowInv
<1>5. Desk(d)
  BY DEF RowInv
<1>6. ASSUME NEW w \in plan[d].of, plan[d].again, ~failed'[d] PROVE ~StillRuns(w)
  <2>1. \A x \in watched[d] : ~StillRuns(x)
    BY <1>3, <1>6
  <2>2. StillRuns(w) => <<w[1], w[2]>> \in watched[d]
    BY <1>1, <1>5, <1>6, Zenon DEF Desk
  <2>3. StillRuns(w) => StillRuns(<<w[1], w[2]>>)
    BY DEF StillRuns
  <2> QED
    BY <2>1, <2>2, <2>3
<1>7. stage'[d] \in {"idle", "asks", "signals", "waits", "finishes"} /\ todo'[d] = {}
      /\ stage'[d] # "idle" /\ stage'[d] # "waits"
  BY <1>1, <1>2, <1>5 DEF Desk
<1>8. Desk(d)'
  BY <1>1, <1>2, <1>5, <1>6, <1>7, Zenon DEF Desk, PlanSound, StillRuns
<1> QED
  BY <1>4, <1>8, ApartKeeps

\* The end of an action on the container.
LEMMA FinishContainerKeeps == ASSUME RowInv, NEW d \in Desks, FinishContainer(d) PROVE RowInv'
<1>1. /\ stage[d] = "finishes" /\ stage' = [stage EXCEPT ![d] = "idle"]
      /\ plan' = [plan EXCEPT ![d] = NoPlan] /\ failed' = [failed EXCEPT ![d] = FALSE]
      /\ UNCHANGED <<alive, lastBorn, todo, watched>>
  BY Zenon DEF FinishContainer, Done
<1>2. service' \in RowContainers
  BY DEF FinishContainer, RowContainers, RowInv
<1>3. DOMAIN plan' = Desks /\ DOMAIN stage' = Desks /\ failed' \in [Desks -> BOOLEAN]
      /\ \A e \in Desks \ {d} : plan'[e] = plan[e] /\ stage'[e] = stage[e] /\ failed'[e] = failed[e]
  BY <1>1 DEF RowInv
<1>4. Apart(d)
  BY <1>1, <1>2, <1>3, QuietMachine, Zenon DEF Apart, SameDesk, RowInv
<1>5. todo[d] = {} /\ lastBorn' \in lastBorn..LastBorn
  BY <1>1 DEF RowInv, Desk
<1>6. Desk(d)'
  BY <1>1, <1>2, <1>3, <1>5, IdleDesk
<1> QED
  BY <1>4, <1>6, ApartKeeps

\* A process that is born is younger than all there were.
LEMMA BirthIs ==
  ASSUME RowInv, NEW n \in ProcessIds, NEW name \in ProcessNames \cup {"none", "app"}, NEW dated \in BOOLEAN,
         lastBorn < LastBorn, lastBorn' = lastBorn + 1,
         alive' = [alive EXCEPT ![n] = [born |-> lastBorn', name |-> name, dead |-> FALSE, dated |-> dated]]
  PROVE  Machine
<1>1. lastBorn \in Nat /\ lastBorn' \in lastBorn..LastBorn
  BY RowAssumption DEF RowInv
<1>2. PICK p : p = [born |-> lastBorn', name |-> name, dead |-> FALSE, dated |-> dated]
  OBVIOUS
<1>3. p \in [born : 0..lastBorn', name : ProcessNames \cup {"none", "app"}, dead : BOOLEAN, dated : BOOLEAN] /\ p.born = lastBorn + 1
  BY <1>1, <1>2
<1>4. \A k \in ProcessIds : alive'[k] = IF k = n THEN p ELSE alive[k]
  BY <1>2 DEF RowInv, Living
<1>5. ASSUME NEW k \in ProcessIds
      PROVE  alive[k] \in [born : 0..lastBorn', name : ProcessNames \cup {"none", "app"}, dead : BOOLEAN, dated : BOOLEAN]
  BY <1>1 DEF RowInv, Living
<1>6. alive' \in [ProcessIds -> [born : 0..lastBorn', name : ProcessNames \cup {"none", "app"}, dead : BOOLEAN, dated : BOOLEAN]]
  <2>1. alive' = [k \in ProcessIds |-> IF k = n THEN p ELSE alive[k]]
    BY <1>2 DEF RowInv, Living
  <2> QED
    BY <1>3, <1>5, <2>1
<1>7. \A k \in ProcessIds : alive'[k].born = 0 => alive'[k] = Gone
  BY <1>1, <1>3, <1>4 DEF RowInv, Living
<1>8. \A k \in ProcessIds : alive'[k].born = alive[k].born \/ alive'[k].born > lastBorn
  BY <1>1, <1>3, <1>4
<1> QED
  BY <1>1, <1>6, <1>7, <1>8, Zenon DEF Machine, Living

\* The end of an action on processes, which may start the command again.
LEMMA FinishRestartKeeps == ASSUME RowInv, NEW d \in Desks, FinishRestart(d) PROVE RowInv'
<1>1. /\ stage[d] = "finishes" /\ stage' = [stage EXCEPT ![d] = "idle"]
      /\ plan' = [plan EXCEPT ![d] = NoPlan] /\ failed' = [failed EXCEPT ![d] = FALSE]
      /\ UNCHANGED <<service, todo, watched>>
  BY Zenon DEF FinishRestart, Done
<1>2. Machine
  <2>1. CASE UNCHANGED <<alive, lastBorn>>
    BY <2>1, QuietMachine
  <2>2. CASE \E n \in ProcessIds :
               /\ lastBorn < LastBorn /\ lastBorn' = lastBorn + 1
               /\ alive' = [alive EXCEPT ![n] = [born |-> lastBorn', name |-> "app", dead |-> FALSE, dated |-> TRUE]]
    <3>1. "app" \in ProcessNames \cup {"none", "app"}
      OBVIOUS
    <3> QED
      BY <2>2, <3>1, BirthIs
  <2> QED
    BY <2>1, <2>2, Zenon DEF FinishRestart
<1>3. DOMAIN plan' = Desks /\ DOMAIN stage' = Desks /\ failed' \in [Desks -> BOOLEAN]
      /\ \A e \in Desks \ {d} : plan'[e] = plan[e] /\ stage'[e] = stage[e] /\ failed'[e] = failed[e]
  BY <1>1 DEF RowInv
<1>4. Apart(d)
  BY <1>1, <1>2, <1>3, Zenon DEF Apart, SameDesk, RowInv
<1>5. todo[d] = {} /\ lastBorn' \in lastBorn..LastBorn
  BY <1>1, <1>2 DEF RowInv, Desk, Machine
<1>6. Desk(d)'
  BY <1>1, <1>3, <1>5, IdleDesk DEF RowInv
<1> QED
  BY <1>4, <1>6, ApartKeeps

\* The machine alone.
LEMMA MachineAloneKeeps ==
  ASSUME RowInv, Machine, UNCHANGED <<service, deskVars>>
  PROVE  RowInv'
<1>1. \A d \in Desks : SameDesk(d)
  BY Zenon DEF deskVars, SameDesk
<1>2. \A d \in Desks : Desk(d)'
  BY <1>1, MachineKeeps
<1>3. lastBorn' \in 0..LastBorn
  BY DEF Machine, RowInv
<1> QED
  BY <1>2, <1>3, Zenon DEF RowInv, Machine, deskVars

\* A process ends by itself, or nobody reaps it.
LEMMA StopsKeeps == ASSUME RowInv, NEW n \in ProcessIds, Stops(n) PROVE RowInv'
<1>1. /\ lastBorn' = lastBorn /\ UNCHANGED <<service, deskVars>>
      /\ \/ alive' = [alive EXCEPT ![n] = Gone]
         \/ alive' = [alive EXCEPT ![n].dead = TRUE]
      /\ alive[n] # Gone
  BY Zenon DEF Stops, IsAlive
<1>2. lastBorn \in Nat /\ lastBorn' \in lastBorn..LastBorn
  BY <1>1 DEF RowInv
<1>3. PICK p : alive' = [alive EXCEPT ![n] = p] /\ (p = Gone \/ p = [alive[n] EXCEPT !.dead = TRUE])
  BY <1>1
<1>4. alive[n] \in [born : 0..lastBorn, name : ProcessNames \cup {"none", "app"}, dead : BOOLEAN, dated : BOOLEAN]
      /\ alive[n].born # 0
  BY <1>1 DEF RowInv, Living
<1>5. /\ p \in [born : 0..lastBorn, name : ProcessNames \cup {"none", "app"}, dead : BOOLEAN, dated : BOOLEAN]
      /\ p.born = 0 => p = Gone
      /\ p.born = 0 \/ p.born = alive[n].born
  <2>1. CASE p = Gone
    BY <2>1, <1>2 DEF Gone
  <2>2. CASE p = [alive[n] EXCEPT !.dead = TRUE]
    BY <2>2, <1>2, <1>4
  <2> QED
    BY <1>3, <2>1, <2>2
<1>6. \A k \in ProcessIds : alive'[k] = IF k = n THEN p ELSE alive[k]
  BY <1>3 DEF RowInv, Living
<1>7. alive' \in [ProcessIds -> [born : 0..lastBorn, name : ProcessNames \cup {"none", "app"}, dead : BOOLEAN, dated : BOOLEAN]]
  BY <1>3, <1>5 DEF RowInv, Living
<1>8. \A k \in ProcessIds : alive'[k].born = 0 => alive'[k] = Gone
  BY <1>5, <1>6, Zenon DEF RowInv, Living
<1>9. \A k \in ProcessIds : alive'[k].born = alive[k].born \/ alive'[k].born = 0
  BY <1>5, <1>6
<1>10. Machine
  BY <1>1, <1>2, <1>7, <1>8, <1>9, Zenon DEF Machine, Living
<1> QED
  BY <1>1, <1>10, MachineAloneKeeps

\* A process that lirts did not start.
LEMMA StartsKeeps ==
  ASSUME RowInv, NEW n \in ProcessIds, NEW name \in ProcessNames, NEW dated \in BOOLEAN,
         Starts(n, name, dated)
  PROVE  RowInv'
<1>1. Machine
  BY BirthIs DEF Starts
<1>2. UNCHANGED <<service, deskVars>>
  BY Zenon DEF Starts
<1> QED
  BY <1>1, <1>2, MachineAloneKeeps

\* At the start nobody asks.
LEMMA RowStarts == RowInit => RowInv
<1> SUFFICES ASSUME RowInit PROVE RowInv
  OBVIOUS
<1>1. Living(0) /\ lastBorn = 0 /\ 0 \in 0..LastBorn
  BY RowAssumption DEF RowInit, Living, Gone
<1>2. service \in RowContainers
  BY DEF RowInit, RowContainers
<1>3. ASSUME NEW d \in Desks PROVE Desk(d)
  <2>1. plan[d] = NoPlan /\ stage[d] = "idle" /\ todo[d] = {}
    BY DEF RowInit
  <2>2. NoPlan.pids = {} /\ NoPlan.again = FALSE /\ NoPlan.of = {}
    BY DEF NoPlan
  <2>3. PlanSound(NoPlan, lastBorn)
    BY <2>2, NoProcesses
  <2>4. stage[d] \in {"idle", "asks", "signals", "waits", "finishes"}
        /\ stage[d] # "waits" /\ stage[d] # "finishes" /\ todo[d] \in SUBSET plan[d].pids
    BY <2>1, <2>2
  <2> QED
    BY <2>1, <2>3, <2>4, Zenon DEF Desk
<1>4. DOMAIN plan = Desks /\ DOMAIN stage = Desks /\ DOMAIN todo = Desks /\ DOMAIN watched = Desks
  /\ failed \in [Desks -> BOOLEAN]
  BY DEF RowInit
<1> QED
  BY <1>1, <1>2, <1>3, <1>4, Zenon DEF RowInv

\* Every step keeps it.
LEMMA RowStepKeeps == RowInv /\ [RowNext]_rowVars => RowInv'
<1> SUFFICES ASSUME RowInv, [RowNext]_rowVars PROVE RowInv'
  OBVIOUS
<1>1. CASE UNCHANGED rowVars
  <2>1. UNCHANGED <<alive, lastBorn>> /\ UNCHANGED <<service, deskVars>>
    BY <1>1, Zenon DEF rowVars
  <2> QED
    BY <2>1, QuietMachine, MachineAloneKeeps, Zenon
<1>2. CASE RowNext
  BY <1>2, StopsKeeps, StartsKeeps, AskKeeps, CancelKeeps, ConfirmKeeps, WatchKeeps, WaitKeeps,
     FinishContainerKeeps, FinishRestartKeeps, SignalKeeps, Zenon DEF RowNext
<1> QED
  BY <1>1, <1>2

\* The plans of every desk stay sound, whatever the machine and the other desks do meanwhile.
THEOREM RowInductive == RowSpec => []RowInv
  BY RowStarts, RowStepKeeps, PTL DEF RowSpec

\* The rows that are asked about ...
THEOREM RowTypeCorrect == RowSpec => []RowTypeOK
<1>1. RowInv => RowTypeOK
  <2> SUFFICES ASSUME RowInv PROVE RowTypeOK
    OBVIOUS
  <2>1. \A n \in ProcessIds : alive[n].born \in 0..LastBorn
    BY RowAssumption DEF RowInv, Living
  <2>2. ASSUME NEW d \in Desks
        PROVE  /\ stage[d] \in {"idle", "asks", "signals", "waits", "finishes"}
               /\ todo[d] \subseteq plan[d].pids /\ plan[d].pids \subseteq ProcessIds
               /\ stage[d] = "idle" => plan[d] = NoPlan
    BY Zenon DEF RowInv, Desk, PlanSound
  <2> QED
    BY <2>1, <2>2, Zenon DEF RowTypeOK, RowInv
<1> QED
  BY <1>1, RowInductive, PTL

\* The fix for a port that is published twice ends processes of the row and spares the forwarder
\* that holds the port for a container, whoever starts and stops between the question and the
\* signals (insights_ports.py).
THEOREM ForwarderIsSpared == RowSpec => []FixSparesForwarder
<1>1. RowInv => FixSparesForwarder
  BY Zenon DEF RowInv, Desk, PlanSound, Spares, FixSparesForwarder
<1> QED
  BY <1>1, RowInductive, PTL

\* A step that starts a command again finds all that was waited for gone.
LEMMA RestartStep ==
  RowInv /\ [RowNext]_rowVars =>
    [\A d \in Desks : stage[d] = "finishes" /\ plan[d].again /\ lastBorn' > lastBorn /\ stage'[d] = "idle" =>
       \A w \in plan[d].of : ~StillRuns(w)]_rowVars
<1> SUFFICES ASSUME RowInv, RowNext, NEW d \in Desks, stage[d] = "finishes", plan[d].again,
                    lastBorn' > lastBorn, stage'[d] = "idle"
             PROVE  \A w \in plan[d].of : ~StillRuns(w)
  BY Zenon
<1>1. lastBorn \in Nat /\ lastBorn' # lastBorn
  BY DEF RowInv
<1>2. \E e \in Desks : FinishRestart(e)
  <2>1. \A n \in ProcessIds : /\ ~Stops(n)
                                 /\ \A name \in ProcessNames, dated \in BOOLEAN : ~Starts(n, name, dated)
    BY <1>1, Zenon DEF Stops, Starts, deskVars
  <2> QED
    BY <1>1, <2>1, Zenon DEF RowNext, AskRow, Cancel, Confirm, Watch, Wait, FinishContainer, Signal
<1>3. PICK e \in Desks : FinishRestart(e)
  BY <1>2
<1>4. e = d
  <2>1. stage' = [stage EXCEPT ![e] = "idle"]
    BY <1>3, Zenon DEF FinishRestart, Done
  <2> QED
    BY <2>1 DEF RowInv
<1>5. ~failed[d]
  BY <1>1, <1>3, <1>4, Zenon DEF FinishRestart
<1> QED
  BY <1>5, Zenon DEF RowInv, Desk

\* A command is started again only after every process the question named is gone, also when the
\* number of one was taken over meanwhile (actions.py).
THEOREM RestartsFollowTheEnd == RowSpec => RestartAfterGone
  BY RowInductive, RestartStep, PTL DEF RowSpec, RestartAfterGone

-----------------------------------------------------------------------------
(* Actions on pods (module KubeActions). *)

\* Each box and each kubectl is for the pod it was shown with; an open screen alone has a
\* cursor, and waits for a fetch.
Contexts == Clusters \cup {"none"}

Deeds == {d \in [deed : {"none", "delete", "rollout", "forward", "look"}, pod : PodIds \cup {0},
                 shown : PodIds \cup {0}, of : Contexts, by : {"none", "screen", "command"}] :
            d.pod = d.shown}

PodsInv ==
  /\ chosen \in Contexts /\ current \in Clusters
  /\ listing \in [of : Contexts, pods : SUBSET PodIds, available : BOOLEAN]
  /\ podCursor \in 0..Cardinality(listing.pods)
  /\ box \in Deeds /\ inHand \in Deeds
  /\ screenOpen \in BOOLEAN /\ reloading \in BOOLEAN /\ elsewhere \in BOOLEAN
  /\ ~screenOpen => podCursor = 0 /\ ~reloading

\* To do nothing is a deed on no pod.
LEMMA NoDeedIsOne == NoDeed \in Deeds
  BY DEF NoDeed, Deeds, Contexts

\* A fetch is of the context in use.
LEMMA ListingsAre ==
  ASSUME chosen \in Contexts, current \in Clusters, NEW state \in Listings
  PROVE  state \in [of : Contexts, pods : SUBSET PodIds, available : BOOLEAN]
<1>1. NoListing \in [of : Contexts, pods : SUBSET PodIds, available : BOOLEAN]
  BY DEF NoListing, Contexts
<1>2. Context \in Contexts
  BY DEF Context, Contexts
<1>3. CASE state \in [of : {Context}, pods : SUBSET PodIds, available : BOOLEAN]
  <2>1. PICK of \in {Context}, pod \in SUBSET PodIds, there \in BOOLEAN :
          state = [of |-> of, pods |-> pod, available |-> there]
    BY <1>3
  <2> QED
    BY <1>2, <2>1
<1> QED
  BY <1>1, <1>3, Zenon DEF Listings

\* The pods of a listing are finitely many.
LEMMA PodsOf ==
  ASSUME NEW ps \in SUBSET PodIds
  PROVE  IsFiniteSet(ps) /\ Cardinality(ps) \in Nat /\ (ps # {} => 1 \in 0..Cardinality(ps))
<1>1. IsFiniteSet(ps) /\ Cardinality(ps) \in Nat
  BY KubeActionsAssumption, FS_Subset, FS_CardinalityType
<1>2. ps # {} => Cardinality(ps) # 0
  BY <1>1, FS_EmptySet
<1> QED
  BY <1>1, <1>2

\* The row under the cursor is a pod of the listing.
LEMMA CurrentPodIs ==
  ASSUME PodsInv, CurrentPod # 0
  PROVE  CurrentPod \in PodIds
<1>1. PICK ps \in SUBSET PodIds : ps = listing.pods
  BY DEF PodsInv
<1>2. IsFiniteSet(ps) /\ ps \in SUBSET (Nat \ {0})
  BY <1>1, PodsOf, KubeActionsAssumption
<1>3. podCursor \in 1..Len(InOrder(ps)) /\ CurrentPod = InOrder(ps)[podCursor]
  <2>1. podCursor \in 1..Cardinality(ps)
    BY <1>1, <1>2, PodsOf DEF CurrentPod, PodsInv
  <2> QED
    BY <1>1, <1>2, <2>1, InOrderLength DEF CurrentPod
<1>4. CurrentPod \in ps
  BY <1>2, <1>3, InOrderIs
<1> QED
  BY <1>4

\* A deed is on the pod that its question showed.
LEMMA DeedIs ==
  ASSUME NEW deed \in {"none", "delete", "rollout", "forward", "look"}, NEW p \in PodIds,
         NEW of \in Contexts, NEW by \in {"none", "screen", "command"}
  PROVE  DeedOn(deed, p, of, by) \in Deeds
  BY DEF DeedOn, Deeds

\* Drawing a listing puts the cursor on one of its rows, or on none.
LEMMA RenderIs ==
  ASSUME NEW state \in [of : Contexts, pods : SUBSET PodIds, available : BOOLEAN], Render(state)
  PROVE  listing' \in [of : Contexts, pods : SUBSET PodIds, available : BOOLEAN] /\ podCursor' \in 0..Cardinality(listing'.pods)
<1>1. PICK ps \in SUBSET PodIds : ps = state.pods
  OBVIOUS
<1>2. listing' = state /\ podCursor' = IF ps = {} THEN 0 ELSE 1
  BY <1>1 DEF Render
<1> QED
  BY <1>1, <1>2, PodsOf

\* At the start no question is open.
LEMMA PodsStart == KubeActionsInit => PodsInv
<1> SUFFICES ASSUME KubeActionsInit PROVE PodsInv
  OBVIOUS
<1>1. listing \in [of : Contexts, pods : SUBSET PodIds, available : BOOLEAN] /\ podCursor \in 0..Cardinality(listing.pods)
  BY FS_EmptySet DEF KubeActionsInit, NoListing, Contexts
<1>2. screenOpen \in BOOLEAN /\ reloading \in BOOLEAN /\ elsewhere \in BOOLEAN /\ ~reloading
  BY Zenon DEF KubeActionsInit
<1> QED
  BY <1>1, <1>2, NoDeedIsOne, Zenon DEF KubeActionsInit, PodsInv, Contexts

\* A step that leaves the rows and their cursor alone.
LEMMA RowsStay ==
  ASSUME PodsInv, UNCHANGED <<chosen, current, listing, podCursor, screenOpen>>,
         box' \in Deeds, inHand' \in Deeds, elsewhere' \in BOOLEAN, reloading' \in BOOLEAN,
         reloading' => reloading \/ screenOpen
  PROVE  PodsInv'
  BY Zenon DEF PodsInv

\* What the history says of a kubectl is a truth value.
LEMMA KubectlIs == ASSUME NEW d, Kubectl(d) PROVE elsewhere' \in BOOLEAN
  BY Zenon DEF Kubectl

\* Every step keeps it.
LEMMA PodsStep == PodsInv /\ [KubeActionsNext]_kubeActionVars => PodsInv'
<1> SUFFICES ASSUME PodsInv, [KubeActionsNext]_kubeActionVars PROVE PodsInv'
  OBVIOUS
<1>0. /\ box \in Deeds /\ inHand \in Deeds /\ listing \in [of : Contexts, pods : SUBSET PodIds, available : BOOLEAN]
      /\ elsewhere \in BOOLEAN /\ reloading \in BOOLEAN /\ chosen \in Contexts /\ current \in Clusters
  BY Zenon DEF PodsInv
<1>1. CASE OpenScreen
  <2>1. listing' \in [of : Contexts, pods : SUBSET PodIds, available : BOOLEAN] /\ podCursor' \in 0..Cardinality(listing'.pods)
    BY <1>0, <1>1, RenderIs, Zenon DEF OpenScreen
  <2>2. reloading' \in BOOLEAN /\ screenOpen' \in BOOLEAN /\ screenOpen'
    BY <1>1, Zenon DEF OpenScreen
  <2> QED
    BY <1>1, <2>1, <2>2, Zenon DEF OpenScreen, PodsInv
<1>2. CASE CloseScreen
  <2>1. podCursor' = 0 /\ 0 \in 0..Cardinality(listing.pods)
    BY <1>0, <1>2, PodsOf DEF CloseScreen
  <2> QED
    BY <1>2, <2>1, Zenon DEF CloseScreen, PodsInv
<1>3. CASE MovePodCursor
  <2>1. podCursor' \in 0..Cardinality(listing.pods)
    BY <1>0, <1>3, PodsOf DEF MovePodCursor
  <2>2. screenOpen
    BY <1>3, Zenon DEF MovePodCursor, AtRows
  <2> QED
    BY <1>3, <2>1, <2>2, Zenon DEF MovePodCursor, PodsInv
<1>4. CASE ReloadKey
  <2>1. screenOpen /\ reloading' \in BOOLEAN
    BY <1>4, Zenon DEF ReloadKey, AtRows
  <2> QED
    BY <1>0, <1>4, <2>1, RowsStay, Zenon DEF ReloadKey
<1>5. CASE ReloadEnds
  <2>1. PICK state \in Listings : Render(state)
    BY <1>5, Zenon DEF ReloadEnds
  <2>2. listing' \in [of : Contexts, pods : SUBSET PodIds, available : BOOLEAN] /\ podCursor' \in 0..Cardinality(listing'.pods)
    BY <1>0, <2>1, ListingsAre, RenderIs
  <2>3. screenOpen /\ reloading' \in BOOLEAN
    BY <1>5, Zenon DEF ReloadEnds, PodsInv
  <2> QED
    BY <1>5, <2>2, <2>3, Zenon DEF ReloadEnds, PodsInv
<1>6. CASE LoopFetch
  <2>1. listing' \in [of : Contexts, pods : SUBSET PodIds, available : BOOLEAN]
    BY <1>0, <1>6, ListingsAre, Zenon DEF LoopFetch
  <2>2. podCursor' = 0 /\ ~reloading
    BY <1>6, Zenon DEF LoopFetch, PodsInv
  <2>3. podCursor' \in 0..Cardinality(listing'.pods)
    BY <2>1, <2>2, PodsOf
  <2> QED
    BY <1>6, <2>1, <2>2, <2>3, Zenon DEF LoopFetch, PodsInv
<1>7. ASSUME NEW deed \in {"delete", "rollout", "forward"}, AskFor(deed) PROVE PodsInv'
  <2>1. CurrentPod \in PodIds
    BY <1>7, CurrentPodIs, Zenon DEF AskFor
  <2>2. listing.of \in Contexts
    BY <1>0
  <2>3. box' \in Deeds
    BY <1>7, <2>1, <2>2, DeedIs DEF AskFor
  <2> QED
    BY <1>0, <1>7, <2>3, RowsStay, Zenon DEF AskFor
<1>8. ASSUME NEW yes \in BOOLEAN, AnswerBox(yes) PROVE PodsInv'
  <2>1. inHand' \in Deeds /\ box' \in Deeds
    BY <1>0, <1>8, NoDeedIsOne, Zenon DEF AnswerBox, Confirmed
  <2> QED
    BY <1>0, <1>8, <2>1, RowsStay, Zenon DEF AnswerBox
<1>9. ASSUME NEW well \in BOOLEAN, RunKubectl(well) PROVE PodsInv'
  <2>1. reloading' \in BOOLEAN /\ (reloading' => reloading \/ screenOpen)
    BY <1>9, Zenon DEF RunKubectl
  <2> QED
    BY <1>0, <1>9, <2>1, NoDeedIsOne, KubectlIs, RowsStay, Zenon DEF RunKubectl
<1>10. CASE LookAtOnce
  BY <1>0, <1>10, KubectlIs, RowsStay, Zenon DEF LookAtOnce
<1>11. CASE CommandEnds
  <2>1. elsewhere' \in BOOLEAN
    BY <1>0, <1>11, KubectlIs, Zenon DEF CommandEnds
  <2> QED
    BY <1>0, <1>11, <2>1, NoDeedIsOne, RowsStay, Zenon DEF CommandEnds
<1>12. ASSUME NEW typed \in TypedNames, LookCommand(typed) PROVE PodsInv'
  <2>1. PICK state \in Listings, p \in PodIds : inHand' = DeedOn("look", p, state.of, "command")
    <3>1. PICK state \in Listings : \E p \in MatchPod(state.pods, typed) :
                                       inHand' = DeedOn("look", p, state.of, "command")
      BY <1>12, Zenon DEF LookCommand
    <3>2. MatchPod(state.pods, typed) \subseteq PodIds
      BY <1>0, <3>1, ListingsAre, KubeActionsAssumption DEF MatchPod
    <3> QED
      BY <3>1, <3>2
  <2>2. state.of \in Contexts
    BY <1>0, ListingsAre
  <2>3. inHand' \in Deeds
    BY <2>1, <2>2, DeedIs
  <2> QED
    BY <1>0, <1>12, <2>3, RowsStay, Zenon DEF LookCommand
<1>13. ASSUME NEW p \in OwnedPods, AskRestart(p) PROVE PodsInv'
  <2>1. p \in PodIds /\ Context \in Contexts
    BY <1>0, KubeActionsAssumption DEF Context, Contexts
  <2>2. inHand' \in Deeds
    BY <1>13, <2>1, DeedIs DEF AskRestart
  <2> QED
    BY <1>0, <1>13, <2>2, RowsStay, Zenon DEF AskRestart
<1>14. CASE UseContext
  BY <1>14, Zenon DEF UseContext, PodsInv
<1>15. CASE UNCHANGED kubeActionVars
  BY <1>15, Zenon DEF kubeActionVars, PodsInv
<1> QED
  BY <1>1, <1>2, <1>3, <1>4, <1>5, <1>6, <1>7, <1>8, <1>9, <1>10, <1>11, <1>12, <1>13, <1>14, <1>15,
     Zenon DEF KubeActionsNext

\* What a box, a prompt and a kubectl act on is the pod that was shown.
THEOREM PodsInductive == KubeActionsSpec => []PodsInv
  BY PodsStart, PodsStep, PTL DEF KubeActionsSpec

\* The Kubernetes screen has its types: the cursor is on a row of the listing that is drawn, or
\* the listing is empty (tui/screens/kube.py).
THEOREM PodsTypeCorrect == KubeActionsSpec => []KubeActionsTypeOK
<1>1. PodsInv => KubeActionsTypeOK
  BY DEF PodsInv, KubeActionsTypeOK, Deeds, Contexts
<1> QED
  BY <1>1, PodsInductive, PTL

\* What kubectl is run on is the pod that its box named.
THEOREM NamedPodTouched == KubeActionsSpec => []NamedPodIsTouched
<1>1. PodsInv => NamedPodIsTouched
  BY DEF PodsInv, NamedPodIsTouched, Deeds
<1> QED
  BY <1>1, PodsInductive, PTL

-----------------------------------------------------------------------------
(* Actions on compose projects (module StackActions). *)

\* A box names containers of one project, and the job that follows has gone through some of
\* them and has the rest before it.
Question ==
  \/ asked = NotAsked
  \/ /\ asked \in [action : {"stop", "restart"}, stack : Shelves, named : SUBSET Containers]
     /\ \A c \in asked.named : Shelf(c) = asked.stack

Works(j) ==
  /\ DOMAIN j = DOMAIN NoJob
  /\ j.todo \in SUBSET Containers
  /\ j.stack # "-" =>
       /\ j.named \subseteq j.todo \cup j.reached
       /\ \A c \in j.todo \cup j.reached : Shelf(c) = j.stack

StackInv ==
  /\ upBoxes \in SUBSET Containers /\ knownBoxes \in SUBSET Containers
  /\ shownBoxes \in SUBSET Containers /\ stacksOpen \in BOOLEAN
  /\ Question /\ Works(job)

\* The action is given the containers of a project that its box showed.
LEMMA JobWorks ==
  ASSUME NEW these \in SUBSET Containers, NEW named \in SUBSET these, NEW stack \in Shelves,
         \A c \in named : Shelf(c) = stack, NEW action,
         NEW j, j = [action |-> action, stack |-> stack, named |-> named,
                     todo |-> StackContainers(these, stack), reached |-> {}]
  PROVE  Works(j)
<1>1. DOMAIN j = DOMAIN NoJob
  BY DEF NoJob
<1>2. j.todo = StackContainers(these, stack) /\ j.reached = {} /\ j.named = named /\ j.stack = stack
  OBVIOUS
<1>3. ASSUME NEW c \in Containers PROVE Shelf(c) # ""
  BY DEF Shelf
<1>4. stack # ""
  BY <1>3 DEF Shelves
<1>5. \A c \in StackContainers(these, stack) : Shelf(c) = stack
  BY <1>4 DEF StackContainers, Shelf
<1>6. stack # "-" => named \subseteq StackContainers(these, stack)
  BY DEF StackContainers, Shelf
<1>7. StackContainers(these, stack) \in SUBSET Containers
  BY DEF StackContainers
<1> QED
  BY <1>1, <1>2, <1>5, <1>6, <1>7 DEF Works

\* No job has nothing to do.
LEMMA NoJobWorks == Works(NoJob)
  BY DEF Works, NoJob

\* At the start no question is open.
LEMMA StackStarts == StackInit => StackInv
<1> SUFFICES ASSUME StackInit PROVE StackInv
  OBVIOUS
<1>1. stacksOpen \in BOOLEAN
  BY Zenon DEF StackInit
<1> QED
  BY <1>1, NoJobWorks DEF StackInit, StackInv, Question

\* Every step keeps it.
LEMMA StackStep == StackInv /\ [StackNext]_stackVars => StackInv'
<1> SUFFICES ASSUME StackInv, [StackNext]_stackVars PROVE StackInv'
  OBVIOUS
<1>0. /\ upBoxes \in SUBSET Containers /\ knownBoxes \in SUBSET Containers
      /\ shownBoxes \in SUBSET Containers
  BY Zenon DEF StackInv
<1>1. CASE KnowBoxes
  BY <1>1, Zenon DEF KnowBoxes, StackInv, Question
<1>2. CASE DrawStacks
  <2>1. stacksOpen' \in BOOLEAN
    BY <1>2, Zenon DEF DrawStacks
  <2> QED
    BY <1>2, <2>1, Zenon DEF DrawStacks, StackInv, Question
<1>3. CASE CloseStacks
  <2>1. stacksOpen' \in BOOLEAN /\ shownBoxes' \in SUBSET Containers
    BY <1>3, Zenon DEF CloseStacks
  <2> QED
    BY <1>3, <2>1, Zenon DEF CloseStacks, StackInv, Question
<1>4. CASE ReportStack
  <2>1. shownBoxes' \in SUBSET Containers /\ job' = NoJob
    BY <1>0, <1>4, Zenon DEF ReportStack
  <2> QED
    BY <1>4, <2>1, NoJobWorks, Zenon DEF ReportStack, StackInv, Question
<1>5. ASSUME NEW action \in {"stop", "restart"}, NEW stack \in Shelves, AskStack(action, stack)
      PROVE  StackInv'
  <2>1. PICK named : named = OnShelf(shownBoxes, stack)
    OBVIOUS
  <2>2. named \in SUBSET Containers /\ \A c \in named : Shelf(c) = stack
    BY <1>0, <2>1 DEF OnShelf
  <2>3. asked' = [action |-> action, stack |-> stack, named |-> named]
    BY <1>5, <2>1, Zenon DEF AskStack
  <2>4. /\ asked' \in [action : {"stop", "restart"}, stack : Shelves, named : SUBSET Containers]
        /\ \A c \in asked'.named : Shelf(c) = asked'.stack
    BY <2>2, <2>3
  <2>5. UNCHANGED <<upBoxes, knownBoxes, stacksOpen, shownBoxes, job>>
    BY <1>5, Zenon DEF AskStack
  <2> QED
    BY <2>4, <2>5, Zenon DEF StackInv, Question
<1>6. ASSUME NEW action \in {"stop", "restart"}, NEW stack \in Shelves, StackCommand(action, stack)
      PROVE  StackInv'
  <2>1. PICK named : named = OnShelf(upBoxes, stack)
    OBVIOUS
  <2>2. named \in SUBSET upBoxes /\ \A c \in named : Shelf(c) = stack
    BY <2>1 DEF OnShelf
  <2>3. Works(job')
    BY <1>0, <1>6, <2>1, <2>2, JobWorks DEF StackCommand
  <2> QED
    BY <1>6, <2>3, Zenon DEF StackCommand, StackInv, Question
<1>7. ASSUME NEW yes \in BOOLEAN, AnswerStack(yes) PROVE StackInv'
  <2>1. asked \in [action : {"stop", "restart"}, stack : Shelves, named : SUBSET Containers]
        /\ \A c \in asked.named : Shelf(c) = asked.stack
    BY <1>7, Zenon DEF AnswerStack, StackInv, Question
  <2>2. PICK named : named = asked.named \cap knownBoxes
    OBVIOUS
  <2>3. Works(job')
    <3>1. CASE yes /\ job = NoJob
      <4>1. job' = [action |-> asked.action, stack |-> asked.stack, named |-> named,
                    todo |-> StackContainers(knownBoxes, asked.stack), reached |-> {}]
        BY <1>7, <2>2, <3>1, Zenon DEF AnswerStack
      <4>2. named \in SUBSET knownBoxes /\ asked.stack \in Shelves /\ \A c \in named : Shelf(c) = asked.stack
        BY <2>1, <2>2
      <4> QED
        BY <1>0, <4>1, <4>2, JobWorks
    <3>2. CASE ~(yes /\ job = NoJob)
      BY <1>7, <3>2, Zenon DEF AnswerStack, StackInv
    <3> QED
      BY <3>1, <3>2
  <2> QED
    BY <1>7, <2>3, Zenon DEF AnswerStack, StackInv, Question
<1>8. ASSUME NEW c \in Containers, BoxChanges(c) PROVE StackInv'
  <2>1. upBoxes' \in SUBSET Containers
    BY <1>0, <1>8 DEF BoxChanges
  <2> QED
    BY <1>8, <2>1, Zenon DEF BoxChanges, StackInv, Question
<1>9. ASSUME NEW c \in Containers, NEW ok \in BOOLEAN, ActOnNext(c, ok) PROVE StackInv'
  <2>1. upBoxes' \in SUBSET Containers
    <3>1. upBoxes \ {c} \in SUBSET Containers /\ upBoxes \cup {c} \in SUBSET Containers
      BY <1>0
    <3> QED
      BY <1>0, <1>9, <3>1, Zenon DEF ActOnNext
  <2>2. c \in job.todo /\ job' = [job EXCEPT !.todo = @ \ {c}, !.reached = @ \cup {c}]
    BY <1>9, Zenon DEF ActOnNext
  <2>3. Works(job)
    BY Zenon DEF StackInv
  <2>4. /\ DOMAIN job' = DOMAIN NoJob /\ job'.todo = job.todo \ {c} /\ job'.reached = job.reached \cup {c}
        /\ job'.stack = job.stack /\ job'.named = job.named
    BY <2>2, <2>3 DEF Works, NoJob
  <2>5. Works(job')
    BY <2>2, <2>3, <2>4 DEF Works
  <2> QED
    BY <1>9, <2>1, <2>5, Zenon DEF ActOnNext, StackInv, Question
<1>10. CASE UNCHANGED stackVars
  BY <1>10, Zenon DEF stackVars, StackInv, Question
<1> QED
  BY <1>1, <1>2, <1>3, <1>4, <1>5, <1>6, <1>7, <1>8, <1>9, <1>10, Zenon DEF StackNext

\* The job of a stack has all it was asked to do done or before it, and nothing else.
THEOREM StackInductive == StackSpec => []StackInv
  BY StackStarts, StackStep, PTL DEF StackSpec

\* The screen of the compose projects has its types (tui/screens/stack.py).
THEOREM StackTypeCorrect == StackSpec => []StackTypeOK
<1>1. StackInv => StackTypeOK
  <2> SUFFICES ASSUME StackInv PROVE StackTypeOK
    OBVIOUS
  <2>1. asked \in [action : {"none", "stop", "restart"}, stack : Shelves \cup {""},
                  named : SUBSET Containers]
    <3>1. NotAsked \in [action : {"none", "stop", "restart"}, stack : Shelves \cup {""},
                        named : SUBSET Containers]
      BY DEF NotAsked
    <3> QED
      BY <3>1 DEF StackInv, Question
  <2>2. {upBoxes, knownBoxes, shownBoxes} \subseteq SUBSET Containers /\ stacksOpen \in BOOLEAN
    BY Zenon DEF StackInv
  <2> QED
    BY <2>1, <2>2, Zenon DEF StackInv, StackTypeOK, Works
<1> QED
  BY <1>1, StackInductive, PTL

\* When the action on a compose project is over it has reached every container that its box named,
\* and none of another project, whatever starts and stops meanwhile (tui/screens/stack.py).
THEOREM WholeStackReached == StackSpec => []StackIsReached
<1>1. StackInv => StackIsReached
  BY DEF StackInv, StackIsReached, Works
<1> QED
  BY <1>1, StackInductive, PTL

-----------------------------------------------------------------------------
(* The settings (module Settings). *)

\* A function from truth values: the solvers see it only one value at a time.
LEMMA BooleanFun ==
  ASSUME NEW S, NEW f, f = [k \in S |-> f[k]], \A k \in S : f[k] \in BOOLEAN
  PROVE  f \in [S -> BOOLEAN]
  BY Zenon

\* The same for the values of a configuration.
LEMMA ValuesOf ==
  ASSUME NEW v \in Values
  PROVE  /\ v = [k \in ConfigKeys |-> v[k]]
         /\ \A k \in ConfigKeys : v[k] \in BOOLEAN
  BY Zenon DEF Values

\* One value is set.
LEMMA SetOne ==
  ASSUME NEW v \in Values, NEW k \in ConfigKeys, NEW b \in BOOLEAN
  PROVE  [v EXCEPT ![k] = b] \in Values
  BY DEF Values

\* One value is flipped.
LEMMA FlipOne ==
  ASSUME NEW v \in Values, NEW k \in ConfigKeys
  PROVE  [v EXCEPT ![k] = ~@] \in Values
<1>1. PICK b \in BOOLEAN : b <=> ~v[k]
  OBVIOUS
<1>2. [v EXCEPT ![k] = ~@] = [v EXCEPT ![k] = b]
  BY <1>1
<1> QED
  BY <1>2, SetOne

\* What the app runs with after some settings were applied.
LEMMA ApplyIs ==
  ASSUME ran \in Values, NEW values \in Values, NEW changed
  PROVE  ApplySettings(changed, values) \in Values
<1>1. PICK f : f = ApplySettings(changed, values)
  OBVIOUS
<1>2. \A k \in ConfigKeys : values[k] \in BOOLEAN /\ ran[k] \in BOOLEAN
                            /\ (values[k] /\ values["sources"]) \in BOOLEAN
  BY Zenon DEF Values
<1>3. ASSUME NEW k \in ConfigKeys PROVE f[k] \in BOOLEAN
  <2>1. f[k] = CASE k = "docker.enabled" /\ "sources" \in changed -> values[k] /\ values["sources"]
       [] k = "kubernetes.enabled" /\ k \notin changed /\ "sources" \in changed ->
            values[k] /\ values["sources"]
       [] k # "docker.enabled" /\ k \in changed -> values[k]
       [] OTHER -> ran[k]
    BY <1>1, Zenon DEF ApplySettings
  <2> QED
    BY <1>2, <2>1, Zenon
<1>4. f = [k \in ConfigKeys |-> f[k]]
  BY <1>1, Zenon DEF ApplySettings
<1> QED
  BY <1>1, <1>3, <1>4, BooleanFun DEF Values

\* What the app runs with after it was started.
LEMMA RunWithIs ==
  ASSUME NEW values \in Values
  PROVE  RunWith(values) \in Values
<1>1. PICK a \in BOOLEAN : a = (values["docker.enabled"] /\ values["sources"])
  BY Zenon
<1>2. PICK b \in BOOLEAN : b = (values["kubernetes.enabled"] /\ values["sources"])
  BY Zenon
<1>3. "docker.enabled" \in ConfigKeys /\ "kubernetes.enabled" \in ConfigKeys
  BY DEF ConfigKeys
<1>4. [[values EXCEPT !["docker.enabled"] = a] EXCEPT !["kubernetes.enabled"] = b] \in Values
  BY <1>3, SetOne
<1>5. RunWith(values) = [[values EXCEPT !["docker.enabled"] = a] EXCEPT !["kubernetes.enabled"] = b]
  BY <1>1, <1>2, <1>3 DEF RunWith
<1> QED
  BY <1>4, <1>5

Screens == [on : {"off", "none", "remembering", "settings", "setup"}, dirty : BOOLEAN, theme : BOOLEAN,
            chosen : BOOLEAN, answers : Values]

\* The screens as they open.
LEMMA ScreensAre ==
  /\ NoScreen \in Screens /\ NoScreen.on = "none"
  /\ Off \in Screens /\ Off.on = "off"
  /\ \A v \in Values : OpenSetup(v) \in Screens /\ OpenSetup(v).on = "setup"
  BY SettingsAssumption DEF NoScreen, Off, OpenSetup, Screens

\* A screen that was edited or saved.
LEMMA ScreenChanges ==
  ASSUME screen \in Screens, NEW a \in BOOLEAN, NEW b \in BOOLEAN
  PROVE  /\ [screen EXCEPT !.dirty = TRUE] \in Screens
         /\ [screen EXCEPT !.dirty = FALSE, !.theme = a, !.chosen = b] \in Screens
         /\ [NoScreen EXCEPT !.on = "settings", !.theme = a, !.chosen = b] \in Screens
         /\ [screen EXCEPT !.dirty = TRUE].on = screen.on
         /\ [screen EXCEPT !.dirty = FALSE, !.theme = a, !.chosen = b].on = screen.on
         /\ [NoScreen EXCEPT !.on = "settings", !.theme = a, !.chosen = b].on = "settings"
  BY SettingsAssumption DEF NoScreen, Screens

\* A screen that was edited.
LEMMA ScreenDirties ==
  ASSUME screen \in Screens
  PROVE  [screen EXCEPT !.dirty = TRUE] \in Screens
  BY DEF Screens

-----------------------------------------------------------------------------
\* What _remember is about to stamp is the file, unless a write came in between.
Stampable == screen.on = "remembering" /\ file.there /\ edited = {} => config = file.values

\* What was read is not ahead of the file; the property itself.
SettingsInv == SettingsTypeOK /\ seen <= written /\ Stampable /\ ConfigFollowsFile

\* The parts of the type, under names the provers are given one at a time.
LEMMA SettingsParts ==
  ASSUME SettingsTypeOK
  PROVE  /\ written \in 0 .. LastWrite + 1 /\ seen \in 0 .. LastWrite + 1
         /\ config \in Values /\ ran \in Values /\ file.values \in Values
         /\ file.there \in BOOLEAN /\ file.old \in BOOLEAN
         /\ screen \in Screens /\ screen.answers \in Values
         /\ loaded \in [exists : BOOLEAN, old : BOOLEAN]
         /\ picking \subseteq BOOLEAN /\ welcomed \in BOOLEAN /\ edited \subseteq ConfigKeys
         /\ edits \in 0..LastEdit
         /\ file \in [there : BOOLEAN, values : Values, old : BOOLEAN]
  BY DEF SettingsTypeOK, Screens

Files == [there : BOOLEAN, values : Values, old : BOOLEAN]

\* Whoever writes the file leaves something to read.
LEMMA WriteIsNews ==
  ASSUME SettingsInv, written' = written + 1, written <= LastWrite, seen' = seen,
         file' \in Files, config' \in Values, ran' \in Values, screen' \in Screens,
         loaded' \in [exists : BOOLEAN, old : BOOLEAN], picking' = picking, welcomed' = welcomed,
         edited' \subseteq ConfigKeys, edits' \in 0..LastEdit,
         screen'.on # "remembering" \/ edited' # {} \/ config' = file'.values
  PROVE  SettingsInv'
<1>1. written \in Nat /\ seen \in Nat /\ seen <= written
  BY SettingsAssumption, SettingsParts DEF SettingsInv
<1>2. written' \in 0 .. LastWrite + 1 /\ seen' \in 0 .. LastWrite + 1 /\ seen' <= written' /\ seen' # written'
  BY <1>1, SettingsAssumption
<1>3. SettingsTypeOK'
  BY <1>2, Zenon DEF SettingsInv, SettingsTypeOK, Files, Screens
<1> QED
  BY <1>2, <1>3, Zenon DEF SettingsInv, Stampable, ConfigFollowsFile

\* So does an edit in memory.
LEMMA EditIsMarked ==
  ASSUME SettingsInv, UNCHANGED <<file, written, seen, loaded, welcomed>>,
         config' \in Values, ran' \in Values, screen' \in Screens,
         picking' \subseteq BOOLEAN, edited' \subseteq ConfigKeys, edits' \in 0..LastEdit, edited' # {}
  PROVE  SettingsInv'
<1>1. SettingsTypeOK'
  BY Zenon DEF SettingsInv, SettingsTypeOK, Screens
<1> QED
  BY <1>1, Zenon DEF SettingsInv, Stampable, ConfigFollowsFile

\* What only the screen shows.
LEMMA ScreenOnly ==
  ASSUME SettingsInv, UNCHANGED <<file, written, config, loaded, seen, welcomed, edited>>,
         screen.on # "off" \/ screen'.on = "off", screen'.on # "remembering", ran' \in Values, screen' \in Screens,
         picking' \subseteq BOOLEAN, edits' \in 0..LastEdit
  PROVE  SettingsInv'
<1>1. SettingsTypeOK'
  BY Zenon DEF SettingsInv, SettingsTypeOK, Screens
<1> QED
  BY <1>1, Zenon DEF SettingsInv, Stampable, ConfigFollowsFile

\* What load_config gives is what the file has, if there is one.
LEMMA LoadedIs ==
  ASSUME SettingsTypeOK
  PROVE  /\ LoadConfig \in Values /\ Loaded \in [exists : BOOLEAN, old : BOOLEAN]
         /\ file.there => LoadConfig = file.values
<1>1. file.values \in Values /\ file.there \in BOOLEAN /\ file.old \in BOOLEAN
  BY SettingsParts, Zenon
<1>2. (file.there /\ file.old) \in BOOLEAN
  BY <1>1, Zenon
<1>3. Loaded \in [exists : BOOLEAN, old : BOOLEAN]
  BY <1>1, <1>2 DEF Loaded
<1> QED
  BY <1>1, <1>3, SettingsAssumption, Zenon DEF LoadConfig

\* What is saved is in the file.
LEMMA SavedIs ==
  ASSUME NEW values \in Values, Saved(values)
  PROVE  /\ file' \in Files /\ file'.values = values
         /\ written <= LastWrite /\ written' = written + 1
  BY DEF Saved, Files

Stamped == [exists |-> TRUE, old |-> FALSE]

\* What is known of a file that was just written.
LEMMA StampedIs == Stamped \in [exists : BOOLEAN, old : BOOLEAN]
  BY DEF Stamped

\* An edit sets a value, in memory and in what runs.
LEMMA EditIs ==
  ASSUME SettingsTypeOK, NEW k \in ConfigKeys, NEW v \in BOOLEAN, Edit(k, v)
  PROVE  config' \in Values /\ ran' \in Values /\ edits' \in 0..LastEdit
<1>1. config' \in Values
  BY SettingsParts, SetOne DEF Edit
<1>2. ran' \in Values
  BY <1>1, SettingsParts, ApplyIs, Zenon DEF Edit
<1>3. edits' \in 0..LastEdit
  BY SettingsParts, SettingsAssumption DEF Edit
<1> QED
  BY <1>1, <1>2, <1>3

\* The whole dict was written.
LEMMA WrittenWhole ==
  ASSUME SettingsInv, Saved(config'), edited' = {}, UNCHANGED <<loaded, seen, picking, welcomed>>,
         config' \in Values, ran' \in Values, screen' \in Screens, edits' \in 0..LastEdit
  PROVE  SettingsInv'
<1>1. file' \in Files /\ file'.values = config' /\ written <= LastWrite /\ written' = written + 1
  BY SavedIs
<1>2. loaded' \in [exists : BOOLEAN, old : BOOLEAN] /\ edited' \subseteq ConfigKeys
  BY SettingsParts DEF SettingsInv
<1> QED
  BY <1>1, <1>2, WriteIsNews, Zenon

\* The keys that screens edit are keys of the configuration.
LEMMA KeysAre == SettingKeys \subseteq ConfigKeys /\ StepKeys \subseteq ConfigKeys
                  /\ "theme" \in SettingKeys /\ "group_by_stack" \in ConfigKeys
  BY DEF SettingKeys, StepKeys, ConfigKeys

\* Every key has a truth value.
LEMMA ValueIs ==
  ASSUME NEW v \in Values, NEW k \in ConfigKeys
  PROVE  v[k] \in BOOLEAN
  BY ValuesOf

\* What another process writes while lirts remembers something is marked.
LEMMA UnreadIs ==
  ASSUME SettingsInv, StampedUnread, screen' = screen
  PROVE  edited' \subseteq ConfigKeys /\ (screen'.on # "remembering" \/ edited' # {})
<1>1. edited \subseteq ConfigKeys
  BY SettingsParts DEF SettingsInv
<1> QED
  BY <1>1 DEF StampedUnread, ConfigKeys

\* The screen as it is.
LEMMA ScreenSame ==
  ASSUME SettingsInv, UNCHANGED <<file, written, config, loaded, seen, screen, welcomed, edited>>,
         ran' \in Values, picking' \subseteq BOOLEAN, edits' \in 0..LastEdit
  PROVE  SettingsInv'
<1>1. SettingsTypeOK'
  BY Zenon DEF SettingsInv, SettingsTypeOK
<1> QED
  BY <1>1, Zenon DEF SettingsInv, Stampable, ConfigFollowsFile

\* At the start the file was just read.
LEMMA SettingsStart == SettingsInit => SettingsInv
<1> SUFFICES ASSUME SettingsInit PROVE SettingsInv
  OBVIOUS
<1>1. PICK there \in BOOLEAN, old \in BOOLEAN : file = [there |-> there, values |-> Defaults, old |-> there /\ old]
  BY DEF SettingsInit
<1>2. (there /\ old) \in BOOLEAN
  BY Zenon
<1>3. file \in Files
  BY <1>1, <1>2, SettingsAssumption DEF Files
<1>4. loaded \in [exists : BOOLEAN, old : BOOLEAN]
  BY DEF SettingsInit
<1>5. ran \in Values
  BY RunWithIs, SettingsAssumption DEF SettingsInit
<1>6. /\ written \in 0..LastWrite + 1 /\ seen \in 0..LastWrite + 1 /\ edits \in 0..LastEdit
      /\ seen <= written /\ picking \subseteq BOOLEAN /\ edited \subseteq ConfigKeys
  BY SettingsAssumption DEF SettingsInit
<1>7. screen \in Screens /\ screen.on = "off"
  BY ScreensAre DEF SettingsInit
<1>8. welcomed \in BOOLEAN /\ config \in Values
  BY SettingsAssumption, Zenon DEF SettingsInit
<1>9. SettingsTypeOK
  BY <1>3, <1>4, <1>5, <1>6, <1>7, <1>8, Zenon DEF SettingsTypeOK, Files, Screens
<1> QED
  BY <1>6, <1>7, <1>9, Zenon DEF SettingsInv, Stampable, ConfigFollowsFile

\* Every step keeps it.
LEMMA SettingsStep == SettingsInv /\ [SettingsNext]_settingsVars => SettingsInv'
<1> SUFFICES ASSUME SettingsInv, [SettingsNext]_settingsVars PROVE SettingsInv'
  OBVIOUS
<1>0. /\ SettingsTypeOK /\ config \in Values /\ ran \in Values /\ screen \in Screens
      /\ screen.answers \in Values /\ edited \subseteq ConfigKeys /\ edits \in 0..LastEdit
      /\ picking \subseteq BOOLEAN /\ loaded \in [exists : BOOLEAN, old : BOOLEAN]
      /\ file \in Files /\ welcomed \in BOOLEAN
  BY SettingsParts DEF SettingsInv, Files
<1>1. CASE Start
  <2>1. config' \in Values /\ loaded' \in [exists : BOOLEAN, old : BOOLEAN]
        /\ (file.there => config' = file.values)
    BY <1>0, <1>1, LoadedIs, Zenon DEF Start
  <2>2. ran' \in Values
    BY <1>0, <1>1, LoadedIs, RunWithIs, Zenon DEF Start
  <2>3. screen' \in Screens
    BY <1>0, <1>1, LoadedIs, ScreensAre, Zenon DEF Start
  <2>4. /\ UNCHANGED <<file, written, picking, edits>> /\ seen' = written /\ edited' = {}
        /\ welcomed' \in BOOLEAN
    BY <1>1, Zenon DEF Start
  <2>5. seen' \in 0..LastWrite + 1 /\ seen' <= written' /\ edited' \subseteq ConfigKeys
    BY <1>0, <2>4, SettingsParts, SettingsAssumption
  <2>6. SettingsTypeOK'
    BY <1>0, <2>1, <2>2, <2>3, <2>4, <2>5, Zenon DEF SettingsTypeOK, Screens
  <2> QED
    BY <2>1, <2>4, <2>5, <2>6, Zenon DEF SettingsInv, Stampable, ConfigFollowsFile
<1>2. CASE Quit
  BY <1>0, <1>2, ScreensAre, ScreenOnly, Zenon DEF Quit
<1>3. CASE OpenSettings
  <2>1. ran["theme"] \in BOOLEAN /\ config["theme"] \in BOOLEAN
    BY <1>0, ValueIs, KeysAre, Zenon
  <2>2. screen' \in Screens /\ screen.on = "none"
    BY <1>0, <1>3, <2>1, ScreenChanges, Zenon DEF OpenSettings
  <2>3. screen.on # "off"
    BY <2>2
  <2>4. screen'.on # "remembering"
    <3>1. screen'.on = "settings"
      BY <1>0, <1>3, <2>1, ScreenChanges, Zenon DEF OpenSettings
    <3> QED
      BY <3>1
  <2> QED
    BY <1>0, <1>3, <2>2, <2>3, <2>4, ScreenOnly, Zenon DEF OpenSettings
<1>4. CASE OpenPicker
  <2>1. picking' \subseteq BOOLEAN
    BY <1>0, <1>4, ValueIs, KeysAre DEF OpenPicker
  <2>2. screen.on # "off" /\ screen' \in Screens /\ screen'.on # "remembering"
    BY <1>0, <1>4 DEF OpenPicker, InSettings
  <2> QED
    BY <1>0, <1>4, <2>1, <2>2, ScreenOnly, Zenon DEF OpenPicker
<1>5. CASE Pick
  <2>1. ran["theme"] \in BOOLEAN /\ "theme" \in ConfigKeys
    BY <1>0, ValueIs, KeysAre
  <2>2. Apply("theme", ran["theme"]) /\ picking' = {}
    BY <1>5, Zenon DEF Pick
  <2>3. config' \in Values /\ ran' \in Values /\ edits' \in 0..LastEdit
    BY <1>0, <2>1, <2>2, EditIs, Zenon DEF Apply
  <2>4. edited' = edited \cup {"theme"} /\ screen' = [screen EXCEPT !.dirty = TRUE]
        /\ UNCHANGED <<file, written, loaded, seen, welcomed>>
    BY <2>2, Zenon DEF Apply
  <2>5. edited' \subseteq ConfigKeys /\ edited' # {} /\ screen' \in Screens /\ picking' \subseteq BOOLEAN
    BY <1>0, <2>1, <2>2, <2>4, ScreenDirties
  <2> QED
    BY <2>3, <2>4, <2>5, EditIsMarked, Zenon
<1>6. CASE CancelPicker
  <2>1. PICK before \in picking : ran' = [ran EXCEPT !["theme"] = before]
    BY <1>6, Zenon DEF CancelPicker
  <2>2. ran' \in Values
    BY <1>0, <2>1, SetOne, KeysAre
  <2>3. picking' \subseteq BOOLEAN /\ UNCHANGED <<file, written, config, loaded, seen, screen, welcomed, edited, edits>>
    BY <1>6 DEF CancelPicker
  <2> QED
    BY <1>0, <2>2, <2>3, ScreenSame, Zenon
<1>7. ASSUME NEW v \in BOOLEAN, Preview(v) PROVE SettingsInv'
  <2>1. ran' \in Values
    BY <1>0, <1>7, SetOne, KeysAre DEF Preview
  <2> QED
    BY <1>0, <1>7, <2>1, ScreenSame, Zenon DEF Preview
<1>8. CASE Save
  <2>1. file' \in Files /\ written <= LastWrite /\ written' = written + 1
    BY <1>0, <1>8, SavedIs DEF Save
  <2>2. ran["theme"] \in BOOLEAN /\ config["theme"] \in BOOLEAN
    BY <1>0, ValueIs, KeysAre, Zenon
  <2>3. screen' \in Screens
    BY <1>0, <1>8, <2>2, ScreenChanges, Zenon DEF Save
  <2>4. loaded' \in [exists : BOOLEAN, old : BOOLEAN] /\ edited' \subseteq ConfigKeys
    BY <1>8 DEF Save
  <2>5. screen'.on # "remembering"
    <3>1. screen'.on = screen.on /\ screen.on = "settings"
      BY <1>0, <1>8, <2>2, ScreenChanges, Zenon DEF Save, InSettings
    <3> QED
      BY <3>1
  <2> QED
    BY <1>0, <1>8, <2>1, <2>3, <2>4, <2>5, WriteIsNews, Zenon DEF Save
<1>9. CASE Reset
  <2>1. config' \in Values
    <3>1. PICK f : f = config'
      OBVIOUS
    <3>2. f = [k \in ConfigKeys |-> f[k]]
      BY <1>9, <3>1 DEF Reset
    <3>3. \A k \in ConfigKeys : f[k] = IF k \in SettingKeys THEN Defaults[k] ELSE config[k]
      BY <1>9, <3>1 DEF Reset
    <3>4. \A k \in ConfigKeys : f[k] \in BOOLEAN
      BY <1>0, <3>3, ValueIs, SettingsAssumption, Zenon
    <3> QED
      BY <3>1, <3>2, <3>4, BooleanFun, Zenon DEF Values
  <2>2. ran' \in Values
    BY <1>0, <1>9, <2>1, ApplyIs, Zenon DEF Reset
  <2>3. edits' \in 0..LastEdit
    BY <1>0, <1>9, SettingsAssumption DEF Reset
  <2>4. screen' \in Screens
    BY <1>0, <1>9, ScreenDirties DEF Reset
  <2>5. edited' \subseteq ConfigKeys /\ edited' # {}
    BY <1>0, <1>9, KeysAre DEF Reset
  <2> QED
    BY <1>0, <1>9, <2>1, <2>2, <2>3, <2>4, <2>5, EditIsMarked, Zenon DEF Reset
<1>10. CASE Close
  <2>1. screen' = NoScreen /\ UNCHANGED <<file, written, loaded, seen, picking, welcomed, edits>>
        /\ screen.on = "settings"
    BY <1>10, Zenon DEF Close, InSettings
  <2>2. screen.on # "off" /\ screen' \in Screens /\ screen'.on # "remembering"
    BY <2>1, ScreensAre
  <2>3. CASE UNCHANGED <<config, ran, edited>>
    BY <1>0, <2>1, <2>2, <2>3, ScreenOnly, Zenon
  <2>4. CASE /\ config' = [config EXCEPT !["theme"] = screen.chosen]
             /\ ran' = [ran EXCEPT !["theme"] = screen.theme]
             /\ edited' = edited \cup {"theme"}
    <3>1. screen.chosen \in BOOLEAN /\ screen.theme \in BOOLEAN
      BY <1>0 DEF Screens
    <3>2. config' \in Values /\ ran' \in Values
      BY <1>0, <2>4, <3>1, SetOne, KeysAre
    <3>3. edited' \subseteq ConfigKeys /\ edited' # {}
      BY <1>0, <2>4, KeysAre
    <3> QED
      BY <1>0, <2>1, <2>2, <3>2, <3>3, EditIsMarked, Zenon
  <2> QED
    BY <1>10, <2>3, <2>4, Zenon DEF Close
<1>11. ASSUME NEW k \in ConfigKeys, ChangeSetting(k) PROVE SettingsInv'
  <2>1. PICK v \in BOOLEAN : v <=> ~config[k]
    OBVIOUS
  <2>2. /\ edits < LastEdit /\ edits' = edits + 1 /\ config' = [config EXCEPT ![k] = ~config[k]]
        /\ ran' = ApplySettings({k}, config')
        /\ edited' = edited \cup {k} /\ screen' = [screen EXCEPT !.dirty = TRUE]
        /\ UNCHANGED <<file, written, loaded, seen, welcomed, picking>>
    BY <1>11, Zenon DEF ChangeSetting, Apply, Edit
  <2>3. config' \in Values
    <3>1. config' = [config EXCEPT ![k] = v]
      BY <2>1, <2>2
    <3> QED
      BY <1>0, <3>1, SetOne
  <2>4. ran' \in Values
    BY <1>0, <2>2, <2>3, ApplyIs, Zenon
  <2>5. edits' \in 0..LastEdit
    BY <1>0, <2>2, SettingsAssumption
  <2>6. edited' \subseteq ConfigKeys /\ edited' # {}
    BY <1>0, <2>2
  <2>7. screen' \in Screens
    BY <1>0, <2>2, ScreenDirties
  <2> QED
    BY <1>0, <2>2, <2>3, <2>4, <2>5, <2>6, <2>7, EditIsMarked, Zenon
<1>12. CASE Wizard
  <2>1. screen' \in Screens /\ screen'.on # "remembering"
    BY <1>0, <1>12, ScreensAre DEF Wizard
  <2>2. screen.on # "off"
    BY <1>12 DEF Wizard, InSettings
  <2> QED
    BY <1>0, <1>12, <2>1, <2>2, ScreenOnly, Zenon DEF Wizard
<1>13. ASSUME NEW k \in ConfigKeys, Answer(k) PROVE SettingsInv'
  <2>1. screen.on = "setup" /\ screen' = [screen EXCEPT !.answers = [screen.answers EXCEPT ![k] = ~@]]
    BY <1>0, <1>13 DEF Answer, Screens
  <2>2. screen' \in Screens /\ screen.on # "off" /\ screen'.on # "remembering"
    BY <1>0, <2>1, FlipOne DEF Screens
  <2>3. edits' \in 0..LastEdit
    BY <1>0, <1>13, SettingsAssumption DEF Answer
  <2> QED
    BY <1>0, <1>13, <2>2, <2>3, ScreenOnly, Zenon DEF Answer
<1>14. ASSUME NEW saves \in BOOLEAN, SaveSetup(saves) PROVE SettingsInv'
  <2>1. PICK changed : changed = {k \in StepKeys : config[k] # screen.answers[k]}
    OBVIOUS
  <2>2. /\ config' = [k \in ConfigKeys |-> IF k \in changed THEN screen.answers[k] ELSE config[k]]
        /\ ran' = ApplySettings(changed, config')
        /\ edited' = IF saves THEN {} ELSE edited \cup changed
        /\ UNCHANGED <<seen, picking, welcomed, edits>> /\ screen.on = "setup"
        /\ saves => Saved(config') /\ loaded' = Stamped /\ screen' = NoScreen
        /\ ~saves => UNCHANGED <<file, written, loaded, screen>>
    BY <1>14, <2>1, Zenon DEF SaveSetup, NotSaved, Stamped
  <2>3. config' \in Values
    <3>1. PICK f : f = config'
      OBVIOUS
    <3>2. \A k \in ConfigKeys : f[k] = IF k \in changed THEN screen.answers[k] ELSE config[k]
      BY <2>2, <3>1
    <3>3. \A k \in ConfigKeys : f[k] \in BOOLEAN
      BY <1>0, <3>2, ValueIs, Zenon
    <3>4. f = [k \in ConfigKeys |-> f[k]]
      BY <2>2, <3>1
    <3> QED
      BY <3>1, <3>3, <3>4, BooleanFun, Zenon DEF Values
  <2>4. ran' \in Values
    BY <1>0, <2>2, <2>3, ApplyIs, Zenon
  <2>5. changed \subseteq ConfigKeys
    BY <2>1, KeysAre
  <2>6. CASE saves
    <3>1. edited' = {} /\ edited' \subseteq ConfigKeys
      BY <2>2, <2>6
    <3>2. file' \in Files /\ written <= LastWrite /\ written' = written + 1
      BY <2>2, <2>3, <2>6, SavedIs
    <3> QED
      BY <1>0, <2>2, <2>3, <2>4, <2>6, <3>1, <3>2, StampedIs, ScreensAre, WriteIsNews, Zenon
  <2>7. CASE ~saves /\ changed # {}
    <3>1. edited' # {} /\ edited' \subseteq ConfigKeys
      BY <1>0, <2>2, <2>5, <2>7
    <3> QED
      BY <1>0, <2>2, <2>3, <2>4, <2>7, <3>1, EditIsMarked, Zenon
  <2>8. CASE ~saves /\ changed = {}
    <3>1. config' = config /\ edited' = edited /\ screen.on # "off"
      <4>1. config = [k \in ConfigKeys |-> config[k]]
        BY <1>0, ValuesOf
      <4> QED
        BY <2>2, <2>8, <4>1
    <3> QED
      BY <1>0, <2>2, <2>4, <2>8, <3>1, ScreenOnly, Zenon
  <2> QED
    BY <2>6, <2>7, <2>8
<1>15. CASE CancelSetup
  <2>1. screen' \in Screens /\ screen.on # "off" /\ screen'.on # "remembering"
    BY <1>15, ScreensAre DEF CancelSetup
  <2> QED
    BY <1>0, <1>15, <2>1, ScreenOnly, Zenon DEF CancelSetup
<1>16. ASSUME NEW saves \in BOOLEAN, Remember(saves) PROVE SettingsInv'
  <2>1. PICK v \in BOOLEAN : v <=> ~ran["group_by_stack"]
    OBVIOUS
  <2>2. /\ edits < LastEdit /\ edits' = edits + 1
        /\ config' = [config EXCEPT !["group_by_stack"] = ~ran["group_by_stack"]]
        /\ ran' = ApplySettings({"group_by_stack"}, config')
        /\ UNCHANGED <<loaded, seen, picking, welcomed>> /\ screen.on = "none"
        /\ screen' = screen \/ screen' = [NoScreen EXCEPT !.on = "remembering"]
        /\ \/ Saved(config') /\ edited' = {}
           \/ UNCHANGED <<file, written>> /\ edited' = edited \cup {"group_by_stack"}
    BY <1>16, Zenon DEF Remember, Edit, NotSaved
  <2>3. config' \in Values
    <3>1. config' = [config EXCEPT !["group_by_stack"] = v]
      BY <2>1, <2>2
    <3> QED
      BY <1>0, <3>1, SetOne, KeysAre
  <2>4. ran' \in Values
    BY <1>0, <2>2, <2>3, ApplyIs, Zenon
  <2>5. edits' \in 0..LastEdit
    BY <1>0, <2>2, SettingsAssumption
  <2>6. screen' \in Screens
    <3>1. [NoScreen EXCEPT !.on = "remembering"] \in Screens
      BY SettingsAssumption DEF NoScreen, Screens
    <3> QED
      BY <1>0, <2>2, <3>1, Zenon
  <2>7. CASE Saved(config') /\ edited' = {}
    BY <1>0, <2>2, <2>3, <2>4, <2>5, <2>6, <2>7, WrittenWhole, Zenon
  <2>8. CASE UNCHANGED <<file, written>> /\ edited' = edited \cup {"group_by_stack"}
    <3>1. edited' \subseteq ConfigKeys /\ edited' # {}
      BY <1>0, <2>8, KeysAre
    <3> QED
      BY <1>0, <2>2, <2>3, <2>4, <2>5, <2>6, <2>8, <3>1, EditIsMarked, Zenon
  <2> QED
    BY <2>2, <2>7, <2>8, Zenon
<1>17. CASE CheckConfigFile
  <2>1. /\ seen' = written /\ UNCHANGED <<file, written, screen, picking, welcomed, edits>>
        /\ \/ ~file.there /\ UNCHANGED <<config, loaded, ran, edited>>
           \/ /\ file.there /\ config' = LoadConfig /\ loaded' = Loaded
              /\ ran' = ApplySettings(Changed(LoadConfig), config') /\ edited' = {}
    BY <1>17, Zenon DEF CheckConfigFile, Reloaded
  <2>2. seen' \in 0..LastWrite + 1 /\ seen' <= written'
    BY <1>0, <2>1, SettingsParts, SettingsAssumption
  <2>3. CASE ~file.there /\ UNCHANGED <<config, loaded, ran, edited>>
    <3>1. SettingsTypeOK'
      BY <1>0, <2>1, <2>2, <2>3, Zenon DEF SettingsTypeOK, Files, Screens
    <3> QED
      BY <2>1, <2>2, <2>3, <3>1, Zenon DEF SettingsInv, Stampable, ConfigFollowsFile
  <2>4. CASE /\ file.there /\ config' = LoadConfig /\ loaded' = Loaded
             /\ ran' = ApplySettings(Changed(LoadConfig), config') /\ edited' = {}
    <3>1. config' \in Values /\ loaded' \in [exists : BOOLEAN, old : BOOLEAN]
          /\ config' = file'.values
      BY <1>0, <2>1, <2>4, LoadedIs, Zenon
    <3>2. ran' \in Values
      BY <1>0, <2>4, <3>1, ApplyIs, Zenon
    <3>3. edited' \subseteq ConfigKeys
      BY <2>4
    <3>4. SettingsTypeOK'
      BY <1>0, <2>1, <2>2, <3>1, <3>2, <3>3, Zenon DEF SettingsTypeOK, Files, Screens
    <3> QED
      BY <2>2, <3>1, <3>4, Zenon DEF SettingsInv, Stampable, ConfigFollowsFile
  <2> QED
    BY <2>1, <2>3, <2>4
<1>18. ASSUME NEW k \in ConfigKeys, EditFile(k) PROVE SettingsInv'
  <2>1. file' = [file EXCEPT !.values = [file.values EXCEPT ![k] = ~@]]
    BY <1>0, <1>18 DEF EditFile, Files
  <2>2. file' \in Files
    <3>1. file.values \in Values
      BY <1>0 DEF Files
    <3>2. [file.values EXCEPT ![k] = ~@] \in Values
      BY <3>1, FlipOne
    <3> QED
      BY <1>0, <2>1, <3>2 DEF Files
  <2>3. edits' \in 0..LastEdit
    BY <1>0, <1>18, SettingsAssumption DEF EditFile
  <2> QED
    BY <1>0, <1>18, <2>2, <2>3, UnreadIs, WriteIsNews, Zenon DEF EditFile
<1>19. ASSUME NEW k \in ConfigKeys, ConfigSet(k) PROVE SettingsInv'
  <2>1. [LoadConfig EXCEPT ![k] = ~@] \in Values
    BY <1>0, LoadedIs, FlipOne
  <2>2. file' \in Files /\ written <= LastWrite /\ written' = written + 1
    BY <1>19, <2>1, SavedIs DEF ConfigSet
  <2>3. edits' \in 0..LastEdit
    BY <1>0, <1>19, SettingsAssumption DEF ConfigSet
  <2> QED
    BY <1>0, <1>19, <2>2, <2>3, UnreadIs, WriteIsNews, Zenon DEF ConfigSet
<1>20. CASE ConfigInit
  <2>1. file' \in Files /\ written <= LastWrite /\ written' = written + 1
    BY <1>20, SavedIs, SettingsAssumption DEF ConfigInit
  <2> QED
    BY <1>0, <1>20, <2>1, UnreadIs, WriteIsNews, Zenon DEF ConfigInit
<1>21. CASE ConfigUpgrade
  <2>1. file' \in Files /\ written <= LastWrite /\ written' = written + 1
    BY <1>0, <1>21, SavedIs, LoadedIs DEF ConfigUpgrade
  <2> QED
    BY <1>0, <1>21, <2>1, UnreadIs, WriteIsNews, Zenon DEF ConfigUpgrade
<1>22. CASE RemoveFile
  <2>1. file' \in Files
    BY <1>0, <1>22 DEF RemoveFile, Files
  <2> QED
    BY <1>0, <1>22, <2>1, UnreadIs, WriteIsNews, Zenon DEF RemoveFile
<1>24. CASE Stamp
  <2>1. /\ screen.on = "remembering" /\ seen' = written /\ screen' = NoScreen
        /\ UNCHANGED <<file, written, config, loaded, ran, picking, welcomed, edited, edits>>
    BY <1>24, Zenon DEF Stamp
  <2>2. seen' \in 0..LastWrite + 1 /\ seen' <= written' /\ screen' \in Screens /\ screen'.on # "remembering"
    BY <1>0, <2>1, ScreensAre, SettingsParts, SettingsAssumption
  <2>3. SettingsTypeOK'
    BY <1>0, <2>1, <2>2, Zenon DEF SettingsTypeOK, Files, Screens
  <2>4. file'.there /\ edited' = {} => config' = file'.values
    BY <2>1, Zenon DEF SettingsInv, Stampable
  <2> QED
    BY <2>2, <2>3, <2>4, Zenon DEF SettingsInv, Stampable, ConfigFollowsFile
<1>25. ASSUME NEW saves \in BOOLEAN, CycleTheme(saves) PROVE SettingsInv'
  <2>1. PICK v \in BOOLEAN : v <=> ~ran["theme"]
    OBVIOUS
  <2>2. /\ edits < LastEdit /\ edits' = edits + 1 /\ config' = [config EXCEPT !["theme"] = ~ran["theme"]]
        /\ ran' = ApplySettings({"theme"}, config')
        /\ UNCHANGED <<loaded, seen, screen, picking, welcomed>> /\ screen.on = "none"
        /\ \/ Saved(config') /\ edited' = {}
           \/ UNCHANGED <<file, written>> /\ edited' = edited \cup {"theme"}
    BY <1>25, Zenon DEF CycleTheme, Edit, NotSaved
  <2>3. config' \in Values
    <3>1. config' = [config EXCEPT !["theme"] = v]
      BY <2>1, <2>2
    <3> QED
      BY <1>0, <3>1, SetOne, KeysAre
  <2>4. ran' \in Values
    BY <1>0, <2>2, <2>3, ApplyIs, Zenon
  <2>5. edits' \in 0..LastEdit
    BY <1>0, <2>2, SettingsAssumption
  <2>6. CASE Saved(config') /\ edited' = {}
    BY <1>0, <2>2, <2>3, <2>4, <2>5, <2>6, WrittenWhole, Zenon
  <2>7. CASE UNCHANGED <<file, written>> /\ edited' = edited \cup {"theme"}
    <3>1. edited' \subseteq ConfigKeys /\ edited' # {}
      BY <1>0, <2>7, KeysAre
    <3> QED
      BY <1>0, <2>2, <2>3, <2>4, <2>5, <2>7, <3>1, EditIsMarked, Zenon
  <2> QED
    BY <2>2, <2>6, <2>7, Zenon
<1>23. CASE UNCHANGED settingsVars
  <2>1. UNCHANGED <<file, written, config, loaded, seen, screen, welcomed, edited>>
        /\ ran' = ran /\ picking' = picking /\ edits' = edits
    BY <1>23, Zenon DEF settingsVars
  <2> QED
    BY <1>0, <2>1, ScreenSame, Zenon
<1> QED
  BY <1>1, <1>2, <1>3, <1>4, <1>5, <1>6, <1>7, <1>8, <1>9, <1>10, <1>11, <1>12, <1>13, <1>14, <1>15,
     <1>16, <1>17, <1>18, <1>19, <1>20, <1>21, <1>22, <1>23, <1>24, <1>25, Zenon DEF SettingsNext

\* What was read of the file is what the file has until it is written again.
THEOREM SettingsInductive == SettingsSpec => []SettingsInv
  BY SettingsStart, SettingsStep, PTL DEF SettingsSpec

\* The settings have their types, on disk, in memory and in what runs (config.py,
\* tui/screens/settings.py).
THEOREM SettingsTypeCorrect == SettingsSpec => []SettingsTypeOK
<1>1. SettingsInv => SettingsTypeOK
  BY DEF SettingsInv
<1> QED
  BY <1>1, SettingsInductive, PTL

\* The configuration in memory is what the file has, unless the watcher has yet to read it,
\* something was edited since, or another process wrote between the save and the time stamp
\* of a remembered preference (config.py, tui/app_settings.py).
THEOREM FileIsFollowed == SettingsSpec => []ConfigFollowsFile
<1>1. SettingsInv => ConfigFollowsFile
  BY DEF SettingsInv
<1> QED
  BY <1>1, SettingsInductive, PTL

-----------------------------------------------------------------------------
(* The table (module Dashboard). *)

\* The cursor stays, or goes to the first row when the table no longer has its row.
LEMMA CursorStaysOrGoes ==
  ASSUME NEW v, NEW marks, UpdateTable(v, marks, selectedKey), NEW k \in selectedKey'
  PROVE  k \in selectedKey \/ \A old \in selectedKey : ~Contains(rowOrder', old)
  BY Zenon DEF UpdateTable, CursorAfter

\* What a key takes after a refresh was chosen before it.
LEMMA RefreshKeepsTargets == [DashboardNext]_dashVars => [TargetsAreKept]_dashVars
<1> SUFFICES ASSUME DashboardNext, collecting, ~collecting', NEW r \in Targets'
             PROVE  \/ r \in marked
                    \/ RowKey(r) \in selectedKey
                    \/ \A k \in selectedKey : ~Contains(rowOrder', k)
  BY Zenon DEF TargetsAreKept
<1>1. RefreshFails \/ \E there : ApplySnapshot(there)
  BY Zenon DEF DashboardNext, RefreshData, SetFilter, EnterCommandMode, TypeCommand, CommandText,
     LeaveCommandMode, Escape, Sort, ToggleProblems, ToggleGrouping, ToggleCollapse, MoveCursor, Mark, MarkAll
<1>2. r \in marked' \/ RowKey(r) \in selectedKey'
  BY Zenon DEF Targets
<1>3. marked' \subseteq marked
  BY <1>1 DEF RefreshFails, ApplySnapshot, UpdateTable
<1>4. selectedKey' = selectedKey \/ \E v, marks : UpdateTable(v, marks, selectedKey)
  BY <1>1, Zenon DEF RefreshFails, ApplySnapshot
<1> QED
  BY <1>2, <1>3, <1>4, CursorStaysOrGoes, Zenon

\* A refresh does not take the row a key would act on.
THEOREM TargetsKept == DashboardSpec => TargetsStay
  BY RefreshKeepsTargets, PTL DEF DashboardSpec, TargetsStay

-----------------------------------------------------------------------------
\* The order of the groups is one: names differ, and the rows of no project come last.
GroupPairs == {pq \in Projects \X Projects : GroupBefore(pq[1], pq[2])}

LEMMA GroupsAreOrdered == Orders(GroupPairs, Projects)
<1>1. /\ \A p \in Projects : NameOf[p] \in Nat
      /\ \A p, q \in Projects : p # q => NameOf[p] # NameOf[q]
  BY DashboardAssumption DEF Injection, IsInjective
<1>2. \A p, q \in Projects : <<p, q>> \in GroupPairs <=> GroupBefore(p, q)
  BY DEF GroupPairs
<1>3. \A p \in Projects : ~GroupBefore(p, p)
  BY <1>1 DEF GroupBefore
<1>4. \A p, q \in Projects : p # q => GroupBefore(p, q) \/ GroupBefore(q, p)
  BY <1>1 DEF GroupBefore
<1>5. \A p, q, s \in Projects : GroupBefore(p, q) /\ GroupBefore(q, s) => GroupBefore(p, s)
  BY <1>1 DEF GroupBefore
<1>6. \A p, q, s \in Projects :
        <<p, q>> \in GroupPairs /\ <<q, s>> \in GroupPairs => <<p, s>> \in GroupPairs
  BY <1>2, <1>5
<1> QED
  BY <1>2, <1>3, <1>4, <1>6, Zenon DEF Orders

\* Rows are ordered by value, then by port, or the other way round.
RowPairs(v) ==
  {ab \in RowKeys \X RowKeys :
     IF v.reverse THEN Before(v.key, ab[2], ab[1]) ELSE Before(v.key, ab[1], ab[2])}

LEMMA RowsAreOrdered == ASSUME NEW v PROVE Orders(RowPairs(v), RowKeys)
<1>1. \A a \in RowKeys : a \in Nat /\ ValueOf[a] \in Nat
  BY DashboardAssumption
<1>2. PICK key : key = v.key
  OBVIOUS
<1>3. \A a \in RowKeys : ~Before(key, a, a)
  BY <1>1 DEF Before
<1>4. \A a, b \in RowKeys : a # b => Before(key, a, b) \/ Before(key, b, a)
  BY <1>1 DEF Before
<1>5. \A a, b, c \in RowKeys : Before(key, a, b) /\ Before(key, b, c) => Before(key, a, c)
  BY <1>1 DEF Before
<1>6. CASE v.reverse
  <2>1. \A a, b \in RowKeys : <<a, b>> \in RowPairs(v) <=> Before(key, b, a)
    BY <1>2, <1>6 DEF RowPairs
  <2>2. \A a, b, c \in RowKeys :
          <<a, b>> \in RowPairs(v) /\ <<b, c>> \in RowPairs(v) => <<a, c>> \in RowPairs(v)
    BY <1>5, <2>1
  <2> QED
    BY <1>3, <1>4, <2>1, <2>2, Zenon DEF Orders
<1>7. CASE ~v.reverse
  <2>1. \A a, b \in RowKeys : <<a, b>> \in RowPairs(v) <=> Before(key, a, b)
    BY <1>2, <1>7 DEF RowPairs
  <2>2. \A a, b, c \in RowKeys :
          <<a, b>> \in RowPairs(v) /\ <<b, c>> \in RowPairs(v) => <<a, c>> \in RowPairs(v)
    BY <1>5, <2>1
  <2> QED
    BY <1>3, <1>4, <2>1, <2>2, Zenon DEF Orders
<1> QED
  BY <1>6, <1>7

\* A key of the table is of a row, or of a group if there are groups.
LEMMA InTableAre ==
  ASSUME NEW v, DOMAIN v.there \subseteq RowKeys, NEW k \in InTable(v)
  PROVE  /\ k \in Keys /\ k = <<k[1], k[2]>> /\ GroupOf(k) \in Projects
         /\ \/ k[1] = "row" /\ k[2] \in RowKeys
            \/ k[1] = "group" /\ v.grouped /\ k[2] = GroupOf(k)
<1>1. Visible(v) \subseteq RowKeys
  BY DEF Visible
<1>2. (\E r \in RowKeys : k = <<"row", r>>) \/ (v.grouped /\ \E p \in Projects : k = <<"group", p>>)
  BY <1>1 DEF InTable, RowKey, GroupKey, Projects
<1>3. CASE \E r \in RowKeys : k = <<"row", r>>
  <2>1. PICK r \in RowKeys : k = <<"row", r>>
    BY <1>3
  <2>2. k[1] = "row" /\ k[2] = r /\ GroupOf(k) = ProjectOf[r]
    BY <2>1 DEF GroupOf
  <2> QED
    BY <2>1, <2>2 DEF Keys, RowKey, Projects
<1>4. CASE v.grouped /\ \E p \in Projects : k = <<"group", p>>
  <2>1. PICK p \in Projects : k = <<"group", p>>
    BY <1>4
  <2>2. k[1] = "group" /\ k[2] = p /\ GroupOf(k) = p
    BY <2>1 DEF GroupOf
  <2> QED
    BY <1>4, <2>1, <2>2 DEF Keys, GroupKey
<1> QED
  BY <1>2, <1>3, <1>4

LEMMA InTableIsFinite ==
  ASSUME NEW v, DOMAIN v.there \subseteq RowKeys
  PROVE  IsFiniteSet(InTable(v))
<1>1. IsFiniteSet(RowKeys)
  BY DashboardAssumption
<1>2. IsFiniteSet(Projects)
  <2>1. PICK f : f = [r \in RowKeys |-> ProjectOf[r]]
    OBVIOUS
  <2>2. f \in Surjection(RowKeys, Projects)
    BY <2>1 DEF Surjection, Projects
  <2> QED
    BY <1>1, <2>2, FS_Surjection
<1>3. IsFiniteSet({"row", "group"})
  <2>1. IsFiniteSet({"row"})
    BY FS_Singleton
  <2>2. IsFiniteSet({"row"} \cup {"group"}) /\ {"row"} \cup {"group"} = {"row", "group"}
    BY <2>1, FS_AddElement
  <2> QED
    BY <2>2
<1>4. IsFiniteSet({"row", "group"} \X (RowKeys \cup Projects))
  BY <1>1, <1>2, <1>3, FS_Union, FS_Product
<1>5. InTable(v) \subseteq {"row", "group"} \X (RowKeys \cup Projects)
  <2> SUFFICES ASSUME NEW k \in InTable(v) PROVE k \in {"row", "group"} \X (RowKeys \cup Projects)
    OBVIOUS
  <2>1. /\ k = <<k[1], k[2]>> /\ GroupOf(k) \in Projects
        /\ \/ k[1] = "row" /\ k[2] \in RowKeys
           \/ k[1] = "group" /\ k[2] = GroupOf(k)
    BY InTableAre
  <2> QED
    BY <2>1
<1> QED
  BY <1>4, <1>5, FS_Subset

\* The keys of the table are ordered by group, header, and row.
LEMMA AboveOrders ==
  ASSUME NEW v, DOMAIN v.there \subseteq RowKeys, NEW D, D = InTable(v),
         NEW R, R = {kl \in D \X D : Above(v, kl[1], kl[2])}
  PROVE  Orders(R, D)
<1>1. PICK G, B : G = GroupPairs /\ B = RowPairs(v)
  OBVIOUS
<1>2. Orders(G, Projects) /\ Orders(B, RowKeys)
  BY <1>1, GroupsAreOrdered, RowsAreOrdered
<1>3. \A k, l \in D : <<k, l>> \in R <=> Above(v, k, l)
  OBVIOUS
<1>4. \A k \in D : /\ k = <<k[1], k[2]>> /\ GroupOf(k) \in Projects
                   /\ \/ k[1] = "row" /\ k[2] \in RowKeys
                      \/ k[1] = "group" /\ v.grouped /\ k[2] = GroupOf(k)
  BY InTableAre
<1>5. \A k, l \in D :
        <<k, l>> \in R <=>
          IF v.grouped /\ GroupOf(k) # GroupOf(l) THEN <<GroupOf(k), GroupOf(l)>> \in G
          ELSE IF k[1] = "row" /\ l[1] = "row" THEN <<k[2], l[2]>> \in B
          ELSE k[1] = "group" /\ l[1] = "row"
  <2> SUFFICES ASSUME NEW k \in D, NEW l \in D
               PROVE  Above(v, k, l) <=>
                        IF v.grouped /\ GroupOf(k) # GroupOf(l) THEN <<GroupOf(k), GroupOf(l)>> \in G
                        ELSE IF k[1] = "row" /\ l[1] = "row" THEN <<k[2], l[2]>> \in B
                        ELSE k[1] = "group" /\ l[1] = "row"
    BY <1>3
  <2>1. GroupBefore(GroupOf(k), GroupOf(l)) <=> <<GroupOf(k), GroupOf(l)>> \in G
    BY <1>1, <1>4 DEF GroupPairs
  <2>2. k[1] = "row" /\ l[1] = "row" => k[2] \in RowKeys /\ l[2] \in RowKeys
    BY <1>4
  <2>3. k[1] = "row" /\ l[1] = "row" =>
          (<<k[2], l[2]>> \in B <=>
             IF v.reverse THEN Before(v.key, l[2], k[2]) ELSE Before(v.key, k[2], l[2]))
    BY <1>1, <2>2 DEF RowPairs
  <2> QED
    BY <2>1, <2>3, Zenon DEF Above
<1>6. \A k \in D : <<k, k>> \notin R
  <2> SUFFICES ASSUME NEW k \in D PROVE <<k, k>> \notin R
    OBVIOUS
  <2>1. <<k, k>> \in R <=> IF k[1] = "row" THEN <<k[2], k[2]>> \in B ELSE FALSE
    BY <1>5
  <2>2. k[1] = "row" => k[2] \in RowKeys
    BY <1>4
  <2> QED
    BY <1>2, <2>1, <2>2 DEF Orders
<1>7. ASSUME NEW k \in D, NEW l \in D, k # l
      PROVE  <<k, l>> \in R \/ <<l, k>> \in R
  <2>1. CASE v.grouped /\ GroupOf(k) # GroupOf(l)
    <3>1. <<GroupOf(k), GroupOf(l)>> \in G \/ <<GroupOf(l), GroupOf(k)>> \in G
      BY <1>2, <1>4, <2>1 DEF Orders
    <3> QED
      BY <1>5, <2>1, <3>1
  <2>2. CASE ~(v.grouped /\ GroupOf(k) # GroupOf(l)) /\ k[1] = "row" /\ l[1] = "row"
    <3>1. k[2] \in RowKeys /\ l[2] \in RowKeys /\ k[2] # l[2]
      BY <1>4, <1>7, <2>2
    <3>2. <<k[2], l[2]>> \in B \/ <<l[2], k[2]>> \in B
      BY <1>2, <3>1 DEF Orders
    <3> QED
      BY <1>5, <2>2, <3>2
  <2>3. CASE ~(v.grouped /\ GroupOf(k) # GroupOf(l)) /\ ~(k[1] = "row" /\ l[1] = "row")
    <3>1. k[1] = "group" /\ l[1] = "group" => k = l
      BY <1>4, <2>3
    <3>2. k[1] \in {"row", "group"} /\ l[1] \in {"row", "group"}
      BY <1>4
    <3> QED
      BY <1>5, <1>7, <2>3, <3>1, <3>2
  <2> QED
    BY <2>1, <2>2, <2>3
<1>8. \A k, l, m \in D : <<k, l>> \in R /\ <<l, m>> \in R => <<k, m>> \in R
  <2> SUFFICES ASSUME NEW k \in D, NEW l \in D, NEW m \in D, <<k, l>> \in R, <<l, m>> \in R
               PROVE  <<k, m>> \in R
    OBVIOUS
  <2>1. CASE v.grouped /\ GroupOf(k) # GroupOf(l) /\ GroupOf(l) # GroupOf(m)
    <3>1. <<GroupOf(k), GroupOf(l)>> \in G /\ <<GroupOf(l), GroupOf(m)>> \in G
      BY <1>5, <2>1
    <3>2. <<GroupOf(k), GroupOf(m)>> \in G
      BY <1>2, <1>4, <3>1 DEF Orders
    <3>3. GroupOf(k) # GroupOf(m)
      BY <1>2, <1>4, <3>2 DEF Orders
    <3> QED
      BY <1>5, <2>1, <3>2, <3>3
  <2>2. CASE v.grouped /\ GroupOf(k) # GroupOf(l) /\ GroupOf(l) = GroupOf(m)
    BY <1>5, <2>2
  <2>3. CASE v.grouped /\ GroupOf(k) = GroupOf(l) /\ GroupOf(l) # GroupOf(m)
    BY <1>5, <2>3
  <2>4. CASE ~(v.grouped /\ GroupOf(k) # GroupOf(l)) /\ ~(v.grouped /\ GroupOf(l) # GroupOf(m))
    <3>1. ~(v.grouped /\ GroupOf(k) # GroupOf(m))
      BY <2>4
    <3>2. CASE k[1] = "row" /\ l[1] = "row" /\ m[1] = "row"
      <4>1. <<k[2], l[2]>> \in B /\ <<l[2], m[2]>> \in B
        BY <1>5, <2>4, <3>2
      <4>2. k[2] \in RowKeys /\ l[2] \in RowKeys /\ m[2] \in RowKeys
        BY <1>4, <3>2
      <4>3. <<k[2], m[2]>> \in B
        BY <1>2, <4>1, <4>2 DEF Orders
      <4> QED
        BY <1>5, <3>1, <3>2, <4>3
    <3>3. CASE ~(k[1] = "row" /\ l[1] = "row" /\ m[1] = "row")
      <4>1. k[1] \in {"row", "group"} /\ l[1] \in {"row", "group"} /\ m[1] \in {"row", "group"}
        BY <1>4
      <4>2. l[1] = "row" /\ m[1] = "row" /\ k[1] = "group"
        BY <1>5, <2>4, <3>3, <4>1
      <4> QED
        BY <1>5, <3>1, <4>2
    <3> QED
      BY <3>2, <3>3
  <2> QED
    BY <2>1, <2>2, <2>3, <2>4
<1> QED
  BY <1>6, <1>7, <1>8 DEF Orders

\* The table has the keys that are drawn, each once and in their order.
LEMMA OrderIs ==
  ASSUME NEW v, DOMAIN v.there \subseteq RowKeys, NEW o, o = Order(v)
  PROVE  /\ o \in Seq(Keys)
         /\ \A k : Contains(o, k) <=> k \in InTable(v)
         /\ \A i, j \in 1..Len(o) : i < j => o[i] # o[j] /\ Above(v, o[i], o[j])
<1>1. PICK D : D = InTable(v)
  OBVIOUS
<1>2. PICK R : R = {kl \in D \X D : Above(v, kl[1], kl[2])}
  OBVIOUS
<1>3. Orders(R, D) /\ IsFiniteSet(D)
  BY <1>1, <1>2, AboveOrders, InTableIsFinite
<1>4. o = Sorted(D, R)
  BY <1>1, <1>2 DEF Order
<1>5. /\ o \in Seq(D) /\ \A x \in D : \E i \in 1..Len(o) : o[i] = x
      /\ \A i, j \in 1..Len(o) : i < j => <<o[i], o[j]>> \in R
  BY <1>3, <1>4, SortedIs
<1>6. D \subseteq Keys
  BY <1>1, InTableAre
<1>7. o \in Seq(Keys)
  BY <1>5, <1>6
<1>8. \A i \in 1..Len(o) : o[i] \in D
  BY <1>5, ElementOfSeq
<1>9. \A k : Contains(o, k) <=> k \in D
  BY <1>5, <1>8, Zenon DEF Contains
<1>10. ASSUME NEW i \in 1..Len(o), NEW j \in 1..Len(o), i < j
       PROVE  o[i] # o[j] /\ Above(v, o[i], o[j])
  <2>1. <<o[i], o[j]>> \in R
    BY <1>5, <1>10
  <2>2. o[i] # o[j]
    BY <1>3, <1>8, <2>1 DEF Orders
  <2> QED
    BY <1>2, <2>1, <2>2
<1> QED
  BY <1>1, <1>7, <1>9, <1>10

-----------------------------------------------------------------------------
\* The cursor is on one row of the table, if that has any.
CursorIsOn(order, selected) ==
  /\ selected \subseteq Keys /\ \A k, l \in selected : k = l
  /\ selected = {} <=> order = <<>>
  /\ \A k \in selected : Contains(order, k)

LEMMA CursorGoesOn ==
  ASSUME NEW order \in Seq(Keys), NEW selected, selected \subseteq Keys, \A k, l \in selected : k = l
  PROVE  CursorIsOn(order, CursorAfter(order, selected))
<1>1. PICK c : c = CursorAfter(order, selected)
  OBVIOUS
<1>2. CASE \E k \in selected : Contains(order, k)
  <2>1. c = selected
    BY <1>1, <1>2, Zenon DEF CursorAfter
  <2>2. order # <<>>
    BY <1>2 DEF Contains
  <2> QED
    BY <1>1, <1>2, <2>1, <2>2, Zenon DEF CursorIsOn
<1>3. CASE ~(\E k \in selected : Contains(order, k)) /\ order = <<>>
  <2>1. c = {}
    BY <1>1, <1>3, Zenon DEF CursorAfter
  <2> QED
    BY <1>1, <1>3, <2>1, Zenon DEF CursorIsOn
<1>4. CASE ~(\E k \in selected : Contains(order, k)) /\ order # <<>>
  <2>1. c = {order[1]}
    BY <1>1, <1>4, Zenon DEF CursorAfter
  <2>2. 1 \in 1..Len(order)
    BY <1>4, EmptySeq, LenProperties
  <2>3. order[1] \in Keys /\ Contains(order, order[1])
    BY <2>2, ElementOfSeq DEF Contains
  <2>4. c \subseteq Keys /\ c # {} /\ \A k \in c : k = order[1]
    BY <2>1, <2>3
  <2> QED
    BY <1>1, <1>4, <2>3, <2>4, Zenon DEF CursorIsOn
<1> QED
  BY <1>2, <1>3, <1>4

\* What the table shows is asked for and of the snapshot there is.
ViewIs ==
  /\ DOMAIN rows \subseteq RowKeys /\ \A r \in DOMAIN rows : rows[r] \in Statuses
  /\ filterTerms \in FilterTexts
  /\ collecting \in BOOLEAN /\ commandMode \in BOOLEAN /\ problemsOnly \in BOOLEAN
  /\ isGrouped \in BOOLEAN /\ sortReverse \in BOOLEAN
  /\ collapsed \subseteq Projects /\ sortKey \in {"port", "value"}

\* The table is the one of the view, with the cursor in it.
TableInv ==
  /\ ViewIs
  /\ rowOrder = Order(View) /\ CursorIsOn(rowOrder, selectedKey)
  /\ marked \subseteq DOMAIN rows

LEMMA ViewHas == View.there = rows /\ DOMAIN View.there = DOMAIN rows
  BY DEF View

LEMMA TableInvTypes == TableInv => DashboardTypeOK /\ TableIsDrawn
<1> SUFFICES ASSUME TableInv PROVE DashboardTypeOK /\ TableIsDrawn
  OBVIOUS
<1>1. DOMAIN View.there \subseteq RowKeys
  BY ViewHas DEF TableInv, ViewIs
<1>2. PICK v : v = View
  OBVIOUS
<1>3. /\ rowOrder \in Seq(Keys)
      /\ \A k : Contains(rowOrder, k) <=> k \in InTable(v)
      /\ \A i, j \in 1..Len(rowOrder) : i < j => rowOrder[i] # rowOrder[j] /\ Above(v, rowOrder[i], rowOrder[j])
  <2>1. DOMAIN v.there \subseteq RowKeys /\ rowOrder = Order(v)
    BY <1>1, <1>2, Zenon DEF TableInv
  <2> QED
    BY <2>1, OrderIs
<1>4. TableIsDrawn
  <2>1. /\ \A k \in Keys : Contains(rowOrder, k) <=> k \in InTable(View)
        /\ \A i, j \in 1..Len(rowOrder) : i < j => rowOrder[i] # rowOrder[j] /\ Above(View, rowOrder[i], rowOrder[j])
    BY <1>2, <1>3
  <2>2. /\ selectedKey = {} <=> rowOrder = <<>>
        /\ \A k \in selectedKey : Contains(rowOrder, k)
        /\ marked \subseteq DOMAIN rows
    BY Zenon DEF TableInv, CursorIsOn
  <2> QED
    BY <2>1, <2>2, Zenon DEF TableIsDrawn
<1>5. {collecting, commandMode, problemsOnly, isGrouped, sortReverse} \subseteq BOOLEAN
  BY Zenon DEF TableInv, ViewIs
<1>6. marked \subseteq RowKeys
  BY DEF TableInv, ViewIs
<1>7. DashboardTypeOK
  BY <1>3, <1>5, <1>6, Zenon DEF DashboardTypeOK, TableInv, ViewIs, CursorIsOn
<1> QED
  BY <1>4, <1>7

LEMMA TableStarts == DashboardInit => TableInv
<1> SUFFICES ASSUME DashboardInit PROVE TableInv
  OBVIOUS
<1>1. DOMAIN rows = {}
  BY DEF DashboardInit
<1>2. ViewIs
  <2>1. \A r \in DOMAIN rows : rows[r] \in Statuses
    BY <1>1
  <2>2. sortKey \in {"port", "value"}
    BY DEF DashboardInit
  <2> QED
    BY <1>1, <2>1, <2>2, DashboardAssumption, Zenon DEF ViewIs, DashboardInit
<1>3. PICK v, o : v = View /\ o = Order(v)
  OBVIOUS
<1>4. DOMAIN v.there = {}
  BY <1>1, <1>3, ViewHas
<1>5. o \in Seq(Keys) /\ \A k : Contains(o, k) <=> k \in InTable(v)
  BY <1>3, <1>4, OrderIs
<1>6. InTable(v) = {}
  <2>1. Visible(v) = {}
    BY <1>4 DEF Visible
  <2> QED
    BY <2>1 DEF InTable
<1>7. o = <<>>
  <2>1. \A i \in 1..Len(o) : Contains(o, o[i])
    BY DEF Contains
  <2> QED
    BY <1>5, <1>6, <2>1, EmptySeq, LenProperties
<1>8. rowOrder = Order(View) /\ CursorIsOn(rowOrder, selectedKey) /\ marked \subseteq DOMAIN rows
  BY <1>3, <1>7, Zenon DEF DashboardInit, CursorIsOn
<1> QED
  BY <1>2, <1>8, Zenon DEF TableInv

\* A table that is rebuilt is the one of its view, with the cursor where it was or none.
LEMMA RebuiltKeeps ==
  ASSUME TableInv, ViewIs', NEW v, v = View', NEW marks, NEW cursor, cursor \subseteq selectedKey,
         UpdateTable(v, marks, cursor)
  PROVE  TableInv'
<1>1. v.there = rows' /\ DOMAIN v.there \subseteq RowKeys
  BY DEF View, ViewIs
<1>2. PICK o : o = Order(v)
  OBVIOUS
<1>3. o \in Seq(Keys)
  BY <1>1, <1>2, OrderIs
<1>4. cursor \subseteq Keys /\ \A k, l \in cursor : k = l
  <2>1. selectedKey \subseteq Keys /\ \A k, l \in selectedKey : k = l
    BY Zenon DEF TableInv, CursorIsOn
  <2> QED
    BY <2>1
<1>5. CursorIsOn(o, CursorAfter(o, cursor))
  BY <1>3, <1>4, CursorGoesOn
<1>6. rowOrder' = o /\ selectedKey' = CursorAfter(o, cursor) /\ marked' = marks \cap DOMAIN rows'
  BY <1>1, <1>2, Zenon DEF UpdateTable
<1>7. CursorIsOn(rowOrder', selectedKey')
  BY <1>5, <1>6
<1>8. rowOrder' = Order(View')
  BY <1>2, <1>6
<1>9. marked' \subseteq DOMAIN rows'
  BY <1>6
<1> QED
  BY <1>7, <1>8, <1>9, Zenon DEF TableInv, CursorIsOn

\* So with the cursor where it was.
LEMMA UpdateKeeps ==
  ASSUME TableInv, ViewIs', NEW v, v = View', NEW marks, UpdateTable(v, marks, selectedKey)
  PROVE  TableInv'
  BY RebuiltKeeps, Zenon

\* The table stays when the view does.
LEMMA ViewKeeps ==
  ASSUME TableInv, ViewIs', View' = View, rows' = rows, rowOrder' = rowOrder,
         CursorIsOn(rowOrder', selectedKey'), marked' \subseteq DOMAIN rows
  PROVE  TableInv'
<1>1. rowOrder' = Order(View')
  BY Zenon DEF TableInv
<1> QED
  BY <1>1, Zenon DEF TableInv, CursorIsOn

\* Refreshes.
LEMMA RefreshesKeep ==
  ASSUME TableInv, \/ RefreshData \/ RefreshFails
                   \/ \E there \in UNION {[live -> Statuses] : live \in SUBSET RowKeys} : ApplySnapshot(there)
  PROVE  TableInv'
<1>1. CASE RefreshData \/ RefreshFails
  <2>1. UNCHANGED <<rows, filterTerms, commandMode, problemsOnly, isGrouped, collapsed, sortKey,
                    sortReverse, rowOrder, selectedKey, marked>> /\ collecting' \in BOOLEAN
    BY <1>1, Zenon DEF RefreshData, RefreshFails
  <2>2. ViewIs' /\ View' = View
    BY <2>1, Zenon DEF TableInv, ViewIs, View
  <2>3. CursorIsOn(rowOrder', selectedKey') /\ marked' \subseteq DOMAIN rows
    BY <2>1, Zenon DEF TableInv
  <2> QED
    BY <2>1, <2>2, <2>3, ViewKeeps
<1>2. ASSUME NEW live \in SUBSET RowKeys, NEW there \in [live -> Statuses], ApplySnapshot(there)
      PROVE  TableInv'
  <2>1. /\ collecting' = FALSE /\ rows' = there
        /\ UpdateTable([View EXCEPT !.there = there], marked, selectedKey)
        /\ UNCHANGED <<filterTerms, commandMode, problemsOnly, isGrouped, collapsed, sortKey, sortReverse>>
    BY <1>2, Zenon DEF ApplySnapshot
  <2>2. DOMAIN there \subseteq RowKeys /\ \A r \in DOMAIN there : there[r] \in Statuses
    BY <1>2
  <2>3. ViewIs'
    BY <2>1, <2>2, Zenon DEF TableInv, ViewIs
  <2>4. [View EXCEPT !.there = there] = View'
    BY <2>1 DEF View
  <2> QED
    BY <2>1, <2>3, <2>4, UpdateKeeps
<1> QED
  BY <1>1, <1>2, Zenon

\* What is typed.
LEMMA FiltersKeep ==
  ASSUME TableInv, \/ \E terms \in FilterTexts : SetFilter(terms) \/ LeaveCommandMode(terms)
                   \/ \E inNoRow \in BOOLEAN : EnterCommandMode(inNoRow) \/ TypeCommand(inNoRow)
                   \/ Escape
  PROVE  TableInv'
<1>1. ASSUME NEW terms \in FilterTexts, NEW marks, NEW cursor, cursor \subseteq selectedKey,
             filterTerms' = terms, commandMode' \in BOOLEAN,
             UpdateTable([View EXCEPT !.terms = terms], marks, cursor),
             UNCHANGED <<rows, collecting, problemsOnly, isGrouped, collapsed, sortKey, sortReverse>>
      PROVE  TableInv'
  <2>1. ViewIs'
    BY <1>1, Zenon DEF TableInv, ViewIs
  <2>2. [View EXCEPT !.terms = terms] = View'
    BY <1>1 DEF View
  <2> QED
    BY <1>1, <2>1, <2>2, RebuiltKeeps
<1>2. selectedKey \subseteq selectedKey /\ {} \subseteq selectedKey /\ <<>> \in FilterTexts
  BY DashboardAssumption, Zenon
<1>3. ASSUME NEW terms \in FilterTexts, SetFilter(terms) \/ LeaveCommandMode(terms) PROVE TableInv'
  <2>1. commandMode' \in BOOLEAN
    BY <1>3, Zenon DEF SetFilter, LeaveCommandMode, TableInv, ViewIs
  <2> QED
    BY <1>1, <1>2, <1>3, <2>1, Zenon DEF SetFilter, LeaveCommandMode
<1>4. ASSUME NEW inNoRow \in BOOLEAN, EnterCommandMode(inNoRow) \/ TypeCommand(inNoRow) PROVE TableInv'
  <2>1. commandMode' \in BOOLEAN /\ CommandText(inNoRow)
    BY <1>4, Zenon DEF EnterCommandMode, TypeCommand
  <2>2. PICK cursor : cursor = IF inNoRow THEN {} ELSE selectedKey
    OBVIOUS
  <2>3. cursor \subseteq selectedKey
    BY <1>2, <2>2, Zenon
  <2> QED
    BY <1>1, <1>2, <2>1, <2>2, <2>3, Zenon DEF CommandText
<1>5. CASE Escape
  <2>1. commandMode' \in BOOLEAN
    BY <1>5, Zenon DEF Escape, TableInv, ViewIs
  <2> QED
    BY <1>1, <1>2, <1>5, <2>1, Zenon DEF Escape
<1> QED
  BY <1>3, <1>4, <1>5, Zenon

\* How the rows are shown.
LEMMA ViewsKeep ==
  ASSUME TableInv, \/ \E key \in {"port", "value"}, reverse \in BOOLEAN : Sort(key, reverse)
                   \/ ToggleProblems \/ ToggleGrouping \/ \E p \in Projects : ToggleCollapse(p)
  PROVE  TableInv'
<1>1. ASSUME NEW key \in {"port", "value"}, NEW reverse \in BOOLEAN, Sort(key, reverse) PROVE TableInv'
  <2>1. /\ sortKey' = key /\ sortReverse' = reverse
        /\ UpdateTable([View EXCEPT !.key = key, !.reverse = reverse], marked, selectedKey)
        /\ UNCHANGED <<rows, collecting, filterTerms, commandMode, problemsOnly, isGrouped, collapsed>>
    BY <1>1, Zenon DEF Sort
  <2>2. ViewIs'
    BY <1>1, <2>1, Zenon DEF TableInv, ViewIs
  <2>3. [View EXCEPT !.key = key, !.reverse = reverse] = View'
    <3>1. PICK w : w = [View EXCEPT !.key = key]
      OBVIOUS
    <3>2. [View EXCEPT !.key = key, !.reverse = reverse] = [w EXCEPT !.reverse = reverse]
      BY <3>1, Zenon DEF View
    <3>3. w = [there |-> rows, terms |-> filterTerms, problems |-> problemsOnly, key |-> key,
               reverse |-> sortReverse, grouped |-> isGrouped, folded |-> collapsed]
      BY <3>1 DEF View
    <3>4. [w EXCEPT !.reverse = reverse] = View'
      BY <2>1, <3>3 DEF View
    <3> QED
      BY <3>2, <3>4
  <2> QED
    BY <2>1, <2>2, <2>3, UpdateKeeps
<1>2. CASE ToggleProblems
  <2>1. /\ problemsOnly' = ~problemsOnly
        /\ UpdateTable([View EXCEPT !.problems = ~@], marked, selectedKey)
        /\ UNCHANGED <<rows, collecting, filterTerms, commandMode, isGrouped, collapsed, sortKey, sortReverse>>
    BY <1>2, Zenon DEF ToggleProblems
  <2>2. ViewIs'
    BY <2>1, Zenon DEF TableInv, ViewIs
  <2>3. [View EXCEPT !.problems = ~@] = View'
    BY <2>1 DEF View
  <2> QED
    BY <2>1, <2>2, <2>3, UpdateKeeps
<1>3. CASE ToggleGrouping
  <2>1. /\ isGrouped' = ~isGrouped
        /\ UpdateTable([View EXCEPT !.grouped = ~@], marked, selectedKey)
        /\ UNCHANGED <<rows, collecting, filterTerms, commandMode, problemsOnly, collapsed, sortKey, sortReverse>>
    BY <1>3, Zenon DEF ToggleGrouping
  <2>2. ViewIs'
    BY <2>1, Zenon DEF TableInv, ViewIs
  <2>3. [View EXCEPT !.grouped = ~@] = View'
    BY <2>1 DEF View
  <2> QED
    BY <2>1, <2>2, <2>3, UpdateKeeps
<1>4. ASSUME NEW p \in Projects, ToggleCollapse(p) PROVE TableInv'
  <2>1. /\ collapsed' = IF p \in collapsed THEN collapsed \ {p} ELSE collapsed \cup {p}
        /\ UpdateTable([View EXCEPT !.folded = collapsed'], marked, selectedKey)
        /\ UNCHANGED <<rows, collecting, filterTerms, commandMode, problemsOnly, isGrouped, sortKey, sortReverse>>
    BY <1>4, Zenon DEF ToggleCollapse
  <2>2. collapsed' \subseteq Projects
    BY <2>1 DEF TableInv, ViewIs
  <2>3. ViewIs'
    BY <2>1, <2>2, Zenon DEF TableInv, ViewIs
  <2>4. [View EXCEPT !.folded = collapsed'] = View'
    BY <2>1 DEF View
  <2> QED
    BY <2>1, <2>3, <2>4, UpdateKeeps
<1> QED
  BY <1>1, <1>2, <1>3, <1>4, Zenon

\* The cursor and the marks.
LEMMA MarksKeep ==
  ASSUME TableInv, (\E k \in Keys : MoveCursor(k)) \/ (\E r \in RowKeys : Mark(r)) \/ MarkAll
  PROVE  TableInv'
<1>1. UNCHANGED <<rows, collecting, filterTerms, commandMode, problemsOnly, isGrouped, collapsed,
                  sortKey, sortReverse, rowOrder>>
  BY Zenon DEF MoveCursor, Mark, MarkAll
<1>2. ViewIs' /\ View' = View
  BY <1>1, Zenon DEF TableInv, ViewIs, View
<1>3. PICK o : o = rowOrder
  OBVIOUS
<1>4. DashboardTypeOK /\ TableIsDrawn
  BY TableInvTypes
<1>5. o \in Seq(Keys)
  BY <1>3, <1>4 DEF DashboardTypeOK
<1>6. \A r \in RowKeys : Contains(o, RowKey(r)) => r \in DOMAIN rows
  <2> SUFFICES ASSUME NEW r \in RowKeys, Contains(o, RowKey(r)) PROVE r \in DOMAIN rows
    OBVIOUS
  <2>1. RowKey(r) \in Keys
    BY DEF Keys
  <2>2. RowKey(r) \in InTable(View)
    BY <1>3, <1>4, <2>1 DEF TableIsDrawn
  <2>3. r \in Visible(View)
    BY <2>2 DEF InTable, RowKey, GroupKey
  <2> QED
    BY <2>3, ViewHas DEF Visible
<1>7. \A k \in Keys : Contains(o, k) => CursorIsOn(o, {k})
  <2> SUFFICES ASSUME NEW k \in Keys, Contains(o, k) PROVE CursorIsOn(o, {k})
    OBVIOUS
  <2>1. o # <<>>
    BY DEF Contains
  <2> QED
    BY <2>1 DEF CursorIsOn
<1>8. CursorIsOn(o, selectedKey) /\ marked \subseteq DOMAIN rows
  BY <1>3, Zenon DEF TableInv
<1>9. CursorIsOn(o, selectedKey') /\ marked' \subseteq DOMAIN rows
  <2>1. ASSUME NEW k \in Keys, MoveCursor(k) PROVE CursorIsOn(o, selectedKey') /\ marked' \subseteq DOMAIN rows
    <3>1. Contains(o, k) /\ selectedKey' = {k} /\ marked' = marked
      BY <1>3, <2>1, Zenon DEF MoveCursor
    <3> QED
      BY <1>7, <1>8, <3>1
  <2>2. ASSUME NEW r \in RowKeys, Mark(r) PROVE CursorIsOn(o, selectedKey') /\ marked' \subseteq DOMAIN rows
    <3>1. PICK at : at = CHOOSE i \in DOMAIN o : o[i] = RowKey(r)
      OBVIOUS
    <3>2. /\ selectedKey = {RowKey(r)}
          /\ marked' = IF r \in marked THEN marked \ {r} ELSE marked \cup {r}
          /\ selectedKey' = IF at < Len(o) THEN {o[at + 1]} ELSE selectedKey
      BY <1>3, <2>2, <3>1, Zenon DEF Mark
    <3>3. Contains(o, RowKey(r))
      BY <1>8, <3>2 DEF CursorIsOn
    <3>4. at \in 1..Len(o)
      <4>1. DOMAIN o = 1..Len(o)
        BY <1>5, LenProperties
      <4>2. \E i \in DOMAIN o : o[i] = RowKey(r)
        BY <3>3, <4>1 DEF Contains
      <4> QED
        BY <3>1, <4>1, <4>2, Zenon
    <3>5. marked' \subseteq DOMAIN rows
      BY <1>6, <1>8, <3>2, <3>3
    <3>6. CASE at < Len(o)
      <4>1. at + 1 \in 1..Len(o)
        BY <1>5, <3>4, <3>6, LenProperties
      <4>2. o[at + 1] \in Keys /\ Contains(o, o[at + 1])
        BY <1>5, <4>1, ElementOfSeq DEF Contains
      <4> QED
        BY <1>7, <3>2, <3>5, <3>6, <4>2
    <3>7. CASE ~(at < Len(o))
      BY <1>8, <3>2, <3>5, <3>7
    <3> QED
      BY <3>6, <3>7
  <2>3. CASE MarkAll
    <3>1. PICK drawn : drawn = {r \in RowKeys : Contains(o, RowKey(r))}
      OBVIOUS
    <3>2. /\ marked' = IF drawn # {} /\ drawn \subseteq marked THEN marked \ drawn ELSE marked \cup drawn
          /\ selectedKey' = selectedKey
      BY <1>3, <2>3, <3>1, Zenon DEF MarkAll
    <3>3. drawn \subseteq DOMAIN rows
      BY <1>6, <3>1
    <3> QED
      BY <1>8, <3>2, <3>3
  <2> QED
    BY <2>1, <2>2, <2>3, Zenon
<1> QED
  BY <1>1, <1>2, <1>3, <1>9, ViewKeeps

LEMMA TableStep == TableInv /\ [DashboardNext]_dashVars => TableInv'
<1> SUFFICES ASSUME TableInv, [DashboardNext]_dashVars PROVE TableInv'
  OBVIOUS
<1>1. CASE DashboardNext
  BY <1>1, RefreshesKeep, FiltersKeep, ViewsKeep, MarksKeep, Zenon DEF DashboardNext
<1>2. CASE UNCHANGED dashVars
  <2>1. UNCHANGED <<rows, collecting, filterTerms, commandMode, problemsOnly, isGrouped, collapsed,
                    sortKey, sortReverse, rowOrder, selectedKey, marked>>
    BY <1>2 DEF dashVars
  <2>2. ViewIs' /\ View' = View
    BY <2>1, Zenon DEF TableInv, ViewIs, View
  <2>3. CursorIsOn(rowOrder', selectedKey') /\ marked' \subseteq DOMAIN rows
    BY <2>1, Zenon DEF TableInv
  <2> QED
    BY <2>1, <2>2, <2>3, ViewKeeps
<1> QED
  BY <1>1, <1>2

THEOREM TableInductive == DashboardSpec => []TableInv
  BY TableStarts, TableStep, PTL DEF DashboardSpec

\* The table has its types: rows of the snapshot, keys of rows and groups (tui/app_table.py).
THEOREM DashboardTypeCorrect == DashboardSpec => []DashboardTypeOK
  BY TableInductive, TableInvTypes, PTL

\* After whatever the user or a refresh does, the table has what passes the filter once and in
\* its place, the cursor is on it, and the marks are rows of the snapshot (tui/app_table.py,
\* tui/app_filter.py, tui/app_marks.py).
THEOREM TableAlwaysDrawn == DashboardSpec => []TableIsDrawn
  BY TableInductive, TableInvTypes, PTL

-----------------------------------------------------------------------------
(* What is told of events (module EventNews). *)

\* The log has the events in the order of their numbers; what the user is to hear of and is in
\* it was told, or is history, up to the time `newest`.
Entries(n, t) == [id : 1..n, at : 1..t, worth : BOOLEAN]

Log(log, n, t) ==
  /\ log \in Seq(Entries(n, t))
  /\ \A i, j \in 1..Len(log) : i < j => log[i].id < log[j].id

\* An event of a log is out of its place (Overtaken, of any log).
Over(log, i) == \E j \in i + 1..Len(log) : log[j].at < log[i].at

\* What ToldOnce says of one event.
TellsRight(log, i, counts, b, top) ==
  /\ ~Over(log, i) => counts[log[i].id] <= 1
  /\ ~log[i].worth => counts[log[i].id] = 0
  /\ /\ i > Len(log) - SnapshotEvents /\ log[i].id > b /\ log[i].worth
     /\ log[i].at <= top \/ Over(log, i)
     => counts[log[i].id] >= 1

\* An event in its place that is yet to be passed was never told.
Pending(log, counts, top) ==
  \A i \in 1..Len(log) : log[i].worth /\ ~(log[i].at <= top) => Over(log, i) \/ counts[log[i].id] = 0

\* After the first refresh of a teller all events in their place up to `newest` are history or
\* were told, and no other was.
NewsInv ==
  /\ teller \in {"watch", "dashboard"} /\ telling \in {"first", "on", "ended"}
  /\ newsTime \in Nat /\ newest \in 0..newsTime /\ centre \in 0..newsTime
  /\ told \in Seq(Nat) /\ Recorded <= LastEventId /\ baseline \in 0..Recorded
  /\ Log(newsLog, Recorded, newsTime)
  /\ telling = "first" => \A i \in 1..Len(newsLog) : newsLog[i].at = newsTime
  /\ telling = "on" => Pending(newsLog, told, newest)
  /\ ToldOnce

-----------------------------------------------------------------------------
\* The property, one event at a time.
LEMMA ToldIs ==
  /\ ToldOnce <=> \A i \in 1..Len(newsLog) : TellsRight(newsLog, i, told, baseline, newest)
  /\ ToldOnce' <=> \A i \in 1..Len(newsLog') : TellsRight(newsLog', i, told', baseline', newest')
  BY DEF ToldOnce, Overtaken, TellsRight, Over

\* The maximum of two.
LEMMA TwoMax ==
  ASSUME NEW a \in Int, NEW b \in Int
  PROVE  Max({a, b}) = IF a >= b THEN a ELSE b
<1>1. \E x \in {a, b} : \A y \in {a, b} : x >= y
  OBVIOUS
<1>2. Max({a, b}) \in {a, b} /\ \A y \in {a, b} : Max({a, b}) >= y
  BY <1>1 DEF Max
<1> QED
  BY <1>2

\* The times of a log.
LEMMA TimesAre ==
  ASSUME NEW S, NEW t \in Nat, NEW log \in Seq(S), \A i \in 1..Len(log) : log[i].at \in 1..t
  PROVE  /\ Times(log) \subseteq 1..t /\ Times(log) \in SUBSET Nat /\ IsFiniteSet(Times(log))
         /\ \A i \in 1..Len(log) : log[i].at \in Times(log)
         /\ log # <<>> => Times(log) # {}
<1>1. IsFiniteSet(1..t)
  BY 1 \in Int, t \in Int, FS_Interval
<1>2. IsFiniteSet(Times(log))
  BY <1>1, FS_Subset DEF Times
<1>3. log # <<>> => 1 \in 1..Len(log)
  BY EmptySeq, LenProperties
<1> QED
  BY <1>2, <1>3 DEF Times

\* The later of a time and the times of a log.
LEMMA LaterIs ==
  ASSUME NEW top \in Nat, NEW t \in 0..top, NEW times \in SUBSET (1..top), IsFiniteSet(times)
  PROVE  Later(t, times) \in 0..top /\ t <= Later(t, times) /\ \A s \in times : s <= Later(t, times)
<1>1. PICK all : all = times \cup {t}
  OBVIOUS
<1>2. all \in SUBSET Nat /\ IsFiniteSet(all) /\ all # {} /\ all \subseteq 0..top
  BY <1>1, FS_AddElement
<1>3. Max(all) \in all /\ \A s \in all : s <= Max(all)
  BY <1>2, MaxIs
<1> QED
  BY <1>1, <1>2, <1>3 DEF Later

-----------------------------------------------------------------------------
\* What an entry of the log has.
LEMMA EntriesAre ==
  ASSUME NEW n \in Nat, NEW t \in Nat, NEW s \in Seq(Entries(n, t)), NEW i \in 1..Len(s)
  PROVE  s[i].id \in 1..n /\ s[i].at \in 1..t /\ s[i].worth \in BOOLEAN
<1>1. s[i] \in Entries(n, t)
  BY ElementOfSeq
<1> QED
  BY <1>1 DEF Entries

\* One log is another with k more events.
Longer(c, log, a, k) ==
  /\ Len(log) \in Nat /\ Len(c) = Len(log) + k
  /\ \A i \in 1..Len(log) : c[i] = log[i]
  /\ \A i \in (Len(log) + 1)..(Len(log) + k) : c[i] = a[i - Len(log)]

\* Events are added at the end, with the next numbers.
LEMMA LogGrows ==
  ASSUME NEW n \in Nat, NEW t \in Nat, NEW k \in Nat, NEW t2 \in Nat, t <= t2,
         NEW log, Log(log, n, t), NEW a \in Seq(Entries(n + k, t2)), Len(a) = k,
         \A i \in 1..k : a[i].id = n + i
  PROVE  Log(log \o a, n + k, t2) /\ Longer(log \o a, log, a, k)
<1>1. log \in Seq(Entries(n + k, t2))
  <2>1. Entries(n, t) \subseteq Entries(n + k, t2)
    BY DEF Entries
  <2> QED
    BY <2>1 DEF Log
<1>2. PICK m \in Nat : m = Len(log)
  BY <1>1, LenProperties
<1>3. PICK c : c = log \o a
  OBVIOUS
<1>4. c \in Seq(Entries(n + k, t2)) /\ Len(c) = m + k
  BY <1>1, <1>2, <1>3, ConcatProperties
<1>5. \A i \in 1..(m + k) : c[i] = IF i <= m THEN log[i] ELSE a[i - m]
  BY <1>1, <1>2, <1>3, ConcatProperties
<1>6. \A i \in 1..m : c[i] = log[i]
  BY <1>5
<1>7. \A i \in (m + 1)..(m + k) : c[i] = a[i - m] /\ i - m \in 1..k
  BY <1>2, <1>5
<1>8. \A i \in (m + 1)..(m + k) : c[i].id = n + (i - m)
  BY <1>7
<1>9. \A i \in 1..m : c[i].id \in 1..n
  <2>1. \A i \in 1..m : log[i] \in Entries(n, t)
    BY <1>2, ElementOfSeq DEF Log
  <2> QED
    BY <1>6, <2>1 DEF Entries
<1>10. ASSUME NEW i \in 1..(m + k), NEW j \in 1..(m + k), i < j
       PROVE  c[i].id < c[j].id
  <2>1. CASE j <= m
    <3>1. i \in 1..m /\ j \in 1..m
      BY <1>2, <1>10, <2>1
    <3> QED
      BY <1>2, <1>6, <1>10, <3>1 DEF Log
  <2>2. CASE i <= m /\ ~(j <= m)
    <3>1. i \in 1..m /\ j \in (m + 1)..(m + k)
      BY <1>2, <2>2
    <3>2. c[i].id \in 1..n /\ c[j].id = n + (j - m)
      BY <1>8, <1>9, <3>1
    <3> QED
      BY <1>2, <3>1, <3>2
  <2>3. CASE ~(i <= m)
    <3>1. i \in (m + 1)..(m + k) /\ j \in (m + 1)..(m + k)
      BY <1>2, <1>10, <2>3
    <3>2. c[i].id = n + (i - m) /\ c[j].id = n + (j - m)
      BY <1>8, <3>1
    <3> QED
      BY <1>2, <1>10, <3>1, <3>2
  <2> QED
    BY <2>1, <2>2, <2>3
<1> QED
  BY <1>2, <1>3, <1>4, <1>6, <1>7, <1>10 DEF Log, Longer

\* What makes an entry.
LEMMA EntryIs ==
  ASSUME NEW n \in Nat, NEW t \in Nat, NEW id \in 1..n, NEW at \in 1..t, NEW worth \in BOOLEAN
  PROVE  [id |-> id, at |-> at, worth |-> worth] \in Entries(n, t)
  BY DEF Entries

\* What a refresh adds.
Fresh(a, k) ==
  /\ a \in Seq(Entries(Recorded + k, newsTime')) /\ Len(a) = k
  /\ \A i \in 1..k : a[i].id = Recorded + i /\ a[i].at > newsTime
  /\ teller = "watch" => \A i \in 1..k : a[i].at = newsTime'

\* The notes and the events of a refresh.
Made(r, at, all, k) == [i \in 1..k |-> [id |-> r + i, at |-> at[i], worth |-> all[i]]]

IsMade(a, r, at, all, k, t) ==
  /\ a \in Seq(Entries(r + k, t)) /\ Len(a) = k
  /\ \A i \in 1..k : a[i].id = r + i /\ a[i].at = at[i] /\ a[i].worth = all[i]

\* The entries a refresh makes are fresh.
LEMMA FreshIs ==
  ASSUME NEW r \in Nat, NEW k \in Nat, NEW all \in [1..k -> BOOLEAN],
         NEW t \in Nat, NEW at \in [1..k -> 1..t]
  PROVE  IsMade(Made(r, at, all, k), r, at, all, k, t)
<1>0. PICK a : a = Made(r, at, all, k) /\ a = [i \in 1..k |-> [id |-> r + i, at |-> at[i], worth |-> all[i]]]
  BY DEF Made
<1>1. ASSUME NEW i \in 1..k PROVE a[i] \in Entries(r + k, t)
  <2>1. r + i \in 1..(r + k) /\ at[i] \in 1..t /\ all[i] \in BOOLEAN /\ r + k \in Nat
    OBVIOUS
  <2> QED
    BY <1>0, <2>1, EntryIs
<1>2. a \in [1..k -> Entries(r + k, t)]
  BY <1>0, <1>1
<1> QED
  BY <1>0, <1>2 DEF IsMade

\* Notes and events are sequences.
LEMMA NotesAre ==
  /\ \A n \in Nat : \A worth \in [1..n -> BOOLEAN] : worth \in Seq(BOOLEAN)
  /\ \A notes \in {<<>>, <<FALSE>>, <<TRUE>>} : notes \in Seq(BOOLEAN)
<1>1. ASSUME NEW n \in Nat, NEW worth \in [1..n -> BOOLEAN] PROVE worth \in Seq(BOOLEAN)
  OBVIOUS
<1>2. <<>> \in Seq(BOOLEAN) /\ <<FALSE>> \in Seq(BOOLEAN) /\ <<TRUE>> \in Seq(BOOLEAN)
  OBVIOUS
<1> QED
  BY <1>1, <1>2, Zenon

\* A refresh appends fresh events to the log, at a later time.
LEMMA RefreshAdds ==
  ASSUME NewsInv, NEW n \in Nat, NEW worth \in [1..n -> BOOLEAN], 
         NEW notes \in {<<>>, <<FALSE>>, <<TRUE>>}, RefreshTells(worth, notes)
  PROVE  \E k \in Nat : \E a : /\ newsLog' = newsLog \o a /\ Fresh(a, k) /\ Recorded + k <= LastEventId
                               /\ newsTime' \in Nat /\ newsTime' > newsTime
<1>0. newsTime \in Nat /\ Recorded \in Nat
  BY LenProperties DEF NewsInv, Recorded
<1>1. CASE notes # <<>>
  <2>1. PICK all : all = notes \o worth
    OBVIOUS
  <2>2. worth \in Seq(BOOLEAN) /\ notes \in Seq(BOOLEAN)
    BY NotesAre, Zenon
  <2>3. all \in Seq(BOOLEAN) /\ Len(all) \in Nat
    BY <2>1, <2>2, ConcatProperties, LenProperties
  <2>4. PICK k \in Nat : k = Len(all) /\ all \in [1..k -> BOOLEAN]
    BY <2>3
  <2>5. PICK at : at = [i \in 1..k |-> IF i = 1 THEN newsTime + 2 ELSE newsTime + 1]
    OBVIOUS
  <2>6. /\ newsTime' = newsTime + 2 /\ teller = "dashboard" /\ Recorded + k <= LastEventId
        /\ newsLog' = newsLog \o [[i \in 1..k |-> [id |-> Recorded + i, at |-> newsTime + 1, worth |-> all[i]]]
                                   EXCEPT ![1].at = newsTime + 2]
    BY <1>1, <2>1, <2>4 DEF RefreshTells, Emitted
  <2>7. PICK a : a = [i \in 1..k |-> [id |-> Recorded + i, at |-> at[i], worth |-> all[i]]]
                 /\ a = Made(Recorded, at, all, k)
    BY DEF Made
  <2>8. newsLog' = newsLog \o a
    <3>1. PICK fresh : fresh = [i \in 1..k |-> [id |-> Recorded + i, at |-> newsTime + 1, worth |-> all[i]]]
      OBVIOUS
    <3>2. ASSUME NEW i \in 1..k PROVE [fresh EXCEPT ![1].at = newsTime + 2][i] = a[i]
      <4>1. CASE i = 1
        BY <2>5, <2>7, <3>1, <4>1
      <4>2. CASE i # 1
        BY <2>5, <2>7, <3>1, <4>2
      <4> QED
        BY <4>1, <4>2
    <3>3. [fresh EXCEPT ![1].at = newsTime + 2] = a
      BY <2>7, <3>1, <3>2
    <3> QED
      BY <2>6, <3>1, <3>3
  <2>9. at \in [1..k -> (newsTime + 1)..(newsTime + 2)] /\ \A i \in 1..k : at[i] <= newsTime'
    BY <1>0, <2>5, <2>6
  <2>10. /\ a \in Seq(Entries(Recorded + k, newsTime')) /\ Len(a) = k
         /\ \A i \in 1..k : a[i].id = Recorded + i /\ a[i].at = at[i] /\ a[i].worth = all[i]
    <3>1. PICK t \in Nat : t = newsTime'
      BY <1>0, <2>6
    <3>2. at \in [1..k -> 1..t]
      BY <1>0, <2>9, <3>1
    <3> QED
      <4>0. PICK r \in Nat : r = Recorded
        BY <1>0
      <4>1. a = Made(r, at, all, k) /\ all \in [1..k -> BOOLEAN]
        BY <2>4, <2>7, <4>0, Zenon
      <4>2. IsMade(Made(r, at, all, k), r, at, all, k, t)
        BY <3>2, <4>1, FreshIs, Zenon
      <4> QED
        BY <3>1, <4>0, <4>1, <4>2, Zenon DEF IsMade
  <2>11. \A i \in 1..k : a[i].id = Recorded + i /\ a[i].at > newsTime
    BY <1>0, <2>5, <2>10
  <2>12. Fresh(a, k)
    BY <2>6, <2>10, <2>11 DEF Fresh
  <2>13. newsTime' \in Nat /\ newsTime' > newsTime
    BY <1>0, <2>6
  <2> QED
    BY <2>6, <2>8, <2>12, <2>13
<1>2. CASE notes = <<>>
  <2>1. PICK all : all = notes \o worth
    OBVIOUS
  <2>2. worth \in Seq(BOOLEAN) /\ notes \in Seq(BOOLEAN)
    BY NotesAre, Zenon
  <2>3. all \in Seq(BOOLEAN)
    BY <2>1, <2>2, ConcatProperties
  <2>4. PICK k \in Nat : k = Len(all) /\ all \in [1..k -> BOOLEAN]
    BY <2>3
  <2>5. PICK at : at = [i \in 1..k |-> newsTime + 1]
    OBVIOUS
  <2>6. PICK a : a = [i \in 1..k |-> [id |-> Recorded + i, at |-> at[i], worth |-> all[i]]]
                 /\ a = Made(Recorded, at, all, k)
    BY DEF Made
  <2>7. a = [i \in 1..k |-> [id |-> Recorded + i, at |-> newsTime + 1, worth |-> all[i]]]
    BY <2>5, <2>6
  <2>8. /\ newsTime' = newsTime + 1 /\ Recorded + k <= LastEventId
        /\ newsLog' = newsLog \o a
    BY <1>2, <2>1, <2>4, <2>7 DEF RefreshTells, Emitted
  <2>9. at \in [1..k -> (newsTime + 1)..(newsTime + 2)] /\ \A i \in 1..k : at[i] <= newsTime'
    BY <1>0, <2>5, <2>8
  <2>10. /\ a \in Seq(Entries(Recorded + k, newsTime')) /\ Len(a) = k
         /\ \A i \in 1..k : a[i].id = Recorded + i /\ a[i].at = at[i] /\ a[i].worth = all[i]
    <3>1. PICK t \in Nat : t = newsTime'
      BY <1>0, <2>8
    <3>2. at \in [1..k -> 1..t]
      BY <1>0, <2>9, <3>1
    <3> QED
      <4>0. PICK r \in Nat : r = Recorded
        BY <1>0
      <4>1. a = Made(r, at, all, k) /\ all \in [1..k -> BOOLEAN]
        BY <2>4, <2>6, <4>0, Zenon
      <4>2. IsMade(Made(r, at, all, k), r, at, all, k, t)
        BY <3>2, <4>1, FreshIs, Zenon
      <4> QED
        BY <3>1, <4>0, <4>1, <4>2, Zenon DEF IsMade
  <2>11. \A i \in 1..k : /\ a[i].id = Recorded + i /\ a[i].at > newsTime
                         /\ a[i].at = newsTime + 1
    BY <1>0, <2>5, <2>10
  <2>12. Fresh(a, k)
    BY <2>8, <2>10, <2>11 DEF Fresh
  <2>13. newsTime' \in Nat /\ newsTime' > newsTime
    BY <1>0, <2>8
  <2> QED
    BY <2>8, <2>12, <2>13
<1> QED
  BY <1>1, <1>2

-----------------------------------------------------------------------------
\* What a snapshot carries of the log: some of it, the newest of it, and with it the last one.
Carries(r, log) ==
  /\ \A j \in 1..Len(r) : \E i \in 1..Len(log) : r[j] = log[i]
  /\ \A i \in 1..Len(log) : i > Len(log) - SnapshotEvents => \E j \in 1..Len(r) : r[j] = log[i]
  /\ log # <<>> => r # <<>> /\ r[Len(r)] = log[Len(log)]

\* The snapshot has the last events of the log, in their order.
LEMMA RecentIs ==
  ASSUME NEW S, NEW log \in Seq(S)
  PROVE  RecentNews(log) \in Seq(S) /\ Carries(RecentNews(log), log)
<1>1. PICK n \in Nat : n = Len(log)
  BY LenProperties
<1>2. PICK c \in Nat \ {0} : c = SnapshotEvents
  BY NewsAssumption
<1>3. PICK m \in Int : m = Max({1, n - SnapshotEvents + 1})
                       /\ m = IF 1 >= n - c + 1 THEN 1 ELSE n - c + 1
  BY <1>1, <1>2, TwoMax
<1>4. m = IF 1 >= n - c + 1 THEN 1 ELSE n - c + 1
  BY <1>3
<1>5. m \in 1..(n + 1) /\ (n > 0 => m <= n)
  BY <1>4
<1>6. \A i \in 1..n : i > n - c => i >= m
  BY <1>4
<1>7. PICK r : r = RecentNews(log) /\ r = SubSeq(log, m, n)
  BY <1>1, <1>3, Zenon DEF RecentNews
<1>8. r \in Seq(S) /\ Len(r) = n - m + 1 /\ \A i \in 1..(n - m + 1) : r[i] = log[m + i - 1]
  BY <1>1, <1>5, <1>7, SubSeqProperties
<1>9. ASSUME NEW j \in 1..Len(r) PROVE \E i \in 1..n : r[j] = log[i]
  <2>1. m + j - 1 \in 1..n /\ r[j] = log[m + j - 1]
    BY <1>5, <1>8
  <2> QED
    BY <2>1
<1>10. ASSUME NEW i \in 1..n, i > n - c PROVE \E j \in 1..Len(r) : r[j] = log[i]
  <2>1. PICK j \in Int : j = i - m + 1
    BY <1>5
  <2>2. j \in 1..Len(r) /\ j \in 1..(n - m + 1) /\ m + j - 1 = i
    BY <1>5, <1>6, <1>8, <1>10, <2>1
  <2>3. r[j] = log[i]
    BY <1>8, <2>2
  <2> QED
    BY <2>2, <2>3
<1>11. ASSUME log # <<>> PROVE r # <<>> /\ r[Len(r)] = log[n]
  <2>1. n > 0
    BY <1>1, <1>11, EmptySeq
  <2>2. Len(r) \in 1..(n - m + 1) /\ Len(r) > 0 /\ m + Len(r) - 1 = n
    BY <1>5, <1>8, <2>1
  <2> QED
    BY <1>8, <2>2, EmptySeq
<1>12. Carries(r, log)
  BY <1>1, <1>2, <1>9, <1>10, <1>11, Zenon DEF Carries
<1> QED
  BY <1>7, <1>8, <1>12, Zenon

\* A refresh tells each event that is new to the teller once, and none again.
LEMMA RefreshKeeps ==
  ASSUME NewsInv, NEW n \in Nat, NEW worth \in [1..n -> BOOLEAN], 
         NEW notes \in {<<>>, <<FALSE>>, <<TRUE>>}, RefreshTells(worth, notes)
  PROVE  NewsInv'
<1>0. PICK k \in Nat : \E e : /\ newsLog' = newsLog \o e /\ Fresh(e, k) /\ Recorded + k <= LastEventId
                              /\ newsTime' \in Nat /\ newsTime' > newsTime
  BY RefreshAdds
<1>1. PICK a : /\ newsLog' = newsLog \o a /\ Fresh(a, k) /\ Recorded + k <= LastEventId
               /\ newsTime' \in Nat /\ newsTime' > newsTime
  BY <1>0
<1>2. PICK r \in Nat : r = Recorded
  BY LenProperties DEF NewsInv, Recorded
<1>3. PICK t \in Nat : t = newsTime /\ newest \in 0..t /\ centre \in 0..t
  BY DEF NewsInv
<1>4. PICK t2 \in Nat : t2 = newsTime' /\ t2 > t
  BY <1>1, <1>3
<1>5. PICK log : log = newsLog
  OBVIOUS
<1>6. /\ a \in Seq(Entries(r + k, t2)) /\ Len(a) = k /\ \A i \in 1..k : a[i].id = r + i
      /\ Log(log, r, t)
  BY <1>1, <1>2, <1>3, <1>4, <1>5, Zenon DEF Fresh, NewsInv
<1>7. PICK c : c = newsLog' /\ c = log \o a
  BY <1>1, <1>5
<1>8. Log(c, r + k, t2) /\ Longer(c, log, a, k)
  <2>1. t <= t2
    BY <1>4
  <2>2. Log(log \o a, r + k, t2) /\ Longer(log \o a, log, a, k)
    BY <1>6, <2>1, LogGrows, Zenon
  <2> QED
    BY <1>7, <2>2, Zenon
<1>9. PICK l \in Nat : l = Len(log)
  BY <1>8 DEF Longer
<1>10. /\ Len(c) = l + k /\ \A i \in 1..l : c[i] = log[i]
       /\ \A i \in (l + 1)..(l + k) : c[i] = a[i - l] /\ i - l \in 1..k
  BY <1>8, <1>9 DEF Longer
<1>11. Recorded + (Len(newsLog') - Len(newsLog)) = r + k
  BY <1>2, <1>5, <1>7, <1>9, <1>10
<1>12. PICK n2 \in Nat : n2 = r + k /\ n2 <= LastEventId
  BY <1>1, <1>2
<1>13. c \in Seq(Entries(n2, t2)) /\ \A i, j \in 1..Len(c) : i < j => c[i].id < c[j].id
  BY <1>8, <1>12 DEF Log
<1>14. \A i \in 1..Len(c) : c[i].id \in 1..n2 /\ c[i].at \in 1..t2 /\ c[i].worth \in BOOLEAN
  BY <1>13, EntriesAre
<1>15. \A i \in 1..l : log[i].id \in 1..r /\ log[i].at \in 1..t
  BY <1>6, <1>9, EntriesAre DEF Log
<1>16. ASSUME NEW events, FirstTold(events), events = IF teller = "dashboard" THEN c ELSE RecentNews(c)
       PROVE  NewsInv'
  <2>1. told' = [e \in 1..n2 |-> 0] /\ baseline' = Len(told') /\ telling' = "on"
    BY <1>11, <1>12, <1>16, Zenon DEF FirstTold
  <2>2. told' \in Seq(Nat) /\ Len(told') = n2
    BY <2>1
  <2>3. baseline' \in 0..Len(told') /\ baseline' = n2
    BY <2>1, <2>2
  <2>4. events \in Seq(Entries(n2, t2))
    BY <1>13, <1>16, RecentIs, Zenon
  <2>5. /\ Times(events) \in SUBSET (1..t2) /\ IsFiniteSet(Times(events))
        /\ \A i \in 1..Len(events) : events[i].at \in Times(events)
    <3>1. \A i \in 1..Len(events) : events[i].at \in 1..t2
      BY <2>4, EntriesAre
    <3> QED
      BY <2>4, <3>1, TimesAre
  <2>6. PICK w \in 0..t2 : w = newest' /\ \A s \in Times(events) : s <= w
    <3>1. newest \in 0..t2 /\ newest' = Later(newest, Times(events))
      BY <1>3, <1>4, <1>16 DEF FirstTold
    <3> QED
      BY <2>5, <3>1, LaterIs
  <2>7. centre' \in 0..t2
    <3>1. centre \in 0..t2
      BY <1>3, <1>4
    <3>2. Times(c) \in SUBSET (1..t2) /\ IsFiniteSet(Times(c))
      BY <1>13, <1>14, TimesAre
    <3>3. Later(centre, Times(c)) \in 0..t2
      BY <3>1, <3>2, LaterIs
    <3>4. centre' = IF teller = "dashboard" THEN Later(centre, Times(c)) ELSE centre
      BY <1>7, <1>16, Zenon DEF FirstTold
    <3> QED
      BY <3>1, <3>3, <3>4
  <2>8. ASSUME NEW i \in 1..Len(c) PROVE c[i].at <= w
    <3>1. CASE teller = "dashboard"
      <4>1. events = c
        BY <1>16, <3>1
      <4> QED
        BY <2>5, <2>6, <4>1, Zenon
    <3>2. CASE teller # "dashboard"
      <4>1. events = RecentNews(c) /\ teller = "watch"
        BY <1>16, <3>2, Zenon DEF NewsInv
      <4>2. Carries(events, c)
        BY <1>13, <4>1, RecentIs, Zenon
      <4>3. c # <<>> /\ Len(c) \in 1..Len(c)
        BY <1>13, <1>10, <2>8, EmptySeq
      <4>4. events # <<>> /\ events[Len(events)] = c[Len(c)]
        BY <4>2, <4>3, Zenon DEF Carries
      <4>5. Len(events) \in 1..Len(events)
        BY <2>4, <4>4, EmptySeq
      <4>6. c[Len(c)].at <= w
        BY <2>5, <2>6, <4>4, <4>5, Zenon
      <4>7. c[i].at <= c[Len(c)].at
        <5>1. CASE k = 0
          <6>1. i \in 1..l /\ Len(c) \in 1..l
            BY <1>10, <2>8, <4>3, <5>1
          <6>2. c[i].at = t /\ c[Len(c)].at = t
            <7>1. \A j \in 1..l : log[j].at = t
              BY <1>3, <1>5, <1>9, <1>16, Zenon DEF NewsInv, FirstTold
            <7> QED
              BY <1>10, <6>1, <7>1, Zenon
          <6> QED
            BY <6>2
        <5>2. CASE k # 0
          <6>1. Len(c) \in (l + 1)..(l + k) /\ Len(c) - l \in 1..k
            BY <1>10, <5>2
          <6>2. c[Len(c)] = a[Len(c) - l]
            BY <1>10, <6>1
          <6>3. a[Len(c) - l].at = t2
            BY <1>1, <1>4, <4>1, <6>1, Zenon DEF Fresh
          <6> QED
            BY <1>14, <2>8, <6>2, <6>3
        <5> QED
          BY <5>1, <5>2
      <4>8. c[i].at \in Int /\ c[Len(c)].at \in Int /\ w \in Int
        BY <1>14, <2>8, <4>3
      <4> QED
        BY <4>6, <4>7, <4>8
    <3> QED
      BY <3>1, <3>2
  <2>9. ToldOnce'
    <3>1. ASSUME NEW i \in 1..Len(c)
          PROVE  told'[c[i].id] = 0 /\ told'[c[i].id] <= 1 /\ ~(c[i].id > baseline')
      BY <1>14, <2>1, <2>3, <3>1
    <3> QED
      BY <1>7, <3>1, ToldIs, Zenon DEF TellsRight
  <2>10. teller' = teller
    BY DEF RefreshTells
  <2> QED
    <3>1. Recorded' = n2 /\ Log(newsLog', Recorded', newsTime')
      BY <1>4, <1>7, <1>8, <1>12, <2>2 DEF Recorded
    <3>2. newsTime' \in Nat /\ newest' \in 0..newsTime' /\ centre' \in 0..newsTime'
      BY <1>4, <2>6, <2>7
    <3>3. told' \in Seq(Nat) /\ Recorded' <= LastEventId /\ baseline' \in 0..Recorded'
      BY <1>12, <2>2, <2>3, <3>1
    <3>4. Pending(newsLog', told', newest')
      BY <1>7, <2>6, <2>8, Zenon DEF Pending
    <3>5. telling' = "on" /\ teller' \in {"watch", "dashboard"} /\ telling' # "first"
      BY <2>1, <2>10 DEF NewsInv
    <3> QED
      BY <2>9, <3>1, <3>2, <3>3, <3>4, <3>5, Zenon DEF NewsInv
<1>17. PICK events : events = RecentNews(c)
  OBVIOUS
<1>18. events \in Seq(Entries(n2, t2)) /\ Carries(events, c)
  BY <1>13, <1>17, RecentIs, Zenon
<1>19. ASSUME telling = "on", Tell(events), Advance(events), UNCHANGED <<telling, centre, baseline>>
       PROVE  NewsInv'
  <2> DEFINE ids == {events[i].id : i \in {j \in 1..Len(events) :
                                              ~Already(events[j]) /\ events[j].worth}}
  <2>1. told' = [e \in 1..n2 |-> (IF e <= r THEN told[e] ELSE 0) + (IF e \in ids THEN 1 ELSE 0)]
    BY <1>2, <1>11, <1>12, <1>19, Zenon DEF Tell
  <2>2. told \in Seq(Nat) /\ Len(told) = r /\ \A e \in 1..r : told[e] \in Nat
    BY <1>2 DEF NewsInv, Recorded
  <2>3. told' \in Seq(Nat) /\ Len(told') = n2
    <3>1. \A e \in 1..n2 : (IF e <= r THEN told[e] ELSE 0) + (IF e \in ids THEN 1 ELSE 0) \in Nat
      BY <2>2
    <3> HIDE DEF ids
    <3> QED
      BY <2>1, <3>1
  <2>12. PICK b \in 0..r : b = baseline /\ baseline' = b
    BY <1>2, <1>19 DEF NewsInv
  <2>4. Pending(log, told, newest) /\ \A i \in 1..l : TellsRight(log, i, told, b, newest)
    BY <1>5, <1>9, <1>19, <2>12, ToldIs, Zenon DEF NewsInv
  \* An event is one of those told when it is new and among the newest.
  <2>5. ASSUME NEW i \in 1..Len(c), c[i].id \in ids PROVE c[i].worth /\ ~Already(c[i])
    <3>1. PICK j \in 1..Len(events) : ~Already(events[j]) /\ events[j].worth /\ events[j].id = c[i].id
      BY <2>5, Zenon
    <3>2. PICK h \in 1..Len(c) : events[j] = c[h]
      BY <1>18, <3>1, Zenon DEF Carries
    <3>3. h = i
      <4>1. c[h].id = c[i].id /\ c[h].id \in Int
        BY <1>14, <3>1, <3>2
      <4>2. ~(h < i) /\ ~(i < h)
        BY <1>13, <4>1
      <4>3. h \in Int /\ i \in Int
        OBVIOUS
      <4> QED
        BY <4>2, <4>3
    <3> QED
      BY <3>1, <3>2, <3>3, Zenon
  <2>6. ASSUME NEW i \in 1..Len(c), i > Len(c) - SnapshotEvents, c[i].worth, ~Already(c[i])
        PROVE  c[i].id \in ids
    <3>1. PICK j \in 1..Len(events) : events[j] = c[i]
      BY <1>18, <2>6, Zenon DEF Carries
    <3> QED
      BY <2>6, <3>1, Zenon
  <2> HIDE DEF ids
  <2>7. ASSUME NEW i \in 1..l
        PROVE  /\ c[i] = log[i] /\ i \in 1..Len(c) /\ told[log[i].id] \in Nat
               /\ told'[c[i].id] = told[log[i].id] + (IF c[i].id \in ids THEN 1 ELSE 0)
    <3>1. c[i] = log[i] /\ i \in 1..Len(c)
      BY <1>10
    <3>2. log[i].id \in 1..r /\ log[i].id \in 1..n2
      BY <1>12, <1>15
    <3> QED
      BY <2>1, <2>2, <3>1, <3>2
  <2>8. ASSUME NEW i \in (l + 1)..(l + k)
        PROVE  c[i].id > r /\ c[i].id \in 1..n2 /\ c[i].at > t
    <3>1. c[i] = a[i - l] /\ i - l \in 1..k /\ i \in 1..Len(c)
      BY <1>10
    <3>2. a[i - l].at > t /\ a[i - l].id = r + (i - l)
      BY <1>1, <1>3, <1>2, <3>1, Zenon DEF Fresh
    <3>3. c[i].id \in 1..n2 /\ c[i].id > r
      BY <1>14, <3>1, <3>2
    <3> QED
      BY <3>1, <3>2, <3>3, Zenon
  \* What a refresh adds is later than all there was: no old event loses its place.
  <2>17. ASSUME NEW i \in 1..l PROVE Over(c, i) <=> Over(log, i)
    <3>1. ASSUME NEW j \in i + 1..Len(c), c[j].at < c[i].at PROVE Over(log, i)
      <4>1. j \in 1..l
        <5>1. CASE j \in (l + 1)..(l + k)
          <6>1. c[j].at > t /\ c[i].at \in 1..t /\ c[j].at \in 1..t2
            BY <1>10, <1>14, <1>15, <2>7, <2>8, <5>1
          <6> QED
            BY <3>1, <6>1
        <5> QED
          BY <1>10, <5>1
      <4>2. c[j] = log[j] /\ j \in i + 1..Len(log)
        BY <1>9, <2>7, <4>1
      <4> QED
        BY <2>7, <3>1, <4>2, Zenon DEF Over
    <3>2. ASSUME NEW j \in i + 1..Len(log), log[j].at < log[i].at PROVE Over(c, i)
      <4>1. j \in 1..l /\ j \in i + 1..Len(c)
        BY <1>9, <1>10
      <4> QED
        BY <2>7, <3>2, <4>1, Zenon DEF Over
    <3> QED
      BY <3>1, <3>2, Zenon DEF Over
  <2>9. ASSUME NEW i \in (l + 1)..(l + k)
        PROVE  told'[c[i].id] = IF c[i].id \in ids THEN 1 ELSE 0
    BY <2>1, <2>8, SMTT(60)
  <2>10. ASSUME NEW i \in (l + 1)..(l + k) PROVE i \in 1..Len(c) /\ ~Already(c[i])
    <3>1. i \in 1..Len(c) /\ c[i].at \in Int /\ newest \in 0..t
      BY <1>3, <1>10, <1>14
    <3> QED
      BY <2>8, <3>1 DEF Already
  <2>11. \A i \in 1..Len(c) : i \in 1..l \/ i \in (l + 1)..(l + k)
    BY <1>10
  \* The last event is the latest of the ones that were told.
  <2>15. PICK w \in 0..t2 : /\ w = newest' /\ newest <= w
                            /\ c # <<>> => c[Len(c)].at <= w
    <3>1. newest \in 0..t2
      BY <1>3, <1>4
    <3>2. CASE events = <<>>
      <4>1. newest' = newest /\ c = <<>>
        BY <1>18, <1>19, <3>2, Zenon DEF Advance, Carries
      <4> QED
        BY <3>1, <4>1
    <3>3. CASE events # <<>>
      <4>1. Len(events) \in 1..Len(events)
        BY <1>18, <3>3, EmptySeq
      <4>2. PICK s \in 1..t2 : s = events[Len(events)].at
        BY <1>18, <4>1, EntriesAre
      <4>3. newest' = Later(newest, {s})
        BY <1>19, <3>3, <4>2 DEF Advance
      <4>4. {s} \in SUBSET (1..t2) /\ IsFiniteSet({s})
        BY FS_Singleton
      <4>5. Later(newest, {s}) \in 0..t2 /\ newest <= Later(newest, {s}) /\ s <= Later(newest, {s})
        BY <3>1, <4>4, LaterIs
      <4>6. c # <<>> => c[Len(c)].at = s
        BY <1>18, <4>2, Zenon DEF Carries
      <4> QED
        BY <4>3, <4>5, <4>6
    <3> QED
      BY <3>2, <3>3
  <2>13. ASSUME NEW i \in 1..Len(c) PROVE TellsRight(c, i, told', b, w)
    <3>1. CASE i \in 1..l
      <4>1. TellsRight(log, i, told, b, newest)
        BY <2>4, <3>1
      <4>2. i > Len(c) - SnapshotEvents => i > Len(log) - SnapshotEvents
        BY <1>9, <1>10, NewsAssumption, <3>1
      <4>3. c[i] = log[i] /\ (Over(c, i) <=> Over(log, i))
        BY <2>7, <2>17, <3>1
      <4>4. CASE c[i].id \in ids
        <5>1. c[i].worth /\ ~(c[i].at <= newest)
          BY <2>5, <4>4, Zenon DEF Already
        <5>2. Over(log, i) \/ told[log[i].id] = 0
          BY <1>9, <2>4, <3>1, <4>3, <5>1, Zenon DEF Pending
        <5>3. told'[c[i].id] = told[log[i].id] + 1 /\ told[log[i].id] \in Nat
          BY <2>7, <3>1, <4>4
        <5>4. told'[c[i].id] >= 1 /\ (told[log[i].id] = 0 => told'[c[i].id] <= 1)
          BY <5>3
        <5> QED
          BY <4>3, <5>1, <5>2, <5>4, Zenon DEF TellsRight
      <4>5. CASE ~(c[i].id \in ids)
        <5>1. told'[c[i].id] = told[log[i].id]
          BY <2>7, <3>1, <4>5
        <5>2. i > Len(c) - SnapshotEvents /\ c[i].worth => c[i].at <= newest
          BY <2>6, <4>5, Zenon DEF Already
        <5> QED
          BY <4>1, <4>2, <4>3, <5>1, <5>2, Zenon DEF TellsRight
      <4> QED
        BY <4>4, <4>5, Zenon
    <3>2. CASE i \in (l + 1)..(l + k)
      <4>1. c[i].id \in ids => c[i].worth
        BY <2>5, Zenon
      <4>2. i > Len(c) - SnapshotEvents /\ c[i].worth => c[i].id \in ids
        BY <2>6, <2>10, <3>2, Zenon
      <4>3. CASE c[i].id \in ids
        <5>1. told'[c[i].id] = 1
          BY <2>9, <3>2, <4>3, Zenon
        <5>2. told'[c[i].id] <= 1 /\ told'[c[i].id] >= 1
          BY <5>1
        <5> QED
          BY <4>1, <4>3, <5>2, Zenon DEF TellsRight
      <4>4. CASE ~(c[i].id \in ids)
        <5>1. told'[c[i].id] = 0
          BY <2>9, <3>2, <4>4, Zenon
        <5>2. told'[c[i].id] <= 1
          BY <5>1
        <5> QED
          BY <4>2, <4>4, <5>1, <5>2, Zenon DEF TellsRight
      <4> QED
        BY <4>3, <4>4, Zenon
    <3> QED
      BY <2>11, <3>1, <3>2
  <2>14. ToldOnce'
    BY <1>7, <2>12, <2>13, <2>15, ToldIs, Zenon
  \* An event in its place is not later than the last one.
  <2>16. ASSUME NEW i \in 1..Len(c), ~Over(c, i) PROVE c[i].at <= w
    <3>1. Len(c) \in 1..Len(c) /\ c # <<>>
      BY <1>10, <1>13, EmptySeq
    <3>2. c[i].at \in Nat /\ c[Len(c)].at \in Nat /\ c[Len(c)].at <= w
      BY <1>14, <2>15, <3>1
    <3>3. CASE i = Len(c)
      BY <3>2, <3>3
    <3>4. CASE i # Len(c)
      <4>1. Len(c) \in i + 1..Len(c)
        BY <1>10, <3>4
      <4>2. ~(c[Len(c)].at < c[i].at)
        BY <2>16, <4>1, Zenon DEF Over
      <4> QED
        BY <3>2, <4>2
    <3> QED
      BY <3>3, <3>4
  <2> QED
    <3>1. Recorded' = n2 /\ Log(newsLog', Recorded', newsTime')
      BY <1>4, <1>7, <1>8, <1>12, <2>3 DEF Recorded
    <3>2. newsTime' \in Nat /\ newest' \in 0..newsTime' /\ centre' \in 0..newsTime'
      <4>1. centre' = centre
        BY <1>19
      <4> QED
        BY <1>3, <1>4, <2>15, <4>1
    <3>3. told' \in Seq(Nat) /\ Recorded' <= LastEventId /\ baseline' \in 0..Recorded'
      BY <1>12, <2>3, <2>12, <3>1
    <3>4. Pending(newsLog', told', newest')
      BY <1>7, <2>15, <2>16, Zenon DEF Pending
    <3>5. telling' = "on" /\ teller' \in {"watch", "dashboard"} /\ telling' # "first"
      BY <1>19 DEF NewsInv, RefreshTells
    <3> QED
      BY <2>14, <3>1, <3>2, <3>3, <3>4, <3>5, Zenon DEF NewsInv
<1> QED
  <2>1. \/ FirstTold(IF teller = "dashboard" THEN c ELSE RecentNews(c))
        \/ /\ telling = "on" /\ Tell(events) /\ Advance(events)
           /\ UNCHANGED <<telling, centre, baseline>>
    BY <1>7, <1>17, Zenon DEF RefreshTells
  <2> QED
    BY <1>16, <1>19, <2>1

\* A note of what the user did is one more event, which is told of at the next refresh.
LEMMA NoteKeeps ==
  ASSUME NewsInv, NEW bad \in BOOLEAN, NoteEvent(bad)
  PROVE  NewsInv'
<1>1. PICK r \in Nat : r = Recorded /\ told \in Seq(Nat) /\ Len(told) = r
  BY LenProperties DEF NewsInv, Recorded
<1>2. PICK t \in Nat : t = newsTime /\ newest \in 0..t /\ centre \in 0..t /\ newsTime' = t + 1
  BY DEF NewsInv, NoteEvent
<1>3. PICK log : log = newsLog /\ Log(log, r, t)
  BY <1>1, <1>2 DEF NewsInv
<1>4. PICK a : a = Emitted(<<bad>>, t + 1)
  OBVIOUS
<1>5. PICK w, at : w = <<bad>> /\ at = [i \in 1..1 |-> t + 1]
  OBVIOUS
<1>6. a \in Seq(Entries(r + 1, t + 1)) /\ Len(a) = 1 /\ a[1].id = r + 1 /\ a[1].at = t + 1
  <2>1. w \in [1..1 -> BOOLEAN] /\ Len(w) = 1
    <3>1. <<bad>> \in Seq(BOOLEAN) /\ Len(<<bad>>) = 1
      OBVIOUS
    <3>2. w \in [1..1 -> BOOLEAN]
      BY <1>5, <3>1, LenProperties
    <3> QED
      BY <1>5, <3>1, <3>2, Zenon
  <2>2. a = Made(r, at, w, 1)
    <3>1. a = [i \in 1..1 |-> [id |-> r + i, at |-> t + 1, worth |-> w[i]]]
      BY <1>1, <1>4, <1>5, <2>1, Zenon DEF Emitted
    <3>2. \A i \in 1..1 : at[i] = t + 1
      BY <1>5
    <3> QED
      BY <3>1, <3>2, Zenon DEF Made
  <2>3. at \in [1..1 -> 1..(t + 1)] /\ t + 1 \in Nat /\ 1 \in Nat
    BY <1>5
  <2>4. IsMade(Made(r, at, w, 1), r, at, w, 1, t + 1)
    BY <2>1, <2>3, FreshIs, Zenon
  <2>5. a \in Seq(Entries(r + 1, t + 1)) /\ Len(a) = 1
    BY <2>2, <2>4, Zenon DEF IsMade
  <2>6. a[1].id = r + 1 /\ a[1].at = t + 1
    <3>1. 1 \in 1..1 /\ at[1] = t + 1
      BY <1>5
    <3> QED
      BY <2>2, <2>4, <3>1, Zenon DEF IsMade
  <2> QED
    BY <2>1, <2>5, <2>6, Zenon
<1>7. PICK c : c = newsLog' /\ c = log \o a
  BY <1>2, <1>3, <1>4 DEF NoteEvent
<1>8. Log(c, r + 1, t + 1) /\ Longer(c, log, a, 1)
  <2>1. t <= t + 1 /\ 1 \in Nat /\ t + 1 \in Nat /\ \A i \in 1..1 : a[i].id = r + i
    BY <1>6
  <2>2. Log(log \o a, r + 1, t + 1) /\ Longer(log \o a, log, a, 1)
    BY <1>3, <1>6, <2>1, LogGrows, Zenon
  <2> QED
    BY <1>7, <2>2, Zenon
<1>9. PICK l \in Nat : l = Len(log)
  BY <1>8 DEF Longer
<1>10. Len(c) = l + 1 /\ (\A i \in 1..l : c[i] = log[i]) /\ c[l + 1] = a[1]
  BY <1>8, <1>9 DEF Longer
<1>11. \A i \in 1..l : log[i].id \in 1..r
  BY <1>3, <1>9, EntriesAre DEF Log
<1>12. told' \in Seq(Nat) /\ Len(told') = r + 1 /\ told'[r + 1] = 0 /\ \A e \in 1..r : told'[e] = told[e]
  <2>1. told' = Append(told, 0)
    BY DEF NoteEvent
  <2> QED
    BY <1>1, <2>1, AppendProperties
<1>13. PICK b \in 0..r : b = baseline /\ baseline' = b
  BY <1>1 DEF NewsInv, NoteEvent
<1>17. \A i \in 1..l : /\ c[i] = log[i] /\ told'[log[i].id] = told[log[i].id]
                       /\ log[i].at \in 1..t /\ i \in 1..Len(c)
  BY <1>3, <1>9, <1>10, <1>11, <1>12, EntriesAre DEF Log
<1>18. ASSUME NEW i \in 1..l PROVE Over(c, i) <=> Over(log, i)
  <2>1. ASSUME NEW j \in i + 1..Len(c), c[j].at < c[i].at PROVE Over(log, i)
    <3>1. j \in i + 1..Len(log)
      <4>1. j \in i + 1..(l + 1)
        BY <1>10, <2>1
      <4>2. j # l + 1
        BY <1>6, <1>10, <1>17, <2>1
      <4>3. j \in i + 1..l
        BY <4>1, <4>2
      <4> QED
        BY <1>9, <4>3
    <3>2. j \in 1..l
      BY <1>9, <3>1
    <3> QED
      BY <1>17, <2>1, <3>1, <3>2, Zenon DEF Over
  <2>2. ASSUME NEW j \in i + 1..Len(log), log[j].at < log[i].at PROVE Over(c, i)
    <3>1. j \in 1..l /\ j \in i + 1..Len(c)
      BY <1>9, <1>10
    <3> QED
      BY <1>17, <2>2, <3>1, Zenon DEF Over
  <2> QED
    BY <2>1, <2>2, Zenon DEF Over
<1>19. ~Over(c, l + 1) /\ c[l + 1].id = r + 1 /\ told'[c[l + 1].id] = 0 /\ ~(c[l + 1].at <= newest)
  <2>1. c[l + 1].at = t + 1 /\ c[l + 1].id = r + 1
    BY <1>6, <1>10
  <2>2. (l + 1) + 1..Len(c) = {}
    BY <1>10
  <2>3. ~(t + 1 <= newest)
    BY <1>2
  <2> QED
    BY <1>12, <2>1, <2>2, <2>3, Zenon DEF Over
<1>14. ASSUME NEW i \in 1..Len(c)
       PROVE  TellsRight(c, i, told', b, newest)
  <2>1. CASE i \in 1..l
    <3>1. TellsRight(log, i, told, b, newest)
      BY <1>3, <1>9, <1>13, <2>1, ToldIs, Zenon DEF NewsInv
    <3>2. i > Len(c) - SnapshotEvents => i > Len(log) - SnapshotEvents
      BY <1>9, <1>10, NewsAssumption, <2>1
    <3> QED
      BY <1>17, <1>18, <2>1, <3>1, <3>2, Zenon DEF TellsRight
  <2>2. CASE i = l + 1
    <3>1. told'[c[i].id] <= 1 /\ told'[c[i].id] = 0
      BY <1>19, <2>2
    <3> QED
      BY <1>19, <2>2, <3>1, Zenon DEF TellsRight
  <2>3. i \in 1..l \/ i = l + 1
    BY <1>10
  <2> QED
    BY <2>1, <2>2, <2>3
<1>20. newest' = newest
  BY DEF NoteEvent
<1>15. ToldOnce'
  BY <1>7, <1>13, <1>14, <1>20, ToldIs, Zenon
<1>16. Pending(newsLog', told', newest')
  <2>1. Pending(log, told, newest)
    BY <1>3, Zenon DEF NewsInv, NoteEvent
  <2>2. \A i \in 1..Len(c) : i \in 1..l \/ i = l + 1
    BY <1>10
  <2>3. ASSUME NEW i \in 1..l, c[i].worth, ~(c[i].at <= newest)
        PROVE  Over(c, i) \/ told'[c[i].id] = 0
    BY <1>9, <1>17, <1>18, <2>1, <2>3, Zenon DEF Pending
  <2> QED
    BY <1>7, <1>19, <1>20, <2>2, <2>3, Zenon DEF Pending
<1> QED
  <2>1. Recorded' = r + 1 /\ Log(newsLog', Recorded', newsTime')
    BY <1>2, <1>7, <1>8, <1>12 DEF Recorded
  <2>2. newsTime' \in Nat /\ newest' \in 0..newsTime' /\ centre' \in 0..newsTime'
    BY <1>2 DEF NoteEvent
  <2>3. told' \in Seq(Nat) /\ Recorded' <= LastEventId /\ baseline' \in 0..Recorded'
    BY <1>1, <1>12, <1>13, <2>1, NewsAssumption DEF NoteEvent
  <2>4. telling' = "on" /\ teller' \in {"watch", "dashboard"} /\ telling' # "first"
    BY DEF NoteEvent
  <2> QED
    BY <1>15, <1>16, <2>1, <2>2, <2>3, <2>4, Zenon DEF NewsInv

\* The notification centre shows what is in the log; no event is later than the clock.
LEMMA CentreKeeps ==
  ASSUME NewsInv, OpenCentre
  PROVE  NewsInv'
<1>1. PICK t \in Nat : t = newsTime /\ centre \in 0..t
  BY DEF NewsInv
<1>2. PICK r \in Nat : r = Recorded /\ Log(newsLog, r, t)
  BY <1>1, LenProperties DEF NewsInv, Recorded
<1>3. PICK log \in Seq(Entries(r, t)) : log = newsLog
  BY <1>2 DEF Log
<1>4. \A i \in 1..Len(log) : log[i].at \in 1..t
  BY <1>3, EntriesAre
<1>5. /\ Times(log) \in SUBSET Nat /\ Times(log) \subseteq 1..t /\ IsFiniteSet(Times(log))
      /\ log # <<>> => Times(log) # {}
  BY <1>3, <1>4, TimesAre
<1>6. centre' \in 0..t
  <2>1. CASE log = <<>>
    BY <1>1, <1>3, <2>1 DEF OpenCentre
  <2>2. CASE log # <<>>
    <3>1. Max(Times(log)) \in Times(log)
      BY <1>5, <2>2, MaxIs
    <3>2. centre' = Max(Times(log))
      BY <1>3, <2>2 DEF OpenCentre
    <3> QED
      BY <1>5, <3>1, <3>2
  <2> QED
    BY <2>1, <2>2
<1>7. /\ UNCHANGED <<teller, telling, newsLog, newsTime, newest, told, baseline>>
      /\ Recorded' = Recorded
  BY DEF OpenCentre, Recorded
<1>8. ToldOnce'
  BY <1>7, Zenon DEF NewsInv, ToldOnce, Overtaken
<1> QED
  BY <1>1, <1>6, <1>7, <1>8 DEF NewsInv, Log

\* An emptied log owes nothing.
LEMMA ClearKeeps ==
  ASSUME NewsInv, ClearNews
  PROVE  NewsInv'
<1>1. /\ UNCHANGED <<teller, telling, newsTime, newest, centre, told, baseline>>
      /\ Recorded' = Recorded /\ newsLog' = <<>>
  BY DEF ClearNews, Recorded
<1>2. Log(newsLog', Recorded', newsTime') /\ 1..Len(newsLog') = {}
  BY <1>1, EmptySeq DEF Log
<1>3. ToldOnce' /\ Pending(newsLog', told', newest')
  BY <1>2, Zenon DEF ToldOnce, Pending
<1> QED
  BY <1>1, <1>2, <1>3, Zenon DEF NewsInv

\* The end of the watch tells nothing.
LEMMA StillNews ==
  ASSUME NewsInv, WatchEnds \/ UNCHANGED newsVars
  PROVE  NewsInv'
<1>1. /\ UNCHANGED <<teller, newsLog, newsTime, newest, centre, told, baseline>>
      /\ Recorded' = Recorded
      /\ telling' = telling \/ telling' = "ended"
  BY DEF WatchEnds, newsVars, Recorded
<1>2. ToldOnce'
  BY <1>1, Zenon DEF NewsInv, ToldOnce, Overtaken
<1>3. Log(newsLog', Recorded', newsTime')
  BY <1>1, Zenon DEF NewsInv, Log
<1> QED
  BY <1>1, <1>2, <1>3, Zenon DEF NewsInv

\* At the start nothing was told.
LEMMA NewsStarts ==
  ASSUME NewsInit
  PROVE  NewsInv
<1>1. PICK worth \in {<<>>, <<TRUE>>} :
         /\ newsLog = [i \in 1..Len(worth) |-> [id |-> i, at |-> 1, worth |-> TRUE]]
         /\ told = [i \in 1..Len(worth) |-> 0] /\ baseline = Len(worth)
  BY DEF NewsInit
<1>2. PICK n \in 0..1 : n = Len(worth)
  <2>1. Len(worth) \in 0..1
    <3>1. CASE worth = <<>>
      BY <3>1
    <3>2. CASE worth = <<TRUE>>
      <4>1. Len(<<TRUE>>) = 1
        OBVIOUS
      <4> QED
        BY <3>2, <4>1
    <3> QED
      BY <3>1, <3>2
  <2> QED
    BY <2>1
<1>3. newsLog = [i \in 1..n |-> [id |-> i, at |-> 1, worth |-> TRUE]] /\ told = [i \in 1..n |-> 0] /\ baseline = n
  BY <1>1, <1>2
<1>4. Len(newsLog) = n /\ told \in Seq(Nat) /\ Recorded = n
  BY <1>3 DEF Recorded
<1>5. \A i \in 1..n : newsLog[i] = [id |-> i, at |-> 1, worth |-> TRUE] /\ told[i] = 0
  BY <1>3
<1>6. Log(newsLog, n, 1)
  <2>1. ASSUME NEW i \in 1..n PROVE newsLog[i] \in Entries(n, 1)
    <3>1. i \in 1..n /\ n \in Nat /\ 1 \in 1..1 /\ TRUE \in BOOLEAN /\ 1 \in Nat
      OBVIOUS
    <3> QED
      BY <1>5, <3>1, EntryIs, ZenonT(60)
  <2>2. newsLog \in Seq(Entries(n, 1))
    BY <1>3, <2>1
  <2> QED
    BY <1>4, <1>5, <2>2 DEF Log
<1>7. ASSUME NEW i \in 1..n
      PROVE  /\ told[newsLog[i].id] = 0 /\ told[newsLog[i].id] <= 1
             /\ ~(newsLog[i].id > baseline)
  BY <1>3, <1>5
<1>8. ToldOnce
  BY <1>4, <1>7, ToldIs, Zenon DEF TellsRight
<1>9. \A i \in 1..Len(newsLog) : newsLog[i].at = newsTime
  BY <1>4, <1>5 DEF NewsInit
<1>10. Recorded <= LastEventId /\ baseline \in 0..Recorded
  BY <1>2, <1>3, <1>4, NewsAssumption
<1> QED
  BY <1>4, <1>6, <1>8, <1>9, <1>10 DEF NewsInv, NewsInit

-----------------------------------------------------------------------------
\* What a teller knows of the log holds of every reachable state: the log is in order, and all
\* that is to be told is history or no later than the time up to which all was told.
THEOREM NewsInductive == NewsSpec => []NewsInv
<1>1. NewsInit => NewsInv
  BY NewsStarts
<1>2. NewsInv /\ [NewsNext]_newsVars => NewsInv'
  <2> SUFFICES ASSUME NewsInv, [NewsNext]_newsVars PROVE NewsInv'
    OBVIOUS
  <2>1. ASSUME NEW n \in 0..CycleEvents, NEW worth \in [1..n -> BOOLEAN],
               NEW notes \in {<<>>, <<FALSE>>, <<TRUE>>}, RefreshTells(worth, notes)
        PROVE  NewsInv'
    <3>1. n \in Nat
      BY NewsAssumption
    <3> QED
      BY <2>1, <3>1, RefreshKeeps
  <2>2. ASSUME NEW bad \in BOOLEAN, NoteEvent(bad) PROVE NewsInv'
    BY <2>2, NoteKeeps
  <2>3. CASE OpenCentre
    BY <2>3, CentreKeeps
  <2>4. CASE ClearNews
    BY <2>4, ClearKeeps
  <2>5. CASE WatchEnds \/ UNCHANGED newsVars
    BY <2>5, StillNews
  <2> QED
    BY <2>1, <2>2, <2>3, <2>4, <2>5 DEF NewsNext
<1> QED
  BY <1>1, <1>2, PTL DEF NewsSpec

\* The events `lirts watch` and the dashboard keep have their types: every event of the log was
\* recorded, at a time that has passed.
THEOREM NewsTypeCorrect == NewsSpec => []NewsTypeOK
<1>1. NewsInv => NewsTypeOK
  <2> SUFFICES ASSUME NewsInv PROVE NewsTypeOK
    OBVIOUS
  <2>1. PICK r \in Nat : r = Recorded /\ told \in [1..r -> Nat]
    BY LenProperties DEF NewsInv, Recorded
  <2>2. PICK t \in Nat : t = newsTime
    BY DEF NewsInv
  <2>3. \A i \in 1..Len(newsLog) : newsLog[i].id \in 1..r /\ newsLog[i].at \in 1..t
    BY <2>1, <2>2, EntriesAre DEF NewsInv, Log
  <2>4. Recorded \in baseline..LastEventId
    BY <2>1, NewsAssumption DEF NewsInv
  <2> QED
    BY <2>1, <2>2, <2>3, <2>4 DEF NewsInv, NewsTypeOK
<1> QED
  BY <1>1, NewsInductive, PTL

\* No event in its place in the log is told twice, and none of the newest that the user is to hear
\* of is missed, whatever the threads of the dashboard record between a refresh and its events; a
\* note recorded there is out of its place and may be told again.
THEOREM NewsToldOnce == NewsSpec => []ToldOnce
<1>1. NewsInv => ToldOnce
  BY DEF NewsInv
<1> QED
  BY <1>1, NewsInductive, PTL

-----------------------------------------------------------------------------
(* Recordings (module Replay). *)

\* The first n events of the machine, as a frame has them.
Happened(l, n) == [i \in 1..n |-> <<i, l[i]>>]

Ordered(s) == \A i, j \in 1..Len(s) : i < j => s[i][1] < s[j][1]

\* The history of a replay has the first m events and nothing else.
HasFirst(s, l, m) == \A e : (\E j \in 1..Len(s) : s[j] = e) <=> (\E i \in 1..m : e = <<i, l[i]>>)

\* The history of the replay, and every frame, has the first events of the machine.
ReplayInv ==
  /\ ReplayTypeOK
  /\ Ordered(replayed)
  /\ player >= 0 => Len(recording.frames) > 0
  /\ \E m \in 0..Len(news) : HasFirst(replayed, news, m)
  /\ \A f \in 1..Len(recording.frames) : \E n \in 0..Len(news) :
       recording.frames[f].events = Happened(news, n)

\* The first n events are a list of n.
LEMMA HappenedIs ==
  ASSUME NEW S, NEW l \in Seq(S), NEW n \in 0..Len(l)
  PROVE  /\ n \in Nat /\ Happened(l, n) \in Seq(Nat \X S) /\ Len(Happened(l, n)) = n
         /\ \A i \in 1..n : Happened(l, n)[i] = <<i, l[i]>>
<1>1. n \in Nat /\ \A i \in 1..n : l[i] \in S
  BY LenProperties, ElementOfSeq
<1>2. PICK h : h = Happened(l, n)
  OBVIOUS
<1>3. h = [i \in 1..n |-> <<i, l[i]>>]
  BY <1>2 DEF Happened
<1>4. \A i \in 1..n : h[i] = <<i, l[i]>> /\ <<i, l[i]>> \in Nat \X S
  BY <1>1, <1>3
<1>5. h \in [1..n -> Nat \X S]
  BY <1>3, <1>4
<1>6. h \in Seq(Nat \X S) /\ Len(h) = n
  BY <1>1, <1>5
<1> QED
  BY <1>1, <1>2, <1>4, <1>6, Zenon

\* What a frame adds to a history comes after all it has.
LEMMA PlayedOn ==
  ASSUME NEW S, NEW l \in Seq(S), NEW n \in 0..Len(l), NEW m \in 0..Len(l),
         NEW old \in Seq(Nat \X S), Ordered(old), HasFirst(old, l, m)
  PROVE  LET all == Happened(l, n)
             after == old \o Only(all, ElementsOf(all) \ ElementsOf(old))
         IN  /\ after \in Seq(Nat \X S) /\ Ordered(after)
             /\ HasFirst(after, l, IF n <= m THEN m ELSE n)
<1>1. PICK all \in Seq(Nat \X S) : all = Happened(l, n)
  BY HappenedIs
<1>2. Len(all) = n /\ n \in Nat /\ \A i \in 1..n : all[i] = <<i, l[i]>>
  BY <1>1, HappenedIs, Zenon
<1>3. PICK kept : kept = ElementsOf(all) \ ElementsOf(old)
  OBVIOUS
<1>4. PICK add \in Seq(Nat \X S) : add = Only(all, kept)
  BY OnlyPicks
<1>5. PICK h : Picks(h, add, all, kept, n)
  BY <1>2, <1>4, OnlyPicks
<1>6. PICK k \in Nat : k = Len(add)
  BY LenProperties
<1>7. PICK o \in Nat : o = Len(old)
  BY LenProperties
<1>8. PICK after \in Seq(Nat \X S) : after = old \o add
  BY ConcatProperties
<1>9. Len(after) = o + k /\ \A j \in 1..(o + k) : after[j] = IF j <= o THEN old[j] ELSE add[j - o]
  BY <1>6, <1>7, <1>8, ConcatProperties
<1>10. ASSUME NEW j \in (o + 1)..(o + k) PROVE j - o \in 1..k /\ after[j] = add[j - o]
  <2>1. j \in 1..(o + k) /\ ~(j <= o) /\ j - o \in 1..k
    OBVIOUS
  <2> QED
    BY <1>9, <2>1
<1>11. m \in Nat
  BY LenProperties
<1>12. \A i \in 1..n : all[i] \in kept <=> m < i
  <2>1. ASSUME NEW i \in 1..n PROVE all[i] \in ElementsOf(all)
    BY <1>2 DEF ElementsOf
  <2>2. ASSUME NEW i \in 1..n, i <= m PROVE all[i] \in ElementsOf(old)
    <3>1. i \in 1..m /\ all[i] = <<i, l[i]>>
      BY <1>2, <1>11, <2>2
    <3>2. \E j \in 1..Len(old) : old[j] = all[i]
      BY <3>1, Zenon DEF HasFirst
    <3> QED
      BY <3>2 DEF ElementsOf
  <2>3. ASSUME NEW i \in 1..n, all[i] \in ElementsOf(old) PROVE i <= m
    <3>1. \E j \in 1..Len(old) : old[j] = all[i]
      BY <2>3 DEF ElementsOf
    <3>2. PICK b \in 1..m : all[i] = <<b, l[b]>>
      BY <3>1, Zenon DEF HasFirst
    <3>3. b = i
      BY <1>2, <3>2
    <3> QED
      BY <1>11, <3>3
  <2>4. \A i \in 1..n : ~(i <= m) <=> m < i
    BY <1>2, <1>11
  <2> QED
    BY <1>3, <2>1, <2>2, <2>3, <2>4, Zenon
<1>13. ASSUME NEW j \in 1..k
       PROVE  h[j] \in 1..n /\ m < h[j] /\ add[j] = <<h[j], l[h[j]]>>
  <2>1. h[j] \in 1..n /\ add[j] = all[h[j]] /\ add[j] \in kept
    BY <1>5, <1>6 DEF Picks
  <2> QED
    BY <1>2, <1>12, <2>1
<1>14. \A j \in 1..o : \E i \in 1..m : old[j] = <<i, l[i]>>
  BY <1>7, Zenon DEF HasFirst
<1>15. ASSUME NEW i \in 1..(o + k), NEW j \in 1..(o + k), i < j PROVE after[i][1] < after[j][1]
  <2>1. CASE j <= o
    <3>1. i \in 1..o /\ j \in 1..o /\ after[i] = old[i] /\ after[j] = old[j]
      BY <1>9, <1>15, <2>1
    <3> QED
      BY <1>7, <1>15, <3>1 DEF Ordered
  <2>2. CASE i <= o /\ ~(j <= o)
    <3>1. i \in 1..o /\ j - o \in 1..k /\ after[i] = old[i] /\ after[j] = add[j - o]
      <4>1. i \in 1..o /\ j \in (o + 1)..(o + k)
        BY <2>2
      <4> QED
        BY <1>9, <1>10, <2>2, <4>1
    <3>2. PICK b \in 1..m : old[i] = <<b, l[b]>>
      BY <1>14, <3>1
    <3>3. m < h[j - o] /\ h[j - o] \in 1..n /\ add[j - o] = <<h[j - o], l[h[j - o]]>>
      BY <1>13, <3>1
    <3> QED
      BY <1>2, <1>11, <3>1, <3>2, <3>3
  <2>3. CASE ~(i <= o)
    <3>1. i - o \in 1..k /\ j - o \in 1..k /\ i - o < j - o
          /\ after[i] = add[i - o] /\ after[j] = add[j - o]
      <4>1. i \in (o + 1)..(o + k) /\ j \in (o + 1)..(o + k) /\ i - o < j - o
        BY <1>15, <2>3
      <4> QED
        BY <1>10, <4>1
    <3>2. PICK a \in 1..k, b \in 1..k : a = i - o /\ b = j - o /\ a < b
      BY <3>1
    <3>3. h[a] < h[b]
      BY <1>5, <1>6, <3>2 DEF Picks
    <3>4. add[a] = <<h[a], l[h[a]]>> /\ add[b] = <<h[b], l[h[b]]>>
      BY <1>13
    <3>5. after[i][1] = h[a] /\ after[j][1] = h[b]
      BY <3>1, <3>2, <3>4
    <3> QED
      BY <3>3, <3>5
  <2> QED
    BY <2>1, <2>2, <2>3
<1>16. PICK top \in Nat : top = IF n <= m THEN m ELSE n
  BY <1>2, <1>11
<1>17. ASSUME NEW j \in 1..(o + k) PROVE \E i \in 1..top : after[j] = <<i, l[i]>>
  <2>1. CASE j <= o
    <3>1. j \in 1..o /\ after[j] = old[j]
      BY <1>9, <2>1
    <3>2. PICK i \in 1..m : old[j] = <<i, l[i]>>
      BY <1>14, <3>1
    <3>3. i \in 1..top
      BY <1>2, <1>11, <1>16
    <3> QED
      BY <3>1, <3>2, <3>3
  <2>2. CASE ~(j <= o)
    <3>1. j - o \in 1..k /\ after[j] = add[j - o]
      BY <1>9, <2>2, SMTT(60)
    <3>2. h[j - o] \in 1..n /\ add[j - o] = <<h[j - o], l[h[j - o]]>> /\ m < h[j - o]
      BY <1>13, <3>1
    <3>3. h[j - o] \in 1..top
      BY <1>2, <1>11, <1>16, <3>2, SMTT(60)
    <3> QED
      BY <3>1, <3>2, <3>3
  <2> QED
    BY <2>1, <2>2
<1>18. ASSUME NEW i \in 1..top PROVE \E j \in 1..(o + k) : after[j] = <<i, l[i]>>
  <2>1. CASE i <= m
    <3>1. i \in 1..m
      BY <1>11, <2>1
    <3>2. PICK j \in 1..o : old[j] = <<i, l[i]>>
      BY <1>7, <3>1, Zenon DEF HasFirst
    <3>3. j \in 1..(o + k) /\ after[j] = old[j]
      BY <1>9, <3>2, SMTT(60)
    <3> QED
      BY <3>2, <3>3
  <2>2. CASE ~(i <= m)
    <3>1. i \in 1..n /\ m < i
      BY <1>2, <1>11, <1>16, <2>2
    <3>2. all[i] \in kept
      BY <1>12, <3>1
    <3>3. PICK j \in 1..k : h[j] = i
      BY <1>5, <1>6, <3>1, <3>2 DEF Picks
    <3>4. o + j \in 1..(o + k) /\ after[o + j] = add[j]
      <4>1. o + j \in 1..(o + k) /\ ~(o + j <= o) /\ (o + j) - o = j
        OBVIOUS
      <4> QED
        BY <1>9, <4>1
    <3>5. add[j] = <<i, l[i]>>
      BY <1>13, <3>3
    <3> QED
      BY <3>4, <3>5
  <2> QED
    BY <2>1, <2>2
<1>19. HasFirst(after, l, top)
  <2>1. ASSUME NEW e, NEW j \in 1..Len(after), after[j] = e PROVE \E i \in 1..top : e = <<i, l[i]>>
    BY <1>9, <1>17, <2>1
  <2>2. ASSUME NEW e, NEW i \in 1..top, e = <<i, l[i]>> PROVE \E j \in 1..Len(after) : after[j] = e
    BY <1>9, <1>18, <2>2
  <2> QED
    BY <2>1, <2>2, Zenon DEF HasFirst
<1>20. Ordered(after)
  BY <1>9, <1>15 DEF Ordered
<1> QED
  BY <1>1, <1>3, <1>4, <1>8, <1>16, <1>19, <1>20, Zenon

\* A frame that was recorded is a part of what the machine has gone through since.
LEMMA FramesGrow ==
  ASSUME NEW S, NEW l \in Seq(S), NEW x \in S, NEW n \in 0..Len(l)
  PROVE  /\ n \in 0..Len(Append(l, x)) /\ Happened(Append(l, x), n) = Happened(l, n)
         /\ \A s : HasFirst(s, l, n) => HasFirst(s, Append(l, x), n)
<1>1. PICK k : k = Append(l, x)
  OBVIOUS
<1>2. Len(k) = Len(l) + 1 /\ Len(l) \in Nat /\ \A i \in 1..Len(l) : k[i] = l[i]
  BY <1>1, AppendProperties, LenProperties
<1>3. \A i \in 1..n : k[i] = l[i]
  BY <1>2
<1>4. Happened(k, n) = Happened(l, n)
  BY <1>3 DEF Happened
<1>5. \A s : HasFirst(s, l, n) => HasFirst(s, k, n)
  BY <1>3 DEF HasFirst
<1> QED
  BY <1>1, <1>2, <1>4, <1>5

\* At the start nothing is recorded.
LEMMA ReplayStarts ==
  ASSUME ReplayInit
  PROVE  ReplayInv
<1>1. /\ news = <<>> /\ replayed = <<>> /\ recording = [frames |-> <<>>, torn |-> FALSE]
      /\ pressed = [on |-> {}, refused |-> TRUE] /\ recorder = "idle" /\ player = -1
      /\ machine \subseteq Runnable
  BY DEF ReplayInit, Unwritten, NoPress
<1>2. Len(news) = 0 /\ Len(replayed) = 0 /\ recording.frames = <<>> /\ Len(recording.frames) = 0
  BY <1>1
<1>3. ReplayTypeOK
  <2>1. recording \in [frames : Seq([rows : SUBSET Runnable, events : Seq(Nat \X Runnable)]), torn : BOOLEAN]
    BY <1>1
  <2>2. pressed \in [on : SUBSET Runnable, refused : BOOLEAN]
    BY <1>1
  <2>3. news \in Seq(Runnable) /\ replayed \in Seq(Nat \X Runnable)
    BY <1>1
  <2>4. player \in -1..Len(recording.frames)
    BY <1>1, <1>2
  <2> QED
    BY <1>1, <2>1, <2>2, <2>3, <2>4 DEF ReplayTypeOK
<1>4. Ordered(replayed)
  BY <1>2 DEF Ordered
<1>5. 0 \in 0..Len(news) /\ HasFirst(replayed, news, 0)
  BY <1>2 DEF HasFirst
<1>6. \A f \in 1..Len(recording.frames) : \E n \in 0..Len(news) :
        recording.frames[f].events = Happened(news, n)
  BY <1>2
<1>7. ~(player >= 0)
  BY <1>1
<1> QED
  BY <1>3, <1>4, <1>5, <1>6, <1>7, Zenon DEF ReplayInv

\* What leaves the news, the frames and the history as they are.
LEMMA SameReplay ==
  ASSUME ReplayInv, UNCHANGED <<news, replayed>>, recording'.frames = recording.frames, ReplayTypeOK',
         player' >= 0 => Len(recording.frames) > 0
  PROVE  ReplayInv'
<1>1. Ordered(replayed)'
  BY DEF ReplayInv, Ordered
<1>2. \E m \in 0..Len(news') : HasFirst(replayed', news', m)
  BY Zenon DEF ReplayInv
<1>3. \A f \in 1..Len(recording'.frames) : \E n \in 0..Len(news') :
        recording'.frames[f].events = Happened(news', n)
  BY Zenon DEF ReplayInv
<1> QED
  BY <1>1, <1>2, <1>3, Zenon DEF ReplayInv

\* What happens to the machine comes after all that was recorded.
LEMMA ChangesKeep ==
  ASSUME ReplayInv, NEW x \in Runnable, Changes(x)
  PROVE  ReplayInv'
<1>1. /\ news' = Append(news, x) /\ UNCHANGED <<recording, recorder, player, replayed>>
      /\ pressed' = NoPress /\ machine' \subseteq Runnable
  BY DEF Changes, ReplayInv, ReplayTypeOK
<1>2. news \in Seq(Runnable) /\ news' \in Seq(Runnable)
  BY <1>1, AppendProperties DEF ReplayInv, ReplayTypeOK
<1>3. ReplayTypeOK'
  <2>1. pressed' \in [on : SUBSET Runnable, refused : BOOLEAN]
    BY <1>1 DEF NoPress
  <2> QED
    BY <1>1, <1>2, <2>1, Zenon DEF ReplayInv, ReplayTypeOK
<1>4. \A n \in 0..Len(news) : /\ n \in 0..Len(news') /\ Happened(news', n) = Happened(news, n)
                              /\ \A s : HasFirst(s, news, n) => HasFirst(s, news', n)
  BY <1>1, <1>2, FramesGrow
<1>5. \E m \in 0..Len(news') : HasFirst(replayed', news', m)
  BY <1>1, <1>4, Zenon DEF ReplayInv
<1>6. \A f \in 1..Len(recording'.frames) : \E n \in 0..Len(news') :
        recording'.frames[f].events = Happened(news', n)
  BY <1>1, <1>4, Zenon DEF ReplayInv
<1>7. Ordered(replayed')
  BY <1>1, Zenon DEF ReplayInv
<1>8. player' >= 0 => Len(recording'.frames) > 0
  BY <1>1, Zenon DEF ReplayInv
<1> QED
  BY <1>3, <1>5, <1>6, <1>7, <1>8, Zenon DEF ReplayInv

\* A frame has the events up to now.
LEMMA FrameKeeps ==
  ASSUME ReplayInv, WriteFrame
  PROVE  ReplayInv'
<1> DEFINE Frames == [rows : SUBSET Runnable, events : Seq(Nat \X Runnable)]
<1>1. /\ UNCHANGED <<machine, news, recorder, player, replayed, pressed>>
      /\ recording' = [recording EXCEPT !.frames = Append(@, Frame)]
  BY DEF WriteFrame
<1>2. PICK fs \in Seq(Frames) : fs = recording.frames /\ recording.torn \in BOOLEAN
  BY Zenon DEF ReplayInv, ReplayTypeOK
<1>3. PICK n \in Nat : n = Len(news) /\ news \in Seq(Runnable) /\ n \in 0..Len(news)
  BY LenProperties DEF ReplayInv, ReplayTypeOK
<1>4. PICK fr : fr = Frame /\ fr = [rows |-> machine, events |-> Happened(news, n)]
  BY <1>3, Zenon DEF Frame, Happened
<1>5. fr \in Frames /\ fr.events = Happened(news, n)
  <2>1. Happened(news, n) \in Seq(Nat \X Runnable)
    BY <1>3, HappenedIs
  <2>2. machine \subseteq Runnable
    BY DEF ReplayInv, ReplayTypeOK
  <2> QED
    BY <1>4, <2>1, <2>2
<1>6. PICK gs \in Seq(Frames) : gs = Append(fs, fr)
  BY <1>5, AppendProperties
<1>7. recording'.frames = gs /\ recording'.torn = recording.torn
  BY <1>1, <1>2, <1>4, <1>6 DEF ReplayInv, ReplayTypeOK
<1>8. /\ Len(gs) = Len(fs) + 1 /\ Len(fs) \in Nat /\ gs[Len(fs) + 1] = fr
      /\ \A f \in 1..Len(fs) : gs[f] = fs[f]
  BY <1>5, <1>6, AppendProperties, LenProperties
<1>9. ReplayTypeOK'
  <2>1. recording' \in [frames : Seq(Frames), torn : BOOLEAN]
    <3>1. recording' = [frames |-> gs, torn |-> recording.torn]
      BY <1>1, <1>2, <1>4, <1>6 DEF ReplayInv, ReplayTypeOK
    <3> QED
      BY <1>2, <1>6, <3>1
  <2>2. player' \in -1..Len(recording'.frames)
    BY <1>1, <1>2, <1>7, <1>8 DEF ReplayInv, ReplayTypeOK
  <2> QED
    BY <1>1, <2>1, <2>2, Zenon DEF ReplayInv, ReplayTypeOK
<1>10. ASSUME NEW f \in 1..Len(gs) PROVE \E i \in 0..Len(news') : gs[f].events = Happened(news', i)
  <2>1. CASE f \in 1..Len(fs)
    BY <1>1, <1>2, <1>8, <2>1, Zenon DEF ReplayInv
  <2>2. CASE f = Len(fs) + 1
    BY <1>1, <1>3, <1>5, <1>8, <2>2, Zenon
  <2> QED
    BY <1>8, <2>1, <2>2
<1>11. Ordered(replayed') /\ \E m \in 0..Len(news') : HasFirst(replayed', news', m)
  BY <1>1, Zenon DEF ReplayInv
<1>12. Len(gs) > 0
  BY <1>8
<1> QED
  BY <1>7, <1>9, <1>10, <1>11, <1>12, Zenon DEF ReplayInv

\* The replay goes on to its next frame, or to the first one with the history it has.
LEMMA NextKeeps ==
  ASSUME ReplayInv, NEW loop \in BOOLEAN, NextFrame(loop)
  PROVE  ReplayInv'
<1> DEFINE Frames == [rows : SUBSET Runnable, events : Seq(Nat \X Runnable)]
<1>1. /\ UNCHANGED <<machine, news, recording, recorder>> /\ pressed' = NoPress
      /\ player' = IF player < Len(recording.frames) THEN player + 1 ELSE 1
      /\ replayed' = replayed \o NewEvents(recording.frames[player'].events)
      /\ player >= 0
  BY DEF NextFrame
<1>2. PICK fs \in Seq(Frames) : fs = recording.frames
  BY Zenon DEF ReplayInv, ReplayTypeOK
<1>3. Len(fs) \in Nat /\ player \in 0..Len(fs)
  BY <1>1, <1>2, LenProperties DEF ReplayInv, ReplayTypeOK
\* The file that is played has a frame: it was read when it was opened.
<1>4. Len(fs) > 0
  BY <1>1, <1>2, Zenon DEF ReplayInv
<1>5. PICK p \in 1..Len(fs) : p = player'
  BY <1>1, <1>2, <1>3, <1>4
<1>6. PICK n \in 0..Len(news) : fs[p].events = Happened(news, n)
  BY <1>2, Zenon DEF ReplayInv
<1>7. news \in Seq(Runnable) /\ replayed \in Seq(Nat \X Runnable)
  BY DEF ReplayInv, ReplayTypeOK
<1>8. PICK m \in 0..Len(news) : HasFirst(replayed, news, m)
  BY Zenon DEF ReplayInv
<1>9. PICK all : all = Happened(news, n)
  OBVIOUS
<1>10. replayed' = replayed \o Only(all, ElementsOf(all) \ ElementsOf(replayed))
  BY <1>1, <1>2, <1>5, <1>6, <1>9, Zenon DEF NewEvents
<1>11. /\ replayed' \in Seq(Nat \X Runnable) /\ Ordered(replayed')
       /\ HasFirst(replayed', news, IF n <= m THEN m ELSE n)
  <2>1. Ordered(replayed)
    BY DEF ReplayInv
  <2> QED
    BY <1>7, <1>8, <1>9, <1>10, <2>1, PlayedOn, Zenon
<1>12. \E top \in 0..Len(news') : HasFirst(replayed', news', top)
  <2>1. (IF n <= m THEN m ELSE n) \in 0..Len(news)
    OBVIOUS
  <2> QED
    BY <1>1, <1>11, <2>1, Zenon
<1>13. ReplayTypeOK'
  <2>1. pressed' \in [on : SUBSET Runnable, refused : BOOLEAN]
    BY <1>1 DEF NoPress
  <2>2. player' \in -1..Len(recording'.frames)
    BY <1>1, <1>2, <1>3, <1>5
  <2> QED
    BY <1>1, <1>11, <2>1, <2>2, Zenon DEF ReplayInv, ReplayTypeOK
<1>14. \A f \in 1..Len(recording'.frames) : \E i \in 0..Len(news') :
         recording'.frames[f].events = Happened(news', i)
  BY <1>1, Zenon DEF ReplayInv
<1>15. player' >= 0 => Len(recording'.frames) > 0
  BY <1>1, <1>2, <1>4
<1> QED
  BY <1>11, <1>12, <1>13, <1>14, <1>15, Zenon DEF ReplayInv

\* Opening and closing a recording, writing its end, and the keys.
LEMMA OthersKeep ==
  ASSUME ReplayInv,
         \/ \E x \in Runnable : Refuse(x) \/ StopReplayed(x)
         \/ StartRecording \/ StopRecording \/ \E torn \in BOOLEAN : RecorderDies(torn)
         \/ OpenReplay \/ CloseReplay \/ UNCHANGED replayVars
  PROVE  ReplayInv'
<1> DEFINE Frames == [rows : SUBSET Runnable, events : Seq(Nat \X Runnable)]
<1>1. PICK fs \in Seq(Frames) : fs = recording.frames
  BY Zenon DEF ReplayInv, ReplayTypeOK
<1>2. CASE \E x \in Runnable : Refuse(x) \/ StopReplayed(x)
  <2>1. PICK x \in Runnable : Refuse(x) \/ StopReplayed(x)
    BY <1>2
  <2>2. /\ UNCHANGED <<news, recording, recorder, player, replayed>>
        /\ machine' = machine \/ machine' = machine \ {x}
        /\ pressed' = [on |-> {x}, refused |-> TRUE] \/ pressed' = [on |-> {x}, refused |-> FALSE]
    BY <2>1, Zenon DEF Refuse, StopReplayed
  <2>3. machine' \subseteq Runnable /\ pressed' \in [on : SUBSET Runnable, refused : BOOLEAN]
    <3>1. machine \subseteq Runnable
      BY DEF ReplayInv, ReplayTypeOK
    <3>2. machine' \subseteq Runnable
      BY <2>2, <3>1
    <3>3. /\ [on |-> {x}, refused |-> TRUE] \in [on : SUBSET Runnable, refused : BOOLEAN]
          /\ [on |-> {x}, refused |-> FALSE] \in [on : SUBSET Runnable, refused : BOOLEAN]
      OBVIOUS
    <3> QED
      BY <2>2, <3>2, <3>3, Zenon
  <2>4. ReplayTypeOK' /\ (player' >= 0 => Len(recording.frames) > 0)
    BY <2>2, <2>3, Zenon DEF ReplayInv, ReplayTypeOK
  <2>5. recording'.frames = recording.frames /\ UNCHANGED <<news, replayed>>
    BY <2>2
  <2> QED
    BY <2>4, <2>5, SameReplay
<1>3. CASE StartRecording \/ StopRecording \/ UNCHANGED replayVars
  <2>1. /\ UNCHANGED <<machine, news, recording, player, replayed, pressed>>
        /\ recorder' \in {"idle", "writing", "done"}
    BY <1>3 DEF StartRecording, StopRecording, replayVars, ReplayInv, ReplayTypeOK
  <2>2. ReplayTypeOK' /\ (player' >= 0 => Len(recording.frames) > 0)
    BY <2>1, Zenon DEF ReplayInv, ReplayTypeOK
  <2>3. recording'.frames = recording.frames /\ UNCHANGED <<news, replayed>>
    BY <2>1
  <2> QED
    BY <2>2, <2>3, SameReplay
<1>4. CASE \E torn \in BOOLEAN : RecorderDies(torn)
  <2>1. PICK torn \in BOOLEAN : RecorderDies(torn)
    BY <1>4
  <2>2. /\ UNCHANGED <<machine, news, player, replayed, pressed>> /\ recorder' = "done"
        /\ recording' = [recording EXCEPT !.torn = torn]
    BY <2>1 DEF RecorderDies
  <2>3. /\ recording' \in [frames : Seq(Frames), torn : BOOLEAN]
        /\ recording'.frames = recording.frames
    <3>1. recording \in [frames : Seq(Frames), torn : BOOLEAN]
      BY Zenon DEF ReplayInv, ReplayTypeOK
    <3> HIDE DEF Frames
    <3> QED
      BY <2>2, <3>1
  <2>4. ReplayTypeOK' /\ (player' >= 0 => Len(recording.frames) > 0)
    BY <2>2, <2>3, Zenon DEF ReplayInv, ReplayTypeOK
  <2> QED
    BY <2>2, <2>3, <2>4, SameReplay
<1>5. CASE OpenReplay
  <2>1. /\ UNCHANGED <<machine, news, recording, recorder, replayed, pressed>>
        /\ player' = 0 /\ recording.frames # <<>>
    BY <1>5 DEF OpenReplay, Readable
  <2>2. Len(fs) > 0
    BY <1>1, <2>1, EmptySeq
  <2>3. player' \in -1..Len(recording'.frames)
    BY <1>1, <2>1, <2>2, LenProperties
  <2>4. ReplayTypeOK' /\ (player' >= 0 => Len(recording.frames) > 0)
    BY <1>1, <2>1, <2>2, <2>3, Zenon DEF ReplayInv, ReplayTypeOK
  <2>5. recording'.frames = recording.frames /\ UNCHANGED <<news, replayed>>
    BY <2>1
  <2> QED
    BY <2>4, <2>5, SameReplay
<1>6. CASE CloseReplay
  <2>1. /\ UNCHANGED <<machine, news, recording, recorder>> /\ pressed' = NoPress
        /\ player' = -1 /\ replayed' = <<>>
    BY <1>6 DEF CloseReplay
  <2>2. ReplayTypeOK'
    <3>1. pressed' \in [on : SUBSET Runnable, refused : BOOLEAN] /\ replayed' \in Seq(Nat \X Runnable)
      BY <2>1 DEF NoPress
    <3>2. player' \in -1..Len(recording'.frames)
      BY <1>1, <2>1, LenProperties
    <3> QED
      BY <2>1, <3>1, <3>2, Zenon DEF ReplayInv, ReplayTypeOK
  <2>3. Len(replayed') = 0 /\ ~(player' >= 0)
    BY <2>1
  <2>4. Ordered(replayed')
    BY <2>3 DEF Ordered
  <2>5. \E m \in 0..Len(news') : HasFirst(replayed', news', m)
    <3>1. 0 \in 0..Len(news')
      BY <2>1, LenProperties DEF ReplayInv, ReplayTypeOK
    <3>2. HasFirst(replayed', news', 0)
      BY <2>3 DEF HasFirst
    <3> QED
      BY <3>1, <3>2
  <2>6. \A f \in 1..Len(recording'.frames) : \E i \in 0..Len(news') :
          recording'.frames[f].events = Happened(news', i)
    BY <2>1, Zenon DEF ReplayInv
  <2> QED
    BY <2>2, <2>3, <2>4, <2>5, <2>6, Zenon DEF ReplayInv
<1> QED
  BY <1>2, <1>3, <1>4, <1>5, <1>6, Zenon

-----------------------------------------------------------------------------
\* A frame has the events of the machine up to some time, and the history of the replay too.
THEOREM ReplayInductive == ReplaySpec => []ReplayInv
<1>1. ReplayInit => ReplayInv
  BY ReplayStarts
<1>2. ReplayInv /\ [ReplayNext]_replayVars => ReplayInv'
  <2> SUFFICES ASSUME ReplayInv, [ReplayNext]_replayVars PROVE ReplayInv'
    OBVIOUS
  <2>1. ASSUME NEW x \in Runnable, Changes(x) PROVE ReplayInv'
    BY <2>1, ChangesKeep
  <2>2. CASE WriteFrame
    BY <2>2, FrameKeeps
  <2>3. ASSUME NEW loop \in BOOLEAN, NextFrame(loop) PROVE ReplayInv'
    BY <2>3, NextKeeps
  <2>4. CASE \/ \E x \in Runnable : Refuse(x) \/ StopReplayed(x)
             \/ StartRecording \/ StopRecording \/ \E torn \in BOOLEAN : RecorderDies(torn)
             \/ OpenReplay \/ CloseReplay \/ UNCHANGED replayVars
    BY <2>4, OthersKeep
  <2> QED
    BY <2>1, <2>2, <2>3, <2>4, Zenon DEF ReplayNext
<1> QED
  BY <1>1, <1>2, PTL DEF ReplaySpec

\* A recording and what plays it have their types: the frame on the screen is one of the file.
THEOREM ReplayTypeCorrect == ReplaySpec => []ReplayTypeOK
<1>1. ReplayInv => ReplayTypeOK
  BY DEF ReplayInv
<1> QED
  BY <1>1, ReplayInductive, PTL

\* A replay that loops tells every event once and in the order in which it happened, though every
\* frame repeats the events of the frames before it.
THEOREM ReplayedInOrder == ReplaySpec => []EventsOnceInOrder
<1>1. ReplayInv => EventsOnceInOrder
  <2> SUFFICES ASSUME ReplayInv PROVE EventsOnceInOrder
    OBVIOUS
  <2>1. DOMAIN replayed = 1..Len(replayed)
    BY LenProperties DEF ReplayInv, ReplayTypeOK
  <2> QED
    BY <2>1, Zenon DEF ReplayInv, Ordered, EventsOnceInOrder
<1> QED
  BY <1>1, ReplayInductive, PTL

-----------------------------------------------------------------------------
(* The star map (module StarMap). *)

\* Two stars lie on one cell only at the bottom.
CellsApart(p) ==
  /\ DOMAIN p \subseteq AllStarIds
  /\ \A n \in DOMAIN p : p[n].cell \in 1..LastCell
  /\ \A m, n \in DOMAIN p : m # n /\ p[m].cell = p[n].cell => p[m].cell = LastCell

\* The type of what is not a cell.  The key of the cells is up to date wherever cells are drawn: no key and no resizing that
\* changes what is drawn leaves them for a refresh to find.
SkyBase ==
  /\ sky \in Skies /\ DOMAIN charted \subseteq AllStarIds
  /\ chosenStar \in AllStarIds \cup {NoneSelected}
  /\ scale \in LowScale..HighScale /\ scaleBeforeZoom \in LowScale..HighScale
  /\ hideIdle \in BOOLEAN /\ zoomed \in BOOLEAN /\ covered \in BOOLEAN /\ raised \in BOOLEAN
  /\ size \in Sizes

SkyInv ==
  /\ SkyBase
  /\ CellsApart(placements)
  /\ size # "narrow" => cacheKey = <<size, focusOn, hideIdle, scale>>

\* A star gets the first free cell from where it should be, or the last one.
LEMMA CellIsFree ==
  ASSUME NEW aim \in 1..LastCell, NEW taken
  PROVE  /\ FreeCell(aim, taken) \in 1..LastCell
         /\ FreeCell(aim, taken) \in taken => FreeCell(aim, taken) = LastCell
<1>1. LastCell \in Nat \ {0}
  BY StarMapAssumption
<1>2. PICK free : free = (aim..LastCell) \ taken
  OBVIOUS
<1>3. FreeCell(aim, taken) = IF free = {} THEN LastCell ELSE Min(free)
  BY <1>2 DEF FreeCell
<1>4. CASE free = {}
  BY <1>1, <1>3, <1>4
<1>5. CASE free # {}
  <2>1. free \in SUBSET Nat /\ free \subseteq 1..LastCell
    BY <1>1, <1>2
  <2>2. PICK least \in free : \A m \in free : least <= m
    BY <1>5, <2>1, LeastNatural
  <2>3. Min(free) \in free
    BY <2>2 DEF Min
  <2> QED
    BY <1>2, <1>3, <1>5, <2>1, <2>3
<1> QED
  BY <1>4, <1>5

\* Placed one after the other, no star takes the cell of another.
LEMMA PlacingsAreApart ==
  ASSUME NEW new, NEW taken, NEW cells \in Placings(new, taken)
  PROVE  /\ cells \in [new -> 1..LastCell]
         /\ \A n \in new : cells[n] \in taken => cells[n] = LastCell
         /\ \A m, n \in new : m # n /\ cells[m] = cells[n] => cells[m] = LastCell
<1>1. PICK turn \in Injection(new, 1..Cardinality(new)) :
        \A n \in new : \E aim \in 1..LastCell :
          cells[n] = FreeCell(aim, taken \cup {cells[m] : m \in {o \in new : turn[o] < turn[n]}})
  BY Zenon DEF Placings
<1>2. cells \in [new -> 1..LastCell]
  BY Zenon DEF Placings
<1>3. ASSUME NEW n \in new
      PROVE  cells[n] \in taken \cup {cells[m] : m \in {o \in new : turn[o] < turn[n]}}
               => cells[n] = LastCell
  <2>1. PICK aim \in 1..LastCell :
          cells[n] = FreeCell(aim, taken \cup {cells[m] : m \in {o \in new : turn[o] < turn[n]}})
    BY <1>1
  <2>2. PICK all : all = taken \cup {cells[m] : m \in {o \in new : turn[o] < turn[n]}}
    OBVIOUS
  <2>3. FreeCell(aim, all) \in all => FreeCell(aim, all) = LastCell
    BY CellIsFree
  <2> QED
    BY <2>1, <2>2, <2>3, Zenon
<1>4. ASSUME NEW m \in new, NEW n \in new, turn[m] < turn[n], cells[m] = cells[n]
      PROVE  cells[m] = LastCell
  BY <1>3, <1>4, Zenon
<1>5. ASSUME NEW m \in new, NEW n \in new, m # n
      PROVE  turn[m] < turn[n] \/ turn[n] < turn[m]
  <2>1. turn \in [new -> 1..Cardinality(new)] /\ turn[m] # turn[n]
    BY <1>5 DEF Injection, IsInjective
  <2>2. turn[m] \in Int /\ turn[n] \in Int
    BY <2>1
  <2> QED
    BY <2>1, <2>2
<1>6. \A m, n \in new : m # n /\ cells[m] = cells[n] => cells[m] = LastCell
  BY <1>4, <1>5, Zenon
<1> QED
  BY <1>2, <1>3, <1>6, Zenon

\* So does a whole layout, and a star that has a cell keeps it.
LEMMA LayoutsAreApart ==
  ASSUME NEW g, NEW focus, NEW idleHidden, NEW cached, CellsApart(cached), DOMAIN g \subseteq AllStarIds,
         NEW p \in Layouts(g, focus, idleHidden, cached)
  PROVE  /\ CellsApart(p)
         /\ \A n \in DOMAIN p \cap DOMAIN cached : p[n] = cached[n]
<1> DEFINE stars == Drawn(g, focus, idleHidden)
           kept  == stars \cap DOMAIN cached
           new   == stars \ kept
           taken == {cached[n].cell : n \in kept}
<1>1. PICK cells \in Placings(new, taken) :
        p = [n \in stars |-> IF n \in kept THEN cached[n]
                             ELSE [cell |-> cells[n], project |-> g[n].project]]
  BY DEF Layouts
<1>2. stars \subseteq AllStarIds
  BY DEF Drawn
<1>3. kept = stars \cap DOMAIN cached /\ new = stars \ kept /\ \A n \in kept : cached[n].cell \in taken
  OBVIOUS
<1> HIDE DEF stars, kept, new, taken
<1>4. /\ cells \in [new -> 1..LastCell]
      /\ \A n \in new : cells[n] \in taken => cells[n] = LastCell
      /\ \A m, n \in new : m # n /\ cells[m] = cells[n] => cells[m] = LastCell
  BY PlacingsAreApart
<1>5. DOMAIN p = stars /\ \A n \in kept : n \in stars /\ n \in DOMAIN cached /\ p[n] = cached[n]
  BY <1>1, <1>3
<1>6. \A n \in new : n \in stars /\ p[n].cell = cells[n] /\ cells[n] \in 1..LastCell
  BY <1>1, <1>3, <1>4
<1>7. \A n \in stars : n \in kept \/ n \in new
  BY <1>3
<1>8. \A n \in kept : p[n].cell \in taken
  BY <1>3, <1>5
<1>9. ASSUME NEW m \in stars, NEW n \in stars, m # n, p[m].cell = p[n].cell
       PROVE  p[m].cell = LastCell
  <2>1. CASE m \in kept /\ n \in kept
    BY <1>5, <1>9, <2>1, Zenon DEF CellsApart
  <2>2. CASE m \in kept /\ n \in new
    BY <1>4, <1>6, <1>8, <1>9, <2>2, Zenon
  <2>3. CASE m \in new /\ n \in kept
    BY <1>4, <1>6, <1>8, <1>9, <2>3, Zenon
  <2>4. CASE m \in new /\ n \in new
    BY <1>4, <1>6, <1>9, <2>4, Zenon
  <2> QED
    BY <1>7, <2>1, <2>2, <2>3, <2>4
<1>10. \A n \in stars : p[n].cell \in 1..LastCell
  BY <1>5, <1>6, <1>7, Zenon DEF CellsApart
<1>11. CellsApart(p)
  BY <1>2, <1>5, <1>9, <1>10, Zenon DEF CellsApart
<1>12. \A n \in DOMAIN p \cap DOMAIN cached : p[n] = cached[n]
  BY <1>3, <1>5
<1> QED
  BY <1>11, <1>12

\* Of no stars no two share a cell.
LEMMA EmptyIsApart == CellsApart(<<>>)
<1>1. DOMAIN <<>> = {}
  OBVIOUS
<1> QED
  BY <1>1 DEF CellsApart

-----------------------------------------------------------------------------
\* Whatever is drawn again is drawn apart, and with its key.
LEMMA RedrawKeeps ==
  ASSUME SkyInv, NEW key, Redraw(key), SkyBase'
  PROVE  SkyInv'
<1> DEFINE newKey == <<size', focusOn', hideIdle', scale'>>
           cached == IF key = newKey THEN placements ELSE <<>>
<1>1. CASE size' = "narrow"
  BY <1>1, Zenon DEF SkyInv, Redraw
<1>2. CASE size' # "narrow"
  <2>1. placements' \in Layouts(charted', focusOn', hideIdle', cached) /\ cacheKey' = newKey
    BY <1>2 DEF Redraw
  <2>2. CellsApart(cached)
    BY EmptyIsApart DEF SkyInv
  <2>3. DOMAIN charted' \subseteq AllStarIds
    BY DEF SkyBase
  <2> HIDE DEF cached
  <2>4. CellsApart(placements')
    BY <2>1, <2>2, <2>3, LayoutsAreApart, Zenon
  <2> QED
    BY <2>1, <2>4, Zenon DEF SkyInv
<1> QED
  BY <1>1, <1>2

\* A refresh finds the key it left, so that the cells are kept.
LEMMA RedrawKeepsCells ==
  ASSUME SkyInv, Redraw(cacheKey), UNCHANGED <<size, viewVars>>, DOMAIN charted' \subseteq AllStarIds
  PROVE  /\ \A n \in DOMAIN placements \cap DOMAIN placements' : placements'[n] = placements[n]
         /\ CellsApart(placements')
<1>1. size' = size /\ focusOn' = focusOn /\ hideIdle' = hideIdle /\ scale' = scale
  BY DEF viewVars
<1>2. CASE size = "narrow"
  <2>1. placements' = placements
    BY <1>1, <1>2 DEF Redraw
  <2> QED
    BY <2>1, Zenon DEF SkyInv
<1>3. CASE size # "narrow"
  <2>1. cacheKey = <<size', focusOn', hideIdle', scale'>>
    BY <1>1, <1>3, Zenon DEF SkyInv
  <2>2. placements' \in Layouts(charted', focusOn', hideIdle', placements)
    BY <1>1, <1>3, <2>1, Zenon DEF Redraw
  <2>3. CellsApart(placements)
    BY DEF SkyInv
  <2>4. PICK p : p = placements' /\ p \in Layouts(charted', focusOn', hideIdle', placements)
    BY <2>2
  <2>5. CellsApart(p) /\ \A n \in DOMAIN p \cap DOMAIN placements : p[n] = placements[n]
    BY <2>3, <2>4, LayoutsAreApart
  <2> QED
    BY <2>4, <2>5
<1> QED
  BY <1>2, <1>3

\* A graph has stars that exist, however the screen holds it.
LEMMA GraphsAreKnown ==
  ASSUME NEW g \in Skies
  PROVE  /\ DOMAIN g \subseteq AllStarIds /\ DOMAIN Rebuilt(g) \subseteq AllStarIds
         /\ DOMAIN charted \subseteq AllStarIds => DOMAIN LeftAsItIs(g) \subseteq AllStarIds
<1>1. DOMAIN g \subseteq AllStarIds
  BY DEF AllStarIds
<1>2. DOMAIN ViewOf(g) \subseteq AllStarIds
  BY <1>1 DEF ViewOf, Restrict
<1>3. DOMAIN Rebuilt(g) \subseteq AllStarIds
  BY <1>1, <1>2, Zenon DEF Rebuilt
<1>4. ASSUME DOMAIN charted \subseteq AllStarIds PROVE DOMAIN LeftAsItIs(g) \subseteq AllStarIds
  <2>1. PICK h : h = [n \in DOMAIN charted |-> IF n \in DOMAIN g THEN g[n]
                                               ELSE [charted[n] EXCEPT !.live = FALSE]]
    OBVIOUS
  <2>2. DOMAIN h = DOMAIN charted
    BY <2>1
  <2>3. LeftAsItIs(g) \in {g, h, charted}
    BY <2>1 DEF LeftAsItIs
  <2> QED
    BY <1>1, <1>4, <2>2, <2>3
<1> QED
  BY <1>1, <1>3, <1>4

\* A refresh of the map.
LEMMA RefreshOfSky ==
  ASSUME SkyInv, NEW g \in Skies, Refresh(g)
  PROVE  SkyInv' /\ CellsAreKept
<1>1. /\ sky' = g /\ UNCHANGED <<held, viewVars, size, covered, raised>>
  BY DEF Refresh
<1>2. /\ focusOn' = focusOn /\ hideIdle' = hideIdle /\ scale' = scale /\ zoomed' = zoomed
      /\ scaleBeforeZoom' = scaleBeforeZoom /\ size' = size /\ covered' = covered /\ raised' = raised
  BY <1>1 DEF viewVars
<1>3. CASE covered
  <2>1. charted' = LeftAsItIs(g) /\ UNCHANGED <<chosenStar, placements, cacheKey>>
    BY <1>3 DEF Refresh
  <2>2. DOMAIN charted' \subseteq AllStarIds
    BY <2>1, GraphsAreKnown DEF SkyInv, SkyBase
  <2>3. SkyBase'
    BY <1>1, <1>2, <2>1, <2>2, Zenon DEF SkyInv, SkyBase
  <2>4. SkyInv'
    BY <1>2, <2>1, <2>3, Zenon DEF SkyInv
  <2>5. CellsAreKept
    BY <2>1, Zenon DEF CellsAreKept, SkyInv, CellsApart
  <2> QED
    BY <2>4, <2>5
<1>4. CASE ~covered
  <2>1. /\ charted' = Rebuilt(g) /\ Redraw(cacheKey)
        /\ chosenStar' = IF chosenStar \in DOMAIN charted' THEN chosenStar ELSE NoneSelected
    BY <1>4 DEF Refresh
  <2>2. DOMAIN charted' \subseteq AllStarIds
    BY <2>1, GraphsAreKnown
  <2>3. chosenStar' \in AllStarIds \cup {NoneSelected}
    BY <2>1 DEF SkyInv, SkyBase
  <2>4. SkyBase'
    BY <1>1, <1>2, <2>2, <2>3, Zenon DEF SkyInv, SkyBase
  <2>5. /\ \A n \in DOMAIN placements \cap DOMAIN placements' : placements'[n] = placements[n]
        /\ CellsApart(placements')
    BY <1>1, <2>1, <2>2, RedrawKeepsCells
  <2>6. CellsAreKept
    BY <2>5, Zenon DEF CellsAreKept, CellsApart
  <2> QED
    BY <2>1, <2>4, <2>6, RedrawKeeps
<1> QED
  BY <1>3, <1>4

\* The keys.
LEMMA KeysKeep ==
  ASSUME SkyInv,
         \/ \E n \in AllStarIds : Select(n)
         \/ FocusProject \/ ZoomStar \/ HideIdle \/ ResetScale
         \/ \E step \in {-1, 1} : ZoomRings(step)
         \/ \E s \in Sizes : Resize(s)
  PROVE  SkyInv'
<1>1. sky' = sky /\ charted' = charted /\ covered' = covered /\ raised' = raised /\ Redraw(cacheKey)
  BY DEF Select, FocusProject, ZoomStar, HideIdle, ResetScale, ZoomRings, Resize, Shows
<1>2. chosenStar' \in AllStarIds \cup {NoneSelected}
  BY DEF Select, FocusProject, ZoomStar, HideIdle, ResetScale, ZoomRings, Resize, Shows, SkyInv, SkyBase
<1>3. size' \in Sizes
  BY DEF Select, FocusProject, ZoomStar, HideIdle, ResetScale, ZoomRings, Resize, Shows, SkyInv, SkyBase
<1>4. scale' \in LowScale..HighScale /\ scaleBeforeZoom' \in LowScale..HighScale
  <2>1. scale \in LowScale..HighScale /\ scaleBeforeZoom \in LowScale..HighScale
    BY DEF SkyInv, SkyBase
  <2>2. ASSUME NEW step \in {-1, 1}, ZoomRings(step)
        PROVE  scale' \in LowScale..HighScale /\ scaleBeforeZoom' = scaleBeforeZoom
    <3>1. PICK low \in Nat, high \in Nat : low = LowScale /\ high = HighScale /\ scale \in low..high
      BY <2>1, StarMapAssumption
    <3>2. PICK s \in Int : s = scale + step
      BY <3>1
    <3>3. PICK m : m = Max({low, s}) /\ m = IF low >= s THEN low ELSE s
      BY <3>2, TwoMax
    <3>4. m \in Int /\ m >= low
      BY <3>2, <3>3
    <3>5. PICK k : k = Min({high, m})
      OBVIOUS
    <3>6. k \in {high, m} /\ k <= high /\ k <= m
      <4>1. \E x \in {high, m} : \A y \in {high, m} : x <= y
        BY <3>4
      <4> QED
        BY <3>5, <4>1 DEF Min
    <3>7. scale' = k /\ scaleBeforeZoom' = scaleBeforeZoom
      BY <2>2, <3>1, <3>2, <3>3, <3>5, Zenon DEF ZoomRings
    <3> QED
      BY <3>1, <3>4, <3>6, <3>7
  <2>3. ASSUME \/ \E n \in AllStarIds : Select(n)
               \/ FocusProject \/ ZoomStar \/ HideIdle \/ ResetScale \/ \E s \in Sizes : Resize(s)
        PROVE  /\ scale' \in {scale, scaleBeforeZoom, ZoomScale, DefaultScale}
               /\ scaleBeforeZoom' \in {scale, scaleBeforeZoom}
    BY <2>3 DEF Select, FocusProject, ZoomStar, HideIdle, ResetScale, Resize, Shows, viewVars
  <2> QED
    BY <2>1, <2>2, <2>3, StarMapAssumption
<1>5. hideIdle' \in BOOLEAN
  BY Zenon DEF Select, FocusProject, ZoomStar, HideIdle, ResetScale, ZoomRings, Resize, Shows, viewVars,
     SkyInv, SkyBase
<1>6. zoomed' \in BOOLEAN
  BY Zenon DEF Select, FocusProject, ZoomStar, HideIdle, ResetScale, ZoomRings, Resize, Shows, viewVars,
     SkyInv, SkyBase
<1>7. SkyBase'
  BY <1>1, <1>2, <1>3, <1>4, <1>5, <1>6, Zenon DEF SkyInv, SkyBase
<1> QED
  BY <1>1, <1>7, RedrawKeeps

\* Details that open and close, and what a key does to a star that went.
LEMMA OpensKeep ==
  ASSUME SkyInv, KeyOfGoneStar \/ Details \/ CloseDetails \/ RedrawKey \/ Reopen \/ UNCHANGED skyVars
  PROVE  SkyInv'
<1>1. CASE KeyOfGoneStar \/ Details \/ CloseDetails \/ UNCHANGED skyVars
  <2>1. /\ UNCHANGED <<sky, charted, chosenStar, focusOn, hideIdle, scale, zoomed, scaleBeforeZoom,
                       placements, cacheKey, size>>
        /\ covered' = covered \/ covered' = TRUE \/ covered' = FALSE
        /\ raised' = raised \/ raised' = TRUE
    BY <1>1, Zenon DEF KeyOfGoneStar, Raises, Details, CloseDetails, skyVars, viewVars
  <2>2. covered' \in BOOLEAN /\ raised' \in BOOLEAN
    BY <2>1, Zenon DEF SkyInv, SkyBase
  <2>3. SkyBase'
    BY <2>1, <2>2, Zenon DEF SkyInv, SkyBase
  <2> QED
    BY <2>1, <2>3, Zenon DEF SkyInv
<1>2. CASE RedrawKey
  <2>1. /\ charted' = Rebuilt(sky) /\ Redraw(<<>>)
        /\ UNCHANGED <<sky, chosenStar, focusOn, hideIdle, scale, zoomed, scaleBeforeZoom, size, covered,
                       raised>>
    BY <1>2 DEF RedrawKey, viewVars
  <2>2. DOMAIN charted' \subseteq AllStarIds
    BY <2>1, GraphsAreKnown DEF SkyInv, SkyBase
  <2>3. SkyBase'
    BY <2>1, <2>2, Zenon DEF SkyInv, SkyBase
  <2> QED
    BY <2>1, <2>3, RedrawKeeps
<1>3. CASE Reopen
  <2>1. /\ charted' = Rebuilt(sky) /\ UNCHANGED <<sky, size, covered, raised>>
        /\ chosenStar' = NoneSelected /\ focusOn' = Whole /\ hideIdle' = FALSE /\ scale' = DefaultScale
        /\ zoomed' = FALSE /\ scaleBeforeZoom' = DefaultScale
    BY <1>3 DEF Reopen
  <2>2. DOMAIN charted' \subseteq AllStarIds
    BY <2>1, GraphsAreKnown DEF SkyInv, SkyBase
  <2>3. SkyBase'
    <3>1. FALSE \in BOOLEAN /\ DefaultScale \in LowScale..HighScale
      BY StarMapAssumption
    <3>2. NoneSelected \in AllStarIds \cup {NoneSelected}
      OBVIOUS
    <3> QED
      BY <2>1, <2>2, <3>1, <3>2, Zenon DEF SkyInv, SkyBase
  <2>4. CellsApart(placements')
    <3>1. CASE size = "narrow"
      <4>1. placements' = <<>>
        BY <1>3, <3>1 DEF Reopen
      <4> QED
        BY <4>1, EmptyIsApart
    <3>2. CASE size # "narrow"
      <4>1. placements' \in Layouts(charted', Whole, FALSE, <<>>)
        BY <1>3, <3>2 DEF Reopen
      <4> QED
        BY <2>2, <4>1, EmptyIsApart, LayoutsAreApart, Zenon
    <3> QED
      BY <3>1, <3>2
  <2>5. size' # "narrow" => cacheKey' = <<size', focusOn', hideIdle', scale'>>
    BY <1>3, <2>1, Zenon DEF Reopen
  <2> QED
    BY <2>3, <2>4, <2>5, Zenon DEF SkyInv
<1> QED
  BY <1>1, <1>2, <1>3

\* At the start nothing is drawn.
LEMMA SkyStarts ==
  ASSUME SkyInit
  PROVE  SkyInv
<1>1. /\ sky \in Skies /\ charted = Rebuilt(sky) /\ chosenStar = NoneSelected
      /\ hideIdle = FALSE /\ scale = DefaultScale /\ zoomed = FALSE /\ scaleBeforeZoom = DefaultScale
      /\ placements = <<>> /\ size = "narrow" /\ covered = FALSE /\ raised = FALSE
  BY DEF SkyInit
<1>2. DOMAIN charted \subseteq AllStarIds
  BY <1>1, GraphsAreKnown
<1>3. FALSE \in BOOLEAN /\ DefaultScale \in LowScale..HighScale /\ "narrow" \in Sizes
      /\ NoneSelected \in AllStarIds \cup {NoneSelected}
  BY StarMapAssumption
<1>4. SkyBase
  BY <1>1, <1>2, <1>3, Zenon DEF SkyBase
<1> QED
  BY <1>1, <1>4, EmptyIsApart, Zenon DEF SkyInv

-----------------------------------------------------------------------------
\* Every step keeps it, and no refresh moves a star.
LEMMA SkyStep == SkyInv /\ [SkyNext]_skyVars => SkyInv' /\ [CellsAreKept]_skyVars
<1> SUFFICES ASSUME SkyInv, [SkyNext]_skyVars PROVE SkyInv' /\ [CellsAreKept]_skyVars
  OBVIOUS
<1>1. ASSUME NEW g \in Skies \ {sky}, Refresh(g) PROVE SkyInv' /\ [CellsAreKept]_skyVars
  BY <1>1, RefreshOfSky
<1>2. CASE \/ \E n \in AllStarIds : Select(n)
           \/ FocusProject \/ ZoomStar \/ HideIdle \/ ResetScale
           \/ \E step \in {-1, 1} : ZoomRings(step)
           \/ \E s \in Sizes : Resize(s)
  <2>1. SkyInv'
    BY <1>2, KeysKeep
  <2>2. sky' = sky
    BY <1>2 DEF Select, FocusProject, ZoomStar, HideIdle, ResetScale, ZoomRings, Resize, Shows
  <2> QED
    BY <2>1, <2>2 DEF CellsAreKept
<1>3. CASE KeyOfGoneStar \/ Details \/ CloseDetails \/ RedrawKey \/ Reopen \/ UNCHANGED skyVars
  <2>1. SkyInv'
    BY <1>3, OpensKeep
  <2>2. sky' = sky
    BY <1>3 DEF KeyOfGoneStar, Raises, Details, CloseDetails, RedrawKey, Reopen, skyVars
  <2> QED
    BY <2>1, <2>2 DEF CellsAreKept
<1> QED
  BY <1>1, <1>2, <1>3, Zenon DEF SkyNext

\* The cells that are drawn belong to the key, whatever is pressed and however the terminal changes.
THEOREM SkyInductive == SkySpec => []SkyInv
<1>1. SkyInit => SkyInv
  BY SkyStarts
<1>2. SkyInv /\ [SkyNext]_skyVars => SkyInv'
  BY SkyStep, Zenon
<1> QED
  BY <1>1, <1>2, PTL DEF SkySpec

\* The star map's screen has its types: every star that is drawn is one that exists, in a row of
\* the map.
THEOREM SkyTypeCorrect == SkySpec => []SkyTypeOK
<1>1. SkyInv => SkyTypeOK
  <2> SUFFICES ASSUME SkyInv PROVE SkyTypeOK
    OBVIOUS
  <2>1. DOMAIN placements \subseteq AllStarIds /\ Cells(placements) \subseteq 1..LastCell
    BY DEF SkyInv, CellsApart, Cells
  <2>2. {scale, scaleBeforeZoom} \subseteq LowScale..HighScale
    BY DEF SkyInv, SkyBase
  <2>3. {hideIdle, zoomed, covered, raised} \subseteq BOOLEAN
    BY Zenon DEF SkyInv, SkyBase
  <2> QED
    BY <2>1, <2>2, <2>3, Zenon DEF SkyInv, SkyBase, SkyTypeOK
<1> QED
  BY <1>1, SkyInductive, PTL

\* A refresh leaves every star in its cell and gives a new one a cell that is free, also after the
\* map was resized, focused, zoomed or covered.
THEOREM CellsStay == SkySpec => StarsKeepTheirCells
<1>1. SkyInv /\ [SkyNext]_skyVars => [CellsAreKept]_skyVars
  BY SkyStep, Zenon
<1> QED
  BY <1>1, SkyInductive, PTL DEF SkySpec, StarsKeepTheirCells

-----------------------------------------------------------------------------
(* All of them, as the run checks them. *)

\* A step of the instance is a step of each component, or leaves it alone.
LEMMA ActsStepIs ==
  [ActsNext]_actsVars =>
    /\ [DashboardNext]_dashVars /\ [NewsNext]_newsVars /\ [ReplayNext]_replayVars
    /\ [DemoNext]_demoVars /\ [SettingsNext]_settingsVars /\ [RowNext]_rowVars
    /\ [StackNext]_stackVars /\ [KubeActionsNext]_kubeActionVars /\ [ForwardNext]_forwardVars
    /\ [SkyNext]_skyVars
<1> SUFFICES ASSUME [ActsNext]_actsVars
             PROVE  /\ [DashboardNext]_dashVars /\ [NewsNext]_newsVars /\ [ReplayNext]_replayVars
                    /\ [DemoNext]_demoVars /\ [SettingsNext]_settingsVars /\ [RowNext]_rowVars
                    /\ [StackNext]_stackVars /\ [KubeActionsNext]_kubeActionVars
                    /\ [ForwardNext]_forwardVars /\ [SkyNext]_skyVars
  OBVIOUS
<1>1. CASE DashboardNext /\ Resting("table")
  BY <1>1, Zenon DEF Resting
<1>2. CASE NewsNext /\ Resting("news")
  BY <1>2, Zenon DEF Resting
<1>3. CASE ReplayNext /\ Resting("replay")
  BY <1>3, Zenon DEF Resting
<1>4. CASE DemoNext /\ Resting("demo")
  BY <1>4, Zenon DEF Resting
<1>5. CASE SettingsNext /\ Resting("settings")
  BY <1>5, Zenon DEF Resting
<1>6. CASE RowNext /\ Resting("row")
  BY <1>6, Zenon DEF Resting
<1>7. CASE StackNext /\ Resting("stack")
  BY <1>7, Zenon DEF Resting
<1>8. CASE KubeActionsNext /\ Resting("pods")
  BY <1>8, Zenon DEF Resting
<1>9. CASE ForwardNext /\ Resting("forwards")
  BY <1>9, Zenon DEF Resting
<1>10. CASE SkyNext /\ Resting("sky")
  BY <1>10, Zenon DEF Resting
<1>11. CASE UNCHANGED actsVars
  BY <1>11, Zenon DEF actsVars
<1> QED
  BY <1>1, <1>2, <1>3, <1>4, <1>5, <1>6, <1>7, <1>8, <1>9, <1>10, <1>11, Zenon DEF ActsNext

\* So a behaviour of the instance is one of each component.
LEMMA ActsAreEach ==
  ActsSpec => /\ DashboardSpec /\ NewsSpec /\ ReplaySpec /\ DemoSpec /\ SettingsSpec
              /\ RowSpec /\ StackSpec /\ KubeActionsSpec /\ ForwardSpec /\ SkySpec
<1>1. ActsInit => /\ DashboardInit /\ NewsInit /\ ReplayInit /\ DemoInit /\ SettingsInit
                  /\ RowInit /\ StackInit /\ KubeActionsInit /\ ForwardInit /\ SkyInit
  BY Zenon DEF ActsInit
<1> QED
  BY <1>1, ActsStepIs, PTL DEF ActsSpec, DashboardSpec, NewsSpec, ReplaySpec, DemoSpec, SettingsSpec,
     RowSpec, StackSpec, KubeActionsSpec, ForwardSpec, SkySpec

\* An action on pods, on a compose project or on a row does what its question named, whatever
\* refreshes, other windows and crashes come between (tui/screens/kube.py, tui/screens/stack.py,
\* insights_ports.py).
THEOREM ActsDoAsAsked == ActsSpec => []ActsAsAsked
<1>1. NamedPodIsTouched /\ StackIsReached /\ FixSparesForwarder => ActsAsAsked
  BY Zenon DEF ActsAsAsked
<1> QED
  BY <1>1, ActsAreEach, NamedPodTouched, WholeStackReached, ForwarderIsSpared, PTL

\* The dashboard follows the file of its configuration, the snapshot and the view that is
\* asked for (tui/app_settings.py, tui/app_table.py).
THEOREM DashboardAlwaysFollows == ActsSpec => []DashboardFollows
<1>1. ConfigFollowsFile /\ TableIsDrawn => DashboardFollows
  BY Zenon DEF DashboardFollows
<1> QED
  BY <1>1, ActsAreEach, FileIsFollowed, TableAlwaysDrawn, PTL

\* An event is told once, live and in a replay (tui/app.py, replay.py).
THEOREM EventsOnce == ActsSpec => []EventsAreToldOnce
<1>1. ToldOnce /\ EventsOnceInOrder => EventsAreToldOnce
  BY Zenon DEF EventsAreToldOnce
<1> QED
  BY <1>1, ActsAreEach, NewsToldOnce, ReplayedInOrder, PTL

\* No refresh takes away what the user is looking at: the row a key acts on, the cell of a star
\* (tui/app_table.py, tui/starmap_layout.py).
THEOREM ShownStays == ActsSpec => WhatIsShownStays
<1>1. [ActsNext]_actsVars /\ SkyInv =>
        [/\ part = "table" => TargetsAreKept
         /\ part = "sky" => CellsAreKept]_actsVars
  <2> SUFFICES ASSUME [ActsNext]_actsVars, SkyInv PROVE TargetsAreKept /\ CellsAreKept
    BY Zenon
  <2>1. TargetsAreKept
    <3>1. CASE UNCHANGED dashVars
      BY <3>1, Zenon DEF dashVars, TargetsAreKept
    <3> QED
      BY <3>1, ActsStepIs, RefreshKeepsTargets, Zenon
  <2>2. CellsAreKept
    <3>1. CASE UNCHANGED skyVars
      BY <3>1, Zenon DEF skyVars, CellsAreKept
    <3> QED
      BY <3>1, ActsStepIs, SkyStep, Zenon
  <2> QED
    BY <2>1, <2>2
<1> QED
  BY <1>1, ActsAreEach, SkyInductive, PTL DEF ActsSpec, WhatIsShownStays

\* The variables of every component have their types.
THEOREM ActsTypeCorrect == ActsSpec => []ActsTypeOK
<1>1. /\ DashboardTypeOK /\ NewsTypeOK /\ ReplayTypeOK /\ DemoTypeOK /\ SettingsTypeOK /\ RowTypeOK
      /\ StackTypeOK /\ KubeActionsTypeOK /\ ForwardTypeOK /\ SkyTypeOK
      => ActsTypeOK
  BY Zenon DEF ActsTypeOK
<1> QED
  BY <1>1, ActsAreEach, DashboardTypeCorrect, NewsTypeCorrect, ReplayTypeCorrect, DemoTypeCorrect,
     SettingsTypeCorrect, RowTypeCorrect, StackTypeCorrect, PodsTypeCorrect, ForwardsTypeCorrect,
     SkyTypeCorrect, PTL
=============================================================================
