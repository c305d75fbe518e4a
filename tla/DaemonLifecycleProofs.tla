----------------------- MODULE DaemonLifecycleProofs -----------------------
(***************************************************************************)
(* Proofs about module DaemonLifecycle: when daemons are started and       *)
(* stopped one after the other there is one engine, and whoever looks for  *)
(* it finds it, for any number of daemons, dashboards and crashes.         *)
(***************************************************************************)
EXTENDS DaemonLifecycle, TLAPS

Busy(d) == pc[d] \in Starting \cup Ending

\* One process at a time starts or ends.
OneBusy == \A d, e \in Daemons : Busy(d) /\ Busy(e) => d = e

\* A process that has found nobody, or that is ending, is the only one.
NobodyServes ==
  \A d \in Daemons : pc[d] \in {"pinged", "cleared"} \cup Ending =>
    \A e \in Daemons : pc[e] # "serving"

\* A daemon that listens is the one behind the socket file.
Reachable == \A d \in Daemons : Listens(d) => path = d

IInv == TypeOK /\ OneBusy /\ NobodyServes /\ Reachable

USE LifecycleAssumption DEF Starting, Ending, Busy, Listens

-----------------------------------------------------------------------------
LEMMA InitIInv == Init => IInv
  BY DEF Init, IInv, TypeOK, OneBusy, NobodyServes, Reachable

\* A process starts and nobody else is busy.
LEMMA StartKeepsIInv ==
  ASSUME Discipline = "serial", IInv, NEW d \in Daemons,
         Open(d) \/ Ping(d) \/ \E e \in Daemons : PingBroken(d, e)
  PROVE  IInv'
<1> USE DEF IInv, TypeOK, OneBusy, NobodyServes, Reachable, Goto
<1>1. CASE Open(d)
  BY <1>1 DEF Open, MayStart
<1>2. CASE Ping(d)
  <2>1. CASE SomeoneAnswers /\ Goto(d, "opened", "off")
    BY <1>2, <2>1 DEF Ping
  <2>2. CASE ~SomeoneAnswers /\ Goto(d, "opened", "pinged")
    <3>1. \A e \in Daemons : pc[e] # "serving"
      BY <2>2 DEF SomeoneAnswers, Reached
    <3> QED
      BY <1>2, <2>2, <3>1 DEF Ping
  <2> QED
    BY <1>2, <2>1, <2>2 DEF Ping
<1>3. ASSUME NEW e \in Daemons, PingBroken(d, e)
      PROVE  IInv'
  BY <1>3 DEF PingBroken
<1> QED
  BY <1>1, <1>2, <1>3

\* It takes the socket over while nobody serves.
LEMMA ServeKeepsIInv ==
  ASSUME IInv, NEW d \in Daemons, Clear(d) \/ Bind(d)
  PROVE  IInv'
<1> USE DEF IInv, TypeOK, OneBusy, NobodyServes, Reachable, Goto
<1>1. CASE Clear(d)
  BY <1>1, ZenonT(60) DEF Clear
<1>2. CASE Bind(d)
  BY <1>2, ZenonT(60) DEF Bind
<1> QED
  BY <1>1, <1>2

\* It is stopped while nobody starts, and removes a file that is its own.
LEMMA EndKeepsIInv ==
  ASSUME Discipline = "serial", IInv, NEW d \in Daemons,
         Stop(d) \/ CloseSocket(d) \/ Unlink(d) \/ Finish(d) \/ Crash(d)
  PROVE  IInv'
<1> USE DEF IInv, TypeOK, OneBusy, NobodyServes, Reachable, Goto
<1>1. CASE Stop(d)
  BY <1>1 DEF Stop, MayStop
<1>2. CASE Unlink(d)
  BY <1>2 DEF Unlink
<1>3. CASE Finish(d)
  BY <1>3 DEF Finish
<1>4. CASE Crash(d)
  BY <1>4 DEF Crash
<1>5. CASE CloseSocket(d)
  BY <1>5 DEF CloseSocket
<1> QED
  BY <1>1, <1>2, <1>3, <1>4, <1>5

\* Dashboards change neither the processes nor the socket.
LEMMA DashboardsKeepIInv ==
  ASSUME IInv, NEW c \in Dashboards, Launch(c) \/ Quit(c)
  PROVE  IInv'
<1>1. UNCHANGED <<pc, path>>
  BY DEF Launch, Quit
<1>2. att' \in [Dashboards -> Daemons \cup {Alone, NoSocket}]
  <2>1. CASE Launch(c)
    BY <2>1 DEF Launch, IInv, TypeOK
  <2>2. CASE Quit(c)
    BY <2>2 DEF Quit, IInv, TypeOK
  <2> QED
    BY <2>1, <2>2
<1> QED
  BY <1>1, <1>2 DEF IInv, TypeOK, OneBusy, NobodyServes, Reachable

LEMMA StutterKeepsIInv == IInv /\ UNCHANGED vars => IInv'
  BY DEF IInv, TypeOK, OneBusy, NobodyServes, Reachable, vars

-----------------------------------------------------------------------------
LEMMA NextKeepsIInv ==
  ASSUME Discipline = "serial", IInv, [Next]_vars
  PROVE  IInv'
  BY StartKeepsIInv, ServeKeepsIInv, EndKeepsIInv, DashboardsKeepIInv, StutterKeepsIInv
  DEF Next, Runs

\* The inductive invariant holds in every reachable state.
THEOREM Inductive ==
  ASSUME Discipline = "serial"
  PROVE  Spec => []IInv
<1>1. IInv /\ [Next]_vars => IInv'
  BY NextKeepsIInv
<1> QED
  BY <1>1, InitIInv, PTL DEF Spec

\* There are never two daemons that own the state files.
THEOREM OneEngineOnly ==
  ASSUME Discipline = "serial"
  PROVE  Spec => []OneEngine
<1>1. IInv => OneEngine
  <2> SUFFICES ASSUME IInv, NEW d \in Daemons, NEW e \in Daemons, Owns(d), Owns(e)
               PROVE  d = e
    BY DEF OneEngine
  <2>1. CASE pc[d] = "serving" /\ pc[e] = "serving"
    BY <2>1 DEF IInv, Reachable
  <2>2. CASE pc[d] # "serving" /\ pc[e] # "serving"
    BY <2>2 DEF IInv, OneBusy, Owns
  <2>3. CASE (pc[d] = "serving") # (pc[e] = "serving")
    BY <2>3 DEF IInv, NobodyServes, Owns
  <2> QED
    BY <2>1, <2>2, <2>3
<1> QED
  BY <1>1, Inductive, PTL

\* A step that starts no dashboard says nothing; one that does attaches it.
LEMMA StepAttaches ==
  ASSUME IInv, [Next]_vars, NEW c \in Dashboards
  PROVE  Attaching(c)
<1> USE DEF IInv, TypeOK
<1>1. ASSUME NEW d \in Daemons, Open(d) \/ Runs(d) \/ Stop(d) \/ Crash(d)
      PROVE  Attaching(c)
  BY <1>1
  DEF Runs, Open, Ping, Clear, Bind, Stop, CloseSocket, Unlink, Finish, Crash, Attaching
<1>2. ASSUME NEW u \in Dashboards, Launch(u)
      PROVE  Attaching(c)
  <2>1. CASE u # c
    BY <1>2, <2>1 DEF Launch, Attaching
  <2>2. CASE u = c
    <3>1. ASSUME NEW d \in Daemons, Reached(d), att' = [att EXCEPT ![c] = d]
          PROVE  Attaching(c)
      BY <1>2, <2>2, <3>1 DEF Launch, Reached, Attaching
    <3>2. CASE ~SomeoneAnswers /\ att' = [att EXCEPT ![c] = Alone]
      <4>1. \A d \in Daemons : ~Listens(d)
        BY <3>2 DEF SomeoneAnswers, Reached, Reachable
      <4> QED
        BY <1>2, <2>2, <3>2, <4>1 DEF Launch, Attaching
    <3> QED
      BY <1>2, <2>2, <3>1, <3>2 DEF Launch
  <2> QED
    BY <2>1, <2>2
<1>3. ASSUME NEW u \in Dashboards, Quit(u)
      PROVE  Attaching(c)
  BY <1>3 DEF Quit, Attaching
<1>4. CASE UNCHANGED vars
  BY <1>4 DEF vars, Attaching
<1>5. ASSUME NEW d \in Daemons, NEW e \in Daemons, PingBroken(d, e)
      PROVE  Attaching(c)
  BY <1>5 DEF PingBroken, Attaching
<1> QED
  BY <1>1, <1>2, <1>3, <1>4, <1>5 DEF Next

\* While a daemon serves, whoever is launched attaches to it.
THEOREM DashboardsFindIt ==
  ASSUME Discipline = "serial"
  PROVE  Spec => DashboardsAttach
<1>1. IInv /\ [Next]_vars => [\A c \in Dashboards : Attaching(c)]_vars
  BY StepAttaches
<1> QED
  BY <1>1, Inductive, PTL DEF Spec, DashboardsAttach

=============================================================================
