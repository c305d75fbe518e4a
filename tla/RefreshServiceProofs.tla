------------------------ MODULE RefreshServiceProofs ------------------------
(***************************************************************************)
(* Proofs about module RefreshService, for any number of clients and of    *)
(* agents and for any ages they ask for.                                   *)
(***************************************************************************)
EXTENDS RefreshService, SequenceTheorems, TLAPS

\* The lock is free exactly when no refresh runs.
StageIsLocked == stage = "none" <=> lock = Free

\* What a task that joined a refresh knows once that refresh is over, and what
\* the frame and the failures of the past have to do with it.
JoinersKnow ==
  /\ \A t \in Callers : pc[t] = "joined" /\ lock = Free => news[t] \/ failed[t]
  /\ \A t \in Tasks : pc[t] = "joined" /\ lock = Free => snapshot.real \/ anyFailed

FramesKnown ==
  /\ \A t \in Callers : news[t] => snapshot.real
  /\ \A t \in Callers : failed[t] => anyFailed
  /\ counted /\ ~snapshot.real => anyFailed

\* A discovery under way was asked for after the last reload request, if the
\* flag still says that none is wanted.
DiscoveryIsNew == routesLoaded /\ stage = "discovering" => askedNew

IInv ==
  /\ TypeOK
  /\ NoOverlap
  /\ StageIsLocked
  /\ JoinersKnow
  /\ FramesKnown
  /\ FreshAnswer
  /\ NoEmptyFrame
  /\ ReloadIsKept
  /\ DiscoveryIsNew

USE TasksAssumption DEF Tasks, Callers

-----------------------------------------------------------------------------
\* The invariant holds at the start.
LEMMA InitIInv == Init => IInv
<1> SUFFICES ASSUME Init
             PROVE  IInv
  OBVIOUS
<1>1. TypeOK
  BY EmptySeq DEF Init, TypeOK, Stages
<1>2. NoOverlap /\ StageIsLocked
  BY DEF Init, NoOverlap, StageIsLocked
<1>3. JoinersKnow /\ FreshAnswer /\ NoEmptyFrame
  BY DEF Init, JoinersKnow, FreshAnswer, NoEmptyFrame
<1>4. FramesKnown /\ ReloadIsKept /\ DiscoveryIsNew
  BY DEF Init, FramesKnown, ReloadIsKept, DiscoveryIsNew
<1> QED
  BY <1>1, <1>2, <1>3, <1>4 DEF IInv

\* What entering refresh does to the locking, for a task that was not waiting.
LEMMA EnterLocks ==
  ASSUME IInv, NEW t \in Tasks, ~Waiting(t), Enter(t)
  PROVE  /\ pc' \in [Tasks -> {"idle", "joined", "queued", "refreshing", "answered"}]
         /\ queue' \in Seq(Tasks)
         /\ lock' \in Tasks \cup {Free}
         /\ stage' \in Stages
         /\ NoOverlap'
         /\ StageIsLocked'
         /\ \A u \in Tasks \ {t} : pc'[u] = pc[u]
         /\ pc'[t] # "answered" /\ (pc'[t] = "joined" => lock' # Free)
         /\ lock # Free => lock' = lock
         /\ lock' = Free => lock = Free
         /\ stage' = "discovering" <=> stage = "discovering"
<1> USE DEF IInv, TypeOK, NoOverlap, StageIsLocked, Waiting, Stages
<1>1. Append(queue, t) \in Seq(Tasks)
  BY AppendProperties
<1>2. CASE lock # Free
  BY <1>1, <1>2, SMTT(60) DEF Enter
<1>3. CASE lock = Free /\ queue = <<>>
  BY <1>3 DEF Enter
<1>4. CASE lock = Free /\ queue # <<>>
  BY <1>1, <1>4 DEF Enter
<1> QED
  BY <1>2, <1>3, <1>4

\* What leaving refresh does to the locking.
LEMMA LeaveLocks ==
  ASSUME IInv, NEW t \in Tasks, lock = t, Leave(t)
  PROVE  /\ pc' = [pc EXCEPT ![t] = Done(t)]
         /\ pc' \in [Tasks -> {"idle", "joined", "queued", "refreshing", "answered"}]
         /\ queue' \in Seq(Tasks)
         /\ lock' = Free
         /\ stage' = "none"
         /\ NoOverlap'
         /\ StageIsLocked'
  BY DEF IInv, TypeOK, NoOverlap, StageIsLocked, Leave, Done, Stages

-----------------------------------------------------------------------------
\* Every step keeps the invariant.
LEMMA ResumeKeepsIInv == IInv /\ Resume => IInv'
<1> SUFFICES ASSUME IInv, Resume
             PROVE  IInv'
  OBVIOUS
<1> DEFINE t == Head(queue)
<1>1. t \in Tasks /\ queue' \in Seq(Tasks)
  BY HeadTailProperties DEF Resume, IInv, TypeOK
<1> HIDE DEF t
<1>2. CASE pc[t] = "joined"
  <2>1. /\ pc' = [pc EXCEPT ![t] = Done(t)]
        /\ got' = [got EXCEPT ![t] = snapshot.real]
        /\ counted' = (counted \/ t \notin McpCalls)
        /\ UNCHANGED <<lock, stage, frames, server, routing, recent, news, failed, anyFailed>>
    BY <1>2 DEF Resume, Count, t
  <2>2. TypeOK'
    <3>1. pc' \in [Tasks -> {"idle", "joined", "queued", "refreshing", "answered"}]
      BY <1>1, <2>1 DEF IInv, TypeOK, Done
    <3>2. got' \in [Callers -> BOOLEAN] /\ counted' \in BOOLEAN
      BY <1>1, <2>1 DEF IInv, TypeOK
    <3> QED
      BY <1>1, <2>1, <3>1, <3>2 DEF IInv, TypeOK, frames, routing
  <2>3. lock = Free
    BY DEF Resume
  <2>4. NoOverlap' /\ StageIsLocked' /\ JoinersKnow'
    <3>1. \A u \in Tasks : pc'[u] = IF u = t THEN Done(t) ELSE pc[u]
      BY <2>1 DEF IInv, TypeOK
    <3>2. Done(t) \in {"idle", "answered"}
      BY DEF Done
    <3>3. NoOverlap'
      BY <1>1, <1>2, <2>1, <2>3, <3>1, <3>2 DEF IInv, NoOverlap
    <3>4. StageIsLocked'
      BY <2>1 DEF IInv, StageIsLocked
    <3>5. JoinersKnow'
      BY <2>1, <2>3, <3>1, <3>2 DEF IInv, JoinersKnow, frames
    <3> QED
      BY <3>3, <3>4, <3>5
  <2>5. FramesKnown'
    BY <1>1, <1>2, <2>1, <2>3 DEF IInv, TypeOK, FramesKnown, JoinersKnow, frames
  <2>6. FreshAnswer' /\ NoEmptyFrame'
    BY <1>1, <1>2, <2>1, <2>3
    DEF IInv, TypeOK, FreshAnswer, NoEmptyFrame, JoinersKnow, FramesKnown, Done
  <2>7. ReloadIsKept' /\ DiscoveryIsNew'
    BY <2>1 DEF IInv, ReloadIsKept, DiscoveryIsNew, routing
  <2> QED
    BY <2>2, <2>4, <2>5, <2>6, <2>7 DEF IInv
<1>3. CASE pc[t] = "queued"
  <2>1. /\ pc' = [pc EXCEPT ![t] = "refreshing"]
        /\ lock' = t /\ stage' = "collecting"
        /\ UNCHANGED <<got, counted, frames, server, routing, recent, news, failed, anyFailed>>
    BY <1>3 DEF Resume, t
  <2>2. TypeOK' /\ lock = Free /\ stage = "none"
    BY <1>1, <2>1 DEF IInv, TypeOK, frames, routing, Stages, Resume, StageIsLocked
  <2>3. NoOverlap' /\ StageIsLocked' /\ JoinersKnow'
    BY <1>1, <2>1, <2>2 DEF IInv, TypeOK, NoOverlap, StageIsLocked, JoinersKnow
  <2>4. FramesKnown' /\ FreshAnswer' /\ NoEmptyFrame'
    BY <1>1, <2>1 DEF IInv, TypeOK, FramesKnown, FreshAnswer, NoEmptyFrame, frames
  <2>5. ReloadIsKept' /\ DiscoveryIsNew'
    BY <2>1, <2>2 DEF IInv, ReloadIsKept, DiscoveryIsNew, routing
  <2> QED
    BY <2>2, <2>3, <2>4, <2>5 DEF IInv
<1> QED
  BY <1>2, <1>3 DEF Resume, t

LEMMA ProgressKeepsIInv == IInv /\ Progress => IInv'
<1>1. ASSUME IInv, Collect PROVE IInv'
  <2>1. /\ stage = "collecting" /\ stage' \in {"analysing", "discovering"}
        /\ UNCHANGED <<pc, queue, lock, frames, counted, server, waiting>>
    BY <1>1 DEF Collect
  <2>2. TypeOK'
    BY <1>1, <2>1 DEF IInv, TypeOK, Collect, frames, waiting, routing, Stages
  <2>3. NoOverlap' /\ StageIsLocked' /\ JoinersKnow' /\ FramesKnown' /\ FreshAnswer' /\ NoEmptyFrame'
    BY <1>1, <2>1 DEF IInv, NoOverlap, StageIsLocked, JoinersKnow, FramesKnown, FreshAnswer,
                      NoEmptyFrame, frames, waiting
  <2>4. ReloadIsKept' /\ DiscoveryIsNew'
    BY <1>1 DEF IInv, TypeOK, ReloadIsKept, DiscoveryIsNew, Collect, routing
  <2> QED
    BY <2>2, <2>3, <2>4 DEF IInv
<1>2. ASSUME IInv, Discovered PROVE IInv'
  <2>1. /\ stage = "discovering" /\ stage' = "analysing" /\ routesNew' = askedNew
        /\ UNCHANGED <<routesLoaded, askedNew, routesFailed, pc, queue, lock, frames, counted,
                       server, waiting>>
    BY <1>2 DEF Discovered
  <2>2. TypeOK'
    BY <1>2, <2>1 DEF IInv, TypeOK, frames, waiting, Stages
  <2>3. NoOverlap' /\ StageIsLocked' /\ JoinersKnow' /\ FramesKnown' /\ FreshAnswer' /\ NoEmptyFrame'
    BY <1>2, <2>1 DEF IInv, NoOverlap, StageIsLocked, JoinersKnow, FramesKnown, FreshAnswer,
                      NoEmptyFrame, frames, waiting
  <2>4. ReloadIsKept' /\ DiscoveryIsNew'
    BY <1>2, <2>1 DEF IInv, ReloadIsKept, DiscoveryIsNew
  <2> QED
    BY <2>2, <2>3, <2>4 DEF IInv
<1>3. ASSUME IInv, Fold PROVE IInv'
  <2>1. /\ stage = "analysing" /\ stage' = "folded" /\ draftAge' = 0
        /\ UNCHANGED <<pc, queue, lock, snapshot, counted, server, routing, waiting>>
    BY <1>3 DEF Fold
  <2> QED
    BY <1>3, <2>1 DEF IInv, TypeOK, NoOverlap, StageIsLocked, JoinersKnow, FramesKnown,
         FreshAnswer, NoEmptyFrame, ReloadIsKept, DiscoveryIsNew, routing, waiting, Stages
<1>4. ASSUME IInv, Publish PROVE IInv'
  <2>1. /\ lock \in Tasks /\ Leave(lock) /\ stage = "folded"
        /\ pc[lock] = "refreshing"
    BY <1>4 DEF Publish, IInv, TypeOK, StageIsLocked, NoOverlap
  <2>2. /\ pc' = [pc EXCEPT ![lock] = Done(lock)]
        /\ pc' \in [Tasks -> {"idle", "joined", "queued", "refreshing", "answered"}]
        /\ queue' \in Seq(Tasks) /\ lock' = Free /\ stage' = "none"
        /\ NoOverlap' /\ StageIsLocked'
    BY <1>4, <2>1, LeaveLocks
  <2>3. /\ snapshot' = [real |-> TRUE, age |-> draftAge]
        /\ news' = [t \in Callers |-> news[t] \/ Waiting(t)]
        /\ got' = [got EXCEPT ![lock] = TRUE]
        /\ counted' = (counted \/ lock \notin McpCalls) \/ counted' = counted
        /\ UNCHANGED <<draftAge, server, routing, recent, failed, anyFailed>>
    BY <1>4 DEF Publish, Told, Count
  <2>4. TypeOK'
    BY <1>4, <2>2, <2>3 DEF IInv, TypeOK, routing, Waiting, Stages
  <2>5. JoinersKnow' /\ FramesKnown'
    BY <1>4, <2>1, <2>2, <2>3
    DEF IInv, TypeOK, JoinersKnow, FramesKnown, Waiting, Done
  <2>6. FreshAnswer' /\ NoEmptyFrame'
    BY <1>4, <2>1, <2>2, <2>3
    DEF IInv, TypeOK, FreshAnswer, NoEmptyFrame, Waiting, Done
  <2>7. ReloadIsKept' /\ DiscoveryIsNew'
    BY <1>4, <2>1, <2>2, <2>3 DEF IInv, ReloadIsKept, DiscoveryIsNew, routing
  <2> QED
    BY <2>2, <2>4, <2>5, <2>6, <2>7 DEF IInv
<1> QED
  BY <1>1, <1>2, <1>3, <1>4 DEF Progress

LEMMA FailKeepsIInv == IInv /\ Fail => IInv'
<1> SUFFICES ASSUME IInv, Fail
             PROVE  IInv'
  OBVIOUS
<1>1. lock \in Tasks /\ Leave(lock) /\ pc[lock] = "refreshing"
  BY DEF Fail, IInv, TypeOK, StageIsLocked, NoOverlap
<1>2. /\ pc' = [pc EXCEPT ![lock] = Done(lock)]
      /\ pc' \in [Tasks -> {"idle", "joined", "queued", "refreshing", "answered"}]
      /\ queue' \in Seq(Tasks) /\ lock' = Free /\ stage' = "none"
      /\ NoOverlap' /\ StageIsLocked'
  BY <1>1, LeaveLocks
<1>3. /\ failed' = [t \in Callers |-> failed[t] \/ Waiting(t)]
      /\ anyFailed' = TRUE
      /\ got' = [got EXCEPT ![lock] = snapshot.real]
      /\ routesFailed' = (routesFailed \/ stage = "discovering")
      /\ UNCHANGED <<frames, counted, server, routesLoaded, routesNew, askedNew, recent, news>>
  BY DEF Fail, Told
<1>4. TypeOK'
  BY <1>2, <1>3 DEF IInv, TypeOK, frames, Waiting, Stages
<1>5. JoinersKnow' /\ FramesKnown'
  BY <1>1, <1>2, <1>3 DEF IInv, TypeOK, JoinersKnow, FramesKnown, Waiting, Done, frames
<1>6. FreshAnswer' /\ NoEmptyFrame'
  BY <1>1, <1>2, <1>3 DEF IInv, TypeOK, FreshAnswer, NoEmptyFrame, Waiting, Done, frames
<1>7. ReloadIsKept' /\ DiscoveryIsNew'
  BY <1>2, <1>3 DEF IInv, ReloadIsKept, DiscoveryIsNew
<1> QED
  BY <1>2, <1>4, <1>5, <1>6, <1>7 DEF IInv

LEMMA AskKeepsIInv ==
  ASSUME IInv, NEW t \in Callers, NEW a \in MaxAges, Ask(t, a)
  PROVE  IInv'
<1>1. /\ ~Waiting(t) /\ t \in Tasks /\ t # LoopTask
      /\ recent' = [recent EXCEPT ![t] = snapshot.age <= a]
      /\ news' = [news EXCEPT ![t] = FALSE]
      /\ failed' = [failed EXCEPT ![t] = FALSE]
      /\ UNCHANGED <<frames, counted, server, routing, anyFailed>>
  BY DEF Ask
<1>2. CASE NeedsFrame(t, a)
  <2>1. Enter(t) /\ UNCHANGED got
    BY <1>2 DEF Ask
  <2>2. /\ pc' \in [Tasks -> {"idle", "joined", "queued", "refreshing", "answered"}]
        /\ queue' \in Seq(Tasks) /\ lock' \in Tasks \cup {Free} /\ stage' \in Stages
        /\ NoOverlap' /\ StageIsLocked'
        /\ \A u \in Tasks \ {t} : pc'[u] = pc[u]
        /\ pc'[t] # "answered" /\ (pc'[t] = "joined" => lock' # Free)
        /\ (lock' = Free => lock = Free)
        /\ (stage' = "discovering" <=> stage = "discovering")
    BY <1>1, <2>1, EnterLocks
  <2>3. TypeOK'
    BY <1>1, <2>1, <2>2 DEF IInv, TypeOK, frames, routing
  <2>4. JoinersKnow' /\ FramesKnown' /\ FreshAnswer' /\ NoEmptyFrame'
    BY <1>1, <2>1, <2>2
    DEF IInv, TypeOK, JoinersKnow, FramesKnown, FreshAnswer, NoEmptyFrame, frames
  <2>5. ReloadIsKept' /\ DiscoveryIsNew'
    BY <1>1, <2>2 DEF IInv, ReloadIsKept, DiscoveryIsNew, routing
  <2> QED
    BY <2>2, <2>3, <2>4, <2>5 DEF IInv
<1>3. CASE ~NeedsFrame(t, a)
  <2>1. /\ pc' = [pc EXCEPT ![t] = "answered"]
        /\ got' = [got EXCEPT ![t] = snapshot.real]
        /\ UNCHANGED <<queue, lock, stage>>
    BY <1>3 DEF Ask
  <2>2. TypeOK'
    BY <1>1, <2>1 DEF IInv, TypeOK, frames, routing
  <2>3. snapshot.age <= a /\ (t \in McpCalls => snapshot.real) /\ (t \in Clients => counted)
    BY <1>3, AgesAssumption DEF NeedsFrame, IInv, TypeOK
  <2>4. NoOverlap' /\ StageIsLocked' /\ JoinersKnow' /\ FramesKnown'
    BY <1>1, <2>1
    DEF IInv, TypeOK, NoOverlap, StageIsLocked, JoinersKnow, FramesKnown, Waiting, frames
  <2>5. FreshAnswer' /\ NoEmptyFrame'
    BY <1>1, <2>1, <2>3 DEF IInv, TypeOK, FreshAnswer, NoEmptyFrame, FramesKnown
  <2>6. ReloadIsKept' /\ DiscoveryIsNew'
    BY <1>1, <2>1 DEF IInv, ReloadIsKept, DiscoveryIsNew, routing
  <2> QED
    BY <2>2, <2>4, <2>5, <2>6 DEF IInv
<1> QED
  BY <1>2, <1>3

LEMMA LoopTurnKeepsIInv == IInv /\ LoopTurn => IInv'
<1> SUFFICES ASSUME IInv, LoopTurn
             PROVE  IInv'
  OBVIOUS
<1>1. /\ ~Waiting(LoopTask) /\ LoopTask \in Tasks /\ Enter(LoopTask)
      /\ UNCHANGED <<frames, counted, server, routing, waiting>>
  BY DEF LoopTurn, Waiting
<1>2. /\ pc' \in [Tasks -> {"idle", "joined", "queued", "refreshing", "answered"}]
      /\ queue' \in Seq(Tasks) /\ lock' \in Tasks \cup {Free} /\ stage' \in Stages
      /\ NoOverlap' /\ StageIsLocked'
      /\ \A u \in Tasks \ {LoopTask} : pc'[u] = pc[u]
      /\ (pc'[LoopTask] = "joined" => lock' # Free)
      /\ (lock' = Free => lock = Free)
      /\ (stage' = "discovering" <=> stage = "discovering")
  BY <1>1, EnterLocks
<1>3. TypeOK'
  BY <1>1, <1>2 DEF IInv, TypeOK, frames, routing, waiting
<1>4. JoinersKnow' /\ FramesKnown' /\ FreshAnswer' /\ NoEmptyFrame'
  BY <1>1, <1>2 DEF IInv, JoinersKnow, FramesKnown, FreshAnswer, NoEmptyFrame, frames, waiting
<1>5. ReloadIsKept' /\ DiscoveryIsNew'
  BY <1>1, <1>2 DEF IInv, ReloadIsKept, DiscoveryIsNew, routing
<1> QED
  BY <1>2, <1>3, <1>4, <1>5 DEF IInv

LEMMA OthersKeepIInv == IInv /\ (Reload \/ Tick \/ CloseSocket) => IInv'
<1> USE DEF IInv, TypeOK, NoOverlap, StageIsLocked, JoinersKnow, FramesKnown, FreshAnswer,
            NoEmptyFrame, ReloadIsKept, DiscoveryIsNew, locking, frames, waiting, routing
<1>1. IInv /\ Reload => IInv'
  <2> SUFFICES ASSUME IInv, Reload
               PROVE  IInv'
    OBVIOUS
  <2>1. TypeOK'
    BY DEF Reload
  <2> QED
    BY <2>1 DEF Reload
<1>2. IInv /\ Tick => IInv'
  <2> SUFFICES ASSUME IInv, Tick
               PROVE  IInv'
    OBVIOUS
  <2>1. Older(snapshot.age) \in Nat /\ Older(draftAge) \in Nat
    BY AgesAssumption DEF Older
  <2>2. snapshot' \in [real : BOOLEAN, age : Nat] /\ snapshot'.real = snapshot.real
    BY <2>1 DEF Tick
  <2>3. draftAge' \in Nat /\ UNCHANGED <<locking, counted, server, routing, waiting>>
    BY <2>1 DEF Tick
  <2>4. TypeOK'
    BY <2>2, <2>3
  <2> QED
    BY <2>2, <2>3, <2>4
<1>3. IInv /\ CloseSocket => IInv'
  BY DEF CloseSocket
<1> QED
  BY <1>1, <1>2, <1>3

LEMMA StopKeepsIInv == IInv /\ Stop => IInv'
<1> SUFFICES ASSUME IInv, Stop
             PROVE  IInv'
  OBVIOUS
<1>1. /\ CancelLoop /\ server' = "stopping"
      /\ UNCHANGED <<frames, counted, routesLoaded, routesNew, askedNew, recent, news, got>>
  BY DEF Stop
<1>2. CASE pc[LoopTask] = "idle"
  <2>1. UNCHANGED <<locking, failed, anyFailed, routesFailed>>
    BY <1>1, <1>2 DEF CancelLoop
  <2> QED
    BY <1>1, <2>1
    DEF IInv, TypeOK, NoOverlap, StageIsLocked, JoinersKnow, FramesKnown, FreshAnswer,
        NoEmptyFrame, ReloadIsKept, DiscoveryIsNew, locking, frames
<1>3. CASE pc[LoopTask] \in {"joined", "queued"}
  <2>1. /\ pc' = [pc EXCEPT ![LoopTask] = "idle"]
        /\ UNCHANGED <<lock, stage, failed, anyFailed, routesFailed>>
    BY <1>1, <1>3 DEF CancelLoop
  <2>2. queue' \in Seq(Tasks)
    <3>1. PICK i \in 1..Len(queue) :
            queue' = SubSeq(queue, 1, i - 1) \o SubSeq(queue, i + 1, Len(queue))
      BY <1>1, <1>3 DEF CancelLoop
    <3>2. queue \in Seq(Tasks) /\ Len(queue) \in Nat
      BY LenProperties DEF IInv, TypeOK
    <3>3. \A j \in 1..Len(queue) : queue[j] \in Tasks
      BY <3>2, ElementOfSeq
    <3>4. SubSeq(queue, 1, i - 1) \in Seq(Tasks)
      BY <3>2, <3>3, SubSeqProperties
    <3>5. SubSeq(queue, i + 1, Len(queue)) \in Seq(Tasks)
      BY <3>2, <3>3, SubSeqProperties
    <3> QED
      BY <3>1, <3>4, <3>5, ConcatProperties
  <2>3. TypeOK'
    BY <1>1, <2>1, <2>2 DEF IInv, TypeOK, frames
  <2> QED
    BY <1>1, <1>3, <2>1, <2>3
    DEF IInv, TypeOK, NoOverlap, StageIsLocked, JoinersKnow, FramesKnown, FreshAnswer,
        NoEmptyFrame, ReloadIsKept, DiscoveryIsNew, frames
<1>4. CASE pc[LoopTask] = "refreshing"
  <2>1. lock = LoopTask /\ LoopTask \in Tasks
    BY <1>4 DEF IInv, NoOverlap
  <2>2. /\ Leave(LoopTask)
        /\ failed' = [t \in Callers |-> failed[t] \/ Waiting(t)]
        /\ anyFailed' = TRUE
        /\ routesFailed' = (routesFailed \/ stage = "discovering")
    BY <1>1, <1>4 DEF CancelLoop, Told
  <2>3. /\ pc' = [pc EXCEPT ![LoopTask] = Done(LoopTask)]
        /\ pc' \in [Tasks -> {"idle", "joined", "queued", "refreshing", "answered"}]
        /\ queue' \in Seq(Tasks) /\ lock' = Free /\ stage' = "none"
        /\ NoOverlap' /\ StageIsLocked'
    BY <2>1, <2>2, LeaveLocks
  <2>4. TypeOK'
    BY <1>1, <2>2, <2>3 DEF IInv, TypeOK, frames, Waiting, Stages
  <2>5. JoinersKnow' /\ FramesKnown' /\ FreshAnswer' /\ NoEmptyFrame'
    BY <1>1, <2>1, <2>2, <2>3
    DEF IInv, TypeOK, JoinersKnow, FramesKnown, FreshAnswer, NoEmptyFrame, Waiting, Done, frames
  <2>6. ReloadIsKept' /\ DiscoveryIsNew'
    BY <1>1, <2>2, <2>3 DEF IInv, ReloadIsKept, DiscoveryIsNew
  <2> QED
    BY <2>3, <2>4, <2>5, <2>6 DEF IInv
<1> QED
  BY <1>1, <1>2, <1>3, <1>4 DEF CancelLoop

LEMMA CloseKeepsIInv == IInv /\ Close => IInv'
<1> SUFFICES ASSUME IInv, Close
             PROVE  IInv'
  OBVIOUS
<1>1. /\ server' = "closed"
      /\ pc' = [t \in Tasks |-> IF Waiting(t) THEN "idle" ELSE pc[t]]
      /\ queue' = <<>> /\ lock' = Free /\ stage' = "none"
      /\ routesFailed' = (routesFailed \/ stage = "discovering")
      /\ UNCHANGED <<frames, counted, routesLoaded, routesNew, askedNew, waiting>>
  BY DEF Close
<1>2. \A t \in Tasks : pc'[t] \in {"idle", "answered"} /\ (pc'[t] = "answered" => pc[t] = "answered")
  BY <1>1 DEF IInv, TypeOK, Waiting
<1>3. TypeOK'
  BY <1>1, <1>2 DEF IInv, TypeOK, frames, waiting, Stages
<1>4. NoOverlap' /\ StageIsLocked' /\ JoinersKnow'
  BY <1>1, <1>2 DEF NoOverlap, StageIsLocked, JoinersKnow
<1>5. FramesKnown' /\ FreshAnswer' /\ NoEmptyFrame'
  BY <1>1, <1>2 DEF IInv, FramesKnown, FreshAnswer, NoEmptyFrame, frames, waiting
<1>6. ReloadIsKept' /\ DiscoveryIsNew'
  BY <1>1 DEF IInv, ReloadIsKept, DiscoveryIsNew
<1> QED
  BY <1>3, <1>4, <1>5, <1>6 DEF IInv

LEMMA StutterKeepsIInv == IInv /\ UNCHANGED vars => IInv'
  BY DEF IInv, TypeOK, NoOverlap, StageIsLocked, JoinersKnow, FramesKnown, FreshAnswer,
         NoEmptyFrame, ReloadIsKept, DiscoveryIsNew, vars, locking, frames, waiting, routing

-----------------------------------------------------------------------------
\* The inductive invariant holds in every reachable state.
THEOREM Inductive == Spec => []IInv
<1>1. IInv /\ [Next]_vars => IInv'
  BY ResumeKeepsIInv, ProgressKeepsIInv, FailKeepsIInv, AskKeepsIInv, LoopTurnKeepsIInv,
     OthersKeepIInv, StopKeepsIInv, CloseKeepsIInv, StutterKeepsIInv
  DEF Next
<1> QED
  BY <1>1, InitIInv, PTL DEF Spec

\* Every variable keeps its type.
THEOREM TypeCorrect == Spec => []TypeOK
<1>1. IInv => TypeOK
  BY DEF IInv
<1> QED
  BY <1>1, Inductive, PTL

\* Two refreshes never overlap, whoever joins, fails or is cancelled.
THEOREM RefreshesDoNotOverlap == Spec => []NoOverlap
<1>1. IInv => NoOverlap
  BY DEF IInv
<1> QED
  BY <1>1, Inductive, PTL

\* Joining the refresh of another task is as good as a refresh of one's own.
THEOREM AnswersAreFresh == Spec => []FreshAnswer
<1>1. IInv => FreshAnswer
  BY DEF IInv
<1> QED
  BY <1>1, Inductive, PTL

\* The empty first frame reaches a caller only after a failure.
THEOREM EmptyFrameMeansFailure == Spec => []NoEmptyFrame
<1>1. IInv => NoEmptyFrame
  BY DEF IInv
<1> QED
  BY <1>1, Inductive, PTL

\* A request to reload the routes is not lost to a discovery under way.
THEOREM ReloadsAreKept == Spec => []ReloadIsKept
<1>1. IInv => ReloadIsKept
  BY DEF IInv
<1> QED
  BY <1>1, Inductive, PTL

=============================================================================
