--------------------------- MODULE RefreshService ---------------------------
(***************************************************************************)
(* One engine shared by many tasks: RefreshPipelineMixin.refresh with its  *)
(* asyncio lock (engine/pipeline.py), the daemon's own loop, its snapshot  *)
(* and reload_routes requests and its shutdown (daemon.py), and the MCP    *)
(* endpoint's tool calls (mcp_server.py).                                  *)
(*                                                                         *)
(* A task is a coroutine of one event loop: what it does between two       *)
(* awaits is one action.  A frame is abstracted to whether it is a         *)
(* collected one (the engine starts with an empty Snapshot()) and to its   *)
(* age; what a refresh does to the history is module HistoryCycle's.  A    *)
(* connection is its request: a client sends it as soon as it connects.    *)
(***************************************************************************)
EXTENDS Integers, Sequences

CONSTANTS
  Clients,    \* snapshot requests on the socket, from different connections
  McpCalls,   \* tool calls on the daemon's MCP endpoint
  LoopTask,   \* DaemonServer._loop
  Free,       \* nobody holds the lock
  MaxAges,    \* the max_age / refresh_interval values callers use
  Oldest      \* bound: the age at which a frame stops growing older

Callers == Clients \cup McpCalls
Tasks == Callers \cup {LoopTask}

ASSUME TasksAssumption ==
  /\ LoopTask \notin Callers /\ Free \notin Tasks /\ Clients \cap McpCalls = {}
ASSUME AgesAssumption == MaxAges \subseteq Nat /\ Oldest \in Nat

VARIABLES
  pc,            \* what each task does
  queue,         \* the waiters of the engine's asyncio.Lock, in order
  lock,          \* the task that holds it, or Free
  stage,         \* how far the refresh of the lock's holder has come
  draftAge,      \* the age of the frame it has stamped but not published
  snapshot,      \* Engine.snapshot
  counted,       \* DaemonServer.refreshes is not 0
  routesLoaded,  \* Engine._routes_loaded
  server,        \* "open", "stopping" once the loop is cancelled, "closing" once the
                 \* socket takes no request, "closed" when serve returns
  \* History variables.
  recent,        \* the frame was young enough for the caller when it asked
  news,          \* a frame was published while the caller waited
  failed,        \* a refresh ended without a frame while the caller waited
  got,           \* the frame the caller was answered with was a collected one
  anyFailed,     \* some refresh failed
  routesNew,     \* Engine.routes were asked for after the last reload request
  askedNew,      \* so was the discovery under way
  routesFailed   \* the discovery that followed that request failed

locking == <<pc, queue, lock, stage>>
frames == <<draftAge, snapshot>>
routing == <<routesLoaded, routesNew, askedNew, routesFailed>>
waiting == <<recent, news, failed, got, anyFailed>>
vars == <<locking, frames, counted, server, routing, waiting>>

\* Waiting for the refresh of another task, for a refresh of its own, or in it.
Waiting(t) == pc[t] \in {"joined", "queued", "refreshing"}

-----------------------------------------------------------------------------
(* Engine.refresh and the lock. *)

\* Mutant: the lock is not looked at.
EnterWithoutLock(t) ==
  /\ lock' = t /\ stage' = "collecting"
  /\ pc' = [pc EXCEPT ![t] = "refreshing"] /\ UNCHANGED queue

\* refresh() is called: join the refresh that runs, or start one.  Right after
\* a release the lock is free while its waiters have not resumed yet; a call
\* at that moment queues behind them and refreshes again.
Enter(t) ==
  \/ /\ lock # Free
     /\ pc' = [pc EXCEPT ![t] = "joined"]
     /\ queue' = Append(queue, t)
     /\ UNCHANGED <<lock, stage>>
  \/ /\ lock = Free /\ queue = <<>>
     /\ lock' = t /\ stage' = "collecting"
     /\ pc' = [pc EXCEPT ![t] = "refreshing"]
     /\ UNCHANGED queue
  \/ /\ lock = Free /\ queue # <<>>
     /\ pc' = [pc EXCEPT ![t] = "queued"]
     /\ queue' = Append(queue, t)
     /\ UNCHANGED <<lock, stage>>

\* What a task is after its refresh call: the loop sleeps, a caller has its answer.
Done(t) == IF t = LoopTask THEN "idle" ELSE "answered"

\* DaemonServer._refresh counts every call of engine.refresh that returns, a
\* joined one too; the MCP endpoint has a counter of its own.
Count(t) == counted' = (counted \/ t \notin McpCalls)

\* The first waiter of the free lock resumes.
Resume ==
  /\ lock = Free /\ queue # <<>>
  /\ LET t == Head(queue) IN
       \/ /\ pc[t] = "joined"
          /\ pc' = [pc EXCEPT ![t] = Done(t)]
          /\ got' = [got EXCEPT ![t] = snapshot.real]
          /\ Count(t)
          /\ UNCHANGED <<lock, stage>>
       \/ /\ pc[t] = "queued"
          /\ pc' = [pc EXCEPT ![t] = "refreshing"]
          /\ lock' = t /\ stage' = "collecting"
          /\ UNCHANGED <<got, counted>>
  /\ queue' = Tail(queue)
  /\ UNCHANGED <<frames, server, routing, recent, news, failed, anyFailed>>

\* Mutant: the lock is not given back.
LeaveLocked(t) ==
  /\ stage' = "none"
  /\ pc' = [pc EXCEPT ![t] = Done(t)]
  /\ UNCHANGED <<queue, lock>>

\* The holder leaves refresh and the lock.
Leave(t) ==
  /\ lock' = Free /\ stage' = "none"
  /\ pc' = [pc EXCEPT ![t] = Done(t)]
  /\ UNCHANGED queue

\* A refresh has ended: every caller that waits learns how.
Told(flag) == [t \in Callers |-> flag[t] \/ Waiting(t)]

-----------------------------------------------------------------------------
(* The steps of the refresh that runs, from await to await. *)

\* Everything is collected and probed.  _load_routes runs refresh_routes in a
\* thread when a reload is wanted: the flag is set before nginx is asked.
Collect ==
  /\ stage = "collecting"
  /\ IF routesLoaded
       THEN stage' = "analysing" /\ UNCHANGED routing
       ELSE /\ stage' = "discovering"
            /\ routesLoaded' = TRUE /\ askedNew' = TRUE
            /\ UNCHANGED <<routesNew, routesFailed>>
  /\ UNCHANGED <<pc, queue, lock, frames, counted, server, waiting>>

\* Mutant: the flag is set again with the answer.
DiscoveredMarks ==
  /\ stage = "discovering"
  /\ stage' = "analysing"
  /\ routesNew' = askedNew
  /\ routesLoaded' = TRUE
  /\ UNCHANGED <<askedNew, routesFailed, pc, queue, lock, frames, counted, server, waiting>>

\* discover_routes has answered.
Discovered ==
  /\ stage = "discovering"
  /\ stage' = "analysing"
  /\ routesNew' = askedNew
  /\ UNCHANGED <<routesLoaded, askedNew, routesFailed, pc, queue, lock, frames, counted,
                 server, waiting>>

\* Mutant: the frame is stamped with the time the next one is due.
FoldAhead ==
  /\ stage = "analysing"
  /\ stage' = "folded"
  /\ draftAge' = -1
  /\ UNCHANGED <<pc, queue, lock, snapshot, counted, server, routing, waiting>>

\* The frame gets its time; then the system figures are awaited.
Fold ==
  /\ stage = "analysing"
  /\ stage' = "folded"
  /\ draftAge' = 0
  /\ UNCHANGED <<pc, queue, lock, snapshot, counted, server, routing, waiting>>

\* The frame is out.  The topology and the session diff that follow may still
\* raise; the call is not counted then, and the frame stays.
Publish ==
  /\ stage = "folded"
  /\ snapshot' = [real |-> TRUE, age |-> draftAge]
  /\ Leave(lock)
  /\ Count(lock) \/ UNCHANGED counted
  /\ news' = Told(news)
  /\ got' = [got EXCEPT ![lock] = TRUE]
  /\ UNCHANGED <<draftAge, server, routing, recent, failed, anyFailed>>

\* An exception anywhere before the frame is there: _refresh logs it, and the
\* caller is answered with the frame there was.
Fail ==
  /\ stage # "none"
  /\ Leave(lock)
  /\ failed' = Told(failed)
  /\ anyFailed' = TRUE
  /\ got' = [got EXCEPT ![lock] = snapshot.real]
  /\ routesFailed' = (routesFailed \/ stage = "discovering")
  /\ UNCHANGED <<frames, counted, server, routesLoaded, routesNew, askedNew, recent, news>>

-----------------------------------------------------------------------------
(* The tasks. *)

\* Mutants: the frame is only looked at for being there, or for its age.
NeedsFrameOnce(t, a) == IF t \in McpCalls THEN ~snapshot.real ELSE ~counted

NeedsFrameByAge(t, a) == snapshot.age > a

\* The socket takes requests until it is closed: serve() waits for the loop and for
\* the MCP endpoint first, and answers in between.
Listening == server \in {"open", "stopping"}

\* DaemonServer.snapshot and ServerState.wait_ready: is a refresh needed?
NeedsFrame(t, a) ==
  IF t \in McpCalls
    THEN ~snapshot.real \/ snapshot.age > a
    ELSE ~counted \/ snapshot.age > a

\* A request arrives: refresh first, or answer with the frame there is.
Ask(t, a) ==
  /\ Listening
  /\ ~Waiting(t)
  /\ recent' = [recent EXCEPT ![t] = snapshot.age <= a]
  /\ news' = [news EXCEPT ![t] = FALSE]
  /\ failed' = [failed EXCEPT ![t] = FALSE]
  /\ \/ /\ NeedsFrame(t, a)
        /\ Enter(t)
        /\ UNCHANGED got
     \/ /\ ~NeedsFrame(t, a)
        /\ pc' = [pc EXCEPT ![t] = "answered"]
        /\ got' = [got EXCEPT ![t] = snapshot.real]
        /\ UNCHANGED <<queue, lock, stage>>
  /\ UNCHANGED <<frames, counted, server, routing, anyFailed>>

\* The loop's wait for the idle interval is over.
LoopTurn ==
  /\ server = "open"
  /\ pc[LoopTask] = "idle"
  /\ Enter(LoopTask)
  /\ UNCHANGED <<frames, counted, server, routing, waiting>>

\* reload_routes_on_next_refresh.
Reload ==
  /\ Listening
  /\ routesLoaded' = FALSE
  /\ routesNew' = FALSE /\ askedNew' = FALSE /\ routesFailed' = FALSE
  /\ UNCHANGED <<locking, frames, counted, server, waiting>>

\* Time passes.
Older(age) == IF age < Oldest THEN age + 1 ELSE age

Tick ==
  /\ snapshot' = [snapshot EXCEPT !.age = Older(snapshot.age)]
  /\ draftAge' = Older(draftAge)
  /\ UNCHANGED <<locking, counted, server, routing, waiting>>

-----------------------------------------------------------------------------
(* serve() after _stop is set. *)

\* Mutant: a cancelled refresh keeps the lock.
CancelLoopLocked ==
  /\ pc' = [pc EXCEPT ![LoopTask] = "idle"]
  /\ queue' = SelectSeq(queue, LAMBDA t : t # LoopTask)
  /\ stage' = IF lock = LoopTask THEN "none" ELSE stage
  /\ UNCHANGED <<lock, failed, anyFailed, routesFailed>>

\* CancelledError reaches the loop where it awaits: its sleep, its turn for the
\* lock, or its refresh, which ends without a frame and gives the lock back.
CancelLoop ==
  \/ /\ pc[LoopTask] = "idle"
     /\ UNCHANGED <<locking, failed, anyFailed, routesFailed>>
  \/ /\ pc[LoopTask] \in {"joined", "queued"}
     /\ pc' = [pc EXCEPT ![LoopTask] = "idle"]
     /\ \E i \in 1..Len(queue) :
          /\ queue[i] = LoopTask
          /\ queue' = SubSeq(queue, 1, i - 1) \o SubSeq(queue, i + 1, Len(queue))
     /\ UNCHANGED <<lock, stage, failed, anyFailed, routesFailed>>
  \/ /\ pc[LoopTask] = "refreshing"
     /\ Leave(LoopTask)
     /\ failed' = Told(failed)
     /\ anyFailed' = TRUE
     /\ routesFailed' = (routesFailed \/ stage = "discovering")

\* The loop is cancelled; the MCP endpoint is next.
Stop ==
  /\ server = "open"
  /\ server' = "stopping"
  /\ CancelLoop
  /\ UNCHANGED <<frames, counted, routesLoaded, routesNew, askedNew, recent, news, got>>

\* The endpoint has ended too and the socket is closed to new requests.
CloseSocket ==
  /\ server = "stopping"
  /\ server' = "closing"
  /\ UNCHANGED <<locking, frames, counted, routing, waiting>>

\* wait_closed has seen the last request of the socket off (Python 3.12 and
\* later) and engine.close saves the state.  The process ends, and with it the
\* MCP calls that still wait.
Close ==
  /\ server = "closing"
  /\ \A t \in Clients : ~Waiting(t)
  /\ server' = "closed"
  /\ pc' = [t \in Tasks |-> IF Waiting(t) THEN "idle" ELSE pc[t]]
  /\ queue' = <<>>
  /\ lock' = Free
  /\ stage' = "none"
  /\ routesFailed' = (routesFailed \/ stage = "discovering")
  /\ UNCHANGED <<frames, counted, routesLoaded, routesNew, askedNew, waiting>>

-----------------------------------------------------------------------------
Init ==
  /\ pc = [t \in Tasks |-> "idle"]
  /\ queue = <<>>
  /\ lock = Free
  /\ stage = "none"
  /\ draftAge = 0
  /\ snapshot = [real |-> FALSE, age |-> 0]
  /\ counted = FALSE
  /\ routesLoaded = FALSE
  /\ server = "open"
  /\ recent = [t \in Callers |-> TRUE]
  /\ news = [t \in Callers |-> FALSE]
  /\ failed = [t \in Callers |-> FALSE]
  /\ got = [t \in Callers |-> FALSE]
  /\ anyFailed = FALSE
  /\ routesNew = FALSE
  /\ askedNew = FALSE
  /\ routesFailed = FALSE

\* The steps that end a refresh in the good case.
Progress == Collect \/ Discovered \/ Fold \/ Publish

Next ==
  \/ Resume \/ Progress \/ Fail
  \/ \E t \in Callers, a \in MaxAges : Ask(t, a)
  \/ LoopTurn \/ Reload \/ Tick
  \/ Stop \/ CloseSocket \/ Close

Spec == Init /\ [][Next]_vars

\* The event loop resumes every task that can run, and no await of a refresh
\* lasts for ever: every command, probe and request in it has a timeout.  A task
\* that is cancelled, the MCP endpoint's too, ends.
Fairness ==
  WF_vars(Resume) /\ WF_vars(Progress) /\ WF_vars(CloseSocket) /\ WF_vars(Close)

FairSpec == Spec /\ Fairness

-----------------------------------------------------------------------------
Stages == {"none", "collecting", "discovering", "analysing", "folded"}

\* The type of every variable.
TypeOK ==
  /\ pc \in [Tasks -> {"idle", "joined", "queued", "refreshing", "answered"}]
  /\ queue \in Seq(Tasks)
  /\ lock \in Tasks \cup {Free}
  /\ stage \in Stages
  /\ draftAge \in Nat
  /\ snapshot \in [real : BOOLEAN, age : Nat]
  /\ counted \in BOOLEAN
  /\ routesLoaded \in BOOLEAN
  /\ server \in {"open", "stopping", "closing", "closed"}
  /\ recent \in [Callers -> BOOLEAN]
  /\ news \in [Callers -> BOOLEAN]
  /\ failed \in [Callers -> BOOLEAN]
  /\ got \in [Callers -> BOOLEAN]
  /\ anyFailed \in BOOLEAN
  /\ routesNew \in BOOLEAN
  /\ askedNew \in BOOLEAN
  /\ routesFailed \in BOOLEAN

\* Two refreshes never overlap: the one in a refresh is the lock's holder, even
\* when tasks join, fail or are cancelled.
NoOverlap ==
  \A t \in Tasks : pc[t] = "refreshing" <=> lock = t

\* A caller is answered with a frame that was young enough when it asked, or
\* that was published since, or a refresh it waited for came to nothing.  So
\* joining the refresh of another task is as good as a refresh of one's own.
FreshAnswer ==
  \A t \in Callers : pc[t] = "answered" => recent[t] \/ news[t] \/ failed[t]

\* Nobody is shown the empty frame the engine starts with, unless a refresh has
\* failed: one it waited for, or, for a client of the socket, an earlier one
\* that a joined call has counted as done.
NoEmptyFrame ==
  \A t \in Callers : pc[t] = "answered" /\ ~got[t] =>
    failed[t] \/ (t \in Clients /\ anyFailed)

\* A reload request is never lost, not even one that arrives while nginx is
\* being asked: no refresh considers the routes loaded until they were asked
\* for after the request (or that failed).
ReloadIsKept ==
  routesLoaded /\ stage # "discovering" => routesNew \/ routesFailed

\* Every request on the socket is answered, whoever refreshes, fails or stops.
Answered == \A t \in Clients : Waiting(t) ~> pc[t] = "answered"

\* A stopped daemon ends, whatever it was doing and whoever asks while it stops.
StopEnds == server = "stopping" ~> server = "closed"

=============================================================================
