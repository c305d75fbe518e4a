-------------------------- MODULE DaemonLifecycle --------------------------
(***************************************************************************)
(* Which process is "the" daemon: serve() in daemon.py, ping() in          *)
(* daemon_client.py, the choice between an attached and a standalone       *)
(* engine in cli/common.py, and the one socket file they all meet at.      *)
(*                                                                         *)
(* A daemon is a process slot that is started, stopped and started again.  *)
(* The socket file belongs to whoever bound it last; a file whose owner no *)
(* longer listens is a stale one.  What the engine does in between is      *)
(* module RefreshService; a ping is answered in time by a serving daemon.  *)
(***************************************************************************)

CONSTANTS
  Daemons,        \* process slots for `lirts daemon`
  Dashboards,     \* dashboards, commands and agents that look for a daemon
  NoSocket,       \* there is no socket file
  Alone,          \* a dashboard with an engine of its own
  CleanupSocket,  \* Python 3.13 and later: closing the server removes its file
  Discipline      \* what those who start and stop daemons wait for, see below

ASSUME LifecycleAssumption ==
  /\ NoSocket \notin Daemons
  /\ Alone \notin Daemons /\ Alone # NoSocket
  /\ CleanupSocket \in BOOLEAN
  /\ Discipline \in {"serial", "after stop", "none"}

VARIABLES
  pc,   \* where each process is in serve(); "dead" is killed, or ended by an error
  path, \* the socket file: who bound it, or NoSocket
  att   \* the engine of each dashboard: a daemon, Alone, or NoSocket (not running)

vars == <<pc, path, att>>

Starting == {"opened", "pinged", "cleared"}
Ending == {"stopping", "closing", "saving"}

\* "serial": a daemon is started when no other is starting or ending, and
\* stopped when none is starting, as a service manager does.  "after stop": a
\* start does not wait for the end of a daemon that was told to stop (`lirts
\* daemon stop` says "stopped" at once).  "none": anything goes.
MayStart ==
  CASE Discipline = "serial" -> \A d \in Daemons : pc[d] \notin Starting \cup Ending
    [] Discipline = "after stop" -> \A d \in Daemons : pc[d] \notin Starting
    [] OTHER -> TRUE

MayStop == Discipline # "none" => \A d \in Daemons : pc[d] \notin Starting

\* A daemon that stops still listens while it waits for its refresh loop and its
\* MCP endpoint to end.
Listens(d) == pc[d] \in {"serving", "stopping"}

\* Connecting to the socket file reaches a daemon that listens on it.
Reached(d) == path = d /\ Listens(d)

SomeoneAnswers == \E d \in Daemons : Reached(d)

Goto(d, from, to) == pc[d] = from /\ pc' = [pc EXCEPT ![d] = to]

-----------------------------------------------------------------------------
\* run_daemon has built its engine, which has loaded the state files.
Open(d) ==
  /\ MayStart
  /\ Goto(d, "off", "opened") \/ Goto(d, "dead", "opened")
  /\ UNCHANGED <<path, att>>

\* Mutant: the answer is not looked at.
PingIgnored(d) == Goto(d, "opened", "pinged") /\ UNCHANGED <<path, att>>

\* Mutant: a socket file that is there is a daemon that runs.
PingByFile(d) ==
  /\ \/ path # NoSocket /\ Goto(d, "opened", "off")
     \/ path = NoSocket /\ Goto(d, "opened", "pinged")
  /\ UNCHANGED <<path, att>>

\* serve(): another daemon that answers is the end of this one.
Ping(d) ==
  /\ \/ SomeoneAnswers /\ Goto(d, "opened", "off")
     \/ ~SomeoneAnswers /\ Goto(d, "opened", "pinged")
  /\ UNCHANGED <<path, att>>

\* The other daemon is killed between the request and its answer: the DaemonError
\* of _exchange is not caught by ping, and the start ends with it.  (A dashboard
\* that asks at that moment ends the same way, before it is anything.)
PingBroken(d, e) ==
  /\ pc[d] = "opened" /\ Reached(e)
  /\ pc' = [pc EXCEPT ![d] = "dead", ![e] = "dead"]
  /\ UNCHANGED <<path, att>>

\* The file that is there is taken for the stale one of a daemon that died.
Clear(d) ==
  /\ Goto(d, "pinged", "cleared")
  /\ path' = NoSocket
  /\ UNCHANGED att

\* start_unix_server: asyncio removes a socket file that is in the way too.
Bind(d) ==
  /\ Goto(d, "cleared", "serving")
  /\ path' = d
  /\ UNCHANGED att

\* The stop request or a signal: the loop and the MCP endpoint are cancelled.
Stop(d) ==
  /\ MayStop
  /\ Goto(d, "serving", "stopping")
  /\ UNCHANGED <<path, att>>

\* They have ended: the server is closed, then serve() waits for the last
\* connections.
CloseSocket(d) ==
  /\ Goto(d, "stopping", "closing")
  /\ path' = IF CleanupSocket /\ path = d THEN NoSocket ELSE path
  /\ UNCHANGED att

\* serve() removes the socket file, whoever it belongs to by now.
Unlink(d) ==
  /\ Goto(d, "closing", "saving")
  /\ path' = NoSocket
  /\ UNCHANGED att

\* engine.close saves the state files and the process ends.
Finish(d) == Goto(d, "saving", "off") /\ UNCHANGED <<path, att>>

\* The process is killed; its socket file stays.
Crash(d) ==
  /\ pc[d] \notin {"off", "dead"}
  /\ pc' = [pc EXCEPT ![d] = "dead"]
  /\ UNCHANGED <<path, att>>

-----------------------------------------------------------------------------
\* Mutant: a file that is there counts as a daemon that answers.
LaunchIfPresent(c) ==
  /\ att[c] = NoSocket
  /\ att' = [att EXCEPT ![c] = IF path = NoSocket THEN Alone ELSE path]
  /\ UNCHANGED <<pc, path>>

\* _make_engine: attach to the daemon that answers, or run an engine of its own.
Launch(c) ==
  /\ att[c] = NoSocket
  /\ \/ \E d \in Daemons : Reached(d) /\ att' = [att EXCEPT ![c] = d]
     \/ ~SomeoneAnswers /\ att' = [att EXCEPT ![c] = Alone]
  /\ UNCHANGED <<pc, path>>

Quit(c) ==
  /\ att[c] # NoSocket
  /\ att' = [att EXCEPT ![c] = NoSocket]
  /\ UNCHANGED <<pc, path>>

-----------------------------------------------------------------------------
Init ==
  /\ pc = [d \in Daemons |-> "off"]
  /\ path = NoSocket
  /\ att = [c \in Dashboards |-> NoSocket]

\* What a process does by itself once it was started or stopped.
Runs(d) ==
  Ping(d) \/ Clear(d) \/ Bind(d) \/ CloseSocket(d) \/ Unlink(d) \/ Finish(d)

Next ==
  \/ \E d \in Daemons : Open(d) \/ Runs(d) \/ Stop(d) \/ Crash(d)
  \/ \E d, e \in Daemons : PingBroken(d, e)
  \/ \E c \in Dashboards : Launch(c) \/ Quit(c)

Spec == Init /\ [][Next]_vars

\* A process that can go on does: nothing in serve() waits for another daemon.
FairSpec == Spec /\ \A d \in Daemons : WF_vars(Runs(d))

-----------------------------------------------------------------------------
\* The type of every variable.
TypeOK ==
  /\ pc \in [Daemons -> {"off", "dead", "serving"} \cup Starting \cup Ending]
  /\ path \in Daemons \cup {NoSocket}
  /\ att \in [Dashboards -> Daemons \cup {Alone, NoSocket}]

\* One engine for the whole machine: never two daemons that own the state
\* files, from the end of the ping to the last save.
Owns(d) == pc[d] \in {"pinged", "cleared", "serving"} \cup Ending

OneEngine == \A d, e \in Daemons : Owns(d) /\ Owns(e) => d = e

\* While a daemon listens, whoever is launched attaches to it: nobody starts an
\* engine of his own or waits for a daemon that is dead.
Attaching(c) ==
  att[c] = NoSocket /\ att'[c] # NoSocket =>
    IF \E d \in Daemons : Listens(d)
      THEN att'[c] \in Daemons /\ Listens(att'[c])
      ELSE att'[c] = Alone

DashboardsAttach == [][\A c \in Dashboards : Attaching(c)]_vars

\* No stale file, left by a crash at any point, keeps the next daemon from
\* coming up: a start leads to a daemon that serves, or ends in a crash, its own
\* or that of the daemon it is asking.
StartsSucceed ==
  \A d \in Daemons : pc[d] = "opened" ~>
    (pc[d] = "dead" \/ \E e \in Daemons : pc[e] = "serving")

=============================================================================
