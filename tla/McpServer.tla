------------------------------- MODULE McpServer ------------------------------
(***************************************************************************)
(* What asks lirts about one port: the tools of `lirts mcp` and of the     *)
(* daemon's MCP endpoint (mcp_server.py, mcp_tools.py), and the commands   *)
(* `lirts who` and `lirts free` (cli/ports.py).                            *)
(*                                                                         *)
(* Behind them is one of three engines (cli/common.py).  An engine of its  *)
(* own has a refresh loop and answers from the frame it has; the daemon's  *)
(* engine, and a client of the daemon, refresh when a tool is called and   *)
(* the frame is old.  A frame has a row for the port when a process        *)
(* listens there, and for a while after it stopped (_stopped_rows).        *)
(*                                                                         *)
(* The process and the container of a port are one holder here: which of   *)
(* the two an action stops is in RowActions.  Tools that only read another *)
(* part of the frame than the row are the tool "list".                     *)
(***************************************************************************)
EXTENDS Naturals

CONSTANTS
  Callers,      \* calls an MCP client has under way at a time
  LastHolder,   \* bound: processes that listen on the port, one after the other
  McpInterval,  \* refresh_interval
  ShowStopped,  \* insights.show_stopped_minutes, 0 for off
  LastMcpTime   \* bound: the clock

ASSUME McpAssumption ==
  /\ "loop" \notin Callers
  /\ {LastHolder, McpInterval, ShowStopped} \subseteq Nat /\ LastMcpTime \in Nat \ {0}

VARIABLES
  engineKind,  \* "standalone", "daemon" or "client"
  allowed,     \* --allow-actions
  pretend,     \* a demo or a recording: no action of it may touch this machine
  mcpUp,       \* the server runs
  clock, holder, started,  \* the time, who listens on the port, processes so far
  lastHeld,    \* HistoryEntry.last_seen of the port, 0 when it has no entry
  frame,       \* the snapshot: the port's row, whose it is, whether there are rows, its time
  ready,       \* ServerState.ready: a refresh of the loop ended
  cycles,      \* the refreshes under way: who waits for it and what it collected
  calls        \* the calls

mcpVars == <<engineKind, allowed, pretend, mcpUp, clock, holder, started, lastHeld, frame, ready,
             cycles, calls>>

Actors == Callers \cup {"loop"}
Idle == [tool |-> "none", at |-> "idle", free |-> FALSE]
NotRefreshing == [on |-> FALSE, saw |-> 0]
NoFrame == [row |-> "no frame", of |-> 0, rows |-> FALSE, taken |-> 0]
McpTools == {"who", "list"} \cup (IF allowed THEN {"free_port", "fix", "restart"} ELSE {})

McpTypeOK ==
  /\ engineKind \in {"standalone", "daemon", "client"}
  /\ {allowed, pretend, mcpUp, ready} \subseteq BOOLEAN
  /\ clock \in 1 .. LastMcpTime
  /\ started \in 0 .. LastHolder /\ holder \in 0 .. started /\ lastHeld \in 0 .. clock
  /\ frame \in [row : {"no frame", "none", "live", "stopped"}, of : 0 .. started,
                rows : BOOLEAN, taken : 0 .. clock]
  /\ cycles \in [Actors -> [on : BOOLEAN, saw : 0 .. started]]
  /\ calls \in [Callers -> [tool : {"none", "who", "list", "free_port", "fix", "restart"},
                            at : {"idle", "called", "pulling", "shared", "fresh", "answered"},
                            free : BOOLEAN]]

-----------------------------------------------------------------------------
(* The row of the port. *)

\* _stopped_rows: the dimmed row of a port whose last sight is in the window.
ShowsStopped(seen) == seen # 0 /\ clock - seen \in 1 .. ShowStopped

\* The row a refresh gives the port: the one by_port finds.
RowOf(saw) ==
  IF saw # 0 THEN "live" ELSE IF ShowsStopped(lastHeld) THEN "stopped" ELSE "none"

\* others: the machine has rows of other ports.
McpFrame(saw, others) ==
  [row |-> RowOf(saw), of |-> saw, rows |-> others \/ RowOf(saw) # "none", taken |-> clock]

\* refresh(): what it collected when it started is the history's and the frame's when it ends.
TakeFrame(saw, others) ==
  /\ frame' = McpFrame(saw, others)
  /\ lastHeld' = IF saw # 0 THEN clock ELSE lastHeld

-----------------------------------------------------------------------------
(* ServerState. *)

\* Mutant: ready only after a refresh that worked.
ReadyWhenWell(well) == ready \/ well

\* _refresh's finally: ready, whether it worked or not.
ReadyAfter(well) == TRUE

Own == engineKind = "standalone"

Start ==
  /\ ~mcpUp /\ mcpUp' = TRUE
  /\ UNCHANGED <<engineKind, allowed, pretend, clock, holder, started, lastHeld, frame, ready,
                 cycles, calls>>

\* stop: the client closed the pipe, or the daemon ends; what was called is cancelled with it.
Stop ==
  /\ mcpUp /\ mcpUp' = FALSE
  /\ calls' = [c \in Callers |-> Idle]
  /\ cycles' = [a \in Actors |-> NotRefreshing]
  /\ ready' = FALSE /\ frame' = NoFrame
  /\ UNCHANGED <<engineKind, allowed, pretend, clock, holder, started, lastHeld>>

\* Engine.refresh holds a lock; a client only asks the daemon.
Locked == engineKind # "client" /\ \E a \in Actors : cycles[a].on

BeginRefresh(a) ==
  /\ ~cycles[a].on /\ ~Locked
  /\ cycles' = [cycles EXCEPT ![a] = [on |-> TRUE, saw |-> holder]]

\* _loop: of an engine of its own; that of the daemon's engine is DaemonServer._loop.
LoopRefresh ==
  /\ mcpUp /\ engineKind # "client"
  /\ BeginRefresh("loop")
  /\ UNCHANGED <<engineKind, allowed, pretend, mcpUp, clock, holder, started, lastHeld, frame,
                 ready, calls>>

\* Who waits for the lock has the frame of the refresh it waited for.
Released(a) == [c \in Callers |->
  IF \/ c = a /\ calls[c].at = "pulling"
     \/ calls[c].at = "shared"
  THEN [calls[c] EXCEPT !.at = "fresh"] ELSE calls[c]]

\* _refresh ends: a cycle that failed is logged.
EndRefresh(a, well) ==
  /\ cycles[a].on
  /\ cycles' = [cycles EXCEPT ![a] = NotRefreshing]
  /\ IF well
     THEN \E others \in BOOLEAN : TakeFrame(cycles[a].saw, others)
     ELSE UNCHANGED <<frame, lastHeld>>
  /\ ready' = IF a = "loop" /\ ~Own THEN ready ELSE ReadyAfter(well)
  /\ calls' = Released(a)
  /\ UNCHANGED <<engineKind, allowed, pretend, mcpUp, clock, holder, started>>

\* wait_ready: the frame of an engine without a loop of its own has no row, or is too old.
TooOld == ~frame.rows \/ clock - frame.taken > McpInterval

-----------------------------------------------------------------------------
(* The tools. *)

\* _register_read_tools, _register_action_tools: the actions only with --allow-actions.
Call(c, tool) ==
  /\ mcpUp /\ calls[c].at \in {"idle", "answered"} /\ tool \in McpTools
  /\ calls' = [calls EXCEPT ![c] = [Idle EXCEPT !.tool = tool, !.at = "called"]]
  /\ UNCHANGED <<engineKind, allowed, pretend, mcpUp, clock, holder, started, lastHeld, frame,
                 ready, cycles>>

\* wait_ready, for an engine without a loop: refresh when the frame is empty or old.
Pull(c) ==
  /\ calls[c].at = "called" /\ ~Own /\ TooOld
  /\ \/ BeginRefresh(c) /\ calls' = [calls EXCEPT ![c].at = "pulling"]
     \/ Locked /\ calls' = [calls EXCEPT ![c].at = "shared"] /\ UNCHANGED cycles
  /\ UNCHANGED <<engineKind, allowed, pretend, mcpUp, clock, holder, started, lastHeld, frame,
                 ready>>

\* wait_ready is over.
MayAnswer(c) ==
  \/ calls[c].at = "fresh"
  \/ calls[c].at = "called" /\ IF Own THEN ready ELSE ~TooOld

Answered(c) == [calls EXCEPT ![c] = [Idle EXCEPT !.at = "answered"]]

\* listeners_payload and the others that only read.
ListAnswer(c) ==
  /\ calls[c].tool = "list" /\ MayAnswer(c)
  /\ calls' = Answered(c)
  /\ UNCHANGED <<engineKind, allowed, pretend, mcpUp, clock, holder, started, lastHeld, frame,
                 ready, cycles>>

\* who_payload: "free" when the frame has no row for the port.
WhoAnswer(c) ==
  /\ calls[c].tool = "who" /\ MayAnswer(c)
  /\ calls' = [calls EXCEPT ![c] = [Idle EXCEPT !.tool = "who", !.at = "answered",
                                               !.free = frame.row \in {"no frame", "none"}]]
  /\ UNCHANGED <<engineKind, allowed, pretend, mcpUp, clock, holder, started, lastHeld, frame,
                 ready, cycles>>

\* _refusal: not on a recording, and not without a row.  What a demo stops is not of this machine.
Refused == pretend \/ frame.row \in {"no frame", "none"}

\* kill_and_wait, docker.stop: what the row was of, if it still is there and does end.
StopHolder(of) == holder' \in (IF of # 0 /\ holder = of THEN {0, of} ELSE {holder})

\* free_port_payload, and fix_payload whose fix kills: a row of a port that stopped has nothing
\* to stop, and no fix.
FreeAnswer(c) ==
  /\ calls[c].tool \in {"free_port", "fix"} /\ MayAnswer(c)
  /\ IF Refused \/ frame.row = "stopped" THEN UNCHANGED holder ELSE StopHolder(frame.of)
  /\ calls' = Answered(c)
  /\ UNCHANGED <<engineKind, allowed, pretend, mcpUp, clock, started, lastHeld, frame, ready,
                 cycles>>

\* restart_payload: stopped, and once it is gone run again.
RestartAnswer(c) ==
  /\ calls[c].tool = "restart" /\ MayAnswer(c)
  /\ \/ Refused /\ UNCHANGED <<holder, started>>
     \/ ~Refused /\ UNCHANGED <<holder, started>>
     \/ /\ ~Refused /\ frame.of # 0 /\ holder = frame.of /\ started < LastHolder
        /\ started' = started + 1 /\ holder' = started'
  /\ calls' = Answered(c)
  /\ UNCHANGED <<engineKind, allowed, pretend, mcpUp, clock, lastHeld, frame, ready, cycles>>

-----------------------------------------------------------------------------
(* The commands: an engine of their own, or the daemon's, that refreshes twice. *)

\* _collect: the row of the port as it is now.
CommandRow == RowOf(holder)

Saw == lastHeld' = IF holder # 0 THEN clock ELSE lastHeld

\* who_command: its exit code, and what it does.
WhoExit == IF CommandRow = "none" THEN 1 ELSE 0

WhoCommand ==
  /\ Saw
  /\ UNCHANGED <<engineKind, allowed, pretend, mcpUp, clock, holder, started, frame, ready,
                 cycles, calls>>

\* _free_plan: the processes and the container of the row.
Plan == IF CommandRow = "live" THEN {holder} ELSE {}

\* free_command: nothing to do, nothing it can stop, a demo or a recording, or not confirmed;
\* a holder may not be signalled, or outlive the signal.  Which it was is the exit code.
FreeCommand(confirmed) ==
  /\ IF Plan # {} /\ ~pretend /\ confirmed THEN StopHolder(holder) ELSE UNCHANGED holder
  /\ Saw
  /\ UNCHANGED <<engineKind, allowed, pretend, mcpUp, clock, started, frame, ready, cycles,
                 calls>>

-----------------------------------------------------------------------------
(* The machine. *)

Listen ==
  /\ holder = 0 /\ started < LastHolder
  /\ started' = started + 1 /\ holder' = started'
  /\ UNCHANGED <<engineKind, allowed, pretend, mcpUp, clock, lastHeld, frame, ready, cycles,
                 calls>>

Leave ==
  /\ holder # 0 /\ holder' = 0
  /\ UNCHANGED <<engineKind, allowed, pretend, mcpUp, clock, started, lastHeld, frame, ready,
                 cycles, calls>>

McpTick ==
  /\ clock < LastMcpTime /\ clock' = clock + 1
  /\ UNCHANGED <<engineKind, allowed, pretend, mcpUp, holder, started, lastHeld, frame, ready,
                 cycles, calls>>

-----------------------------------------------------------------------------
\* _make_engine: a demo or a recording, the daemon's client when one answers, an engine.
EngineOf(stands, standalone, serving) ==
  IF stands \/ standalone \/ ~serving THEN "standalone" ELSE "client"

McpInit ==
  /\ allowed \in BOOLEAN /\ pretend \in BOOLEAN
  /\ engineKind \in {EngineOf(pretend, FALSE, serving) : serving \in BOOLEAN}
                    \cup (IF pretend THEN {} ELSE {"daemon"})
  /\ mcpUp = FALSE /\ ready = FALSE
  /\ clock = 1 /\ holder = 0 /\ started = 0 /\ lastHeld = 0
  /\ frame = NoFrame
  /\ cycles = [a \in Actors |-> NotRefreshing]
  /\ calls = [c \in Callers |-> Idle]

Answer(c) == ListAnswer(c) \/ WhoAnswer(c) \/ FreeAnswer(c) \/ RestartAnswer(c)
EndOf(a) == \E well \in BOOLEAN : EndRefresh(a, well)

McpNext ==
  \/ Start \/ Stop \/ LoopRefresh \/ \E a \in Actors : EndOf(a)
  \/ \E c \in Callers : Pull(c) \/ Answer(c) \/ \E tool \in McpTools : Call(c, tool)
  \/ WhoCommand \/ \E confirmed \in BOOLEAN : FreeCommand(confirmed)
  \/ Listen \/ Leave \/ McpTick

McpSpec == McpInit /\ [][McpNext]_mcpVars

\* The event loop runs what it can run: refreshes start and end, and calls go on.
McpFairness ==
  /\ WF_mcpVars(LoopRefresh) /\ \A a \in Actors : WF_mcpVars(EndOf(a))
  /\ \A c \in Callers : WF_mcpVars(Pull(c) \/ Answer(c))

FairMcpSpec == McpSpec /\ McpFairness

-----------------------------------------------------------------------------
\* A call is answered while the server runs, however many refreshes fail (mcp_server.py,
\* ServerState.wait_ready and _refresh): an agent never waits for good.
EveryCallIsAnswered ==
  \A c \in Callers : calls[c].at = "called" ~> (calls[c].at = "answered" \/ ~mcpUp)

\* `lirts who` exits 1 if the port is free (cli/ports.py, who_command).
\* TLC refutes this; it has no run of its own (README, section 5).
WhoExitsOneIfFree == holder = 0 => WhoExit = 1
===============================================================================
