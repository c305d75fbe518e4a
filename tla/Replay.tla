-------------------------------- MODULE Replay --------------------------------
(***************************************************************************)
(* Recording a machine and playing the recording back (replay.py): the     *)
(* recorder writes one frame per refresh, the replay engine shows them in  *)
(* a loop and collects their events, and the keys of the dashboard act on  *)
(* the rows shown - which a replay has to refuse.  The machine goes on     *)
(* meanwhile, and may be the one that was recorded.                        *)
(*                                                                         *)
(* Abstracted: a row is a process or a container, an event is what         *)
(* appeared or went.  to_jsonable and from_dict, which a frame goes        *)
(* through, are left out: a frame is what it was.                          *)
(***************************************************************************)
EXTENDS Integers, Sequences, Lists

CONSTANTS
  Tasks, Boxes,   \* what may run: processes and containers
  LastFrame,      \* bound: frames of a recording
  LastChange      \* bound: what starts and stops on the machine

ASSUME ReplayAssumption == Tasks \cap Boxes = {} /\ {LastFrame, LastChange} \subseteq Nat

Runnable == Tasks \cup Boxes

VARIABLES
  machine,    \* what runs
  news,       \* the events of the machine, <<when, what>>
  recording,  \* the file: its frames and whether its last line is cut off
  recorder,   \* "idle", "writing", "done"
  player,     \* index of the frame on the screen, 0 before the first, -1 if no replay runs
  replayed,   \* the replay engine's history
  pressed     \* the last action: what it was to act on and whether it was refused

replayVars == <<machine, news, recording, recorder, player, replayed, pressed>>

NoPress == [on |-> {}, refused |-> TRUE]
Unwritten == [frames |-> <<>>, torn |-> FALSE]

ReplayTypeOK ==
  /\ machine \subseteq Runnable /\ news \in Seq(Runnable)
  /\ recording \in [frames : Seq([rows : SUBSET Runnable, events : Seq(Nat \X Runnable)]),
                    torn : BOOLEAN]
  /\ recorder \in {"idle", "writing", "done"}
  /\ player \in -1 .. Len(recording.frames)
  /\ replayed \in Seq(Nat \X Runnable)
  /\ pressed \in [on : SUBSET Runnable, refused : BOOLEAN]

-----------------------------------------------------------------------------
(* The machine. *)

Changes(x) ==
  /\ Len(news) < LastChange
  /\ machine' = IF x \in machine THEN machine \ {x} ELSE machine \cup {x}
  /\ news' = Append(news, x)
  /\ pressed' = NoPress
  /\ UNCHANGED <<recording, recorder, player, replayed>>

-----------------------------------------------------------------------------
(* The recorder: `lirts record`. *)

\* record, write_header: a recording starts as an empty file.
StartRecording ==
  /\ recorder = "idle"
  /\ recorder' = "writing"
  /\ UNCHANGED <<machine, news, recording, player, replayed, pressed>>

\* Snapshot.events: a frame carries all that happened so far.
Frame == [rows |-> machine, events |-> [i \in 1 .. Len(news) |-> <<i, news[i]>>]]

\* write_frame, of the snapshot of one refresh.
WriteFrame ==
  /\ recorder = "writing"
  /\ Len(recording.frames) < LastFrame
  /\ recording' = [recording EXCEPT !.frames = Append(@, Frame)]
  /\ UNCHANGED <<machine, news, recorder, player, replayed, pressed>>

\* The deadline, or Ctrl-C between two frames.
StopRecording ==
  /\ recorder = "writing"
  /\ recorder' = "done"
  /\ UNCHANGED <<machine, news, recording, player, replayed, pressed>>

\* The recorder dies: the last line may be half written.
RecorderDies(torn) ==
  /\ recorder = "writing"
  /\ recorder' = "done"
  /\ recording' = [recording EXCEPT !.torn = torn]
  /\ UNCHANGED <<machine, news, player, replayed, pressed>>

-----------------------------------------------------------------------------
(* The replay engine. *)

\* read_recording: refuses a file with a line that is not JSON, and one without frames.
Readable == ~recording.torn /\ recording.frames # <<>>

OpenReplay ==
  /\ recorder = "done" /\ player = -1
  /\ Readable
  /\ player' = 0
  /\ UNCHANGED <<machine, news, recording, recorder, replayed, pressed>>

ElementsOf(events) == {events[i] : i \in 1 .. Len(events)}

\* The events of a frame that the history does not hold yet.
NewEvents(events) == Only(events, ElementsOf(events) \ ElementsOf(replayed))

\* refresh: the next frame, after the last one the first if it loops.
NextFrame(loop) ==
  /\ player >= 0
  /\ player < Len(recording.frames) \/ loop
  /\ player' = IF player < Len(recording.frames) THEN player + 1 ELSE 1
  /\ replayed' = replayed \o NewEvents(recording.frames[player'].events)
  /\ pressed' = NoPress
  /\ UNCHANGED <<machine, news, recording, recorder>>

CloseReplay ==
  /\ player >= 0
  /\ player' = -1
  /\ replayed' = <<>>
  /\ pressed' = NoPress
  /\ UNCHANGED <<machine, news, recording, recorder>>

-----------------------------------------------------------------------------
(* The keys, on rows of the frame on the screen. *)

Shown == IF player > 0 THEN recording.frames[player].rows ELSE {}

\* kill, kill_and_wait, restart_process, stack_action, action_fix: the engine refuses.
Refuse(x) ==
  /\ x \in Shown
  /\ pressed' = [on |-> {x}, refused |-> TRUE]
  /\ UNCHANGED <<machine, news, recording, recorder, player, replayed>>

\* run_container_action asks the Docker provider, which asks nobody: what the
\* engine switched off is the listing, and the container is stopped if it is there.
StopReplayed(x) ==
  /\ x \in Shown \cap Boxes
  /\ machine' = machine \ {x}
  /\ pressed' = [on |-> {x}, refused |-> FALSE]
  /\ UNCHANGED <<news, recording, recorder, player, replayed>>

-----------------------------------------------------------------------------
ReplayInit ==
  /\ machine \in SUBSET Runnable /\ news = <<>>
  /\ recording = Unwritten /\ recorder = "idle"
  /\ player = -1 /\ replayed = <<>> /\ pressed = NoPress

ReplayNext ==
  \/ \E x \in Runnable : Changes(x) \/ Refuse(x) \/ StopReplayed(x)
  \/ StartRecording \/ WriteFrame \/ StopRecording
  \/ \E torn \in BOOLEAN : RecorderDies(torn)
  \/ OpenReplay \/ CloseReplay
  \/ \E loop \in BOOLEAN : NextFrame(loop)

ReplaySpec == ReplayInit /\ [][ReplayNext]_replayVars

-----------------------------------------------------------------------------
(* However often a recording loops, the notification centre of a replay    *)
(* holds every event once, in the order in which they happened: frames     *)
(* repeat the events of the frames before them (ReplayEngine.refresh), as   *)
(* long as the log holds them all.                                         *)
EventsOnceInOrder ==
  \A i, j \in DOMAIN replayed : i < j => replayed[i][1] < replayed[j][1]

\* "Plays recorded frames through the dashboard; every action is refused."
\* (ReplayEngine, replay.py; "Actions are disabled while replaying", its first lines)
\* TLC refutes this; it has no run of its own (README, section 5).
EveryActionIsRefused == pressed.refused
=============================================================================
