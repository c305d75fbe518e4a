---------------------------- MODULE RemoteHistory ----------------------------
(***************************************************************************)
(* The event log of the daemon and the copies its clients keep             *)
(* (history_store.py, daemon.py, daemon_client.py, remote.py).             *)
(*                                                                         *)
(* The daemon records events, publishes the newest with every frame and    *)
(* saves them to history.json; a dashboard asks for all of them once and   *)
(* merges the newest of each later frame.  Notes and clears go over the    *)
(* socket and change the client's copy as well; any answer may be lost.    *)
(* An event is its number: numbers grow with the timestamps.               *)
(***************************************************************************)
EXTENDS Integers, SequencesExt, Lists

CONSTANTS
  Dashboards,   \* the clients with a copy of the log
  LogCap,       \* MAX_EVENTS: kept in memory, on both sides
  SavedCap,     \* EVENTS_SAVED: written to the file
  ReloadedCap,  \* EVENTS_RELOADED: read back from it
  ShownCap,     \* SNAPSHOT_EVENTS: carried by a frame
  LastEvent     \* bound: the number of events of a behaviour

ASSUME CapsAssumption ==
  /\ {LogCap, SavedCap, ReloadedCap, ShownCap, LastEvent} \subseteq Nat
  /\ 0 < ShownCap /\ ShownCap <= LogCap
  /\ ShownCap <= ReloadedCap /\ ReloadedCap <= LogCap

VARIABLES
  log,        \* HistoryStore.events of the daemon
  logFile,    \* the events of history.json
  published,  \* Snapshot.events of the daemon's current frame
  recorded,   \* how many events there have been
  copy,       \* RemoteHistory.events of each dashboard
  loaded,     \* RemoteEngine._events_loaded
  call,       \* the snapshot call of each dashboard that is under way
  \* History variables.
  cleared,    \* events a dashboard has cleared
  crashed,    \* events a crash of the daemon has cost
  aged        \* events up to this one were older than the retention at the last start

daemonLog == <<log, logFile, published, recorded, crashed, aged>>
remoteVars == <<daemonLog, copy, loaded, call, cleared>>

NoCall == [step |-> "none", all |-> FALSE, shown |-> <<>>, events |-> <<>>]

\* A deque with a maximal length keeps the newest.
Newest(s, n) == IF Len(s) <= n THEN s ELSE SubSeq(s, Len(s) - n + 1, Len(s))

\* Within history.retention, when old are the events that are not.
Within(s, old) == Only(s, (old + 1)..LastEvent)

\* Mutant: the oldest events are read back.
ReloadedOldest(s, old) ==
  Within(SubSeq(s, 1, IF Len(s) < ReloadedCap THEN Len(s) ELSE ReloadedCap), old)

\* load: the newest events of the file, less those past the retention.
Reloaded(s, old) == Within(Newest(s, ReloadedCap), old)

New(n) == [i \in 1..n |-> recorded + i]

-----------------------------------------------------------------------------
(* The daemon. *)

\* A refresh records what update found and publishes the newest events.
RefreshLog(n) ==
  /\ recorded + n <= LastEvent
  /\ log' = Newest(log \o New(n), LogCap)
  /\ recorded' = recorded + n
  /\ published' = Newest(log', ShownCap)
  /\ UNCHANGED <<logFile, copy, loaded, call, cleared, crashed, aged>>

SaveLog ==
  /\ logFile' = Newest(log, SavedCap)
  /\ UNCHANGED <<log, published, recorded, copy, loaded, call, cleared, crashed, aged>>

\* The daemon ends without saving and another one starts, by when some events are past
\* the retention, if there is one: calls under way fail.
RestartDaemon ==
  /\ aged' \in aged..recorded
  /\ log' = Reloaded(logFile, aged')
  /\ published' = <<>>
  /\ crashed' = crashed \cup ((1..recorded) \ ToSet(logFile))
  /\ call' = [c \in Dashboards |-> NoCall]
  /\ UNCHANGED <<logFile, recorded, copy, loaded, cleared>>

-----------------------------------------------------------------------------
(* The calls of a dashboard. *)

\* note: recorded by the daemon and, when the answer arrives, in the copy.
NoteCall(c, answered) ==
  /\ recorded < LastEvent
  /\ recorded' = recorded + 1
  /\ log' = Newest(Append(log, recorded'), LogCap)
  /\ copy' = IF answered
               THEN [copy EXCEPT ![c] = Newest(Append(copy[c], recorded'), LogCap)]
               ELSE copy
  /\ UNCHANGED <<logFile, published, loaded, call, cleared, crashed, aged>>

\* clear_events: the daemon forgets its log, but not its frame; the entries of
\* the file go with the next save.
ClearCall(c, answered) ==
  /\ log' = <<>>
  /\ cleared' = cleared \cup (1..recorded)
  /\ copy' = IF answered THEN [copy EXCEPT ![c] = <<>>] ELSE copy
  /\ UNCHANGED <<logFile, published, recorded, loaded, call, crashed, aged>>

\* RemoteEngine.refresh asks for a frame, the first time with all events.
AskFrame(c) ==
  /\ call[c].step = "none"
  /\ call' = [call EXCEPT ![c] = [NoCall EXCEPT !.step = "asked", !.all = ~loaded[c]]]
  /\ UNCHANGED <<daemonLog, copy, loaded, cleared>>

FrameOf(all) ==
  [step |-> "answered", all |-> all, shown |-> published,
   events |-> IF all THEN log ELSE <<>>]

\* DaemonServer.frame: the snapshot there is and, if asked for, the whole log.
AnswerFrame(c) ==
  /\ call[c].step = "asked"
  /\ call' = [call EXCEPT ![c] = FrameOf(call[c].all)]
  /\ UNCHANGED <<daemonLog, copy, loaded, cleared>>

\* Mutant: the copy is only ever filled by the first frame.
MergeNothing(c) == copy[c]

\* The events of a frame that the copy does not have yet are appended to it.
Merge(c) ==
  LET have == ToSet(copy[c])
  IN Newest(copy[c] \o Only(call[c].shown, ToSet(call[c].shown) \ have), LogCap)

\* apply_frame.
ApplyFrame(c) ==
  /\ call[c].step = "answered"
  /\ copy' = [copy EXCEPT ![c] = IF call[c].all THEN call[c].events ELSE Merge(c)]
  /\ loaded' = [loaded EXCEPT ![c] = loaded[c] \/ call[c].all]
  /\ call' = [call EXCEPT ![c] = NoCall]
  /\ UNCHANGED <<daemonLog, cleared>>

\* The call times out or the connection breaks: the refresh fails.
LoseCall(c) ==
  /\ call[c].step # "none"
  /\ call' = [call EXCEPT ![c] = NoCall]
  /\ UNCHANGED <<daemonLog, copy, loaded, cleared>>

-----------------------------------------------------------------------------
RemoteInit ==
  /\ log = <<>> /\ logFile = <<>> /\ published = <<>>
  /\ recorded = 0
  /\ copy = [c \in Dashboards |-> <<>>]
  /\ loaded = [c \in Dashboards |-> FALSE]
  /\ call = [c \in Dashboards |-> NoCall]
  /\ cleared = {} /\ crashed = {} /\ aged = 0

RemoteNext ==
  \/ \E n \in 0..2 : RefreshLog(n)
  \/ SaveLog
  \/ RestartDaemon
  \/ \E c \in Dashboards :
       \/ \E answered \in BOOLEAN : NoteCall(c, answered) \/ ClearCall(c, answered)
       \/ AskFrame(c) \/ AnswerFrame(c) \/ ApplyFrame(c) \/ LoseCall(c)

RemoteSpec == RemoteInit /\ [][RemoteNext]_remoteVars

\* The daemon's loop refreshes and answers, a dashboard's timer keeps asking; a
\* call that is asked again and again is answered and applied some time.
RemoteFairness ==
  /\ WF_remoteVars(RefreshLog(0))
  /\ \A c \in Dashboards :
       /\ WF_remoteVars(AskFrame(c))
       /\ SF_remoteVars(AnswerFrame(c))
       /\ SF_remoteVars(ApplyFrame(c))

RemoteFairSpec == RemoteSpec /\ RemoteFairness

-----------------------------------------------------------------------------
Ids == 1..LastEvent

Ordered(s) == \A i, j \in DOMAIN s : i < j => s[i] < s[j]

\* The type of every variable: a log never holds more than its cap.
RemoteTypeOK ==
  /\ \A s \in {log, logFile, published} : ToSet(s) \subseteq Ids
  /\ recorded \in 0..LastEvent /\ aged \in 0..recorded
  /\ Len(log) <= LogCap /\ Len(logFile) <= SavedCap /\ Len(published) <= ShownCap
  /\ \A c \in Dashboards :
       /\ ToSet(copy[c]) \subseteq Ids /\ Len(copy[c]) <= LogCap
       /\ loaded[c] \in BOOLEAN
       /\ call[c].step \in {"none", "asked", "answered"}

\* The log of the daemon loses its oldest events only: it is in order over
\* saves, crashes and reloads, and an event that nobody cleared and no crash
\* cost is missing only when it was past the retention at a start, or when as
\* many newer ones are there as are read back.
OldestLostFirst ==
  /\ Ordered(log)
  /\ \A e \in 1..recorded \ (ToSet(log) \cup cleared \cup crashed) :
       /\ \A f \in ToSet(log) : e < f
       /\ e <= aged \/ Len(log) >= ReloadedCap

\* Whatever the log holds reaches every dashboard, over lost calls and crashes
\* of the daemon as long as those end some time, unless it is cleared, lost in a crash,
\* past the retention when the daemon starts, or left behind by as many newer events as
\* a frame carries.
LeftBehind(e) == Cardinality({f \in ToSet(log) : f > e}) >= ShownCap

Told(c, e) ==
  e \in ToSet(copy[c]) \cup cleared \cup crashed \/ e <= aged \/ LeftBehind(e)

EveryoneIsTold ==
  <>[][~RestartDaemon]_remoteVars =>
    []<>(\A c \in Dashboards : \A e \in ToSet(log) : Told(c, e))

\* A cleared event does not come back to the dashboard that cleared the log.
\* ("Forget the event log", history_store.py:302; README.md:385 "c clears".)
\* TLC refutes this; it has no run of its own (README, section 5).
ClearedStaysCleared ==
  [][\A c \in Dashboards :
       (ToSet(copy'[c]) \ ToSet(copy[c])) \cap cleared \subseteq ToSet(log)]_remoteVars

=============================================================================
