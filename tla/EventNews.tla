------------------------------- MODULE EventNews ------------------------------
(***************************************************************************)
(* Who tells the user of an event: `lirts watch`, which prints it (cli/    *)
(* listing.py), or the dashboard (tui/app.py), which toasts the errors,    *)
(* counts what the notification centre has not shown (tui/screens/         *)
(* events.py) and records what the user does itself.                       *)
(*                                                                         *)
(* A refresh stamps its events with the time it took before; what a worker *)
(* thread records in between has a later time and an earlier place in the  *)
(* log, and is an error when the process did not come back (run_local_     *)
(* restart).  A toast is one of _notify_events here.  A snapshot carries   *)
(* the newest events only.  The clock never goes                           *)
(* back here.                                                              *)
(***************************************************************************)
EXTENDS Integers, Sequences, FiniteSetsExt

CONSTANTS
  SnapshotEvents,  \* SNAPSHOT_EVENTS
  CycleEvents,     \* bound: events of one refresh
  LastEventId,     \* bound: events
  LastNewsTime     \* bound: the clock, when a refresh begins

ASSUME NewsAssumption ==
  {SnapshotEvents, CycleEvents, LastEventId, LastNewsTime} \subseteq Nat \ {0}

VARIABLES
  teller,    \* "watch" or "dashboard"
  telling,   \* "first": before its first refresh, "on", or "ended"
  newsLog,   \* the events: their number, time, and whether this teller tells such an event
  newsTime,  \* the clock
  newest,    \* seen_ts, _last_event_ts: the time up to which all is told
  centre,    \* _events_seen_ts: the time up to which the notification centre has shown
  told,      \* how often each event was told
  baseline   \* history: the events before the first refresh ended

newsVars == <<teller, telling, newsLog, newsTime, newest, centre, told, baseline>>

Recorded == Len(told)
Times(events) == {events[i].at : i \in 1 .. Len(events)}
Later(t, times) == Max(times \cup {t})

NewsTypeOK ==
  /\ teller \in {"watch", "dashboard"} /\ telling \in {"first", "on", "ended"}
  /\ \A i \in 1 .. Len(newsLog) : /\ newsLog[i].id \in 1 .. Recorded
                                  /\ newsLog[i].at \in 1 .. newsTime
  /\ {newest, centre} \subseteq 0 .. newsTime
  /\ Recorded \in baseline .. LastEventId
  /\ \A e \in 1 .. Recorded : told[e] \in Nat

-----------------------------------------------------------------------------
\* recent_events: the newest of the log.
RecentNews(events) == SubSeq(events, Max({1, Len(events) - SnapshotEvents + 1}), Len(events))

\* _emit: events of one refresh, or one note, at a time.
Emitted(worth, at) == [i \in 1 .. Len(worth) |->
                          [id |-> Recorded + i, at |-> at, worth |-> worth[i]]]

\* Mutant: what was told of this very time is told again.
AlreadyBefore(ev) == ev.at < newest

\* ev.timestamp <= seen_ts
Already(ev) == ev.at <= newest

\* _notify_events, and the loop of watch: the new ones that match, or that are errors.
Tell(events) ==
  LET ids == {events[i].id : i \in {j \in 1 .. Len(events) :
                                      ~Already(events[j]) /\ events[j].worth}}
  IN told' = [e \in 1 .. Recorded + (Len(newsLog') - Len(newsLog)) |->
                (IF e <= Recorded THEN told[e] ELSE 0) + (IF e \in ids THEN 1 ELSE 0)]

\* The last event's time, not the greatest.
Advance(events) == newest' = IF events = <<>> THEN newest
                             ELSE Later(newest, {events[Len(events)].at})

\* The first refresh: what is recorded by then is history, not news.
FirstTold(events) ==
  /\ telling = "first" /\ telling' = "on"
  /\ told' = [e \in 1 .. Recorded + (Len(newsLog') - Len(newsLog)) |-> 0]
  /\ baseline' = Len(told')
  /\ newest' = Later(newest, Times(events))
  /\ centre' = IF teller = "dashboard" THEN Later(centre, Times(newsLog')) ELSE centre

\* A refresh that works: refresh_sync of watch, refresh_data and apply_snapshot.  A thread of
\* the dashboard may record a note between the time and the events.
RefreshTells(worth, notes) ==
  LET fresh == Emitted(notes \o worth, newsTime + 1)
      noted == notes # <<>>
  IN /\ telling # "ended" /\ (noted => teller = "dashboard")
     /\ newsTime < LastNewsTime
     /\ Recorded + Len(notes \o worth) <= LastEventId
     /\ newsTime' = newsTime + (IF noted THEN 2 ELSE 1)
     /\ newsLog' = newsLog \o (IF noted THEN [fresh EXCEPT ![1].at = newsTime + 2] ELSE fresh)
     /\ \/ FirstTold(IF teller = "dashboard" THEN newsLog' ELSE RecentNews(newsLog'))
        \/ /\ telling = "on"
           /\ Tell(RecentNews(newsLog')) /\ Advance(RecentNews(newsLog'))
           /\ UNCHANGED <<telling, centre, baseline>>
     /\ UNCHANGED teller

\* A refresh that fails ends the watch; Ctrl-C and --count do too.  The dashboard goes on.
WatchEnds ==
  /\ teller = "watch" /\ telling # "ended" /\ telling' = "ended"
  /\ UNCHANGED <<teller, newsLog, newsTime, newest, centre, told, baseline>>

\* note: what the user did, in the dashboard, and whether it went wrong.
NoteEvent(bad) ==
  /\ teller = "dashboard" /\ telling = "on" /\ Recorded < LastEventId
  /\ newsTime' = newsTime + 1
  /\ newsLog' = newsLog \o Emitted(<<bad>>, newsTime')
  /\ told' = Append(told, 0)
  /\ UNCHANGED <<teller, telling, newest, centre, baseline>>

\* action_events: the centre shows all there is, marks what is new and is up to date.
OpenCentre ==
  /\ teller = "dashboard" /\ telling = "on"
  /\ centre' = IF newsLog = <<>> THEN centre ELSE Max(Times(newsLog))
  /\ UNCHANGED <<teller, telling, newsLog, newsTime, newest, told, baseline>>

\* clear_events, from the centre.
ClearNews ==
  /\ teller = "dashboard" /\ telling = "on" /\ newsLog' = <<>>
  /\ UNCHANGED <<teller, telling, newsTime, newest, centre, told, baseline>>

\* unread_events
Unread == {i \in 1 .. Len(newsLog) : newsLog[i].at > centre}

-----------------------------------------------------------------------------
\* An engine that loaded one event, or none.
NewsInit ==
  /\ teller \in {"watch", "dashboard"} /\ telling = "first"
  /\ \E worth \in {<<>>, <<TRUE>>} :
       /\ newsLog = [i \in 1 .. Len(worth) |-> [id |-> i, at |-> 1, worth |-> TRUE]]
       /\ told = [i \in 1 .. Len(worth) |-> 0] /\ baseline = Len(worth)
  /\ newsTime = 1 /\ newest = 0 /\ centre = 0

NewsNext ==
  \/ \E n \in 0 .. CycleEvents : \E worth \in [1 .. n -> BOOLEAN], notes \in {<<>>, <<FALSE>>, <<TRUE>>} :
       RefreshTells(worth, notes)
  \/ \E bad \in BOOLEAN : NoteEvent(bad)
  \/ WatchEnds \/ OpenCentre \/ ClearNews

NewsSpec == NewsInit /\ [][NewsNext]_newsVars

-----------------------------------------------------------------------------
\* Its place in the log is before that of an event of an earlier time.
Overtaken(i) == \E j \in i + 1 .. Len(newsLog) : newsLog[j].at < newsLog[i].at

\* No event is told a second time, but for a note that was recorded while a refresh stamped its
\* events (NewestIsToasted), and none that is nobody's business at all.  Of the newest events,
\* as many as a snapshot carries, each one the user is to hear of was told when it came after
\* the first refresh and the teller's time has passed it (cli/listing.py, watch_command;
\* tui/app.py, _notify_events).
ToldOnce ==
  \A i \in 1 .. Len(newsLog) :
    LET ev == newsLog[i]
    IN /\ ~Overtaken(i) => told[ev.id] <= 1
       /\ ~ev.worth => told[ev.id] = 0
       /\ /\ i > Len(newsLog) - SnapshotEvents /\ ev.id > baseline /\ ev.worth
          /\ ev.at <= newest \/ Overtaken(i)
          => told[ev.id] >= 1

\* "newest event already toasted" (tui/app.py:123): what was toasted is not after it.  With a
\* note out of its place _last_event_ts falls behind, and every refresh toasts the note again
\* until a newer event comes.
\* TLC refutes this; it has no run of its own (README, section 5).
NewestIsToasted ==
  teller = "dashboard" =>
    \A i \in 1 .. Len(newsLog) : told[newsLog[i].id] > 0 => newsLog[i].at <= newest

\* `lirts watch` prints start / stop / restart / health events as they happen (README.md:204).
\* TLC refutes this; it has no run of its own (README, section 5).
EveryEventIsPrinted ==
  teller = "watch" => \A i \in 1 .. Len(newsLog) :
    newsLog[i].id > baseline /\ newsLog[i].worth => told[newsLog[i].id] = 1
===============================================================================
