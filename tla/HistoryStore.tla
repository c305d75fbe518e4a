---------------------------- MODULE HistoryStore ----------------------------
(***************************************************************************)
(* The history store: history_store.py, history_changes.py and             *)
(* history_entry.py.  Every refresh folds the ports that were found into   *)
(* one entry per "port/PROTO" key, decides which events follow, and saves  *)
(* history.json now and then.  lirts may be closed, crash and start again. *)
(*                                                                         *)
(* Abstracted: the rolling samples, the service labels and the recorded    *)
(* error messages of an entry (no property is about them); the text of an  *)
(* event, which is a record of its kind and key; the stored event log with *)
(* its caps.  A port may have several rows: every unpublished container    *)
(* port is a row under "port/TCP", beside a socket with the same number,   *)
(* and update folds one row after the other.  The load step's repair of    *)
(* restarts counted by older versions is left out: it matches only         *)
(* "restarted" events with a surviving PID, and this version writes none   *)
(* (see RestartsAreEvents).                                                *)
(***************************************************************************)
EXTENDS Integers, Sequences, FiniteSets

CONSTANTS
  Keys,           \* the "port/PROTO" keys
  UdpKeys,        \* those of protocol UDP
  Pids,           \* process ids
  NameOf,         \* the process name of each pid
  Statuses,       \* the row statuses the environment may show
  Activities,     \* whether a port may be seen with traffic (subset of BOOLEAN)
  Retention,      \* history.retention_hours as time units; 0 is unlimited
  SaveInterval,   \* STATE_SAVE_INTERVAL
  RestartsSaved,  \* ENTRY_RESTARTS_SAVED
  MaxRows,        \* bound: the most rows of one port in a refresh
  MaxStep,        \* bound: the longest time between two clock readings
  MaxTime         \* bound: the last clock reading of a behaviour

AllStatuses == {"healthy", "warning", "error", "unknown"}

ASSUME KeysAssumption == UdpKeys \subseteq Keys
ASSUME StatusesAssumption == Statuses \subseteq AllStatuses /\ Activities \subseteq BOOLEAN
ASSUME TimesAssumption ==
  /\ Retention \in Nat
  /\ SaveInterval \in Nat
  /\ RestartsSaved \in Nat \ {0}
  /\ MaxRows \in Nat \ {0}
  /\ MaxStep \in Nat
  /\ MaxTime \in Nat

VARIABLES
  running,    \* a lirts process has the store open
  now,        \* the last clock reading
  entries,    \* HistoryStore.entries: a function on the remembered keys
  lastKeys,   \* HistoryStore._last_keys
  baseline,   \* _last_keys is None: no refresh yet in this process
  emitted,    \* the events the last update returned
  dirty,      \* HistoryStore._dirty
  lastSave,   \* HistoryStore._last_save
  disk,       \* history.json: its entries and saved_at (0: no file)
  \* History variables: what a reader of the events and of the clock knows.
  announced,  \* keys the events of this process say are up
  alarmed,    \* keys whose last failing/degraded/conflict was not resolved
  seenAt,     \* when each key was found last (0: never), as far as this
              \* process and the saves of earlier ones can tell
  seenSaved,  \* seenAt at the last successful save
  saveFailed  \* the last refresh tried to save and could not

memory == <<entries, lastKeys, baseline, emitted, dirty, lastSave>>
reader == <<announced, alarmed, seenAt, seenSaved, saveFailed>>
vars == <<running, now, memory, disk, reader>>

-----------------------------------------------------------------------------
(***************************************************************************)
(* One row as update reads it.  analyse() reports a port conflict,         *)
(* which is an ERROR, exactly when the processes have different names; the *)
(* status is UNKNOWN only when no process is known.                        *)
(***************************************************************************)
Names(pids) == {NameOf[p] : p \in pids}

Conflict(pids) == \E p, q \in pids : NameOf[p] # NameOf[q]

Sighting ==
  {s \in [pids : SUBSET Pids, status : Statuses, conflict : BOOLEAN, active : Activities] :
     /\ s.conflict = Conflict(s.pids)
     /\ s.conflict => s.status = "error"
     /\ s.status = "unknown" => s.pids = {}}

\* The ports a refresh collects: TCP, and UDP too when it is shown.
Collected(udp) == IF udp THEN Keys ELSE Keys \ UdpKeys

\* The rows of one port: "INTERNAL" sorts before "LISTEN", so those of containers, which
\* have no process, come before the one of the socket.  A UDP port has one row.
RowsOf ==
  [k \in Keys |->
     {rows \in UNION {[1..n -> Sighting] : n \in 1..(IF k \in UdpKeys THEN 1 ELSE MaxRows)} :
        \A i \in 1..(Len(rows) - 1) : rows[i].pids = {}}]

Observations(udp) ==
  UNION {{obs \in [S -> UNION {RowsOf[k] : k \in S}] : \A k \in S : obs[k] \in RowsOf[k]} :
           S \in SUBSET Collected(udp)}

Entry ==
  [firstSeen : Nat, lastSeen : Nat, pids : SUBSET Pids, changes : Seq(Nat),
   uptimeStart : Nat, lastActive : Nat, conflict : BOOLEAN, health : Statuses]

NoEntries == [k \in {} |-> <<>>]

-----------------------------------------------------------------------------
(* Which events one refresh of a port produces. *)

\* Mutant: any difference between the PIDs is a restart (the bug that
\* _drop_false_restarts repairs in files of older versions).
PidChangeAnyDifference(e, s, t, wasAbsent) ==
  CASE wasAbsent /\ t - e.lastSeen >= Retention -> "none"
    [] wasAbsent /\ t - e.lastSeen < Retention -> "back"
    [] ~wasAbsent /\ (s.pids = {} \/ e.pids = {} \/ s.pids = e.pids) -> "none"
    [] OTHER -> "restarted"

\* pid_change_event: what became of a port that has an entry.
PidChange(e, s, t, wasAbsent) ==
  CASE wasAbsent /\ t - e.lastSeen >= Retention -> "none"
    [] wasAbsent /\ t - e.lastSeen < Retention -> "back"
    [] ~wasAbsent /\ (s.pids = {} \/ e.pids = {} \/ s.pids = e.pids) -> "none"
    [] OTHER ->
         IF s.pids \cap e.pids # {} THEN "changed"
         ELSE IF Names(s.pids) \cap Names(e.pids) # {} THEN "restarted"
         ELSE "replaced"

\* The outcomes pid_change_event appends to entry.pid_changes.
Counted == {"back", "restarted", "replaced"}

\* Mutant: only an error recovers.
StatusChangeErrorOnly(old, s) ==
  CASE s.status = old -> "none"
    [] s.status = "error" /\ old # "error" /\ ~s.conflict -> "failing"
    [] s.status = "warning" /\ old = "healthy" -> "degraded"
    [] s.status = "healthy" /\ old = "error" -> "recovered"
    [] OTHER -> "none"

\* status_change_event: `old` is entry.health, which is never empty here.
StatusChange(old, s) ==
  CASE s.status = old -> "none"
    [] s.status = "error" /\ old # "error" /\ ~s.conflict -> "failing"
    [] s.status = "warning" /\ old = "healthy" -> "degraded"
    [] s.status = "healthy" /\ old \in {"error", "warning"} -> "recovered"
    [] OTHER -> "none"

\* Mutant: the status of a new port is not recorded.
NewEntryWithoutHealth(s, t) ==
  [firstSeen |-> t, lastSeen |-> t, pids |-> s.pids, changes |-> <<>>,
   uptimeStart |-> t, lastActive |-> IF s.active THEN t ELSE 0,
   conflict |-> s.conflict, health |-> ""]

\* The entry update creates for a key it does not know (lastActive 0: None).
NewEntry(s, t) ==
  [firstSeen |-> t, lastSeen |-> t, pids |-> s.pids, changes |-> <<>>,
   uptimeStart |-> t, lastActive |-> IF s.active THEN t ELSE 0,
   conflict |-> s.conflict, health |-> s.status]

\* What update compares row i with: the entry, which the row before it has overwritten.
Held(e, rows, t, i) ==
  IF i = 1
    THEN [pids |-> e.pids, lastSeen |-> e.lastSeen, conflict |-> e.conflict, health |-> e.health]
    ELSE [pids |-> rows[i - 1].pids, lastSeen |-> t, conflict |-> rows[i - 1].conflict,
          health |-> rows[i - 1].status]

\* What became of the PIDs at row i; the first refresh of a process does not ask.
RowChange(e, rows, t, wasAbsent, first, i) ==
  IF first THEN "none" ELSE PidChange(Held(e, rows, t, i), rows[i], t, wasAbsent)

\* Mutant: the uptime of a port that came back is not reset.
FoldRowsKeepingUptime(e, rows, t, wasAbsent, first) ==
  LET change  == [i \in DOMAIN rows |-> RowChange(e, rows, t, wasAbsent, first, i)]
      counted == {i \in DOMAIN rows : change[i] \in Counted}
      reset   == \E i \in DOMAIN rows : change[i] \in {"restarted", "replaced"}
      last    == rows[Len(rows)]
  IN [firstSeen   |-> e.firstSeen,
      lastSeen    |-> t,
      pids        |-> last.pids,
      changes     |-> e.changes \o [n \in 1..Cardinality(counted) |-> t],
      uptimeStart |-> IF reset THEN t ELSE e.uptimeStart,
      lastActive  |-> IF \E i \in DOMAIN rows : rows[i].active THEN t ELSE e.lastActive,
      conflict    |-> last.conflict,
      health      |-> last.status]

\* The entry of a known key after the rows of a refresh: the first refresh of a process
\* only overwrites it, a later one also counts restarts, as often as a row shows one.
FoldRows(e, rows, t, wasAbsent, first) ==
  LET change  == [i \in DOMAIN rows |-> RowChange(e, rows, t, wasAbsent, first, i)]
      counted == {i \in DOMAIN rows : change[i] \in Counted}
      reset   == ~first /\ (wasAbsent \/ \E i \in DOMAIN rows : change[i] \in {"restarted", "replaced"})
      last    == rows[Len(rows)]
  IN [firstSeen   |-> e.firstSeen,
      lastSeen    |-> t,
      pids        |-> last.pids,
      changes     |-> e.changes \o [n \in 1..Cardinality(counted) |-> t],
      uptimeStart |-> IF reset THEN t ELSE e.uptimeStart,
      lastActive  |-> IF \E i \in DOMAIN rows : rows[i].active THEN t ELSE e.lastActive,
      conflict    |-> last.conflict,
      health      |-> last.status]

\* The entry of key k after the rows: a new key gets one at its first row, and the
\* others, like it, find the key absent from the refresh before.
AfterRows(k, rows, t) ==
  LET new == NewEntry(Head(rows), t) IN
    IF k \in DOMAIN entries THEN FoldRows(entries[k], rows, t, k \notin lastKeys, baseline)
    ELSE IF Len(rows) = 1 THEN new
    ELSE FoldRows(new, Tail(rows), t, k \notin lastKeys, baseline)

Event(kind, k) == [kind |-> kind, key |-> k]

\* The kinds of the events of row i, folded into the entry e.
RowKinds(e, rows, t, wasAbsent, i) ==
  LET held == Held(e, rows, t, i) IN
    (   {RowChange(e, rows, t, wasAbsent, baseline, i)}
   \cup (IF rows[i].conflict /\ ~held.conflict THEN {"conflict"} ELSE {})
   \cup (IF baseline THEN {} ELSE {StatusChange(held.health, rows[i])}))
   \ {"none"}

\* The kinds of the events update emits for row i of the rows found at key k.
SeenKinds(k, rows, t, i) ==
  IF k \in DOMAIN entries THEN RowKinds(entries[k], rows, t, k \notin lastKeys, i)
  ELSE IF i = 1
    THEN (IF baseline THEN {} ELSE {"started"}) \cup (IF rows[1].conflict THEN {"conflict"} ELSE {})
  ELSE RowKinds(NewEntry(Head(rows), t), Tail(rows), t, k \notin lastKeys, i - 1)

-----------------------------------------------------------------------------
(* HistoryStore.update(listeners, now = t, protocols). *)

\* Keys of the previous refresh that this one did not find.
Missing(obs) == IF baseline THEN {} ELSE lastKeys \ DOMAIN obs

\* Mutant: a protocol that is not collected is not kept as seen.
KeptNothing(obs, udp) == {}

\* Those whose protocol was not collected stay "seen"; the others stopped.
Kept(obs, udp) == Missing(obs) \ Collected(udp)
Stopped(obs, udp) == Missing(obs) \cap Collected(udp)

SeenKeys(obs, udp) == DOMAIN obs \cup Kept(obs, udp)

Folded(obs, t) ==
  [k \in DOMAIN entries \cup DOMAIN obs |->
     IF k \in DOMAIN obs THEN AfterRows(k, obs[k], t) ELSE entries[k]]

\* Mutant: an entry is dropped one tick early.
ExpiredEarly(e, t) == Retention # 0 /\ t - e.lastSeen >= Retention

Expired(e, t) == Retention # 0 /\ t - e.lastSeen > Retention

\* Mutant: pruning looks at the age only.
RememberedByAge(obs, udp, t) ==
  LET folded == Folded(obs, t) IN
    {k \in DOMAIN entries \cup DOMAIN obs : ~Expired(folded[k], t)}

\* The entries that survive the pruning at the end of update.
Remembered(obs, udp, t) ==
  LET folded == Folded(obs, t) IN
    {k \in DOMAIN entries \cup DOMAIN obs :
       k \in SeenKeys(obs, udp) \/ ~Expired(folded[k], t)}

\* The kinds of the events of every row found, and the events.
KindsOf(obs, t) ==
  [k \in DOMAIN obs |-> [i \in DOMAIN obs[k] |-> SeenKinds(k, obs[k], t, i)]]

RowEvents(obs, t) ==
  LET kinds == KindsOf(obs, t) IN
    UNION {UNION {{Event(kind, k) : kind \in kinds[k][i]} : i \in DOMAIN obs[k]} : k \in DOMAIN obs}

\* Mutant: a port that stopped is not reported.
EmittedWithoutStops(obs, udp, t) == RowEvents(obs, t)

EmittedEvents(obs, udp, t) ==
  RowEvents(obs, t) \cup {Event("stopped", k) : k \in Stopped(obs, udp)}

KeysWith(events, kinds) == {ev.key : ev \in {v \in events : v.kind \in kinds}}

\* The keys in trouble for a reader who follows the events of the rows in order.
Troubles == {"failing", "degraded", "conflict"}

InTrouble(obs, t) ==
  LET kinds == KindsOf(obs, t) IN
    (alarmed \ {k \in DOMAIN obs : \E i \in DOMAIN obs[k] : "recovered" \in kinds[k][i]})
    \cup {k \in DOMAIN obs : \E i \in DOMAIN obs[k] :
            /\ kinds[k][i] \cap Troubles # {}
            /\ \A j \in DOMAIN obs[k] : j > i => "recovered" \notin kinds[k][j]}

Update(obs, udp, t) ==
  /\ LET folded == Folded(obs, t) IN entries' = [k \in Remembered(obs, udp, t) |-> folded[k]]
  /\ lastKeys' = SeenKeys(obs, udp)
  /\ baseline' = FALSE
  /\ emitted' = EmittedEvents(obs, udp, t)
  /\ announced' = IF baseline THEN DOMAIN obs
                  ELSE (announced \ KeysWith(emitted', {"stopped"}))
                         \cup KeysWith(emitted', {"started", "back"})
  /\ alarmed' = InTrouble(obs, t) \ KeysWith(emitted', {"stopped"})
  /\ seenAt' = [k \in Keys |-> IF k \in DOMAIN obs THEN t ELSE seenAt[k]]

-----------------------------------------------------------------------------
(* Persistence. *)

\* to_dict keeps the latest RestartsSaved restart times of an entry.
Newest(times) ==
  IF Len(times) <= RestartsSaved THEN times
  ELSE SubSeq(times, Len(times) - RestartsSaved + 1, Len(times))

Trim(e) == [e EXCEPT !.changes = Newest(e.changes)]

Saved(es, t) == [at |-> t, entries |-> [k \in DOMAIN es |-> Trim(es[k])]]

\* The outcome of save() for the entries es at time t.  A failed write leaves
\* the file, the dirty flag and the time of the last save as they were.
Write(es, t) ==
  /\ disk' = Saved(es, t)
  /\ lastSave' = t
  /\ dirty' = FALSE
  /\ seenSaved' = seenAt'

NoWrite == UNCHANGED <<disk, lastSave, seenSaved>>

\* Mutants: a failed write starts a new interval, or clears the dirty flag.
ThrottledSaveNoRetry(es, t) ==
  IF t - lastSave < SaveInterval
    THEN NoWrite /\ dirty' = TRUE /\ saveFailed' = FALSE
    ELSE \/ Write(es, t) /\ saveFailed' = FALSE
         \/ /\ UNCHANGED <<disk, seenSaved>>
            /\ lastSave' = t /\ dirty' = TRUE /\ saveFailed' = TRUE

ThrottledSaveForgetsDirty(es, t) ==
  IF t - lastSave < SaveInterval
    THEN NoWrite /\ dirty' = TRUE /\ saveFailed' = FALSE
    ELSE \/ Write(es, t) /\ saveFailed' = FALSE
         \/ NoWrite /\ dirty' = FALSE /\ saveFailed' = TRUE

\* save() without force, right after update has set the dirty flag.
ThrottledSave(es, t) ==
  IF t - lastSave < SaveInterval
    THEN NoWrite /\ dirty' = TRUE /\ saveFailed' = FALSE
    ELSE \/ Write(es, t) /\ saveFailed' = FALSE
         \/ NoWrite /\ dirty' = TRUE /\ saveFailed' = TRUE

-----------------------------------------------------------------------------
\* A refresh: update, then the throttled save of the pipeline.
Refresh(obs, udp, t) ==
  /\ running
  /\ now' = t
  /\ Update(obs, udp, t)
  /\ ThrottledSave(entries', t)
  /\ UNCHANGED running

\* note (a kill or restart by the user) and clear_events mark the store dirty.
Note ==
  /\ running
  /\ dirty' = TRUE
  /\ UNCHANGED <<running, now, entries, lastKeys, baseline, emitted, lastSave,
                 disk, reader>>

\* The memory of the process is gone, with what its reader was told.
Forget ==
  /\ running' = FALSE
  /\ entries' = NoEntries
  /\ lastKeys' = {}
  /\ baseline' = TRUE
  /\ emitted' = {}
  /\ dirty' = FALSE
  /\ lastSave' = 0
  /\ announced' = {}
  /\ alarmed' = {}
  /\ saveFailed' = FALSE
  /\ UNCHANGED now

\* EngineBase.close: a forced save that may fail, then the process ends.
Close ==
  /\ running
  /\ Forget
  /\ \/ disk' = Saved(entries, now) /\ seenSaved' = seenAt /\ UNCHANGED seenAt
     \/ seenAt' = seenSaved /\ UNCHANGED <<disk, seenSaved>>

Crash ==
  /\ running
  /\ Forget
  /\ seenAt' = seenSaved
  /\ UNCHANGED <<disk, seenSaved>>

\* The constructor's load(): entries within the retention come back.
Start(t) ==
  /\ ~running
  /\ running' = TRUE
  /\ now' = t
  /\ entries' = [k \in {k \in DOMAIN disk.entries : ~Expired(disk.entries[k], t)}
                   |-> disk.entries[k]]
  /\ UNCHANGED <<lastKeys, baseline, emitted, dirty, lastSave, disk, reader>>

Times == {t \in now + 1 .. now + MaxStep : t <= MaxTime}

Init ==
  /\ running = FALSE
  /\ now = SaveInterval      \* the epoch is long past: the first save is due
  /\ entries = NoEntries
  /\ lastKeys = {}
  /\ baseline = TRUE
  /\ emitted = {}
  /\ dirty = FALSE
  /\ lastSave = 0
  /\ disk = [at |-> 0, entries |-> NoEntries]
  /\ announced = {}
  /\ alarmed = {}
  /\ seenAt = [k \in Keys |-> 0]
  /\ seenSaved = [k \in Keys |-> 0]
  /\ saveFailed = FALSE

Next ==
  \/ \E t \in Times, udp \in BOOLEAN :
       \E obs \in Observations(udp) : Refresh(obs, udp, t)
  \/ Note
  \/ Close
  \/ Crash
  \/ \E t \in Times : Start(t)

Spec == Init /\ [][Next]_vars

-----------------------------------------------------------------------------
(* What makes the store correct. *)

EntriesOK(es) == DOMAIN es \subseteq Keys /\ \A k \in DOMAIN es : es[k] \in Entry

\* The type of every variable.
TypeOK ==
  /\ running \in BOOLEAN
  /\ now \in Nat
  /\ EntriesOK(entries)
  /\ lastKeys \subseteq Keys
  /\ baseline \in BOOLEAN
  /\ dirty \in BOOLEAN
  /\ lastSave \in Nat
  /\ disk.at \in Nat /\ EntriesOK(disk.entries)
  /\ announced \subseteq Keys
  /\ alarmed \subseteq Keys
  /\ seenAt \in [Keys -> Nat]
  /\ seenSaved \in [Keys -> Nat]
  /\ saveFailed \in BOOLEAN

\* No port disappears in silence: whatever the events of this process say is
\* up was in the last refresh, or is of a protocol it did not collect; and
\* pruning never drops the entry such a port needs for its "stopped" event.
NoSilentStop ==
  /\ announced \subseteq lastKeys
  /\ lastKeys \subseteq DOMAIN entries

\* The clock of an entry runs forward through refreshes, saves, crashes and
\* loads: first seen, then the start of the current uptime, then last seen;
\* its restarts are in the order they were counted in (to_dict keeps the last
\* of them), none before the port was seen and none after the start of the
\* uptime that the restart began.
EntryClock(e) ==
  /\ e.firstSeen <= e.uptimeStart
  /\ e.uptimeStart <= e.lastSeen
  /\ \A i \in DOMAIN e.changes :
       /\ e.firstSeen <= e.changes[i] /\ e.changes[i] <= e.uptimeStart
       /\ \A j \in DOMAIN e.changes : i <= j => e.changes[i] <= e.changes[j]

ClocksOrdered ==
  /\ \A k \in DOMAIN entries :
       EntryClock(entries[k]) /\ entries[k].lastSeen <= now
  /\ \A k \in DOMAIN disk.entries :
       EntryClock(disk.entries[k]) /\ disk.entries[k].lastSeen <= disk.at

\* Neither pruning, nor a crash after a save, nor load ever forgets a port
\* found within the retention, or the time it was found last; and an entry
\* that is neither up nor within the retention is gone after a refresh.
WithinRetention(seen, t) == seen > 0 /\ (Retention = 0 \/ t - seen <= Retention)

PortsRemembered ==
  running =>
    /\ \A k \in Keys : WithinRetention(seenAt[k], now) =>
         k \in DOMAIN entries /\ entries[k].lastSeen = seenAt[k]
    /\ \A k \in DOMAIN entries \ lastKeys : WithinRetention(seenAt[k], now)

\* A clean store has nothing to lose: every entry in memory is in the file.
CleanIsSaved ==
  running /\ ~dirty =>
    \A k \in DOMAIN entries :
      k \in DOMAIN disk.entries /\ Trim(entries[k]) = disk.entries[k]

\* A crash loses at most the refreshes of one save interval, unless the last
\* refresh could not write: a failed save is tried again at the next refresh.
BoundedLoss ==
  running /\ ~baseline /\ ~saveFailed => now - disk.at < SaveInterval \/ disk.at = now

\* A port whose trouble was reported is not healthy again without a
\* "recovered" event (while no refresh sees it with status UNKNOWN).
FailureIsResolved ==
  \A k \in alarmed : k \in DOMAIN entries /\ entries[k].health # "healthy"

\* The event stream is a port log: see module PortLog.
Log == INSTANCE PortLog WITH up <- lastKeys, told <- announced, open <- ~baseline

LogSpec == Log!Spec

-----------------------------------------------------------------------------
(* What a step may never do. *)

Remembering(k) == running /\ running' /\ k \in DOMAIN entries \cap DOMAIN entries'

CountedNow(k) == entries'[k].changes # entries[k].changes

\* "Was this a restart?" and "count it" are one decision: a restart is counted
\* in exactly the refreshes whose events name it, and a port that was there
\* all along is restarted only when every previous PID is gone.
RestartStep(k) ==
  Remembering(k) =>
    /\ CountedNow(k) <=>
         now' # now /\ \E kind \in Counted : Event(kind, k) \in emitted'
    /\ CountedNow(k) /\ k \in lastKeys =>
         entries[k].pids \cap entries'[k].pids = {}

RestartsAreEvents == [][\A k \in Keys : RestartStep(k)]_vars

\* README.md:113: "A restart is counted only when every previous PID of the
\* port is gone."  The code also counts every port that comes back.
RestartMeansEveryPidGone ==
  [][\A k \in Keys : Remembering(k) /\ CountedNow(k) =>
       entries[k].pids \cap entries'[k].pids = {}]_vars

\* history_changes.py:23: pid_change_event gives "the event for a port that came back or
\* changed processes", so no event says "back" of a port that was not remembered.  The
\* second row of a new port does: it finds the entry of the first, and the port absent
\* from the refresh before.
\* TLC refutes this; it has no run of its own (README, section 5).
BackIsNoNewcomer ==
  [][running' /\ now' # now => KeysWith(emitted', {"back"}) \subseteq DOMAIN entries]_vars

=============================================================================
