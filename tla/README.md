# TLA+ specifications of lirts

lirts is a dashboard for the ports of a machine. It collects every listening
socket, works out what serves it, folds what it saw into a rolling history, and
shows, tells and remembers what changed. It runs as a dashboard, as one-shot
commands, as an MCP server for agents, or as a daemon that all of these attach
to. This directory holds TLA+ models of the parts that are hard to test, the TLC
runs that check them on small instances, and proofs, checked by TLAPS, for every
size of instance.

Run a check with `tlc -config History.cfg MCHistoryStore.tla` and a proof with
`tlapm HistoryStoreProofs.tla`. `PROJECT.json` lists the runs, the mutants that
show each property can fail, the source lines behind each definition, the hazards
and the findings.

## 1. The system

| part | source (`lirts/`) | state it keeps | operations | what is hard |
|---|---|---|---|---|
| History store | `history_store.py`, `history_changes.py`, `history_entry.py` | one entry per `port/PROTO`, the keys of the last refresh, the event log, `history.json` | load, update, note, clear_events, save | boundaries of the retention, pruning against keys kept as seen, failed and throttled saves, crashes |
| Refresh cycle | `engine/pipeline.py`, `engine/enrichment.py`, `engine/base.py` | the snapshot, containers, totals, the lock | refresh, close | about ten awaits in a row, settings that change between them, joiners, failures |
| Insights | `insights_analyse.py` and the other `insights_*.py` | none (they write the rows) | analyse, explain | run twice per refresh, before and after the history is known |
| Daemon server | `daemon.py` | request counter, stop flag, the engine | serve, snapshot, events, clear_events, note, health, reload_routes, stop | requests of many connections, its own loop, shutdown in the middle of a refresh |
| Client and choice of engine | `daemon_client.py`, `cli/common.py` | none | ping, call, `_make_engine` | stale sockets, a daemon that ends |
| Daemon management | `cli/daemon.py`, `daemon_install.py` | service files | install, start, stop, status | stop returns before the daemon has ended |
| Remote engine | `remote.py` | a copy of the last frame and of the events | refresh, note, clear, health | lost and late answers, frames applied out of order with clears |
| MCP server | `mcp_server.py`, `mcp_tools.py` | ready flag, its own loop or the daemon's engine | one tool per question, actions if allowed | failed refreshes, stopped ports that still have a row |
| Proxy routes | `engine/routes.py`, `collectors/proxies*.py`, `collectors/hosts.py` | routes, the loaded flag, names of the hosts file | refresh_routes, reload, apply | two threads ask at once, rows named from two moments |
| Health checks | `engine/health.py`, `collectors/health.py` | results, learned paths, notes per row | check, attach_cached | checks of different rows at once prune one cache; the port changes hands |
| HTTP prober | `collectors/http.py` | probes per port and PID | enrich | ports given up as non-HTTP, processes that come and go |
| Docker provider | `collectors/docker.py` | client, inspect and stats caches | list, stats, stop, restart | back-off, the command as fallback, caches per container |
| Kubernetes | `collectors/kube.py`, `kube_forwards.py`, `cli/kube.py`, `tui/screens/kube.py` | cluster state, a thread, the forwards file | fetch, refresh_soon, restart and delete, start and stop a forward | lost wake-ups, boxes over moving rows, read-modify-write of a file |
| Bandwidth sampler | `collectors/bandwidth.py` | counters, rates, a thread | ingest | numbers of processes that are taken again |
| Collectors of sockets and origin | `collectors/ports.py`, `origin.py`, `system.py`, `reach.py` | cached processes, ancestries, branches | collect, resolve | processes end between the listing and the reading |
| Identity | `identity*.py` | none | identify, twice a refresh | weighing signals that disagree |
| Pattern store | `patterns.py` | tallies per day, stamps seen | ingest, prune, save, load, clear | counting each event once over restarts |
| Topology store | `topology*.py` | the learned graph | observe, prune, save, load, clear | live flags, relations whose ends go |
| Port memory | `ports.py`, `insights_ports.py` | none (built each refresh) | build, usual, also_used_by | ties, thresholds, a cap on what is counted |
| Session snapshot | `history_snapshots.py` | `last.json` | save, compare | stopped rows are saved too |
| Actions | `engine/actions.py`, `fixes.py`, `cli/actions.py`, `cli/ports.py`, `cli/stack.py` and their dialogs | none | kill, restart, free, fix, stacks | act on processes that may be others by then |
| Settings | `config*.py`, `settings*.py`, `tui/app_settings.py`, the Settings screen, the wizard, `cli/config_cmd.py` | the file, the shared dict | load, edit, preview, save, watch, remember | several writers of one file |
| Dashboard | `tui/app*.py`, `filtering.py` | filter, sorting, grouping, cursor, marks, what was told | refresh, every key | rows move under the keys |
| Star map | `tui/screens/starmap.py`, `tui/starmap*.py` | selection, focus, cells | redraw, select, focus, zoom | stars come and go under the screen |
| Replay and demo | `replay.py`, `demo/` | the frames, the pretend machine | record, play, script, actions | repeated events, actions next to a script |
| Watch and commands | `cli/listing.py`, `cli/common.py`, `notify.py`, `doctor.py` | what was printed | one refresh and output; watch | events told by time |

How they meet: `refresh` calls the collectors in worker threads, then folds
their answer into the history, patterns and topology on the event loop and
publishes a `Snapshot`. The dashboard's timer, the daemon's loop, every socket
request and every MCP call end in that one `refresh`, which an `asyncio.Lock`
guards. Clients and daemon meet at one socket file; processes that run on their
own meet in the state files.

What makes each part correct, in short. History: nothing vanishes in silence,
nothing remembered is lost within the retention, counters and events agree.
Cycle: what is shown, told and remembered comes from one consistent look. Daemon:
one engine, everybody finds it, everybody is answered with a fresh frame, a stop
ends. The stores: bounded, and each observation counted once. Collectors: what is
shown on a row is of the process that runs there. Screens: a refresh takes nothing
from under the user. Actions: what is done is what the question named.

## 2. The modules

**`PortLog`** is the abstract promise of the event stream: a session opens with a
picture of what is up, everything that goes down later is reported, and nothing
is reported up that is not.

**`HistoryStore`** is `HistoryStore` of the code with everything `update`, `load`,
`save` and `close` call. `entries`, `lastKeys` (with `baseline` for `None`),
`dirty` and `lastSave` are the fields of the class; `disk` is `history.json`.
`Refresh` is one whole `update` with the throttled `save` the pipeline does after
it; `Note`, `Close`, `Crash` and `Start` are the other operations. `PidChange` and
`StatusChange` are the two functions of `history_changes.py`. `announced`,
`alarmed`, `seenAt`, `seenSaved` and `saveFailed` are history variables, written by
the actions and read by properties only. A refresh finds a sequence of rows per key, at most
`MaxRows`: with `docker.show_unpublished` every unpublished container port is a row under
`port/TCP`, next to others and to a socket with that number (`enrichment.py:210-220`), and
`update` folds one after the other. Left out: sample windows, labels and
recorded messages of an entry; the text of events; the stored event log and its
caps; the repair of files of older versions. It INSTANCEs `PortLog` with
`up <- lastKeys, told <- announced`.

**`HistoryCycle`** extends it with the refresh around `update`: `Collect` reads
`show_udp` and the ports, `Fold` does, after the awaits, the first analysis,
`update`, the save, the second analysis and the stopped rows. `ToggleUdp` is the
user's switch. What the collectors find is a record of facts per row; `base` stands for
all the insight rules that do not read the history, and `Status` adds the two that
do (stale, restarts).

**`RefreshService`** is the engine shared by tasks of one event loop: the lock with
its queue, `refresh` from await to await, the loop of the daemon, `snapshot` and
`reload_routes` requests, MCP calls (`NeedsFrame` has the two conditions), failure,
stop and close. A stop cancels the loop and the MCP endpoint first and closes the socket when they
have ended (`Stop`, `CloseSocket`), so requests come in between; a refresh may fail before its
frame is out (`Fail`) or after, when the frame stays but the call is not counted (`Publish`).
A released `asyncio.Lock` is free before its first waiter resumes,
and a call in that moment queues and refreshes again: this is `Enter`'s third case.
A frame is its age and whether it was collected at all. A collected frame is taken
to have at least one row (`wait_ready` asks for rows; without any it refreshes on
every call).

**`DaemonLifecycle`** is the start and end of daemons around the one socket file, step
by step as `serve` goes, and the choice of engine of whoever is launched. `PingBroken` is a daemon
killed between a ping and its answer: the error passes `ping` (`daemon_client.py:43`) and ends
the start as well. The
constant `Discipline` says what those who start and stop daemons wait for:
`"serial"` is a service manager, `"after stop"` is `lirts daemon stop` followed at
once by a start. `"none"` is there to explore: two starts at the same moment
defeat the ping before `bind`, and nothing in the code or its documentation
promises otherwise. `CleanupSocket` is the removal of the socket file by
Python 3.13.

The modules that follow are one component each, next to each other; each has its own
variables and specification. What they abstract stands at their head.

*What is found and kept* (run `finds`):

* **`Collector`** (`collectors/ports.py`): one refresh lists the sockets, then asks process after
  process, while processes end and their numbers are taken; `sampler` is the cache of
  `psutil.Process` objects. A measure carries which process it was taken of.
* **`DockerProvider`**: client, back-off, fallback to the command, inspect and statistics
  caches, stop and restart, and `ContainerRows` of `enrichment.py`, which gives a container
  the socket it publishes or a row of its own. A container's port map has one protocol per port
  (`docker_parse.py:63`), the one mentioned last.
* **`HttpProber`** and **`HealthChecks`**: the silent probe of a refresh with its cache per port and
  process, and the checks on demand of several clients, each with the rows it took when it began.
  A process of another user has no number on its row; all such share the entry `pid or 0`.
* **`ProxyRoutes`**: configurations change while a refresh's thread and the graph screen's
  ask; `page` is the snapshot with the names it was given.
* **`Throughput`**: counters per process, the sampler's thread, rates of processes and edges.
* **`Identity`**: signals to candidates to a name and a role, before and after the probe.
* **`OriginResolver`**: the ancestry of a process, tmux windows and git branches with their caches.
* **`PatternStore`**, **`TopologyStore`**, **`PortMemory`**: what is learned over days, with save, load,
  crash and clear; history variables hold what really happened, and the properties
  compare what is shown with it: the events there were, when each star and line was sighted
  (in memory and in the file), and in how many refreshes a label was on a port. A label of
  `PortMemory` is the holder that `split_label` reads back from it.

*What shows, tells and acts* (run `acts`):

* **`Dashboard`**: `visible_listeners`, `update_table`, grouping, cursor, marks, and `Targets`, the
  rows the next key acts on. The order is stated, not computed: `InTable` says which keys the table
  has, `Above` which of two comes first, and `Order` sorts the ones by the other; `NameOf` is
  the place of a project's name in the alphabet. On entering command mode the table is drawn
  once with the command's text, which no row may have. The filter term `new:` is left out: its
  rows change with the time alone. **`StarMap`**: the star map's cells, selection and focus.
* **`EventNews`**: who tells the user of an event, and by which time stamp; a worker thread's note, of
  level ERROR when a restart failed (`app_actions.py:161-176`), may land inside a refresh. **`Replay`**: recording, torn
  files, playing. **`DemoWorld`**: the script of the demo and the actions on it.
* **`Settings`**: the file, the dict that app and engine share, the screen with its previews,
  the wizard, the watcher, the theme key, and other writers, which may come between `_remember`'s
  save and its stat (`Remember`, `Stamp`).
* **`RowInsights`** holds the rules about one row as operators (status, insights, fix), **`RowActions`**
  what a user does to it: ask, confirm, signal process after process, watch, restart. The age of a
  process may be unreadable; such ones are first on the row (`ports.py:234`) and last in the choice of
  the primary (`models.py:134`). A conflict tells of the first `ConflictShown` processes.
* **`StackActions`**, **`KubeActions`**, **`KubeForwards`**: compose projects, pods and port forwards,
  from their screens and their commands.

*Where somebody waits* (run `waits`):

* **`RemoteHistory`**: the daemon's log in memory, in its file and in a frame, each with its cap,
  and a dashboard's copy over lost answers, clears and daemon restarts. An event is its number;
  `aged` says which were past the retention when the daemon last started and read its file
  (`history_store.py:83-84`).
* **`KubeWatch`**: the refresher thread and the screen's own fetches, call by call, while the user picks
  namespaces. The thread is not started when kubectl has no context at launch
  (`kube.py:245-250`), but may be by a change of the settings.
* **`DaemonService`**: the commands of `lirts daemon` with launchd or systemd, whose part is modelled
  from the file they are given. A refused install or an uninstall may leave the file behind without
  the service enabled, and a login then starts nothing.
* **`McpServer`**: the server with a loop of its own, with the daemon's engine, or as its client; the
  tools, and the commands `who` and `free`, which share the row of a stopped port with them.

**`MCFinds`**, **`MCActs`** and **`MCWaits`** put the components of a group next to each other. They
share no variable, so a product of all would only multiply states: a behaviour runs
one component, named by `part`, and the others rest in one of their initial states. The
properties of a group are those of its components, each asked where its part runs.

**`Lists`** has what the components do with Python's lists and dicts: a comprehension with a
test (`Only`), `sorted` of numbers (`InOrder`) and by a key (`Sorted`), an assignment to a key
(`Noted`) and a merge (`Merged`). They are `SelectSeq`, `SetToSortSeq` and `@@` of the
libraries, written so that the proof system sees a definition: those three are built into it
without one.

**`MCHistoryStore`** and **`MCHistoryCycle`** declare model values; `RefreshService` and `DaemonLifecycle`
are run as they are, with their values in the configuration. `HistoryStoreProofs`, `HistoryCycleProofs`,
`RefreshServiceProofs` and `DaemonLifecycleProofs` extend the module they prove about;
`FindsProofs`, `ActsProofs` and `WaitsProofs` extend the groups, with a section per component, and
`ListProofs` has what all of them use.

## 3. What TLC checks

| run | what is checked | instance |
|---|---|---|
| `history` (`History.cfg`) | `TypeOK`, `ClocksOrdered`, `PortsRemembered`, `CleanIsSaved`, `BoundedLoss`, `FailureIsResolved`, `RestartsAreEvents`, and `LogSpec`, the refinement of `PortLog` | one TCP port with one or two rows, two processes of one program and one of another, retention 3, save interval 3, clock to 8 |
| `history_cycle` (`HistoryCycle.cfg`) | `NoSilentStop`, `GhostsAreDown`, `SteadyIsQuiet` | a TCP port that comes and goes under two programs, a UDP port that is always there, UDP switched between refreshes, retention 3, save interval 2, clock to 8 |
| `refresh_service` (`RefreshService.cfg`) | `TypeOK`, `NoOverlap`, `FreshAnswer`, `NoEmptyFrame`, `ReloadIsKept`; liveness `Answered`, `StopEnds` | one socket client, one MCP call, the loop, ages to 2 |
| `daemon_lifecycle` (`DaemonLifecycle.cfg`) | `OneEngine`, `DashboardsAttach`; liveness `StartsSucceed` | three daemons, two dashboards, serial, crashes at every step |
| `finds` (`Finds.cfg`) | `FindsTypeOK`; `CountsAreEarned` (`CountedOnce`, `UsualIsEarned`, `UsualIsKnown`); `FiguresAreOwn` (`NeverTooMuch`, `OwnMeasure`, `FreshProbe`); `ContainersAreShown`; `NamesAreOfTheRow` (`RowsAreOfOnePiece`, `AliasesName`, `BranchIsRecent`); `OwnResult` | one or two of everything a component handles |
| `acts` (`Acts.cfg`) | `ActsTypeOK`; `ReportedIsTracked`; `DashboardFollows` (`ConfigFollowsFile`, `TableIsDrawn`); `EventsAreToldOnce` (`ToldOnce`, `EventsOnceInOrder`); `KilledStaysKilled`; `ActsAsAsked` (`NamedPodIsTouched`, `StackIsReached`, `FixSparesForwarder`); `RestartAfterGone`; `WhatIsShownStays` (`TargetsAreKept`, `CellsAreKept`) | one or two rows, pods, users, desks; three containers |
| `waits` (`Waits.cfg`) | `WaitsInvariant` (with `OldestLostFirst`); liveness `EveryoneIsTold`, `EarlierNamespaceGoes`, `InstalledRuns`, `EveryCallIsAnswered` | one dashboard, two namespaces, two picks and two workers, one call; both service managers |
| `restart_count`, `udp_toggle`, `stale_events`, `restart_race`, `other_cluster` | one property each that the code violates, see section 5 | as above |

What the groups ask, in words. *Finds*: an event counts once in its pattern however often the log is
read again; a star is usual only when it was there on enough days, a holder only when the map or the
history saw it often enough; bytes, CPU time and HTTP answers are of the process on the row, where
lirts knows it; a port that a container publishes has a row, of the one protocol the port map keeps
for it; the names of a row come from one moment; a port that changed hands to a process lirts knows
does not show the health of the process before. *Acts*: a forward that was reported is in the file
unless two lirts wrote it at once; the table has what passes the filter, once and in its place, with
the cursor and the marks on it; a dashboard whose watcher has read the last version of the file runs
with it, unless a write came while a preference was remembered; an event is told once, unless it
overtook earlier ones; what was killed in the demo stays so; an action reaches what its question
named, and a fix spares Docker's forwarder on a row of few processes or of known ages; a restart
starts the second copy only when the first is gone; a refresh does not move the rows a key would act
on, nor a star. *Waits*: an event reaches the dashboard unless it was cleared, lost in a crash, past
the retention at a start or overtaken by a frame's worth of newer ones; an earlier namespace does
not stay on the screen while the background thread runs; an installed daemon runs again; every call
is answered.

**Bounds.** `MaxTime` and `MaxStep` bound the clock of the history runs. It starts at the save
interval; the five units that `history` has left are more than a retention and a save interval, so a
port can be found, lost, kept over a save, expire at the boundary and one unit after it, and come
back, over several runs of lirts. Steps of one and two units make both sides of every `>` and `>=`
reachable. `RestartsSaved = 1` makes the trim drop something with the second restart, and `MaxRows =
2` lets a row find the entry that another of the same refresh made. One key is enough for `history`
because an entry depends on its own key only; `history_cycle` has two where protocols meet, and a
clock long enough for a hidden UDP port to be kept past the retention and to be shown again just
before it; its rows are all healthy, because nothing it asks depends on a failure. `Oldest = 2` is
one above the largest `max_age`, so a frame can be too old for everyone. A third caller adds only
one more place in the queue, and the proofs cover any number.

In the groups the bounds let each rule of a component be used on both of its sides: caches are asked
inside, at and after their interval (`InspectInterval`, `ProbeInterval`, `RetryAfter` of two with
clocks to five or three), days run past the window and the usual days, logs past their caps
(`SnapshotEvents = 2` of four events, `ReloadedCap` below `SavedCap`, a frame of two of three
events), process numbers are few so that they are taken again, and processes are enough to die, come
back and be taken for another. `StartLimit = 2` lets systemd give a unit up, and `LastHolder = 2`
gives a restart a second process to start. `McpInterval = 0` makes a frame too old for an engine
without a loop after one tick of the two of `LastMcpTime`. Two namespaces, workers and picks are
enough for the answer about the first to come after that about the second. `ConflictShown = 1` of
two processes puts one behind those a conflict tells of (the code shows four). Two rows and two
projects are enough for a cursor to stand on the wrong one. Where a component needs all its inputs
together (`Identity`, `ProxyRoutes`), the instance enumerates a product of few values per signal.
Other bounds are what five minutes of TLC allow (`ProbePorts`, `MostBytes`, `LastWrite`,
`LastEdit`); past them stand the proofs.

**Deadlock** is not checked: lirts may be closed, clocks and numbers of events are bounded,
and a served daemon may stop for good. That nobody waits for ever is stated as liveness instead.

**Fairness.** The history runs have none: their properties are safety. In `RefreshService`, weak
fairness of `Resume` (an event loop runs what can run), of the steps of a refresh (every command,
probe and request in it has a time-out, and a failure ends it as well), of `CloseSocket` (a
cancelled loop and endpoint end) and of `Close`. There is none for requests, the loop's turn,
reloads, failures or the stop. In `DaemonLifecycle`, weak fairness of a process's own next step:
nothing in `serve` waits for another process.

In `waits`, each component's own fairness, asked in the behaviours of that component.
`RemoteHistory`: the daemon's loop and the dashboard's timer go on (weak), and a call that is made
again and again is answered and applied some time (strong: any single answer may be lost); a restart
of the daemon is never required, and `EveryoneIsTold` speaks of behaviours in which they end.
`KubeWatch`: every thread goes on (kubectl has a time-out), none is owed a wake, nor a loop a start.
`DaemonService`: the manager starts what it is about to start. `McpServer`: refreshes start and end,
well or not, and calls go on; nothing makes a refresh succeed. `finds` and `acts` assume none.

## 4. What is proved

TLAPS proves, for all values of the constants that satisfy the assumptions:

* `HistoryStoreProofs`: `TypeOK`, `NoSilentStop`, `ClocksOrdered`, `PortsRemembered`, `CleanIsSaved`,
  `BoundedLoss`, `RestartsAreEvents`, `FailureIsResolved` (if no row has status
  UNKNOWN) and the refinement `LogSpec`. The properties are not inductive by
  themselves. The invariant adds that an entry of a seen key was seen by the last
  refresh or is of a kept key, that entries and file agree with what the reader of the
  clock knows (`seenAt`, `seenSaved`), and that a save never lies in the future.
  There is one lemma per action; `Refresh` is cut into the fold of the entries, the
  pruning, the events and the save. Times are positive and grow (`Init`
  starts at the save interval: the epoch is long past).
* `HistoryCycleProofs`: under `CycleSpec`, `NoSilentStop`, `PortsRemembered` and
  `GhostsAreDown`, wherever UDP is switched; and `SteadyIsQuiet` if UDP is not
  switched inside a refresh (`~ToggleInRefresh`) and `restart_warning` is not 0. The statuses
  must contain `"warning"`, which a stale row has. `CInv` is the invariant of the store, which the
  cycle keeps because what the collectors find is always well formed, and that no
  process means no stopped rows. `SInv` adds that what is folded was collected for the protocols
  shown, and that steady ports are remembered as healthy, in memory and in the file.
* `RefreshServiceProofs`: `TypeOK`, `NoOverlap`, `FreshAnswer`, `NoEmptyFrame`,
  `ReloadIsKept`. The invariant relates the lock, the queue and the program counters
  (a task is in the queue exactly when it is joined or queued) and says what a
  waiting task may rely on: while it waits, either a frame newer than its request is
  out, or a refresh is under way or queued before it.
* `DaemonLifecycleProofs`: `OneEngine` and `DashboardsAttach` under the serial
  discipline. The invariant: one process at a time starts or ends, nobody serves
  while one has passed its ping or is ending, and a serving daemon owns the path.
* `WaitsProofs`: `WaitsInvariant`, that is the types of `RemoteHistory`, `KubeWatch`, `DaemonService`
  and `McpServer`, and `OldestLostFirst`, for any caps with `ShownCap <= ReloadedCap <= LogCap`. The invariant adds
  that log and file are each in the order the events had; a crash costs what the file did
  not have, so what is missing otherwise was the oldest when a cap dropped it, or past the retention at a
  start. Of `KubeWatch` it adds that until somebody picks, every fetch lists the default namespace.

* `ActsProofs`, for every value of the constants of the ten components:
  - *Port forwards*, `ReportedIsTracked`: the file, and what a lirts is about to write
    over it, both hold every forward that was reported and still runs, unless another
    write came in between; and a local port belongs to one kubectl.
  - *Demo*, `KilledStaysKilled`: one process per port, and a server the script opens is there
    only after its event.
  - *Actions on a row*, `FixSparesForwarder` and `RestartAfterGone`: a desk's plan is sound (a fix takes no
    forwarder while another process is on the row, if the row has no more processes than a conflict tells of
    or no age is unknown; otherwise the forwarder may be behind those of unknown age and yet be
    proposed), what it watches covers every process of the plan that still runs, and none is left when a restart
    starts its second copy.
  - *Pods*, `NamedPodIsTouched`: the box and the kubectl under way are about the pod that was shown.
  - *Compose projects*, `StackIsReached`: a job has done, or still before it, everything its
    question named, all of one project.
  - *Settings*, `ConfigFollowsFile`: what was read is not ahead of the file, and the property itself;
    a write that `_remember` stamps unread counts as edited, which is what the property excepts.
  - *The table*, `TableIsDrawn` and `TargetsStay`: the table is the order of the view as it is now,
    and the cursor is on one row of it, unless it is empty. `Above` is a strict order of the
    keys that are drawn (by group, header, value and port), so what is sorted by it has each once.
  - *News*, `ToldOnce`: the log has the events in the order of their numbers, and all that is
    worth telling up to the time of the newest told is history or was told. A note that overtook events of
    an earlier time is excepted: the dashboard may toast it again (`NewestIsToasted` below).
  - *Replay*, `EventsOnceInOrder`: every frame, and the history of the player, has the first
    events of the recorded machine and no other.
  - *Star map*, `StarsKeepTheirCells`: two stars are on one cell only at the bottom, and the key of the
    kept cells is that of what is drawn, except on a narrow screen.

  `ActsTypeOK`, `DashboardFollows`, `EventsAreToldOnce`, `ActsAsAsked` and `WhatIsShownStays` follow, because a step
  of the group is a step of each component or leaves it alone.

* `FindsProofs`, for every value of the constants of the eleven components:
  - *Health*, `OwnResult`, for any number of checks at once: what is kept for the process that has
    the port now was measured on it, if lirts knows its number. In the model a process number is not taken twice.
  - *HTTP*, `FreshProbe`: an answer kept under the number of a process is its own, or of a successor
    that replaced it during the probe; and who was given up has an answer that is not HTTP. Nothing
    is said of a row whose process lirts does not know (`RestartIsProbed` below).
  - *Processes*, `OwnMeasure`: each sample, kept or under way, counts from an earlier one of the same process,
    and whoever is in the listing is asked before the table is made.
  - *Bytes*, `NeverTooMuch`: counters, samples and rates are within what was moved.
  - *Origin*, `BranchIsRecent`: what was read of `HEAD` is what it has, unless something was checked
    out since, and a row shows what was read within the interval.
  - *Proxy routes*, `RowsAreOfOnePiece`: the page is built from one set of routes, whichever thread asked.
  - *Identity*, `AliasesName`: a candidate that comes from an alias leads all others.
  - *Patterns*, `CountedOnce`: tallies, in memory and in the file, never have more than the events
    there were, and never less than those of the window that were neither forgotten nor unsaved.
  - *Topology*, `UsualIsEarned`: what is known, in memory and in the file, is known exactly as it was
    sighted (the days are the newest of the sighting days, the last is the last), and a line is
    never known for longer than its two stars.
  - *Port memory*, `UsualIsKnown`: a count is of no more refreshes than the label had the port in.
  - *Docker*, `ContainersAreShown`: what was inspected was true when it was kept, and while the SDK
    answers, the last failure to connect lies before it began to. That the rows of published ports
    are complete, for the one protocol a port map keeps, is proved of `ContainerRows` itself.

  `FindsTypeOK`, `CountsAreEarned`, `FiguresAreOwn` and `NamesAreOfTheRow` follow.

* `ListProofs`: what the operators of `Lists` return (`OnlyIs`, `InOrderIs`, `SortedIs`), partial functions
  and maxima.

So every invariant and every action property that a passing run checks has a theorem, and
the run shows it on a small instance first.

**Assumptions.** Each stands in the module that declares the constants, and TLC evaluates it in
the runs. Most say that bounds are numbers, that a cap is not 0, or that a set is finite. The
others are of the code: the catalog of the demo does not serve the two ports the script opens itself
(`DemoAssumption`), a supervisor is a terminal (`OriginAssumption`), what is kept of the stamps fits
under their limit (`PatternAssumption`), as many days are kept as make something usual
(`TopologyAssumption`), a container publishes a port once (`DockerAssumption`), names of projects
differ, so that the table has one order (`DashboardAssumption`), a configuration passes to ports the
model has (`RouteAssumption`). `RowAssumption`, `KubeActionsAssumption` and `McpAssumption` keep 0 and
`"loop"` free to mean nobody and the loop.

**Induction.** The induction theorems of the library take an operator, which the installed provers
cannot instantiate. What needs induction (over the places of a sequence, or the size of a finite
set) is proved from the least natural number of a set that is not empty (`LeastNatural`, `UpTo`):
the set of the places where a fact would fail has none.

**Only model-checked**: the liveness properties (`Answered`, `StopEnds`, `StartsSucceed`,
`EveryoneIsTold`, `EarlierNamespaceGoes`, `InstalledRuns`, `EveryCallIsAnswered`),
because the provers do not handle fairness and ENABLED.

## 5. Findings

1. `restart_count`: the README (113) says a restart is counted only when every previous PID
   is gone; a port that is missed by one refresh and comes back with the same process
   is counted as well (`history_changes.py:32`).
2. `udp_toggle`: `show_udp` is read once for the collection and once for `update`
   (`pipeline.py:146` and `89`). Switched on in between, every remembered UDP port is reported as
   stopped, and as back one refresh later.
3. `stale_events`: the first analysis has no `last_active`, so events call an idle dev
   server degraded that the same refresh shows healthy (`pipeline.py:87`).
4. `restart_race`: a stopping daemon removes the socket path of its successor
   (`daemon.py:123`), which then serves unreachable.
5. `other_cluster`: kubectl is given no context unless one was configured or picked
   (`kube.py:115`), so what the box named on one cluster is deleted on another, if the
   kubeconfig's current context was switched in between; `kube.py:4-5` says that context
   and namespace are passed as flags.

Some more sentences of the documentation go further than the code. Each is stated in
its module, and TLC refutes it there as soon as it is asked; most come from a small gap
that may be accepted, so they have no run of their own.

| claim | module | what TLC shows |
|---|---|---|
| `BackIsNoNewcomer` (`history_changes.py:23`) | `HistoryStore` | the second row of a new port counts as back, and the port as restarted at the time it was first seen |
| `RestartIsProbed` (`collectors/http.py:5-6`) | `HttpProber` | processes whose number lirts does not see share one entry, so a new one has the answer of the one before |
| `PublishedHasRow` (README 82-83) | `DockerProvider` | a port published over TCP and UDP has one protocol in the port map, and no TCP row if UDP was last |
| `NoWriteIsMissed` (`tui/app_settings.py`, `_check_config_file`) | `Settings` | a write between the save and the stat of `_remember` (80-81) is stamped as read |
| `NewestIsToasted` (`tui/app.py:123`) | `EventNews` | an ERROR note that lands inside a refresh is toasted again by the next ones |
| `PickedNamespaceStays` (`CHANGELOG.md:283`) | `KubeWatch` | without the background thread an overtaken fetch of the screen has the last word |
| `ClearedStaysCleared` (README 385, `history_store.py:302`) | `RemoteHistory` | a frame asked for before the clear and applied after it brings the events back |
| `KillsAreTallied` (README 351) | `PatternStore` | a kill is noted by the action, no refresh returns it, so it is counted only if there are no patterns at a start |
| `ResultsStay` (`daemon.py:258`) | `HealthChecks` | a check of other rows drops the results of the rows it did not have |
| `EveryForwardIsTracked` (`kube_forwards.py:3-5`) | `KubeForwards` | two lirts that read, change and write the file lose each other's forwards (122) |
| `HostsNamesAreHosts` (`models.py:340`) | `ProxyRoutes` | the names of the proxies' routes are added to the snapshot's set |
| `OwnPortIsNotSquatted` (`ports.py:49`) | `PortMemory` | a service with a slash in its name is not read back as itself; the instance keeps `NoSlash` |
| `OutdatedFileIsKept` (README, Configuration) | `Settings` | a remembered preference rewrites a file of an older schema |
| `EveryActionIsRefused` (`replay.py`) | `Replay` | the keys for containers ask the Docker provider, not the engine (`tui/app_actions.py:182`) |
| `DemoGoesOn` (README, the demo) | `DemoWorld` | every refresh fails once the worker's container was stopped or its pod deleted |
| `RoleSignalsArgue` (`identity.py`) | `Identity` | a row stays of unknown kind although a signal knows it |
| `StopLasts` (`cli/daemon.py:201`) | `DaemonService` | the service manager starts the daemon again before the next login |
| `WhoExitsOneIfFree` (`cli/ports.py:117`) | `McpServer` | the row of a stopped port counts as somebody who holds it |
| `EveryEventIsPrinted` (README 204) | `EventNews` | a refresh with more events than a frame holds loses the older ones |
| `EveryStackIsReached` (`engine/actions.py`) | `StackActions` | the project `-` of the unlabelled containers reaches none |
| `ProjectsAreTogether` (`starmap_layout.py:5`) | `StarMap` | a star whose project changes keeps its cell |
| `KeysFindTheirStar` | `StarMap` | a selected star that went is looked up (`starmap.py:162`, `195`) |
| `OriginIsOwn` (`origin.py:201`) | `OriginResolver` | a process number taken between two refreshes keeps the first one's origin |

## 6. Not modelled, and the plan

Not modelled for good: the parsers of what commands print, texts, layout, widgets and
rendering, notifications, `doctor`, what `explain` and the events say, the tables of the
configuration, the figures of `system` and `reach`, and sample windows. They are pure data or
presentation, and what the operating system answers is an input of the models. Session
snapshots are one write and one read with no step between that another could take. Of the
daemon, a connection that never sends its line (`daemon.py:172`) and a daemon that is
busy for longer than the ping waits (`daemon_client.py:71`) are left out, and of a frame
the fields that replace those of the frame before.

Left to do, in this order:

1. `HistoryStore` composed with `DaemonLifecycle`: state files loaded before the ping
   (`cli/daemon.py:101`), and two processes that write the same one (`history_store.py:143`,
   `engine/base.py:143`).
2. An abstract specification for what the groups keep (a tally, a map, a list of forwards that
   several write), and proofs that the components implement it, as `HistoryStore` does `PortLog`.
3. The liveness of `PatternStore` and `TopologyStore` saves, and `SessionDiff` with the
   stopped rows a snapshot holds.
