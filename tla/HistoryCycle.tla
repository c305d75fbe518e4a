---------------------------- MODULE HistoryCycle ----------------------------
(***************************************************************************)
(* The refresh cycle around the history store (engine/pipeline.py,         *)
(* engine/enrichment.py, insights_analyse.py): the ports are collected,    *)
(* many awaits later they are analysed, folded into the history, analysed  *)
(* again for display and published.  Meanwhile the user may show or hide   *)
(* UDP sockets.                                                            *)
(*                                                                         *)
(* What the collectors find is, for each row of a port, a record of facts: *)
(* its processes, whether it has traffic, whether it is an old dev server  *)
(* without clients and the status that follows from all insights that need *)
(* no history.                                                             *)
(***************************************************************************)
EXTENDS HistoryStore

CONSTANTS
  Steady,          \* ports of one row, whose process listens, with traffic, all the time
  StaleAfter,      \* insights.stale_after_hours
  RestartWarning,  \* insights.restart_warning
  RestartWindow,   \* RESTART_WINDOW_SECONDS
  StoppedWindow,   \* insights.show_stopped_minutes
  ToggleInRefresh  \* bound: UDP may be toggled between collect and fold

ASSUME CycleAssumption ==
  /\ Steady \subseteq Keys
  /\ {StaleAfter, RestartWarning, RestartWindow, StoppedWindow} \subseteq Nat
  /\ ToggleInRefresh \in BOOLEAN

VARIABLES
  showUdp,  \* Engine.show_udp
  phase,    \* "idle", or "collected" while a refresh awaits its enrichment
  facts,    \* what the refresh under way collected
  shown,    \* the statuses of the live rows of each port in the last snapshot
  ghosts    \* the dimmed rows of ports that stopped recently

cycle == <<showUdp, phase, facts, shown, ghosts>>
cycleVars == <<vars, cycle>>

Facts ==
  {f \in [pids : SUBSET Pids, base : Statuses, active : Activities, old : BOOLEAN] :
     /\ Conflict(f.pids) => f.base = "error"
     /\ f.base = "unknown" => f.pids = {}
     /\ f.old => f.pids # {}}

\* The rows of a port.  A steady one is found with the same processes, busy and healthy.
FactsOf ==
  [k \in Keys |->
     {rows \in UNION {[1..n -> Facts] : n \in 1..(IF k \in UdpKeys THEN 1 ELSE MaxRows)} :
        /\ \A i \in 1..(Len(rows) - 1) : rows[i].pids = {}
        /\ k \in Steady => /\ Len(rows) = 1 /\ rows[1].pids = {}
                            /\ rows[1].base = "healthy" /\ rows[1].active /\ ~rows[1].old}]

\* What collect_listeners may return while UDP is shown or hidden.
Findings(udp) ==
  LET Found(S) == {f \in [S -> UNION {FactsOf[k] : k \in S}] : \A k \in S : f[k] \in FactsOf[k]}
      present  == Steady \cap Collected(udp)
  IN UNION {Found(S) : S \in {S \in SUBSET Collected(udp) : present \subseteq S}}

NoFacts == [k \in {} |-> <<>>]

-----------------------------------------------------------------------------
(***************************************************************************)
(* analyse: the status of a row.  `restarts` and `lastActive` are what the *)
(* history has put on the row; a row fresh from the collectors has neither *)
(* (0 restarts, last_active None).                                         *)
(***************************************************************************)
Stale(f, lastActive, t) ==
  f.old /\ ~f.active /\ (lastActive = 0 \/ t - lastActive >= StaleAfter)

Status(f, restarts, lastActive, t) ==
  IF f.base \in {"healthy", "unknown"} /\ (restarts >= RestartWarning \/ Stale(f, lastActive, t))
    THEN "warning"
    ELSE f.base

\* restarts_within: the restarts a row shows for the last hour.
RestartsWithin(e, t) == Cardinality({i \in DOMAIN e.changes : t - e.changes[i] <= RestartWindow})

\* A row as update reads it, after the first analysis.
AnalysedRow(f, t) ==
  [pids |-> f.pids, conflict |-> Conflict(f.pids), active |-> f.active,
   status |-> Status(f, 0, 0, t)]

Analysed(fs, t) ==
  [k \in DOMAIN fs |-> [i \in DOMAIN fs[k] |-> AnalysedRow(fs[k][i], t)]]

\* The status of a row on screen: update has fed it from its entry as it was after the
\* row, and it is analysed again.
Displayed(fs, t) ==
  LET obs == Analysed(fs, t)
      Fed(k, i) == AfterRows(k, SubSeq(obs[k], 1, i), t)
  IN [k \in DOMAIN fs |-> [i \in DOMAIN fs[k] |->
        Status(fs[k][i], RestartsWithin(Fed(k, i), t), Fed(k, i).lastActive, t)]]

\* Mutant: hidden UDP ports get a stopped row too.
StoppedRowsOfAll(live, es, t) ==
  {k \in DOMAIN es \ live :
     t - es[k].lastSeen > 0 /\ t - es[k].lastSeen <= StoppedWindow}

\* _stopped_rows: remembered ports that are not live and were seen lately.
StoppedRows(live, es, t) ==
  {k \in DOMAIN es \ live :
     /\ k \in Collected(showUdp)
     /\ t - es[k].lastSeen > 0
     /\ t - es[k].lastSeen <= StoppedWindow}

-----------------------------------------------------------------------------
\* The refresh starts: collect_listeners reads show_udp in a worker thread.
Collect ==
  /\ running /\ phase = "idle"
  /\ facts' \in Findings(showUdp)
  /\ phase' = "collected"
  /\ UNCHANGED <<vars, showUdp, shown, ghosts>>

\* The refresh ends: show_udp is read again for the protocols of update.
Fold(t) ==
  /\ running /\ phase = "collected"
  /\ now' = t
  /\ Update(Analysed(facts, t), showUdp, t)
  /\ ThrottledSave(entries', t)
  /\ shown' = Displayed(facts, t)
  /\ ghosts' = StoppedRows(DOMAIN facts, entries', t)
  /\ phase' = "idle"
  /\ facts' = NoFacts
  /\ UNCHANGED <<running, showUdp>>

\* The user presses u, or changes show_udp in the settings.
ToggleUdp ==
  /\ running
  /\ ToggleInRefresh \/ phase = "idle"
  /\ showUdp' = ~showUdp
  /\ UNCHANGED <<vars, phase, facts, shown, ghosts>>

\* lirts ends, in order or not, and starts again.
End ==
  /\ Close \/ Crash
  /\ phase' = "idle"
  /\ facts' = NoFacts
  /\ shown' = NoFacts
  /\ ghosts' = {}
  /\ UNCHANGED showUdp

Open(t) ==
  /\ Start(t)
  /\ showUdp' \in BOOLEAN
  /\ UNCHANGED <<phase, facts, shown, ghosts>>

CycleInit ==
  /\ Init
  /\ showUdp = FALSE
  /\ phase = "idle"
  /\ facts = NoFacts
  /\ shown = NoFacts
  /\ ghosts = {}

CycleNext ==
  \/ Collect
  \/ \E t \in Times : Fold(t)
  \/ ToggleUdp
  \/ End
  \/ \E t \in Times : Open(t)

CycleSpec == CycleInit /\ [][CycleNext]_cycleVars

-----------------------------------------------------------------------------
\* A row that says a port stopped is about a port the history remembers and
\* does not count as up: hiding UDP turns no kept port into a stopped row.
GhostsAreDown == ghosts \subseteq DOMAIN entries \ lastKeys

\* A port that keeps listening never stops, returns or restarts in the events
\* once this process has said it is up, however often UDP is hidden and shown.
\* (update: "keys of other protocols are neither reported as stopped nor
\* forgotten", history_store.py:176.)
SteadyIsQuiet ==
  [][\A k \in Steady \cap announced :
       running' /\ now' # now =>
         {ev \in emitted' : ev.key = k} = {}]_cycleVars

\* A port the events call degraded has a row that the same refresh does not show healthy.
\* (pipeline.py:100: "Stale detection needs history (last_active)".)
DegradedIsShown ==
  phase = "idle" =>
    \A k \in KeysWith(emitted, {"degraded"}) \cap DOMAIN shown :
      \E i \in DOMAIN shown[k] : shown[k][i] # "healthy"

=============================================================================
