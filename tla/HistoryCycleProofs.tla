------------------------- MODULE HistoryCycleProofs -------------------------
(***************************************************************************)
(* Proofs about HistoryCycle: the refresh cycle around the store keeps the *)
(* invariant of the store, its stopped rows are about ports that are down, *)
(* and, as long as UDP is not switched inside a refresh, a port that keeps *)
(* listening makes no event.  A stale row is a warning, so the statuses    *)
(* must have that one.                                                     *)
(***************************************************************************)
EXTENDS HistoryCycle, HistoryStoreProofs

-----------------------------------------------------------------------------
(* The inductive invariants. *)

\* What a refresh holds between its collection and its fold.
FactsOK == phase = "collected" => \E udp \in BOOLEAN : facts \in Findings(udp)

\* Between two processes there is no refresh and nothing on screen.
NothingShown == ~running => phase = "idle" /\ ghosts = {}

CInv ==
  /\ IInv
  /\ showUdp \in BOOLEAN
  /\ FactsOK
  /\ NothingShown
  /\ GhostsAreDown

\* A steady port is remembered as healthy, in memory and in the file.
SteadyHealthy(es) == \A k \in Steady \cap DOMAIN es : es[k].health = "healthy"

\* Without a switch inside a refresh, what is folded was collected for the
\* protocols that are shown.
SInv ==
  /\ phase = "collected" => facts \in Findings(showUdp)
  /\ SteadyHealthy(entries)
  /\ SteadyHealthy(disk.entries)

-----------------------------------------------------------------------------
(* What the collectors find. *)

LEMMA FactsAreSightings ==
  ASSUME "warning" \in Statuses, NEW f \in Facts, NEW t
  PROVE  AnalysedRow(f, t) \in Sighting /\ AnalysedRow(f, t).pids = f.pids
<1>1. /\ f.pids \in SUBSET Pids /\ f.base \in Statuses /\ f.active \in Activities
      /\ Conflict(f.pids) => f.base = "error"
      /\ f.base = "unknown" => f.pids = {}
  BY DEF Facts
<1>2. /\ Status(f, 0, 0, t) \in Statuses
      /\ Status(f, 0, 0, t) = f.base \/ Status(f, 0, 0, t) = "warning"
      /\ f.base = "error" => Status(f, 0, 0, t) = "error"
  BY <1>1 DEF Status
<1>3. Conflict(f.pids) \in BOOLEAN
  BY DEF Conflict
<1> QED
  BY <1>1, <1>2, <1>3 DEF Sighting, AnalysedRow

\* The listeners of a collection for the protocols udp: well formed, of those
\* protocols, and with every steady port of them, without a process known.
LEMMA FindingsAreListeners ==
  ASSUME "warning" \in Statuses, NEW udp, NEW fs \in Findings(udp), NEW t
  PROVE  /\ DOMAIN fs \subseteq Collected(udp)
         /\ DOMAIN Analysed(fs, t) = DOMAIN fs
         /\ \A k \in DOMAIN fs : RowsOK(Analysed(fs, t)[k])
         /\ Steady \cap Collected(udp) \subseteq DOMAIN fs
         /\ \A k \in Steady \cap DOMAIN fs :
              LET rows == Analysed(fs, t)[k] IN
              /\ Len(rows) = 1 /\ rows[1].pids = {} /\ ~rows[1].conflict
              /\ 0 < RestartWarning => rows[1].status = "healthy"
<1>1. PICK S \in SUBSET Collected(udp) :
        /\ Steady \cap Collected(udp) \subseteq S
        /\ DOMAIN fs = S /\ \A k \in S : fs[k] \in FactsOf[k]
  BY DEF Findings
<1>2. S \subseteq Keys
  BY <1>1 DEF Collected
<1>3. DOMAIN Analysed(fs, t) = S
  BY <1>1 DEF Analysed
<1>4. ASSUME NEW k \in S
      PROVE  \E n \in Nat \ {0} :
               /\ Analysed(fs, t)[k] \in [1..n -> Sighting] /\ fs[k] \in [1..n -> Facts]
               /\ \A i \in 1..n : Analysed(fs, t)[k][i] = AnalysedRow(fs[k][i], t)
               /\ \A i \in 1..(n - 1) : Analysed(fs, t)[k][i].pids = {}
  <2>1. fs[k] \in FactsOf[k] /\ k \in Keys
    BY <1>1, <1>2
  <2>2. PICK n \in Nat \ {0} : fs[k] \in [1..n -> Facts]
    BY <2>1, TimesAssumption DEF FactsOf
  <2>3. \A i \in 1..(n - 1) : fs[k][i].pids = {}
    BY <2>1, <2>2 DEF FactsOf
  <2>4. /\ DOMAIN Analysed(fs, t)[k] = 1..n
        /\ Analysed(fs, t)[k] = [i \in 1..n |-> AnalysedRow(fs[k][i], t)]
    BY <1>1, <2>2 DEF Analysed
  <2>5. \A i \in 1..n : AnalysedRow(fs[k][i], t) \in Sighting
                        /\ AnalysedRow(fs[k][i], t).pids = fs[k][i].pids
    BY <2>2, FactsAreSightings
  <2>6. \A i \in 1..(n - 1) : i \in 1..n
    OBVIOUS
  <2> QED
    BY <2>2, <2>3, <2>4, <2>5, <2>6
<1>5. ASSUME NEW k \in S PROVE RowsOK(Analysed(fs, t)[k])
  <2>1. PICK rows : rows = Analysed(fs, t)[k]
    OBVIOUS
  <2>2. PICK n \in Nat \ {0} : /\ rows \in [1..n -> Sighting]
                               /\ \A i \in 1..(n - 1) : rows[i].pids = {}
    BY <1>4, <2>1
  <2>3. rows \in Seq(Sighting) /\ Len(rows) = n
    BY <2>2
  <2> QED
    BY <2>1, <2>2, <2>3 DEF RowsOK
<1>6. ASSUME NEW k \in Steady, k \in S
      PROVE  LET rows == Analysed(fs, t)[k] IN
             /\ Len(rows) = 1 /\ rows[1].pids = {} /\ ~rows[1].conflict
             /\ 0 < RestartWarning => rows[1].status = "healthy"
  <2>1. PICK n \in Nat \ {0} :
          /\ Analysed(fs, t)[k] \in [1..n -> Sighting] /\ fs[k] \in [1..n -> Facts]
          /\ \A i \in 1..n : Analysed(fs, t)[k][i] = AnalysedRow(fs[k][i], t)
    BY <1>4, <1>6
  <2>2. fs[k] \in FactsOf[k] /\ k \in Keys
    BY <1>1, <1>2, <1>6
  <2>3. /\ Len(fs[k]) = 1 /\ fs[k][1].pids = {} /\ fs[k][1].base = "healthy" /\ ~fs[k][1].old
    BY <1>6, <2>2 DEF FactsOf
  <2>4. n = 1
    BY <2>1, <2>3
  <2>5. Len(Analysed(fs, t)[k]) = 1 /\ Analysed(fs, t)[k][1] = AnalysedRow(fs[k][1], t)
    BY <2>1, <2>4
  <2>6. ~Conflict({})
    BY DEF Conflict
  <2>7. 0 < RestartWarning => Status(fs[k][1], 0, 0, t) = "healthy"
    BY <2>3, CycleAssumption DEF Status, Stale
  <2> QED
    BY <2>3, <2>5, <2>6, <2>7 DEF AnalysedRow
<1> QED
  BY <1>1, <1>3, <1>5, <1>6

-----------------------------------------------------------------------------
(* The cycle keeps the invariant of the store. *)

LEMMA FoldKeepsCInv ==
  ASSUME "warning" \in Statuses, CInv, NEW t \in Times, Fold(t)
  PROVE  CInv'
<1> USE DEF CInv
<1> DEFINE obs == Analysed(facts, t)
<1>1. /\ running /\ running' = running /\ now' = t /\ t \in Nat /\ now < t
      /\ Update(obs, showUdp, t) /\ ThrottledSave(entries', t)
  BY TimesAhead DEF Fold, IInv
<1>2. /\ DOMAIN obs = DOMAIN facts /\ DOMAIN obs \subseteq Keys
      /\ \A k \in DOMAIN obs : RowsOK(obs[k])
  BY FindingsAreListeners DEF Fold, FactsOK, Collected
<1> HIDE DEF obs
<1>3. IInv'
  BY <1>1, <1>2, RefreshKeepsIInv
<1>4. showUdp' \in BOOLEAN /\ FactsOK' /\ NothingShown'
  BY <1>1 DEF Fold, FactsOK, NothingShown
<1>5. GhostsAreDown'
  <2>1. lastKeys' = DOMAIN facts \cup Kept(obs, showUdp)
    BY <1>1, <1>2 DEF Update, SeenKeys
  <2>2. ghosts' \subseteq (DOMAIN entries' \ DOMAIN facts) \cap Collected(showUdp)
    BY DEF Fold, StoppedRows
  <2> QED
    BY <2>1, <2>2 DEF GhostsAreDown, Kept
<1> QED
  BY <1>3, <1>4, <1>5

LEMMA CycleKeepsCInv ==
  ASSUME "warning" \in Statuses
  PROVE  CInv /\ [CycleNext]_cycleVars => CInv'
<1> SUFFICES ASSUME CInv, [CycleNext]_cycleVars PROVE CInv'
  OBVIOUS
<1>1. UNCHANGED vars => IInv'
  BY NextIInv DEF CInv
<1>2. UNCHANGED vars => UNCHANGED <<running, entries, lastKeys>>
  BY DEF vars, memory
<1>3. CASE Collect
  BY <1>1, <1>2, <1>3 DEF Collect, CInv, FactsOK, NothingShown, GhostsAreDown
<1>4. ASSUME NEW t \in Times, Fold(t) PROVE CInv'
  BY <1>4, FoldKeepsCInv
<1>5. CASE ToggleUdp
  BY <1>1, <1>2, <1>5 DEF ToggleUdp, CInv, FactsOK, NothingShown, GhostsAreDown
<1>6. CASE End
  <2>1. IInv'
    BY <1>6, EndKeepsIInv DEF End, CInv
  <2> QED
    BY <1>6, <2>1 DEF End, CInv, FactsOK, NothingShown, GhostsAreDown
<1>7. ASSUME NEW t \in Times, Open(t) PROVE CInv'
  <2>1. IInv'
    BY <1>7, StartKeepsIInv, TimesAhead DEF Open, CInv, IInv
  <2>2. phase' = "idle" /\ ghosts' = {} /\ showUdp' \in BOOLEAN
    BY <1>7 DEF Open, Start, CInv, NothingShown
  <2> QED
    BY <2>1, <2>2 DEF CInv, FactsOK, NothingShown, GhostsAreDown
<1>8. CASE UNCHANGED cycleVars
  BY <1>1, <1>2, <1>8 DEF cycleVars, cycle, CInv, FactsOK, NothingShown, GhostsAreDown
<1> QED
  BY <1>3, <1>4, <1>5, <1>6, <1>7, <1>8 DEF CycleNext

LEMMA InitCInv == CycleInit => CInv
<1>1. CycleInit => IInv
  BY InitIInv DEF CycleInit
<1> QED
  BY <1>1 DEF CycleInit, CInv, FactsOK, NothingShown, GhostsAreDown

THEOREM CycleInductive ==
  ASSUME "warning" \in Statuses
  PROVE  CycleSpec => []CInv
<1> QED
  BY InitCInv, CycleKeepsCInv, PTL DEF CycleSpec

-----------------------------------------------------------------------------
(* The results. *)

\* No port disappears in silence over whole refresh cycles, wherever UDP is
\* switched.
THEOREM CycleStopsAreTold ==
  ASSUME "warning" \in Statuses
  PROVE  CycleSpec => []NoSilentStop
<1>1. CInv => NoSilentStop
  BY DEF CInv, IInv
<1> QED
  BY CycleInductive, <1>1, PTL

\* The cycle neither forgets a port within the retention nor keeps one longer.
THEOREM CycleRemembers ==
  ASSUME "warning" \in Statuses
  PROVE  CycleSpec => []PortsRemembered
<1>1. CInv => PortsRemembered
  BY DEF CInv, IInv, MemoryRemembers, Remembers, PortsRemembered
<1> QED
  BY CycleInductive, <1>1, PTL

\* A stopped row is about a remembered port that does not count as up.
THEOREM StoppedRowsAreDown ==
  ASSUME "warning" \in Statuses
  PROVE  CycleSpec => []GhostsAreDown
<1>1. CInv => GhostsAreDown
  BY DEF CInv
<1> QED
  BY CycleInductive, <1>1, PTL

-----------------------------------------------------------------------------
(* Steady ports. *)

\* The entries after an update leave steady ports healthy.
LEMMA UpdateKeepsSteadyHealthy ==
  ASSUME TypeOK, ClocksOrdered, NEW t \in Nat, now < t,
         NEW obs, NEW udp, SteadyHealthy(entries), Update(obs, udp, t),
         \A k \in DOMAIN obs : RowsOK(obs[k]),
         \A k \in Steady \cap DOMAIN obs : Len(obs[k]) = 1 /\ obs[k][1].status = "healthy"
  PROVE  SteadyHealthy(entries')
<1>1. /\ DOMAIN entries' \subseteq DOMAIN entries \cup DOMAIN obs
      /\ \A k \in DOMAIN entries' : entries'[k] = Folded(obs, t)[k]
  BY DEF Update, Remembered
<1>2. \A k \in DOMAIN obs \cap DOMAIN entries' : entries'[k].health = obs[k][Len(obs[k])].status
  <2> SUFFICES ASSUME NEW k \in DOMAIN obs, k \in DOMAIN entries'
               PROVE  entries'[k].health = obs[k][Len(obs[k])].status
    OBVIOUS
  <2>1. entries'[k] = AfterRows(k, obs[k], t)
    BY <1>1 DEF Folded
  <2> QED
    BY <2>1, AfterRowsClock
<1>3. \A k \in DOMAIN entries' \ DOMAIN obs : entries'[k] = entries[k]
  BY <1>1 DEF Folded
<1> QED
  BY <1>1, <1>2, <1>3 DEF SteadyHealthy

LEMMA SavedKeepsSteadyHealthy ==
  ASSUME NEW es, NEW t, EntriesOK(es), SteadyHealthy(es)
  PROVE  SteadyHealthy(Saved(es, t).entries)
<1>1. \A e \in Entry : Trim(e).health = e.health
  BY DEF Trim, Entry
<1> QED
  BY <1>1 DEF Saved, EntriesOK, SteadyHealthy

\* A refresh for the protocols shown emits nothing about a steady port that
\* the events say is up.
LEMMA FoldIsQuiet ==
  ASSUME "warning" \in Statuses, 0 < RestartWarning, CInv, SInv,
         NEW t \in Times, Fold(t), NEW k \in Steady \cap announced
  PROVE  {ev \in emitted' : ev.key = k} = {}
<1> DEFINE obs == Analysed(facts, t)
<1>1. /\ emitted' = EmittedEvents(obs, showUdp, t)
      /\ facts \in Findings(showUdp)
  BY DEF Fold, Update, SInv
<1>2. k \in lastKeys /\ k \in DOMAIN entries /\ ~baseline /\ entries[k].health = "healthy"
  BY DEF CInv, IInv, NoSilentStop, NothingSeenYet, SInv, SteadyHealthy
<1>3. \A ev \in emitted' :
        \/ ev.key \in DOMAIN obs /\ \E i \in DOMAIN obs[ev.key] :
             ev.kind \in SeenKinds(ev.key, obs[ev.key], t, i)
        \/ ev.key \in Stopped(obs, showUdp)
  BY <1>1 DEF EmittedEvents, RowEvents, KindsOf, Event
<1>4. k \in Collected(showUdp) => k \in DOMAIN obs
  BY <1>1, FindingsAreListeners
<1>5. k \notin Stopped(obs, showUdp)
  BY <1>4 DEF Stopped, Missing
<1>6. k \in DOMAIN obs => \A i \in DOMAIN obs[k] : SeenKinds(k, obs[k], t, i) = {}
  <2> SUFFICES ASSUME k \in DOMAIN obs, NEW i \in DOMAIN obs[k]
               PROVE  SeenKinds(k, obs[k], t, i) = {}
    OBVIOUS
  <2>1. PICK rows : rows = obs[k]
    OBVIOUS
  <2>2. /\ RowsOK(rows) /\ Len(rows) = 1
        /\ rows[1].pids = {} /\ ~rows[1].conflict /\ rows[1].status = "healthy"
    BY <1>1, <2>1, FindingsAreListeners
  <2>3. i = 1
    BY <2>1, <2>2, RowsHave
  <2>4. Held(entries[k], rows, t, 1).health = "healthy"
    BY <1>2 DEF Held
  <2>5. RowChange(entries[k], rows, t, FALSE, baseline, 1) = "none"
    BY <2>2 DEF RowChange, PidChange
  <2>6. StatusChange(Held(entries[k], rows, t, 1).health, rows[1]) = "none"
    BY <2>2, <2>4 DEF StatusChange
  <2> QED
    BY <1>2, <2>1, <2>2, <2>3, <2>5, <2>6 DEF SeenKinds, RowKinds
<1> QED
  BY <1>3, <1>5, <1>6

LEMMA CycleKeepsSInv ==
  ASSUME "warning" \in Statuses, 0 < RestartWarning, ~ToggleInRefresh
  PROVE  CInv /\ SInv /\ [CycleNext]_cycleVars => SInv'
<1> SUFFICES ASSUME CInv, SInv, [CycleNext]_cycleVars PROVE SInv'
  OBVIOUS
<1>1. UNCHANGED vars => UNCHANGED <<entries, disk>>
  BY DEF vars, memory
<1>2. CASE Collect
  BY <1>1, <1>2 DEF Collect, SInv
<1>3. ASSUME NEW t \in Times, Fold(t) PROVE SInv'
  <2> DEFINE obs == Analysed(facts, t)
  <2>1. /\ \A k \in DOMAIN obs : RowsOK(obs[k])
        /\ \A k \in Steady \cap DOMAIN obs : Len(obs[k]) = 1 /\ obs[k][1].status = "healthy"
    BY <1>3, FindingsAreListeners DEF Fold, SInv
  <2>2. /\ Update(obs, showUdp, t) /\ SteadyHealthy(entries)
        /\ TypeOK /\ ClocksOrdered /\ t \in Nat /\ now < t
    BY <1>3, TimesAhead DEF Fold, SInv, CInv, IInv
  <2> HIDE DEF obs
  <2>3. SteadyHealthy(entries')
    BY <2>1, <2>2, UpdateKeepsSteadyHealthy
  <2>4. EntriesOK(entries')
    BY <1>3, FoldKeepsCInv DEF CInv, IInv, TypeOK
  <2>5. disk' = disk \/ disk' = Saved(entries', t)
    BY <1>3 DEF Fold, ThrottledSave, Write, NoWrite
  <2>6. SteadyHealthy(disk'.entries)
    BY <2>3, <2>4, <2>5, SavedKeepsSteadyHealthy DEF SInv
  <2> QED
    BY <1>3, <2>3, <2>6 DEF Fold, SInv
<1>4. CASE ToggleUdp
  BY <1>1, <1>4 DEF ToggleUdp, SInv
<1>5. CASE End
  <2>1. entries' = NoEntries /\ phase' = "idle"
    BY <1>5 DEF End, Close, Crash, Forget
  <2>2. disk' = disk \/ disk' = Saved(entries, now)
    BY <1>5 DEF End, Close, Crash
  <2>3. EntriesOK(entries)
    BY DEF CInv, IInv, TypeOK
  <2>4. SteadyHealthy(entries') /\ SteadyHealthy(disk'.entries)
    BY <2>1, <2>2, <2>3, SavedKeepsSteadyHealthy DEF SInv, NoEntries, SteadyHealthy
  <2> QED
    BY <2>1, <2>4 DEF SInv
<1>6. ASSUME NEW t \in Times, Open(t) PROVE SInv'
  <2>1. phase' = "idle" /\ disk' = disk
    BY <1>6 DEF Open, Start, CInv, NothingShown
  <2>2. /\ DOMAIN entries' \subseteq DOMAIN disk.entries
        /\ \A k \in DOMAIN entries' : entries'[k] = disk.entries[k]
    BY <1>6 DEF Open, Start
  <2> QED
    BY <2>1, <2>2 DEF SInv, SteadyHealthy
<1>7. CASE UNCHANGED cycleVars
  BY <1>1, <1>7 DEF cycleVars, cycle, SInv
<1> QED
  BY <1>2, <1>3, <1>4, <1>5, <1>6, <1>7 DEF CycleNext

\* One step of the cycle says nothing about a steady port.
QuietStep ==
  \A k \in Steady \cap announced :
    running' /\ now' # now => {ev \in emitted' : ev.key = k} = {}

LEMMA StepIsQuiet ==
  ASSUME "warning" \in Statuses, 0 < RestartWarning
  PROVE  CInv /\ SInv /\ [CycleNext]_cycleVars => [QuietStep]_cycleVars
<1> SUFFICES ASSUME CInv, SInv, CycleNext, NEW k \in Steady \cap announced,
                    running', now' # now
             PROVE  {ev \in emitted' : ev.key = k} = {}
  BY DEF QuietStep
<1>1. CASE Collect \/ ToggleUdp
  BY <1>1 DEF Collect, ToggleUdp, vars
<1>2. CASE End
  BY <1>2 DEF End, Close, Crash, Forget
<1>3. ASSUME NEW t \in Times, Fold(t) PROVE {ev \in emitted' : ev.key = k} = {}
  BY <1>3, FoldIsQuiet
<1>4. ASSUME NEW t \in Times, Open(t) PROVE FALSE
  BY <1>4 DEF Open, Start, CInv, IInv, NoMemory
<1> QED
  BY <1>1, <1>2, <1>3, <1>4 DEF CycleNext

\* A port that keeps listening makes no event while UDP is hidden and shown
\* between refreshes, over crashes, restarts and failed saves.
THEOREM SteadyPortsAreQuiet ==
  ASSUME "warning" \in Statuses, 0 < RestartWarning, ~ToggleInRefresh
  PROVE  CycleSpec => SteadyIsQuiet
<1>1. CycleInit => SInv
  BY DEF CycleInit, Init, SInv, SteadyHealthy, NoEntries
<1>2. SteadyIsQuiet <=> [][QuietStep]_cycleVars
  BY DEF SteadyIsQuiet, QuietStep
<1> QED
  BY <1>1, <1>2, CycleInductive, CycleKeepsSInv, StepIsQuiet, PTL DEF CycleSpec

=============================================================================
