------------------------------ MODULE PortMemory ------------------------------
(***************************************************************************)
(* What lirts remembers about who holds a port (ports.py), built anew in   *)
(* every refresh out of the map and the history, and the insights it leads *)
(* to (insights_ports.py).                                                 *)
(*                                                                         *)
(* A holder is a service and its project.  Abstracted: what the history    *)
(* and the map forget with time, who supervises a process and whose parent *)
(* is gone (a local holder is left over or not), wording.                  *)
(***************************************************************************)
EXTENDS Integers, FiniteSets, SequencesExt

CONSTANTS
  MemoryPorts,
  Holders,       \* those there are: [service, project], project "none" if there is none
  Slashed,       \* the services whose name holds a slash: what is <<before, after>> it
  PortUsualDays,     \* PORT_USUAL_MIN_DAYS
  UsualRefreshes,\* PORT_USUAL_MIN_REFRESHES
  ServicesKept,  \* ENTRY_SERVICES_KEPT
  LastMemoryDay, LastRefresh  \* bounds: days, and refreshes of a behaviour

ASSUME MemoryAssumption ==
  /\ {PortUsualDays, ServicesKept, LastMemoryDay, LastRefresh} \subseteq Nat \ {0}
  /\ UsualRefreshes \in Nat

VARIABLES
  holds,      \* per port who holds it now, Nobody if it is free
  memoryDay,
  refreshes,  \* how many refreshes there were
  seenOn,     \* HistoryEntry.services_seen of each port: labels with their counts, oldest first
  stars,      \* the map: per holder the days it was seen on, the ports it had last
  warnings,   \* the last refresh: the port memory's insights, whom each is about, its day
  held        \* history: per port and label in how many refreshes

memoryVars == <<holds, memoryDay, refreshes, seenOn, stars, warnings, held>>

NoHolder == [service |-> "Unknown", project |-> "none"]

-----------------------------------------------------------------------------
(* Labels: holder_label writes project/service, or the service alone.  A     *)
(* label is the holder that is read back from it.                            *)

\* split_label: what is before the first slash is the project.
SplitLabel(h) ==
  IF h.project = "none" /\ h.service \in DOMAIN Slashed
  THEN [service |-> Slashed[h.service][2], project |-> Slashed[h.service][1]]
  ELSE h

Labels == {SplitLabel(h) : h \in Holders}

\* note_service: one more refresh for the label; past the cap the rarest goes,
\* the oldest of those.
NoteService(counts, label) ==
  LET more == IF \E i \in DOMAIN counts : counts[i].who = label
              THEN [i \in DOMAIN counts |->
                      [counts[i] EXCEPT !.n = IF counts[i].who = label THEN @ + 1 ELSE @]]
              ELSE Append(counts, [who |-> label, n |-> 1])
      rarest == CHOOSE i \in DOMAIN more : \A j \in DOMAIN more :
                  more[i].n < more[j].n \/ (more[i].n = more[j].n /\ i <= j)
  IN IF Len(more) <= ServicesKept THEN more ELSE RemoveAt(more, rarest)

-----------------------------------------------------------------------------
(* PortMemory, of the stars and the entries there are when a refresh begins. *)

\* build: a star that has the port counts with all its days, an entry with the
\* refreshes it counted there.
Days(p, h) == IF h \in DOMAIN stars /\ p \in stars[h].ports THEN Cardinality(stars[h].days) ELSE 0

Refreshes(p, h) ==
  LET counts == {i \in DOMAIN seenOn[p] : seenOn[p][i].who = h}
  IN IF counts = {} THEN 0 ELSE seenOn[p][CHOOSE i \in counts : TRUE].n

Remembered(p) ==
  {h \in DOMAIN stars : p \in stars[h].ports} \cup {e.who : e \in Range(seenOn[p])}

\* is_usual.
IsUsual(p, h, young) == Days(p, h) >= PortUsualDays \/ (young /\ Refreshes(p, h) > UsualRefreshes)

\* strength: the days, then the refreshes, then the newest (which of two is
\* newer is left open).
Stronger(p, a, b) ==
  Days(p, a) > Days(p, b) \/ (Days(p, a) = Days(p, b) /\ Refreshes(p, a) > Refreshes(p, b))

\* usual: the best known of those that are usual.
Usual(p, young) ==
  LET U == {h \in Remembered(p) : IsUsual(p, h, young)}
  IN {h \in U : \A g \in U : ~Stronger(p, g, h)}

\* also_used_by: other projects that usually have the port.
AlsoUsedBy(p, top, young) ==
  {h \in Remembered(p) \ {top} : h.project # top.project /\ IsUsual(p, h, young)}

\* _squatter: somebody else has the port.
Squatter(p, top) ==
  IF holds[p] = NoHolder \/ top = holds[p] THEN {}
  ELSE {[code |-> "squatter", port |-> p, usual |-> top, on |-> memoryDay]}

\* _shared_projects.
SharedProjects(p, top, young) ==
  {[code |-> "port-shared-projects", port |-> p, usual |-> h, on |-> memoryDay] :
     h \in {g \in AlsoUsedBy(p, top, young) : g.project # holds[p].project}}

\* port_memory_insights: a port nobody holds has no row that listens.
Insights(p, young) ==
  IF holds[p] = NoHolder THEN {{}}
  ELSE IF Usual(p, young) = {} THEN {{}}
  ELSE {Squatter(p, top) \cup SharedProjects(p, top, young) : top \in Usual(p, young)}

-----------------------------------------------------------------------------
\* A machine is young for 24 hours from the first thing that was seen on it: on
\* the day after, it may be young still.
Young == IF memoryDay = 1 THEN {TRUE} ELSE IF memoryDay = 2 THEN BOOLEAN ELSE {FALSE}

\* HistoryStore.update and TopologyStore.observe after the insights: a star has
\* the ports of this refresh, or those of the last it was seen in.
Observed ==
  LET here == {h \in Holders : \E p \in MemoryPorts : holds[p] = h}
      days(h) == IF h \in DOMAIN stars THEN stars[h].days ELSE {}
  IN [h \in here \cup DOMAIN stars |->
        IF h \in here THEN [days |-> days(h) \cup {memoryDay}, ports |-> {p \in MemoryPorts : holds[p] = h}]
        ELSE stars[h]]

RefreshMemory ==
  /\ refreshes < LastRefresh
  /\ refreshes' = refreshes + 1
  /\ \E young \in Young : \E found \in [MemoryPorts -> UNION {Insights(p, young) : p \in MemoryPorts}] :
       /\ \A p \in MemoryPorts : found[p] \in Insights(p, young)
       /\ warnings' = UNION {found[p] : p \in MemoryPorts}
  /\ seenOn' = [p \in MemoryPorts |->
                  IF holds[p] = NoHolder THEN seenOn[p] ELSE NoteService(seenOn[p], SplitLabel(holds[p]))]
  /\ held' = [p \in MemoryPorts |-> [h \in Labels |-> held[p][h] + IF SplitLabel(holds[p]) = h THEN 1 ELSE 0]]
  /\ stars' = Observed
  /\ UNCHANGED <<holds, memoryDay>>

\* What happens on the machine.
TakesPort(p, h) ==
  /\ holds[p] # h
  /\ holds' = [holds EXCEPT ![p] = h]
  /\ UNCHANGED <<memoryDay, refreshes, seenOn, stars, warnings, held>>

MemoryDayPasses ==
  /\ memoryDay < LastMemoryDay
  /\ memoryDay' = memoryDay + 1
  /\ UNCHANGED <<holds, refreshes, seenOn, stars, warnings, held>>

MemoryInit ==
  /\ holds = [p \in MemoryPorts |-> NoHolder] /\ memoryDay = 1 /\ refreshes = 0
  /\ seenOn = [p \in MemoryPorts |-> <<>>] /\ stars = <<>> /\ warnings = {}
  /\ held = [p \in MemoryPorts |-> [h \in Labels |-> 0]]

MemoryNext ==
  \/ RefreshMemory \/ MemoryDayPasses
  \/ \E p \in MemoryPorts, h \in Holders \cup {NoHolder} : TakesPort(p, h)

MemorySpec == MemoryInit /\ [][MemoryNext]_memoryVars

-----------------------------------------------------------------------------
\* The type of every variable; the counts of an entry stay below its cap.
MemoryTypeOK ==
  /\ holds \in [MemoryPorts -> Holders \cup {NoHolder}]
  /\ memoryDay \in 1..LastMemoryDay /\ refreshes \in 0..LastRefresh
  /\ \A p \in MemoryPorts : Len(seenOn[p]) <= ServicesKept
  /\ \A h \in DOMAIN stars : stars[h].days \subseteq 1..memoryDay /\ stars[h].ports \subseteq MemoryPorts

\* Who is said to have a port usually was seen on several days, or had that
\* very port in many refreshes of the first day: one look at a service makes it
\* no usual holder, whatever the cap of the counts forgot (ports.py:186).
UsualIsKnown ==
  \A w \in warnings :
    \/ w.usual \in DOMAIN stars /\ Cardinality(stars[w.usual].days) >= PortUsualDays
    \/ w.usual \in Labels /\ held[w.port][w.usual] > UsualRefreshes /\ w.on <= 2

\* The label of a holder, read back, is the holder (ports.py:49): a port that
\* had one holder ever is not reported as taken from another.
\* TLC refutes this; it has no run of its own (README, section 5).
OwnPortIsNotSquatted ==
  \A w \in warnings : w.code = "squatter" =>
    Cardinality({h \in Labels : held[w.port][h] > 0}) > 1

=============================================================================
