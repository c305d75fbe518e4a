---------------------------- MODULE TopologyStore ----------------------------
(***************************************************************************)
(* The learned star map: how one refresh becomes a graph                   *)
(* (topology_build.py, topology.py) and what is remembered of it over      *)
(* refreshes, days, restarts and crashes (topology_store.py, the engine's  *)
(* calls, `lirts topology --clear`).                                       *)
(*                                                                         *)
(* A scene is what a refresh collected.  A row is [star, port, tcp, pids,  *)
(* live, kind, target]: the id of its star, NoStar for a docker proxy;     *)
(* kind is "local", "ssh" or "tunnel" and target the star a tunnel leads   *)
(* to.  An edge is [pid, client, port], client NoStar for a docker proxy;  *)
(* a route is [listen, upstream].  Labels, rates, aliases and statuses are *)
(* left out.  Time passes in ticks, TicksPerDay to a day.                  *)
(***************************************************************************)
EXTENDS Lists

CONSTANTS
  Scenes,       \* what a refresh may find
  Machine,      \* the star of this computer
  NoStar,
  KeptDays,     \* topology.days
  UsualDays,    \* topology.usual_days
  DaysKept,     \* DAYS_KEPT
  TicksPerDay,
  LastTick      \* bound: the ticks of a behaviour

ASSUME TopologyAssumption ==
  /\ {KeptDays, UsualDays, DaysKept, TicksPerDay} \subseteq Nat \ {0}
  /\ UsualDays <= DaysKept
  /\ LastTick \in Nat
  /\ \A s \in Scenes :
       /\ Len(s.rows) \in Nat /\ DOMAIN s.rows = 1..Len(s.rows)
       /\ \A i \in DOMAIN s.rows : s.rows[i].kind = "ssh" => s.rows[i].star # NoStar

VARIABLES
  mapUp,      \* an engine has the store open
  tick,
  learned,    \* TopologyStore.graph: a function on the stars and lines it knows
  mapDirty,   \* TopologyStore._dirty
  mapFile,    \* topology.json
  \* History variables.
  sighted,    \* per star or line: when it was found, on each day the last time
  sightedFile \* what of it was saved

sights == <<sighted, sightedFile>>
mapVars == <<mapUp, tick, learned, mapDirty, mapFile, sights>>

Day(t) == t \div TicksPerDay

-----------------------------------------------------------------------------
(* build_graph. *)

\* by_port and by_pid: the last row wins.
Owner(listeners, those) ==
  LET I == {i \in those : listeners[i].star # NoStar /\ listeners[i].kind # "ssh"}
  IN IF I = {} THEN NoStar ELSE listeners[Max(I)].star

ByPort(s, p) == Owner(s.rows, {i \in DOMAIN s.rows : s.rows[i].tcp /\ s.rows[i].port = p})
ByPid(s, p)  == Owner(s.rows, {i \in DOMAIN s.rows : p \in s.rows[i].pids})

RowStars(s) == {s.rows[i].star : i \in DOMAIN s.rows} \ {NoStar}

Sessions(s) ==
  {<<Machine, s.rows[i].star, "session">> : i \in {j \in DOMAIN s.rows : s.rows[j].kind = "ssh"}}

\* The end a connection starts from: the row of its process or a star of its own.
Source(s, e) == IF ByPid(s, e.pid) # NoStar THEN ByPid(s, e.pid) ELSE e.client

Connected(s) == {e \in s.edges : ByPort(s, e.port) # NoStar /\ Source(s, e) # NoStar}

\* _add_connections: a service that talks to itself draws no line.
Connections(s) ==
  {<<Source(s, e), ByPort(s, e.port), "connects">> : e \in
     {f \in Connected(s) : Source(s, f) # ByPort(s, f.port)}}

Clients(s) == {Source(s, e) : e \in Connected(s)}

\* _add_routes.
RouteLines(s) ==
  {<<ByPort(s, r.listen), ByPort(s, r.upstream), "proxies">> : r \in
     {q \in s.routes : /\ NoStar \notin {ByPort(s, q.listen), ByPort(s, q.upstream)}
                       /\ ByPort(s, q.listen) # ByPort(s, q.upstream)}}

\* _add_tunnels.
TunnelRows(s) ==
  {r \in {s.rows[i] : i \in DOMAIN s.rows} : r.kind = "tunnel" /\ ByPort(s, r.port) # NoStar}

Tunnels(s) == {<<ByPort(s, r.port), r.target, "tunnels">> : r \in TunnelRows(s)}

\* A star is <<id>>, a line <<id, id, kind>>.
Stars(s) == {<<n>> : n \in {Machine} \cup RowStars(s) \cup Clients(s) \cup s.cluster
                            \cup {r.target : r \in TunnelRows(s)}}
Lines(s) == Sessions(s) \cup Connections(s) \cup RouteLines(s) \cup Tunnels(s)

\* add_node keeps the first node under an id, and with it whether it is live.
StarLive(s, n) ==
  LET I == {i \in DOMAIN s.rows : <<s.rows[i].star>> = n}
  IN I = {} \/ s.rows[Min(I)].live

-----------------------------------------------------------------------------
(* The learned graph. *)

Ends(l) == {<<l[1]>>, <<l[2]>>}
AllLines == UNION {Lines(s) : s \in Scenes}
AllStars == UNION {Stars(s) : s \in Scenes}

\* prune: what was not seen for KeptDays goes, and the lines of a star that went.
PrunedMap(g, t) ==
  LET recent == {x \in DOMAIN g : g[x].last >= t - KeptDays * TicksPerDay}
  IN Restrict(g, {x \in recent : x \in AllLines => Ends(x) \subseteq recent})

Idle(g) == [x \in DOMAIN g |-> [g[x] EXCEPT !.live = FALSE]]

\* _mark_day: only the newest DaysKept days are kept.
MarkDay(days, t) ==
  LET all == days \cup {Day(t)}
  IN {d \in all : Cardinality({e \in all : e > d}) < DaysKept}

\* observe: everything in the scene is seen now, all else goes idle.
Seen(g, s, t) ==
  LET found == Stars(s) \cup Lines(s)
      nowSeen(x) == LET days == MarkDay(IF x \in DOMAIN g THEN g[x].days ELSE {}, t)
                 IN [last |-> t, days |-> days, usual |-> Cardinality(days) >= UsualDays,
                     live |-> x \in AllLines \/ StarLive(s, x)]
  IN Merged([x \in found |-> nowSeen(x)], Idle(g))

\* What a reader remembers: what was found, until it is not found for KeptDays.
Recall(h, t) ==
  [x \in DOMAIN h |-> IF \E u \in h[x] : u >= t - KeptDays * TicksPerDay THEN h[x] ELSE {}]

Unsighted == [x \in AllStars \cup AllLines |-> {}]

Sight(h, s, t) ==
  [x \in DOMAIN h |-> IF x \in Stars(s) \cup Lines(s) THEN {u \in h[x] : Day(u) # Day(t)} \cup {t} ELSE h[x]]

\* refresh: build_graph, observe and a save, which may be throttled or fail.
ObserveScene(s, saves) ==
  /\ mapUp
  /\ learned' = PrunedMap(Seen(learned, s, tick), tick)
  /\ sighted' = Recall(Sight(sighted, s, tick), tick)
  /\ mapDirty' = ~saves
  /\ mapFile' = IF saves THEN learned' ELSE mapFile
  /\ sightedFile' = IF saves THEN sighted' ELSE sightedFile
  /\ UNCHANGED <<mapUp, tick>>

\* load: nothing is live until a refresh sees it; what is too old is forgotten.
StartMap ==
  /\ ~mapUp
  /\ mapUp' = TRUE
  /\ learned' = PrunedMap(Idle(mapFile), tick)
  /\ mapDirty' = (DOMAIN learned' # DOMAIN mapFile)
  /\ sighted' = Recall(sightedFile, tick)
  /\ UNCHANGED <<tick, mapFile, sightedFile>>

\* close saves whatever there is.
CloseMap(ok) ==
  /\ mapUp
  /\ mapUp' = FALSE
  /\ mapFile' = IF ok THEN learned ELSE mapFile
  /\ sightedFile' = IF ok THEN sighted ELSE sightedFile
  /\ UNCHANGED <<tick, learned, mapDirty, sighted>>

CrashMap ==
  /\ mapUp
  /\ mapUp' = FALSE
  /\ UNCHANGED <<tick, learned, mapDirty, mapFile, sights>>

\* lirts topology --clear: an engine of its own loads the file, forgets it and
\* saves an empty map when it closes.  While a daemon runs the command attaches
\* to it instead, and clears a temporary directory: nothing happens.
ClearMap(ok) ==
  /\ ~mapUp
  /\ mapFile' = IF ok THEN <<>> ELSE mapFile
  /\ sightedFile' = IF ok THEN Unsighted ELSE sightedFile
  /\ UNCHANGED <<mapUp, tick, learned, mapDirty, sighted>>

TickMap ==
  /\ tick < LastTick
  /\ tick' = tick + 1
  /\ UNCHANGED <<mapUp, learned, mapDirty, mapFile, sights>>

MapInit ==
  /\ mapUp = FALSE /\ tick = 0
  /\ learned = <<>> /\ mapFile = <<>>
  /\ mapDirty = FALSE
  /\ sighted = Unsighted /\ sightedFile = Unsighted

MapNext ==
  \/ \E s \in Scenes, saves \in BOOLEAN : ObserveScene(s, saves)
  \/ StartMap \/ CrashMap \/ TickMap
  \/ \E ok \in BOOLEAN : CloseMap(ok) \/ ClearMap(ok)

MapSpec == MapInit /\ [][MapNext]_mapVars

-----------------------------------------------------------------------------
\* The type of every variable; a known line always has both its ends, in memory
\* and in the file (prune, after a load as after every refresh).
MapTypeOK ==
  /\ mapUp \in BOOLEAN /\ mapDirty \in BOOLEAN /\ tick \in 0..LastTick
  /\ \A g \in {learned, mapFile} :
       /\ DOMAIN g \subseteq AllStars \cup AllLines
       /\ \A l \in DOMAIN g \cap AllLines : Ends(l) \subseteq DOMAIN g
       /\ \A x \in DOMAIN g : g[x].last \in 0..LastTick /\ g[x].live \in BOOLEAN

\* "One seen on usual_days different days is usual" (topology_store.py:5): over
\* saves, restarts and crashes a star or line is known exactly while its last
\* sighting is not too old, whether or not a star it needs is pruned, and is usual
\* exactly when it was found on that many days since it was first known, however
\* few of the days are kept.
UsualIsEarned ==
  mapUp =>
  \A x \in DOMAIN sighted :
    /\ x \in DOMAIN learned <=> sighted[x] # {}
    /\ x \in DOMAIN learned =>
         (learned[x].usual <=> Cardinality({Day(u) : u \in sighted[x]}) >= UsualDays)

=============================================================================
