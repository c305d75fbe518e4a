----------------------------- MODULE HttpProber -----------------------------
(***************************************************************************)
(* The silent HTTP probing of a refresh: collectors/http.py.               *)
(*                                                                         *)
(* Probes of one refresh run next to each other while processes come and   *)
(* go, some of them other users', whose number lirts does not see.  A      *)
(* process number is never used twice.  Abstracted: the wording of an      *)
(* error (garbage stands for every answer that is not HTTP), headers and   *)
(* pages, the roles that need no probe (SkipPorts stands for them too); a  *)
(* port has one row.                                                       *)
(***************************************************************************)
EXTENDS Lists

CONSTANTS
  ProbePorts,    \* TCP ports
  SkipPorts,     \* http_probe.skip_ports and ports whose role needs no probe
  ForcePorts,    \* http_probe.force_ports
  TlsPorts,      \* TLS_PORTS: asked by https first
  ProbeInterval, \* http_probe.interval
  LastServer,    \* bound: the processes of a behaviour
  LastProbeTime  \* bound: the last clock reading

Speeches == {"http", "https", "other", "silent"}
NotAttempted == [got |-> "none", by |-> 0, at |-> 0]
Nobody == [of |-> 0, pid |-> 0, probe |-> NotAttempted]

ASSUME ProberAssumption ==
  /\ ProbeInterval \in Nat /\ LastServer \in Nat /\ LastProbeTime \in Nat \ {0}

VARIABLES
  clock,
  server,    \* the process on each port, 0 when it is closed
  hidden,    \* whether lirts cannot see the number of the process of each port
  speech,    \* how the process of each port answers now
  started,
  seenRow,   \* the rows of the refresh under way: Listener.pid (0: None), the probe,
             \* and the process that was there (0: no row), which lirts need not know
  due,       \* the ports whose probe is not finished
  probes,    \* HttpProber._cache
  garbled    \* HttpProber._extra_skip

ports == <<server, hidden, speech, started>>
proberVars == <<clock, ports, seenRow, due, probes, garbled>>

-----------------------------------------------------------------------------
Serve(p, how, unseen) ==
  /\ started < LastServer
  /\ started' = started + 1
  /\ server' = [server EXCEPT ![p] = started']
  /\ hidden' = [hidden EXCEPT ![p] = unseen]
  /\ speech' = [speech EXCEPT ![p] = how]
  /\ UNCHANGED <<clock, seenRow, due, probes, garbled>>

Shut(p) ==
  /\ server[p] # 0
  /\ server' = [server EXCEPT ![p] = 0]
  /\ UNCHANGED <<clock, hidden, speech, started, seenRow, due, probes, garbled>>

TickProbe ==
  /\ clock < LastProbeTime
  /\ clock' = clock + 1
  /\ UNCHANGED <<ports, seenRow, due, probes, garbled>>

-----------------------------------------------------------------------------
\* _cache_key: `listener.pid or 0`.  A process of its own has an entry of its own; those
\* lirts does not know share the one with number 0.
CacheKey(p, pid) == <<p, pid>>

\* should_probe.
ShouldProbe(p, pid) ==
  p \in ForcePorts \/ (p \notin SkipPorts /\ CacheKey(p, pid) \notin garbled)

Stored(p, pid) == IF CacheKey(p, pid) \in DOMAIN probes THEN probes[CacheKey(p, pid)] ELSE NotAttempted

Recent(p, pid) == /\ CacheKey(p, pid) \in DOMAIN probes
                  /\ clock - Stored(p, pid).at < ProbeInterval

\* enrich: what needs no probe keeps a "not HTTP" only, what was probed within
\* the interval is attached, all else is due.
KnownPid(p) == IF hidden[p] THEN 0 ELSE server[p]

EnrichStart ==
  /\ due = {}
  /\ LET attached(p, pid) ==
           IF ~ShouldProbe(p, pid)
             THEN IF Stored(p, pid).got = "not HTTP" THEN Stored(p, pid) ELSE NotAttempted
             ELSE IF Recent(p, pid) THEN Stored(p, pid) ELSE NotAttempted
     IN seenRow' = [p \in ProbePorts |->
                      IF server[p] = 0 THEN Nobody
                      ELSE [of |-> server[p], pid |-> KnownPid(p), probe |-> attached(p, KnownPid(p))]]
  /\ due' = {p \in ProbePorts : server[p] # 0 /\ ShouldProbe(p, KnownPid(p)) /\ ~Recent(p, KnownPid(p))}
  /\ UNCHANGED <<clock, ports, probes, garbled>>

\* _request: how the process that is there now answers a scheme.
Reply(p, scheme) ==
  IF server[p] = 0 THEN "refused"
  ELSE IF speech[p] = scheme THEN "ok"
  ELSE IF speech[p] = "silent" THEN "timeout"
  ELSE "garbage"

\* probe: the other scheme is tried after garbage only.
Outcome(p) ==
  LET first  == IF p \in TlsPorts THEN "https" ELSE "http"
      second == IF first = "http" THEN "https" ELSE "http"
  IN IF Reply(p, first) # "garbage" THEN Reply(p, first)
     ELSE IF Reply(p, second) # "garbage" THEN Reply(p, second)
     ELSE "not HTTP"

\* The last probe of a refresh that has due ports prunes what is not listed.
Listed(keys) == {k \in keys : \E p \in ProbePorts : seenRow[p].of # 0 /\ k = CacheKey(p, seenRow[p].pid)}

Probe(p) ==
  /\ p \in due
  /\ due' = due \ {p}
  /\ LET result == [got |-> Outcome(p), by |-> server[p], at |-> clock]
         key == CacheKey(p, seenRow[p].pid)
         all == Noted(probes, key, result)
         bad == garbled \cup (IF Outcome(p) = "not HTTP" THEN {key} ELSE {})
     IN /\ seenRow' = [seenRow EXCEPT ![p].probe = result]
        /\ probes' = IF due' = {} THEN Restrict(all, Listed(DOMAIN all)) ELSE all
        /\ garbled' = IF due' = {} THEN Listed(bad) ELSE bad
  /\ UNCHANGED <<clock, ports>>

ProberInit ==
  /\ clock = 1 /\ started = 0
  /\ server = [p \in ProbePorts |-> 0] /\ hidden = [p \in ProbePorts |-> FALSE]
  /\ speech = [p \in ProbePorts |-> "http"]
  /\ seenRow = [p \in ProbePorts |-> Nobody]
  /\ due = {} /\ probes = <<>> /\ garbled = {}

ProberNext ==
  \/ \E p \in ProbePorts : (\E how \in Speeches, unseen \in BOOLEAN : Serve(p, how, unseen)) \/ Shut(p) \/ Probe(p)
  \/ EnrichStart
  \/ TickProbe

ProberSpec == ProberInit /\ [][ProberNext]_proberVars

-----------------------------------------------------------------------------
\* The type of every variable; once the probes are over, the caches hold listed
\* rows only if there was anything to ask.
ProberTypeOK ==
  /\ clock \in 1..LastProbeTime /\ started \in 0..LastServer
  /\ server \in [ProbePorts -> 0..LastServer] /\ hidden \in [ProbePorts -> BOOLEAN]
  /\ speech \in [ProbePorts -> Speeches]
  /\ due \subseteq {p \in ProbePorts : seenRow[p].of # 0}
  /\ DOMAIN probes \cup garbled \subseteq ProbePorts \X (0..LastServer)

\* The answer beside a known process is its own; only one that was replaced while its
\* probe was under way has the answer of its successor, and does not serve any more.
OwnAnswer(p, pid, probe) ==
  pid # 0 => \/ probe.by \in {0, pid}
             \/ probe.by > pid /\ server[p] # pid

\* "Results are cached per (port, pid)" (http.py:5): whatever the probes and the processes
\* do meanwhile, a row whose process is known never shows what an earlier process
\* answered, nor, while that process serves, what any other did; and no row is left
\* unasked but for an answer that was not HTTP.
FreshProbe ==
  \A p \in ProbePorts :
    /\ OwnAnswer(p, seenRow[p].pid, seenRow[p].probe)
    /\ (seenRow[p].of # 0 /\ p \notin due /\ ~ShouldProbe(p, seenRow[p].pid) /\ p \notin SkipPorts)
         => seenRow[p].probe.got = "not HTTP"

\* http.py:5-6: "a restarted service is re-probed immediately": no row shows what an earlier
\* process answered.  Those that lirts does not know share one entry, and do.
\* TLC refutes this; it has no run of its own (README, section 5).
RestartIsProbed ==
  \A p \in ProbePorts : seenRow[p].probe.by # 0 => seenRow[p].probe.by >= seenRow[p].of

=============================================================================
