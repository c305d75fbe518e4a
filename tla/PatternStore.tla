---------------------------- MODULE PatternStore ----------------------------
(***************************************************************************)
(* The long-term memory of recurring issues: patterns.py, and what the     *)
(* engine does with it when it is built, refreshes and closes              *)
(* (engine/base.py, engine/pipeline.py).                                   *)
(*                                                                         *)
(* A tally per port, kind and day.  Only the events a refresh returns are  *)
(* counted; an engine that finds no patterns learns from the event log.    *)
(* Abstracted: services, samples and timestamps of a pattern, wording, and *)
(* the throttle of the saves (whether the interval is over is a choice).   *)
(* A second process, `lirts patterns --clear`, empties the file.           *)
(***************************************************************************)
EXTENDS Integers, FiniteSets

CONSTANTS
  PatternPorts,  \* "port/PROTO" keys
  PatternDays,   \* insights.pattern_days
  SeenLimit,     \* PATTERN_SEEN_LIMIT
  SeenKeep,      \* PATTERN_SEEN_KEEP
  LastDay,       \* bound: the days of a behaviour
  LastIssue      \* bound: the events of a behaviour

\* Some of the kinds that are counted, one that is not ("started").
CountedKinds == {"conflict", "killed"}
IssueKinds == CountedKinds \cup {"started"}
Issues == [id: 1..LastIssue, port: PatternPorts, kind: IssueKinds, day: 1..LastDay]

ASSUME PatternAssumption ==
  /\ PatternDays \in Nat \ {0}
  /\ SeenLimit \in Nat /\ SeenKeep \in 1..SeenLimit
  /\ LastDay \in Nat \ {0} /\ LastIssue \in Nat

VARIABLES
  engineUp,      \* an engine has the stores open
  today,
  issues,        \* the events there have been
  issueLog,      \* HistoryStore.events
  issueFile,     \* the events of history.json
  tally,         \* PatternStore.patterns
  counted,          \* PatternStore._seen
  tallyDirty,    \* PatternStore._dirty
  tallyFile,     \* patterns.json
  \* History variables.
  unsaved,       \* events counted since patterns.json was written
  forgotten      \* events that a crash or a clear took out of the tally

stores == <<issueLog, tally, counted, tallyDirty>>
patternVars == <<engineUp, today, issues, stores, issueFile, tallyFile, unsaved, forgotten>>

Nothing == [pk \in PatternPorts \X CountedKinds |-> [d \in 1..LastDay |-> 0]]

\* classify: the kinds that are worth counting.
Classified(e) == e.kind \in CountedKinds

\* prune: the days that fell out of the window, by the midnight they began.
InWindow(d) == d > today - PatternDays

Pruned(t) == [pk \in DOMAIN t |-> [d \in 1..LastDay |-> IF InWindow(d) THEN t[pk][d] ELSE 0]]

\* ingest: every event whose stamp is new adds one to its day.
Counting(t, found) ==
  [pk \in DOMAIN t |-> [d \in 1..LastDay |->
     t[pk][d] + Cardinality({e \in found : e.port = pk[1] /\ e.kind = pk[2] /\ e.day = d})]]

Fresh(found, stamps) == {e \in found : Classified(e) /\ e.id \notin stamps}

\* Mutant: every stamp is kept.
EveryStamp(s) == s

\* Only the newest stamps are kept once there are too many.
Stamps(s) ==
  IF Cardinality(s) <= SeenLimit THEN s
  ELSE {i \in s : Cardinality({j \in s : j > i}) < SeenKeep}

Ingested(t, found, stamps) == Pruned(Counting(t, Fresh(found, stamps)))

\* _dirty is set by an event that counts and by a pattern that goes, not by a
\* day that goes.
Known(t) == {pk \in DOMAIN t : \E d \in 1..LastDay : t[pk][d] > 0}

Dirtied(t, fresh) == fresh # {} \/ Known(Pruned(t)) # Known(t)

\* Mutant: every start counts the log again.
LearnedAlways(t) == Ingested(t, issueFile, {})

\* EngineBase.__init__: without patterns, what the event log still tells.
Learned(t) == IF t = Nothing THEN Ingested(t, issueFile, {}) ELSE t

-----------------------------------------------------------------------------
\* load and the engine's first look at the log.
StartPatterns ==
  /\ ~engineUp
  /\ engineUp' = TRUE
  /\ issueLog' = issueFile
  /\ LET read == Pruned(tallyFile)
     IN /\ tally' = Learned(read)
        /\ counted' = IF read = Nothing THEN Stamps({e.id : e \in Fresh(issueFile, {})}) ELSE {}
        /\ tallyDirty' = Dirtied(tallyFile, IF read = Nothing THEN Fresh(issueFile, {}) ELSE {})
  /\ UNCHANGED <<today, issues, issueFile, tallyFile, unsaved, forgotten>>

\* save: the file holds the tally; a write that fails leaves the store dirty.
WritePatterns(ok) ==
  /\ tallyFile' = IF ok THEN tally' ELSE tallyFile
  /\ tallyDirty' = ~ok
  /\ unsaved' = IF ok THEN {} ELSE unsaved \cup (issues' \ issues)

\* refresh: the events of HistoryStore.update are counted and saved; history.save
\* follows.
RefreshPatterns(found, timely, ok, logSaved) ==
  /\ engineUp
  /\ issues' = issues \cup found
  /\ issueLog' = issueLog \cup found
  /\ counted' = Stamps(counted \cup {e.id : e \in Fresh(found, counted)})
  /\ tally' = Ingested(tally, found, counted)
  /\ LET dirty == tallyDirty \/ Dirtied(Counting(tally, Fresh(found, counted)), Fresh(found, counted))
     IN IF timely /\ dirty THEN WritePatterns(ok)
        ELSE /\ tallyDirty' = dirty
             /\ unsaved' = unsaved \cup found
             /\ UNCHANGED tallyFile
  /\ issueFile' = IF logSaved THEN issueLog' ELSE issueFile
  /\ UNCHANGED <<engineUp, today, forgotten>>

\* HistoryStore.note for a kill or restart in lirts: an event that no refresh
\* returns.
NotePattern(e) ==
  /\ engineUp
  /\ issues' = issues \cup {e}
  /\ issueLog' = issueLog \cup {e}
  /\ UNCHANGED <<engineUp, today, issueFile, tally, counted, tallyDirty, tallyFile, unsaved, forgotten>>

\* close: both stores are saved, whatever the throttle says.
ClosePatterns(ok, logSaved) ==
  /\ engineUp
  /\ engineUp' = FALSE
  /\ tallyFile' = IF ok THEN tally ELSE tallyFile
  /\ issueFile' = IF logSaved THEN issueLog ELSE issueFile
  /\ forgotten' = IF ok THEN forgotten ELSE forgotten \cup unsaved
  /\ unsaved' = {}
  /\ UNCHANGED <<today, issues, stores>>

CrashPatterns ==
  /\ engineUp
  /\ engineUp' = FALSE
  /\ forgotten' = forgotten \cup unsaved
  /\ unsaved' = {}
  /\ UNCHANGED <<today, issues, stores, issueFile, tallyFile>>

NextDay ==
  /\ today < LastDay
  /\ today' = today + 1
  /\ UNCHANGED <<engineUp, issues, stores, issueFile, tallyFile, unsaved, forgotten>>

\* lirts patterns --clear: a process of its own empties the file; an engine that
\* runs keeps its tally and saves it again.
ClearCommand(ok) ==
  /\ tallyFile' = IF ok THEN Nothing ELSE tallyFile
  /\ forgotten' = IF ok THEN forgotten \cup issues ELSE forgotten
  /\ UNCHANGED <<engineUp, today, issues, stores, issueFile, unsaved>>

\* What may happen next on a port today.
Issue(p, k) == [id |-> Cardinality(issues) + 1, port |-> p, kind |-> k, day |-> today]

PatternInit ==
  /\ engineUp = FALSE /\ today = 1
  /\ issues = {} /\ issueLog = {} /\ issueFile = {}
  /\ tally = Nothing /\ counted = {} /\ tallyDirty = FALSE /\ tallyFile = Nothing
  /\ unsaved = {} /\ forgotten = {}

PatternNext ==
  \/ StartPatterns
  \/ \E timely, ok, logSaved \in BOOLEAN : RefreshPatterns({}, timely, ok, logSaved)
  \/ /\ Cardinality(issues) < LastIssue
     /\ \E p \in PatternPorts :
          \/ \E k \in {"conflict", "started"}, timely, ok, logSaved \in BOOLEAN :
               RefreshPatterns({Issue(p, k)}, timely, ok, logSaved)
          \/ NotePattern(Issue(p, "killed"))
  \/ \E ok, logSaved \in BOOLEAN : ClosePatterns(ok, logSaved)
  \/ \E ok \in BOOLEAN : ClearCommand(ok)
  \/ CrashPatterns
  \/ NextDay

PatternSpec == PatternInit /\ [][PatternNext]_patternVars

-----------------------------------------------------------------------------
\* The type of every variable; a pattern is only there while a day of it is.
PatternTypeOK ==
  /\ engineUp \in BOOLEAN /\ tallyDirty \in BOOLEAN /\ today \in 1..LastDay
  /\ UNION {issues, issueLog, issueFile, unsaved, forgotten} \subseteq Issues
  /\ {tally, tallyFile} \subseteq
       [PatternPorts \X CountedKinds -> [1..LastDay -> 0..LastIssue]]
  /\ counted \subseteq 1..LastIssue /\ Cardinality(counted) <= SeenLimit

Of(es, p, k, d) == {e \in es : e.port = p /\ e.kind = k /\ e.day = d}

\* Over restarts, crashes and failed saves no event is counted twice, and none
\* of the window that a refresh found is missing unless its engine ended before
\* patterns.json was written again (ingest and the learning of a start).
CountedOnce ==
  engineUp =>
  \A p \in PatternPorts, d \in 1..LastDay :
    /\ \A k \in CountedKinds : tally[<<p, k>>][d] <= Cardinality(Of(issues, p, k, d))
    /\ InWindow(d) =>
         tally[<<p, "conflict">>][d] >= Cardinality(Of(issues \ forgotten, p, "conflict", d))

\* "Recurring issues remembered across runs (conflicts, restarts, kills per
\* port)", README.md:351: a kill is in the tally once a later event is.
\* TLC refutes this; it has no run of its own (README, section 5).
KillsAreTallied ==
  \A e \in issues \ forgotten :
    (engineUp /\ e.kind = "killed" /\ InWindow(e.day) /\ \E i \in counted : i > e.id)
      => tally[<<e.port, "killed">>][e.day] > 0

=============================================================================
