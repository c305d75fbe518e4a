----------------------------- MODULE FindsProofs -----------------------------
(***************************************************************************)
(* Proofs about the components that find and keep, for all values of their *)
(* constants, and what follows of all of them together.  A component's     *)
(* section states its inductive invariant first.                           *)
(***************************************************************************)
EXTENDS MCFinds, ListProofs

-----------------------------------------------------------------------------
(* Health checks: a row that shows a new known process never shows a result *)
(* that was measured on another one.  A check may end long after the process of  *)
(* its row did, and then it keeps under the old process what it measured on *)
(* its successor.  Such a result is never attached: numbers of processes    *)
(* are not used twice.                                                      *)

\* The rows there may have been.
Held == HealthPorts \X (0..born)

Paths == {"path", ""}
Hints == Paths \cup {"unknown"}
Checks == [targets: SUBSET Held, left: SUBSET Held, asked: Partial(Held, Hints),
           running: BOOLEAN, fresh: BOOLEAN]

World ==
  /\ born \in 0..LastProcess
  /\ holder \in [HealthPorts -> 0..born] /\ secret \in [HealthPorts -> BOOLEAN]
Shown == shownHealth \in [HealthPorts -> [here: BOOLEAN, pid: 0..born, health: Results]]
Caches == results \in Partial(Held, Results) /\ paths \in Partial(Held, Paths)
Checking ==
  /\ check \in [CheckClients -> Checks]
  /\ \A c \in CheckClients : check[c].left \cup DOMAIN check[c].asked \subseteq check[c].targets

\* What is kept for the known process that is there was measured on it.
Attachable ==
  \A k \in DOMAIN results : k[2] # 0 /\ holder[k[1]] = k[2] => results[k].by \in {0, k[2]}

\* What OwnResult says of a step.
OwnStep ==
  \A p \in HealthPorts :
    shownHealth'[p].pid \notin {0, shownHealth[p].pid}
      => shownHealth'[p].health.by \in {0, shownHealth'[p].pid}

HInv == World /\ Shown /\ Caches /\ Checking /\ Attachable

-----------------------------------------------------------------------------
\* Processes that come do not take rows away.
LEMMA HeldGrows ==
  ASSUME NEW f, NEW R, f \in Partial(Held, R), born \in Nat, born' \in Nat, born <= born'
  PROVE  f \in Partial(Held', R) /\ Held \subseteq Held'
<1>1. Held \subseteq Held'
  BY DEF Held
<1> QED
  BY <1>1, PartialGrows

-----------------------------------------------------------------------------
LEMMA InitHInv == HealthInit => HInv
<1> SUFFICES ASSUME HealthInit PROVE HInv
  OBVIOUS
<1>1. ASSUME NEW H, NEW R PROVE <<>> \in Partial(H, R)
  BY PartialBy, {} \in SUBSET H, <<>> \in [{} -> R]
<1>2. NotChecked \in Results
  BY HealthAssumption DEF NotChecked, Results
<1>3. NoCheck \in Checks
  BY <1>1 DEF NoCheck, Checks
<1>4. World /\ Shown
  BY <1>2, HealthAssumption DEF HealthInit, World, Shown, NoRow
<1>5. Caches /\ Attachable
  BY <1>1 DEF HealthInit, Caches, Attachable
<1>6. Checking
  BY <1>3 DEF HealthInit, Checking, NoCheck
<1> QED
  BY <1>4, <1>5, <1>6 DEF HInv

\* Another process takes a port: no result is of it.
LEMMA ReplaceKeepsHInv ==
  ASSUME HInv, NEW p \in HealthPorts, NEW unseen \in BOOLEAN, Replace(p, unseen)
  PROVE  HInv'
<1> USE HealthAssumption DEF HInv
<1>1. born \in Nat /\ born' = born + 1 /\ born' \in 0..LastProcess
  BY DEF Replace, World
<1>2. World'
  BY <1>1 DEF Replace, World
<1>3. Shown'
  BY <1>1 DEF Replace, Shown
<1>4. Held \subseteq Held'
  BY <1>1 DEF Held
<1>5. Caches'
  BY <1>1, HeldGrows DEF Replace, Caches
<1>6. Checks \subseteq Checks'
  <2> SUFFICES ASSUME NEW d \in Checks PROVE d \in Checks'
    OBVIOUS
  <2>1. d.asked \in Partial(Held', Hints)
    BY <1>1, HeldGrows DEF Checks
  <2> QED
    BY <1>4, <2>1 DEF Checks
<1>7. Checking'
  BY <1>6 DEF Replace, Checking
<1>8. Attachable'
  <2> SUFFICES ASSUME NEW k \in DOMAIN results, k[2] # 0, holder'[k[1]] = k[2]
               PROVE  results[k].by \in {0, k[2]}
    BY DEF Replace, Attachable
  <2>1. k \in Held
    BY PartialIs DEF Caches
  <2>2. k[2] # born' /\ k[1] \in HealthPorts
    BY <1>1, <2>1 DEF Held
  <2>3. holder[k[1]] = k[2]
    BY <2>2 DEF Replace, World
  <2> QED
    BY <2>3 DEF Attachable
<1> QED
  BY <1>2, <1>3, <1>5, <1>7, <1>8

\* A process ends: no result is of nobody.
LEMMA ExitKeepsHInv ==
  ASSUME HInv, NEW p \in HealthPorts, Exit(p)
  PROVE  HInv'
<1> USE HealthAssumption DEF HInv
<1>1. World'
  BY DEF Exit, World
<1>2. Held' = Held /\ Shown' /\ Caches' /\ Checking'
  BY DEF Exit, Shown, Caches, Checking, Held, Checks
<1>3. Attachable'
  <2> SUFFICES ASSUME NEW k \in DOMAIN results, k[2] # 0, holder'[k[1]] = k[2]
               PROVE  results[k].by \in {0, k[2]}
    BY DEF Exit, Attachable
  <2>1. k \in Held
    BY PartialIs DEF Caches
  <2>2. k[2] # 0 /\ k[1] \in HealthPorts
    BY <2>1 DEF Held, World
  <2>3. holder[k[1]] = k[2]
    BY <2>2 DEF Exit, World
  <2> QED
    BY <2>3 DEF Attachable
<1> QED
  BY <1>1, <1>2, <1>3

LEMMA CachedIs ==
  ASSUME HInv, NEW p \in HealthPorts
  PROVE  /\ KnownHolder(p) \in 0..born /\ Cached(p) \in Results
         /\ KnownHolder(p) # 0 => Cached(p).by \in {0, KnownHolder(p)}
<1>1. KnownHolder(p) \in 0..born /\ (KnownHolder(p) # 0 => KnownHolder(p) = holder[p])
  BY HealthAssumption DEF HInv, World, KnownHolder
<1> DEFINE k == <<p, KnownHolder(p)>>
<1>2. CASE k \in DOMAIN results
  <2>1. Cached(p) = results[k] /\ results[k] \in Results
    BY <1>2, PartialIs DEF HInv, Caches, Cached
  <2> QED
    BY <1>1, <1>2, <2>1 DEF HInv, Attachable
<1>3. CASE k \notin DOMAIN results
  BY <1>1, <1>3, HealthAssumption DEF Cached, NotChecked, Results
<1> QED
  BY <1>1, <1>2, <1>3

\* A refresh attaches what is kept.
LEMMA RefreshKeepsHInv ==
  ASSUME HInv, RefreshHealth
  PROVE  HInv' /\ OwnStep
<1> USE HealthAssumption DEF HInv
<1>1. World' /\ Held' = Held
  BY DEF RefreshHealth, healthWorld, World, Held
<1>2. Caches' /\ Attachable'
  BY <1>1 DEF RefreshHealth, healthWorld, Caches, Attachable
<1>3. NotChecked \in Results /\ NotChecked.by = 0
  BY DEF NotChecked, Results
<1>4. Shown' /\ OwnStep
  <2>1. ASSUME NEW p \in HealthPorts
        PROVE  /\ shownHealth'[p] \in [here: BOOLEAN, pid: 0..born, health: Results]
               /\ shownHealth'[p].pid # 0 => shownHealth'[p].health.by \in {0, shownHealth'[p].pid}
    <3>1. shownHealth'[p] = IF holder[p] = 0 THEN NoRow
                            ELSE [here |-> TRUE, pid |-> KnownHolder(p), health |-> Cached(p)]
      BY DEF RefreshHealth
    <3>2. CASE holder[p] = 0
      BY <1>3, <3>1, <3>2 DEF NoRow, World
    <3>3. CASE holder[p] # 0
      BY <3>1, <3>3, CachedIs
    <3> QED
      BY <3>2, <3>3
  <2>2. born' = born /\ shownHealth' = [p \in HealthPorts |-> shownHealth'[p]]
    BY DEF RefreshHealth, healthWorld
  <2> QED
    BY <2>1, <2>2 DEF Shown, OwnStep
<1>5. Checking'
  BY <1>1, ZenonT(60) DEF RefreshHealth, Checking, Checks
<1> QED
  BY <1>1, <1>2, <1>4, <1>5

\* One check changes.
LEMMA CheckChanges ==
  ASSUME HInv, NEW c \in CheckClients, NEW d \in Checks, check' = [check EXCEPT ![c] = d],
         d.left \cup DOMAIN d.asked \subseteq d.targets, UNCHANGED healthWorld
  PROVE  Checking'
  BY DEF HInv, Checking, Checks, Held, healthWorld

LEMMA BeginKeepsHInv ==
  ASSUME HInv, NEW c \in CheckClients, StartCheck(c) \/ Rerun(c)
  PROVE  HInv'
<1>1. PICK T \in SUBSET Held, fresh \in BOOLEAN : BeginCheck(c, T, fresh)
  <2>1. CASE StartCheck(c)
    <3>1. Rows \subseteq Held
      BY HealthAssumption DEF HInv, World, Shown, Rows, Held
    <3> QED
      BY <2>1, <3>1 DEF StartCheck
  <2>2. CASE Rerun(c)
    BY <2>2 DEF HInv, Checking, Checks, Rerun
  <2> QED
    BY <2>1, <2>2
<1> DEFINE d == [targets |-> T, left |-> T, asked |-> <<>>, running |-> TRUE, fresh |-> fresh]
<1>2. <<>> \in Partial(Held, Hints)
  BY PartialBy, {} \in SUBSET Held, <<>> \in [{} -> Hints]
<1>3. d \in Checks /\ d.left \cup DOMAIN d.asked \subseteq d.targets
  BY <1>2 DEF Checks
<1>4. Checking'
  BY <1>1, <1>3, CheckChanges DEF BeginCheck
<1> QED
  BY <1>1, <1>4 DEF BeginCheck, healthWorld, HInv, World, Shown, Caches, Held, Attachable

\* A result arrives for a row, of whoever answered.
LEMMA FoundIsKept ==
  ASSUME HInv, NEW c \in CheckClients, NEW k \in Held, NEW r \in Results, Found(c, k, r),
         r.by \in {0, holder[k[1]]}, UNCHANGED healthWorld
  PROVE  /\ World' /\ Shown' /\ Attachable' /\ OwnStep
         /\ results' \in Partial(Held, Results) /\ Held' = Held
<1> USE HealthAssumption DEF HInv
<1>1. World' /\ Held' = Held /\ k[1] \in HealthPorts
  BY DEF healthWorld, World, Held
<1>2. results' = Noted(results, k, r) /\ results \in Partial(Held, Results)
  BY DEF Found, Caches
<1>3. /\ results' \in Partial(Held, Results)
      /\ DOMAIN results' = {k} \cup DOMAIN results
      /\ results'[k] = r
      /\ \A j \in DOMAIN results : j # k => results'[j] = results[j]
  BY <1>2, PartialPut, SMTT(60)
<1>4. Attachable'
  BY <1>3 DEF Attachable, healthWorld
<1>5. Shown' /\ OwnStep
  <2>1. CASE check[c].fresh
    BY <1>1, <2>1 DEF Found, Shown, OwnStep, healthWorld
  <2>2. CASE ~check[c].fresh
    BY <1>1, <2>2 DEF Found, Shown, OwnStep, healthWorld
  <2> QED
    BY <2>1, <2>2
<1> QED
  BY <1>1, <1>3, <1>4, <1>5

\* A port is connected to: it refuses, or it is asked next.
LEMMA ConnectKeepsHInv ==
  ASSUME HInv, NEW c \in CheckClients, NEW k \in Key, Connect(c, k)
  PROVE  HInv' /\ OwnStep
<1> DEFINE d == check[c]
           less == [d EXCEPT !.left = @ \ {k}]
           hint == IF k \in DOMAIN paths THEN paths[k] ELSE "unknown"
           more == [d EXCEPT !.left = @ \ {k}, !.asked = Noted(@, k, hint)]
<1>1. d \in Checks /\ d.left \cup DOMAIN d.asked \subseteq d.targets
  BY DEF HInv, Checking
<1>2. k \in d.left /\ k \in Held /\ UNCHANGED <<healthWorld, paths>>
  BY <1>1 DEF Connect, Checks
<1>3. less \in Checks /\ less.left \cup DOMAIN less.asked \subseteq less.targets
  BY <1>1 DEF Checks
<1>4. CASE holder[k[1]] = 0
  <2> DEFINE r == [NotChecked EXCEPT !.checked = TRUE]
  <2>1. r \in Results /\ r.by = 0
    <3>1. NotChecked \in Results /\ NotChecked.by = 0
      BY HealthAssumption DEF NotChecked, Results
    <3>2. ASSUME NEW x \in Results
          PROVE  /\ [x EXCEPT !.checked = TRUE] \in Results
                 /\ [x EXCEPT !.checked = TRUE].by = x.by
      BY DEF Results
    <3> QED
      BY <3>1, <3>2
  <2>2. Found(c, k, r) /\ check' = [check EXCEPT ![c] = less]
    BY <1>4 DEF Connect
  <2>3. World' /\ Shown' /\ Attachable' /\ OwnStep /\ Caches'
    BY <1>2, <2>1, <2>2, FoundIsKept DEF HInv, Caches
  <2>4. Checking'
    BY <1>2, <1>3, <2>2, CheckChanges
  <2> QED
    BY <2>3, <2>4 DEF HInv
<1>5. CASE holder[k[1]] # 0
  <2>1. hint \in Hints
    <3>1. paths \in [DOMAIN paths -> Paths]
      BY PartialIs DEF HInv, Caches
    <3> QED
      BY <3>1 DEF Hints
  <2> HIDE DEF hint
  <2>2. /\ Noted(d.asked, k, hint) \in Partial(Held, Hints)
        /\ DOMAIN Noted(d.asked, k, hint) = {k} \cup DOMAIN d.asked
    <3>1. d.asked \in Partial(Held, Hints)
      BY <1>1 DEF Checks
    <3>2. k \in Held
      BY <1>2
    <3>3. ASSUME NEW f \in Partial(Held, Hints), NEW way \in Hints
          PROVE  /\ Noted(f, k, way) \in Partial(Held, Hints)
                 /\ DOMAIN Noted(f, k, way) = {k} \cup DOMAIN f
      BY <3>2, PartialPut
    <3> QED
      BY <2>1, <3>1, <3>3
  <2>3. more \in Checks /\ more.left \cup DOMAIN more.asked \subseteq more.targets
    BY <1>1, <1>2, <2>2 DEF Checks
  <2>4. check' = [check EXCEPT ![c] = more] /\ UNCHANGED <<shownHealth, results>>
    BY <1>5 DEF Connect, hint
  <2>5. Checking'
    BY <1>2, <2>3, <2>4, CheckChanges
  <2> QED
    BY <1>2, <2>4, <2>5 DEF HInv, healthWorld, World, Shown, Caches, Held, Attachable, OwnStep
<1> QED
  BY <1>4, <1>5

\* An endpoint answers: what is noted is of whoever holds the port by then.
LEMMA AnswerKeepsHInv ==
  ASSUME HInv, NEW c \in CheckClients, NEW k \in Key, NEW how, AnswerCheck(c, k, how)
  PROVE  HInv' /\ OwnStep
<1> DEFINE d == check[c]
           rest == DOMAIN d.asked \ {k}
           done == [d EXCEPT !.asked = Restrict(@, DOMAIN @ \ {k})]
<1>1. d \in Checks /\ d.left \cup DOMAIN d.asked \subseteq d.targets
  BY DEF HInv, Checking
<1>2. k \in DOMAIN d.asked /\ k \in Held /\ UNCHANGED healthWorld
  BY <1>1 DEF AnswerCheck, Checks
<1>3. Restrict(d.asked, rest) \in Partial(Held, Hints)
      /\ DOMAIN Restrict(d.asked, rest) = rest
  BY <1>1, PartialCut DEF Checks
<1>4. done \in Checks /\ done.left \cup DOMAIN done.asked \subseteq done.targets
  BY <1>1, <1>3 DEF Checks
<1>5. Checking'
  BY <1>2, <1>4, CheckChanges DEF AnswerCheck
<1>6. PICK http \in {"none", "ok", "failing"} :
        Found(c, k, [checked |-> TRUE, by |-> holder[k[1]], tcp |-> TRUE, http |-> http])
  BY DEF AnswerCheck, Ask
<1> DEFINE r == [checked |-> TRUE, by |-> holder[k[1]], tcp |-> TRUE, http |-> http]
<1>7. r \in Results
  BY <1>2, HealthAssumption DEF HInv, World, Held, Results
<1>8. /\ World' /\ Shown' /\ Attachable' /\ OwnStep
      /\ results' \in Partial(Held, Results) /\ Held' = Held
  BY <1>2, <1>6, <1>7, FoundIsKept
<1>9. paths' \in Partial(Held, Paths)
  <2>1. paths' \in {paths, Noted(paths, k, "path"), Noted(paths, k, "")}
    BY DEF AnswerCheck, Ask
  <2>2. paths \in Partial(Held, Paths)
    BY DEF HInv, Caches
  <2>3. ASSUME NEW found \in Paths PROVE Noted(paths, k, found) \in Partial(Held, Paths)
    BY <1>2, <2>2, PartialPut
  <2> QED
    BY <2>1, <2>2, <2>3 DEF Paths
<1> QED
  BY <1>5, <1>8, <1>9 DEF HInv, Caches

\* A check ends and the caches are cut to its rows.
LEMMA EndKeepsHInv ==
  ASSUME HInv, NEW c \in CheckClients, EndCheck(c)
  PROVE  HInv' /\ OwnStep
<1> DEFINE d == check[c]
           done == [d EXCEPT !.running = FALSE]
           kept == DOMAIN results \cap d.targets
           known == DOMAIN paths \ (DOMAIN results \ d.targets)
<1>1. results' = Restrict(results, kept) /\ paths' = Restrict(paths, known)
  BY DEF EndCheck
<1>2. UNCHANGED <<healthWorld, shownHealth>> /\ check' = [check EXCEPT ![c] = done]
  BY DEF EndCheck
<1>3. World' /\ Shown' /\ Held' = Held /\ OwnStep
  BY <1>2 DEF HInv, healthWorld, World, Shown, Held, OwnStep
<1>4. done \in Checks /\ done.left \cup DOMAIN done.asked \subseteq done.targets
  BY DEF HInv, Checking, Checks
<1>5. Checking'
  BY <1>2, <1>4, CheckChanges
<1>6. /\ results' \in Partial(Held, Results) /\ DOMAIN results' = kept
      /\ \A k \in kept : results'[k] = results[k]
  BY <1>1, PartialCut DEF HInv, Caches
<1>7. paths' \in Partial(Held, Paths)
  BY <1>1, PartialCut DEF HInv, Caches
<1>8. Attachable'
  BY <1>2, <1>6 DEF HInv, Attachable, healthWorld
<1> QED
  BY <1>3, <1>5, <1>6, <1>7, <1>8 DEF HInv, Caches

-----------------------------------------------------------------------------
LEMMA StepKeepsHInv == HInv /\ [HealthNext]_healthVars => HInv' /\ OwnStep
<1> SUFFICES ASSUME HInv, [HealthNext]_healthVars PROVE HInv' /\ OwnStep
  OBVIOUS
<1>1. UNCHANGED shownHealth => OwnStep
  BY DEF OwnStep
<1>2. ASSUME NEW p \in HealthPorts,
             (\E unseen \in BOOLEAN : Replace(p, unseen)) \/ Exit(p)
      PROVE  HInv' /\ OwnStep
  <2>1. ASSUME NEW unseen \in BOOLEAN, Replace(p, unseen) PROVE HInv' /\ OwnStep
    BY <1>1, <2>1, ReplaceKeepsHInv DEF Replace
  <2>2. ASSUME Exit(p) PROVE HInv' /\ OwnStep
    BY <1>1, <2>2, ExitKeepsHInv DEF Exit
  <2> QED
    BY <1>2, <2>1, <2>2
<1>3. ASSUME NEW c \in CheckClients, StartCheck(c) \/ Rerun(c) PROVE HInv' /\ OwnStep
  BY <1>1, <1>3, BeginKeepsHInv DEF StartCheck, Rerun, BeginCheck
<1>4. CASE UNCHANGED healthVars
  BY <1>1, <1>4 DEF healthVars, healthWorld, HInv, World, Shown, Caches, Checking, Attachable,
                    Held, Checks
<1> QED
  BY <1>2, <1>3, <1>4, RefreshKeepsHInv, ConnectKeepsHInv, AnswerKeepsHInv, EndKeepsHInv
     DEF HealthNext

\* The invariant holds in every reachable state.
THEOREM ChecksInductive == HealthSpec => []HInv
  BY InitHInv, StepKeepsHInv, PTL DEF HealthSpec

\* Every variable of the health checks keeps its type, and a check asks rows it was given
\* (collectors/health.py, check).
THEOREM ChecksTypeCorrect == HealthSpec => []HealthTypeOK
<1>1. HInv => HealthTypeOK
  <2> SUFFICES ASSUME HInv PROVE HealthTypeOK
    OBVIOUS
  <2>1. Held \subseteq Key /\ 0..born \subseteq 0..LastProcess
    BY HealthAssumption DEF HInv, World, Held, Key
  <2>2. shownHealth \in [HealthPorts -> [here: BOOLEAN, pid: 0..LastProcess, health: Results]]
    BY <2>1 DEF HInv, Shown
  <2>3. /\ DOMAIN results \subseteq Held /\ results \in [DOMAIN results -> Results]
        /\ DOMAIN paths \subseteq Held /\ paths \in [DOMAIN paths -> Paths]
    BY PartialIs DEF HInv, Caches
  <2>4. Range(results) \subseteq Results /\ Range(paths) \subseteq {"path", ""}
    BY <2>3 DEF Range, Paths
  <2> QED
    BY <2>1, <2>2, <2>3, <2>4 DEF HInv, World, Checking, HealthTypeOK
<1> QED
  BY ChecksInductive, <1>1, PTL

\* A row that shows a new process whose number is known never shows a result measured on
\* another one, however late a check ends and however old its rows are
\* (collectors/health.py, attach_cached).
THEOREM ResultsAreOwn == HealthSpec => OwnResult
<1>1. HInv /\ [HealthNext]_healthVars => [OwnStep]_healthVars
  BY StepKeepsHInv
<1> QED
  BY ChecksInductive, <1>1, PTL DEF HealthSpec, OwnResult, OwnStep

-----------------------------------------------------------------------------
(* The HTTP prober: what is kept under a known process was answered by it,  *)
(* or by a later one while it serves no more; and a row that was given up   *)
(* has an answer that is not HTTP.                                          *)

\* The rows there may have been.
Asked == ProbePorts \X (0..LastServer)

Answers == [got: {"none", "refused", "ok", "timeout", "not HTTP"}, by: 0..LastServer, at: 0..LastProbeTime]

ProberHas ==
  /\ clock \in 1..LastProbeTime /\ started \in 0..LastServer
  /\ server \in [ProbePorts -> 0..started] /\ hidden \in [ProbePorts -> BOOLEAN]
  /\ speech \in [ProbePorts -> Speeches]
  /\ seenRow \in [ProbePorts -> [of: 0..started, pid: 0..started, probe: Answers]]
  /\ due \in SUBSET ProbePorts /\ \A p \in due : seenRow[p].of # 0
  /\ probes \in Partial(Asked, Answers) /\ garbled \in SUBSET Asked

\* The answers of rows and in the cache are the process's own while it serves.
AnswersAreOwn ==
  /\ \A p \in ProbePorts :
       /\ server[p] # 0 => server[p] >= seenRow[p].pid
       /\ OwnAnswer(p, seenRow[p].pid, seenRow[p].probe)
  /\ \A k \in DOMAIN probes : k[2] <= started /\ OwnAnswer(k[1], k[2], probes[k])

\* Who was given up answered garbage, is not asked again, and the row says so.
GivenUp ==
  /\ \A k \in garbled : k[1] \notin ForcePorts => k \in DOMAIN probes /\ probes[k].got = "not HTTP"
  /\ \A p \in due : p \notin ForcePorts => <<p, seenRow[p].pid>> \notin garbled
  /\ \A p \in ProbePorts \ (due \cup ForcePorts \cup SkipPorts) :
       (seenRow[p].of # 0 /\ <<p, seenRow[p].pid>> \in garbled) => seenRow[p].probe.got = "not HTTP"

ProberInv == ProberHas /\ AnswersAreOwn /\ GivenUp

LEMMA ProberStarts == ProberInit => ProberInv
<1> SUFFICES ASSUME ProberInit PROVE ProberInv
  OBVIOUS
<1>1. NotAttempted \in Answers
  BY ProberAssumption DEF NotAttempted, Answers
<1>2. <<>> \in Partial(Asked, Answers)
  BY PartialBy, {} \in SUBSET Asked, <<>> \in [{} -> Answers]
<1>3. Nobody \in [of: 0..0, pid: 0..0, probe: Answers] /\ Nobody.pid = 0 /\ Nobody.of = 0
  BY <1>1 DEF Nobody
<1>4. ProberHas
  BY <1>2, <1>3, ProberAssumption DEF ProberInit, ProberHas, Speeches
<1>5. AnswersAreOwn /\ GivenUp
  BY <1>3 DEF ProberInit, AnswersAreOwn, OwnAnswer, GivenUp
<1> QED
  BY <1>4, <1>5 DEF ProberInv

LEMMA ServeKeeps ==
  ASSUME ProberInv, NEW p \in ProbePorts, NEW how \in Speeches, NEW unseen \in BOOLEAN,
         Serve(p, how, unseen)
  PROVE  ProberInv'
<1> USE ProberAssumption DEF ProberInv
<1>1. started \in Nat /\ started' = started + 1 /\ started' \in 0..LastServer
      /\ UNCHANGED <<clock, seenRow, due, probes, garbled>>
  BY DEF Serve, ProberHas
<1>2. /\ server' = [server EXCEPT ![p] = started'] /\ speech' = [speech EXCEPT ![p] = how]
      /\ hidden' = [hidden EXCEPT ![p] = unseen]
  BY DEF Serve
<1>3. server' \in [ProbePorts -> 0..started']
  BY <1>1, <1>2 DEF ProberHas
<1>4. 0..started \subseteq 0..started'
  BY <1>1
<1>5. seenRow' \in [ProbePorts -> [of: 0..started', pid: 0..started', probe: Answers]]
  BY <1>1, <1>4 DEF ProberHas
<1>6. ProberHas'
  BY <1>1, <1>2, <1>3, <1>5 DEF ProberHas
<1> DEFINE Later(q, pid, probe) ==
             pid # 0 => \/ probe.by \in {0, pid}
                        \/ probe.by > pid /\ server'[q] # pid
<1>7. ASSUME NEW q, NEW pid \in 0..started, NEW probe, OwnAnswer(q, pid, probe)
      PROVE  Later(q, pid, probe)
  <2>1. server'[q] = server[q] \/ server'[q] = started'
    BY <1>2 DEF ProberHas
  <2> QED
    BY <1>1, <1>7, <2>1 DEF OwnAnswer
<1>8. AnswersAreOwn'
  <2>1. ASSUME NEW q \in ProbePorts
        PROVE  /\ server'[q] # 0 => server'[q] >= seenRow'[q].pid
               /\ Later(q, seenRow'[q].pid, seenRow'[q].probe)
    <3>1. seenRow[q].pid \in 0..started /\ server[q] \in 0..started
      BY DEF ProberHas
    <3>2. server'[q] = server[q] \/ server'[q] = started'
      BY <1>2 DEF ProberHas
    <3>3. (server[q] # 0 => server[q] >= seenRow[q].pid) /\ OwnAnswer(q, seenRow[q].pid, seenRow[q].probe)
      BY DEF AnswersAreOwn
    <3>4. Later(q, seenRow[q].pid, seenRow[q].probe)
      BY <1>7, <3>1, <3>3
    <3> HIDE DEF Later
    <3> QED
      BY <1>1, <3>1, <3>2, <3>3, <3>4
  <2>2. ASSUME NEW k \in DOMAIN probes'
        PROVE  k[2] <= started' /\ Later(k[1], k[2], probes'[k])
    <3>1. k \in DOMAIN probes /\ probes' = probes /\ k \in Asked
      BY <1>1, <2>2, PartialIs DEF ProberHas
    <3>2. k[2] \in 0..started /\ OwnAnswer(k[1], k[2], probes[k])
      BY <3>1 DEF AnswersAreOwn, Asked, ProberHas
    <3>3. Later(k[1], k[2], probes[k])
      BY <1>7, <3>2
    <3> HIDE DEF Later
    <3> QED
      BY <1>1, <3>1, <3>2, <3>3
  <2> QED
    BY <2>1, <2>2 DEF AnswersAreOwn, OwnAnswer
<1>9. GivenUp'
  BY <1>1 DEF GivenUp
<1> QED
  BY <1>6, <1>8, <1>9

LEMMA ShutKeeps ==
  ASSUME ProberInv, NEW p \in ProbePorts, Shut(p)
  PROVE  ProberInv'
<1> USE ProberAssumption DEF ProberInv
<1>1. server' = [server EXCEPT ![p] = 0] /\ UNCHANGED <<clock, hidden, speech, started, seenRow, due, probes, garbled>>
  BY DEF Shut
<1>2. server' \in [ProbePorts -> 0..started]
  BY <1>1 DEF ProberHas
<1>3. ProberHas'
  BY <1>1, <1>2 DEF ProberHas
<1>4. AnswersAreOwn'
  <2>1. \A q : server'[q] = server[q] \/ server'[q] = 0
    BY <1>1 DEF ProberHas
  <2>2. \A q, pid, probe : OwnAnswer(q, pid, probe) => OwnAnswer(q, pid, probe)'
    BY <2>1 DEF OwnAnswer
  <2> QED
    BY <1>1, <2>1, <2>2 DEF AnswersAreOwn
<1>5. GivenUp'
  BY <1>1 DEF GivenUp
<1> QED
  BY <1>3, <1>4, <1>5

LEMMA StoredIs ==
  ASSUME ProberInv, NEW p \in ProbePorts, NEW pid \in 0..LastServer
  PROVE  /\ Stored(p, pid) \in Answers
         /\ OwnAnswer(p, pid, Stored(p, pid))
         /\ <<p, pid>> \in garbled /\ p \notin ForcePorts => Stored(p, pid).got = "not HTTP"
<1>1. CASE <<p, pid>> \in DOMAIN probes
  <2>1. Stored(p, pid) = probes[<<p, pid>>]
    BY <1>1 DEF Stored, CacheKey
  <2>2. probes[<<p, pid>>] \in Answers
    BY <1>1, PartialIs DEF ProberInv, ProberHas
  <2>3. OwnAnswer(p, pid, probes[<<p, pid>>])
    BY <1>1 DEF ProberInv, AnswersAreOwn
  <2>4. <<p, pid>> \in garbled /\ p \notin ForcePorts => probes[<<p, pid>>].got = "not HTTP"
    BY DEF ProberInv, GivenUp
  <2> QED
    BY <2>1, <2>2, <2>3, <2>4
<1>2. CASE <<p, pid>> \notin DOMAIN probes
  <2>1. Stored(p, pid) = NotAttempted
    BY <1>2 DEF Stored, CacheKey
  <2>2. ~(<<p, pid>> \in garbled /\ p \notin ForcePorts)
    BY <1>2 DEF ProberInv, GivenUp
  <2> QED
    BY <2>1, <2>2, ProberAssumption DEF NotAttempted, Answers, OwnAnswer
<1> QED
  BY <1>1, <1>2

\* A refresh lists the rows and attaches what is kept.
LEMMA EnrichKeeps ==
  ASSUME ProberInv, EnrichStart
  PROVE  ProberInv'
<1> USE ProberAssumption DEF ProberInv
<1> DEFINE attached(p, pid) ==
             IF ~ShouldProbe(p, pid)
               THEN IF Stored(p, pid).got = "not HTTP" THEN Stored(p, pid) ELSE NotAttempted
               ELSE IF Recent(p, pid) THEN Stored(p, pid) ELSE NotAttempted
           row(p) == IF server[p] = 0 THEN Nobody
                     ELSE [of |-> server[p], pid |-> KnownPid(p), probe |-> attached(p, KnownPid(p))]
<1>1. /\ seenRow' = [p \in ProbePorts |-> row(p)]
      /\ due' = {p \in ProbePorts : server[p] # 0 /\ ShouldProbe(p, KnownPid(p)) /\ ~Recent(p, KnownPid(p))}
      /\ UNCHANGED <<clock, ports, probes, garbled>>
  BY DEF EnrichStart
<1>2. UNCHANGED <<server, hidden, speech, started>>
  BY <1>1 DEF ports
<1>3. NotAttempted \in Answers /\ NotAttempted.by = 0
  BY DEF NotAttempted, Answers
<1>4. ASSUME NEW p \in ProbePorts
      PROVE  LET pid == KnownPid(p) IN
             /\ server[p] \in 0..started /\ pid \in 0..started /\ pid <= server[p]
             /\ attached(p, pid) \in Answers
             /\ OwnAnswer(p, pid, attached(p, pid))
             /\ (p \notin ForcePorts \cup SkipPorts /\ <<p, pid>> \in garbled)
                  => attached(p, pid).got = "not HTTP"
  <2> DEFINE pid == KnownPid(p)
  <2>1. server[p] \in 0..started /\ pid \in 0..started /\ pid \in 0..LastServer /\ pid <= server[p]
    BY DEF ProberHas, KnownPid
  <2> HIDE DEF pid
  <2>2. /\ Stored(p, pid) \in Answers /\ OwnAnswer(p, pid, Stored(p, pid))
        /\ <<p, pid>> \in garbled /\ p \notin ForcePorts => Stored(p, pid).got = "not HTTP"
    BY <2>1, StoredIs
  <2>3. attached(p, pid) \in {Stored(p, pid), NotAttempted}
    OBVIOUS
  <2>4. ASSUME p \notin ForcePorts \cup SkipPorts, <<p, pid>> \in garbled
        PROVE  attached(p, pid) = Stored(p, pid)
    BY <2>2, <2>4 DEF ShouldProbe, CacheKey
  <2>5. OwnAnswer(p, pid, NotAttempted)
    BY <1>3 DEF OwnAnswer
  <2> HIDE DEF attached
  <2>6. /\ attached(p, pid) \in Answers /\ OwnAnswer(p, pid, attached(p, pid))
        /\ (p \notin ForcePorts \cup SkipPorts /\ <<p, pid>> \in garbled)
             => attached(p, pid).got = "not HTTP"
    BY <1>3, <2>2, <2>3, <2>4, <2>5
  <2> QED
    BY <2>1, <2>6 DEF pid
<1> HIDE DEF attached
<1>5. Nobody.pid = 0 /\ Nobody.of = 0 /\ Nobody.probe \in Answers /\ Nobody \in [of: 0..0, pid: 0..0, probe: Answers]
  BY <1>3 DEF Nobody
<1>6. ASSUME NEW p \in ProbePorts
      PROVE  /\ row(p) \in [of: 0..started, pid: 0..started, probe: Answers]
             /\ row(p).of = server[p] /\ row(p).pid <= server[p]
             /\ OwnAnswer(p, row(p).pid, row(p).probe)
             /\ server[p] # 0 => row(p).pid = KnownPid(p) /\ row(p).probe = attached(p, KnownPid(p))
  <2>1. CASE server[p] = 0
    <3>1. row(p) = Nobody /\ 0..0 \subseteq 0..started
      BY <2>1 DEF ProberHas
    <3> QED
      BY <1>5, <2>1, <3>1 DEF OwnAnswer
  <2>2. CASE server[p] # 0
    BY <1>4, <2>2
  <2> QED
    BY <2>1, <2>2
<1> HIDE DEF row
<1>7. \A p \in ProbePorts : seenRow'[p] = row(p) /\ seenRow'[p].of = server[p]
  BY <1>1, <1>6
<1>8. ProberHas'
  <2>1. seenRow' \in [ProbePorts -> [of: 0..started, pid: 0..started, probe: Answers]]
    BY <1>1, <1>6
  <2>2. due' \in SUBSET ProbePorts /\ \A p \in due' : seenRow'[p].of # 0
    BY <1>1, <1>7
  <2> QED
    BY <1>1, <1>2, <2>1, <2>2 DEF ProberHas
<1>9. AnswersAreOwn'
  <2>1. ASSUME NEW p \in ProbePorts
        PROVE  /\ server'[p] # 0 => server'[p] >= seenRow'[p].pid
               /\ OwnAnswer(p, seenRow[p].pid, seenRow[p].probe)'
    <3>1. /\ server' = server /\ seenRow'[p] = row(p) /\ row(p).pid <= server[p]
          /\ OwnAnswer(p, row(p).pid, row(p).probe)
      BY <1>2, <1>6, <1>7
    <3>2. server[p] \in Nat /\ row(p).pid \in Nat
      BY <1>6 DEF ProberHas
    <3> QED
      BY <3>1, <3>2 DEF OwnAnswer
  <2>2. ASSUME NEW k \in DOMAIN probes'
        PROVE  k[2] <= started' /\ OwnAnswer(k[1], k[2], probes[k])'
    BY <1>1, <1>2, <2>2 DEF AnswersAreOwn, OwnAnswer
  <2> QED
    BY <2>1, <2>2 DEF AnswersAreOwn
<1>10. \A p \in due' : p \notin ForcePorts => <<p, seenRow'[p].pid>> \notin garbled'
  BY <1>1, <1>6, <1>7 DEF ShouldProbe, CacheKey
<1>11. ASSUME NEW p \in ProbePorts \ (due' \cup ForcePorts \cup SkipPorts), seenRow'[p].of # 0,
              <<p, seenRow'[p].pid>> \in garbled'
       PROVE  seenRow'[p].probe.got = "not HTTP"
  BY <1>1, <1>4, <1>6, <1>7, <1>11
<1>12. GivenUp'
  BY <1>1, <1>10, <1>11 DEF GivenUp
<1> QED
  BY <1>8, <1>9, <1>12

LEMMA OutcomeIs ==
  ASSUME NEW p
  PROVE  Outcome(p) \in {"refused", "ok", "timeout", "not HTTP"}
  BY DEF Outcome, Reply

\* A probe ends: its answer is of whoever holds the port by then.
LEMMA ProbeKeeps ==
  ASSUME ProberInv, NEW p \in ProbePorts, Probe(p)
  PROVE  ProberInv'
<1> USE ProberAssumption DEF ProberInv
<1> DEFINE result == [got |-> Outcome(p), by |-> server[p], at |-> clock]
           key == <<p, seenRow[p].pid>>
           all == Noted(probes, key, result)
           bad == garbled \cup (IF Outcome(p) = "not HTTP" THEN {key} ELSE {})
<1>1. /\ p \in due /\ due' = due \ {p}
      /\ seenRow' = [seenRow EXCEPT ![p].probe = result]
      /\ probes' = IF due' = {} THEN Restrict(all, Listed(DOMAIN all)) ELSE all
      /\ garbled' = IF due' = {} THEN Listed(bad) ELSE bad
      /\ UNCHANGED <<clock, server, hidden, speech, started>>
  BY DEF Probe, CacheKey, ports
<1>2. key \in Asked /\ key[1] = p /\ key[2] = seenRow[p].pid /\ seenRow[p].of # 0
      /\ server[p] \in 0..started /\ seenRow[p].pid \in 0..started
  <2>1. server[p] \in 0..started /\ seenRow[p].pid \in 0..started /\ seenRow[p].of # 0
    BY <1>1 DEF ProberHas
  <2>2. seenRow[p].pid \in 0..LastServer
    BY <2>1 DEF ProberHas
  <2> QED
    BY <2>1, <2>2 DEF Asked
<1>3. result \in Answers /\ result.by = server[p] /\ result.got = Outcome(p)
  <2>1. server[p] \in 0..LastServer /\ clock \in 0..LastProbeTime
    BY <1>2 DEF ProberHas
  <2> QED
    BY <2>1, OutcomeIs DEF Answers
<1>4. OwnAnswer(p, seenRow[p].pid, result)
  BY <1>2, <1>3 DEF AnswersAreOwn, OwnAnswer
<1>5. p \notin ForcePorts => key \notin garbled
  BY <1>1 DEF GivenUp
<1> HIDE DEF result, key
<1>6. /\ all \in Partial(Asked, Answers) /\ DOMAIN all = {key} \cup DOMAIN probes /\ all[key] = result
      /\ \A k \in DOMAIN probes : k # key => all[k] = probes[k]
  <2>1. probes \in Partial(Asked, Answers)
    BY DEF ProberHas
  <2>2. \A f \in Partial(Asked, Answers) :
          /\ Noted(f, key, result) \in Partial(Asked, Answers)
          /\ DOMAIN Noted(f, key, result) = {key} \cup DOMAIN f
          /\ Noted(f, key, result)[key] = result
          /\ \A k \in DOMAIN f : k # key => Noted(f, key, result)[k] = f[k]
    BY <1>2, <1>3, PartialPut, SMTT(60)
  <2> QED
    BY <2>1, <2>2
<1>7. bad \in SUBSET Asked /\ bad \subseteq garbled \cup {key}
      /\ (key \in bad => key \in garbled \/ Outcome(p) = "not HTTP")
  BY <1>2 DEF ProberHas
<1> HIDE DEF all, bad
<1>8. \A K : Listed(K) \subseteq K
  BY DEF Listed
<1>9. /\ probes' \in Partial(Asked, Answers) /\ DOMAIN probes' \subseteq DOMAIN all
      /\ \A k \in DOMAIN probes' : probes'[k] = all[k]
  <2>1. CASE due' = {}
    <3>1. probes' = Restrict(all, Listed(DOMAIN all)) /\ Listed(DOMAIN all) \in SUBSET DOMAIN all
      BY <1>1, <1>8, <2>1
    <3>2. all \in Partial(Asked, Answers)
      BY <1>6
    <3>3. \A K \in SUBSET DOMAIN all :
            /\ Restrict(all, K) \in Partial(Asked, Answers)
            /\ DOMAIN Restrict(all, K) = K
            /\ \A k \in K : Restrict(all, K)[k] = all[k]
      BY <3>2, PartialCut
    <3> QED
      BY <3>1, <3>3
  <2>2. CASE due' # {}
    BY <1>1, <1>6, <2>2
  <2> QED
    BY <2>1, <2>2
<1>10. garbled' \subseteq bad
  BY <1>1, <1>8
<1>11. \A k \in garbled' : k \in DOMAIN all => k \in DOMAIN probes'
  <2>1. CASE due' = {}
    <3>1. DOMAIN probes' = Listed(DOMAIN all) /\ garbled' = Listed(bad)
      BY <1>1, <1>8, <2>1, <1>6, PartialCut
    <3> QED
      BY <3>1 DEF Listed
  <2>2. CASE due' # {}
    BY <1>1, <2>2
  <2> QED
    BY <2>1, <2>2
<1>12. /\ \A q \in ProbePorts : seenRow'[q].pid = seenRow[q].pid
       /\ \A q \in ProbePorts : seenRow'[q].of = seenRow[q].of
       /\ \A q \in ProbePorts : q # p => seenRow'[q] = seenRow[q]
       /\ seenRow'[p].probe = result
       /\ seenRow' \in [ProbePorts -> [of: 0..started, pid: 0..started, probe: Answers]]
  BY <1>1, <1>3 DEF ProberHas
<1>13. ProberHas'
  BY <1>1, <1>7, <1>9, <1>10, <1>12 DEF ProberHas
<1>14. AnswersAreOwn'
  <2>1. ASSUME NEW q \in ProbePorts
        PROVE  /\ server'[q] # 0 => server'[q] >= seenRow'[q].pid
               /\ OwnAnswer(q, seenRow'[q].pid, seenRow'[q].probe)
    BY <1>1, <1>4, <1>12 DEF AnswersAreOwn
  <2>2. ASSUME NEW k \in DOMAIN probes'
        PROVE  k[2] <= started /\ OwnAnswer(k[1], k[2], probes'[k])
    <3>1. CASE k = key
      <4>1. probes'[k] = result /\ k[1] = p /\ k[2] = seenRow[p].pid
        BY <1>2, <1>6, <1>9, <2>2, <3>1
      <4> QED
        BY <1>2, <1>4, <4>1
    <3>2. CASE k # key
      BY <1>6, <1>9, <2>2, <3>2 DEF AnswersAreOwn
    <3> QED
      BY <3>1, <3>2
  <2>3. \A q, pid, probe : OwnAnswer(q, pid, probe) => OwnAnswer(q, pid, probe)'
    BY <1>1 DEF OwnAnswer
  <2> QED
    BY <1>1, <2>1, <2>2, <2>3 DEF AnswersAreOwn
<1>15. ASSUME NEW k \in garbled', k[1] \notin ForcePorts
       PROVE  k \in DOMAIN probes' /\ probes'[k].got = "not HTTP"
  <2>1. CASE k = key
    <3>1. k[1] = p
      BY <1>2, <2>1
    <3> QED
      BY <1>3, <1>5, <1>6, <1>7, <1>9, <1>10, <1>11, <1>15, <2>1, <3>1
  <2>2. CASE k # key
    <3>1. k \in DOMAIN probes /\ probes[k].got = "not HTTP"
      BY <1>7, <1>10, <1>15, <2>2 DEF GivenUp
    <3> QED
      BY <1>6, <1>9, <1>11, <2>2, <3>1
  <2> QED
    BY <2>1, <2>2
<1>16. ASSUME NEW q \in due', q \notin ForcePorts PROVE <<q, seenRow'[q].pid>> \notin garbled'
  <2>1. q \in due /\ q # p /\ q \in ProbePorts
    BY <1>1 DEF ProberHas
  <2>2. <<q, seenRow[q].pid>> \notin garbled /\ <<q, seenRow[q].pid>> # key
    BY <1>16, <2>1 DEF GivenUp, key
  <2> QED
    BY <1>7, <1>10, <1>12, <2>1, <2>2
<1>17. ASSUME NEW q \in ProbePorts \ (due' \cup ForcePorts \cup SkipPorts), seenRow'[q].of # 0,
              <<q, seenRow'[q].pid>> \in garbled'
       PROVE  seenRow'[q].probe.got = "not HTTP"
  <2>1. CASE q = p
    <3>1. key \in garbled'
      BY <1>12, <1>17, <2>1 DEF key
    <3> QED
      BY <1>3, <1>5, <1>7, <1>10, <1>12, <1>17, <2>1, <3>1
  <2>2. CASE q # p
    <3>1. q \notin due /\ <<q, seenRow[q].pid>> # key
      BY <1>1, <1>17, <2>2 DEF key
    <3>2. <<q, seenRow[q].pid>> \in garbled /\ seenRow[q].of # 0
      BY <1>7, <1>10, <1>12, <1>17, <3>1
    <3> QED
      BY <1>12, <1>17, <2>2, <3>1, <3>2 DEF GivenUp
  <2> QED
    BY <2>1, <2>2
<1>18. GivenUp'
  BY <1>15, <1>16, <1>17 DEF GivenUp
<1> QED
  BY <1>13, <1>14, <1>18

LEMMA ProberStep == ProberInv /\ [ProberNext]_proberVars => ProberInv'
<1> SUFFICES ASSUME ProberInv, [ProberNext]_proberVars PROVE ProberInv'
  OBVIOUS
<1>1. CASE TickProbe
  <2>1. clock' \in 1..LastProbeTime /\ UNCHANGED <<server, hidden, speech, started, seenRow, due, probes, garbled>>
    BY <1>1, ProberAssumption DEF TickProbe, ports, ProberInv, ProberHas
  <2>2. ProberHas'
    BY <2>1 DEF ProberInv, ProberHas
  <2>3. AnswersAreOwn' /\ GivenUp'
    BY <2>1 DEF ProberInv, AnswersAreOwn, OwnAnswer, GivenUp
  <2> QED
    BY <2>2, <2>3 DEF ProberInv
<1>2. CASE UNCHANGED proberVars
  BY <1>2 DEF proberVars, ports, ProberInv, ProberHas, AnswersAreOwn, OwnAnswer, GivenUp
<1> QED
  BY <1>1, <1>2, ServeKeeps, ShutKeeps, EnrichKeeps, ProbeKeeps DEF ProberNext

\* The invariant holds in every reachable state.
THEOREM ProberInductive == ProberSpec => []ProberInv
  BY ProberStarts, ProberStep, PTL DEF ProberSpec

\* Every variable of the prober keeps its type, and only rows with a process are due
\* (collectors/http.py, enrich).
THEOREM ProberTypeCorrect == ProberSpec => []ProberTypeOK
<1>1. ProberInv => ProberTypeOK
  <2> SUFFICES ASSUME ProberInv PROVE ProberTypeOK
    OBVIOUS
  <2>1. DOMAIN probes \subseteq Asked
    BY PartialIs DEF ProberInv, ProberHas
  <2> QED
    BY <2>1, ProberAssumption DEF ProberInv, ProberHas, ProberTypeOK, Asked
<1> QED
  BY ProberInductive, <1>1, PTL

\* A row whose process is known never shows what an earlier process answered, nor, while
\* that process serves, what any other did; and no row is left unasked but for an answer
\* that was not HTTP, however long a probe takes (collectors/http.py:5).
THEOREM ProbesAreFresh == ProberSpec => []FreshProbe
<1>1. ProberInv => FreshProbe
  <2> SUFFICES ASSUME ProberInv, NEW p \in ProbePorts
               PROVE  /\ OwnAnswer(p, seenRow[p].pid, seenRow[p].probe)
                      /\ (seenRow[p].of # 0 /\ p \notin due /\ ~ShouldProbe(p, seenRow[p].pid)
                          /\ p \notin SkipPorts) => seenRow[p].probe.got = "not HTTP"
    BY DEF FreshProbe
  <2> QED
    BY DEF ProberInv, AnswersAreOwn, GivenUp, ShouldProbe, CacheKey
<1> QED
  BY ProberInductive, <1>1, PTL

-----------------------------------------------------------------------------
(* The collectors of sockets and processes: a CPU figure counts from the    *)
(* last time the same process was asked, in the cache, in the refresh under *)
(* way and in the table; and whoever has a socket in the listing is asked.  *)

OwnSamples == {r \in [who: 0..LastStarted, since: 0..LastStarted] : r.since \in {0, r.who}}

NumbersOf(s) == {t[1] : t \in s}

CollectorHas ==
  /\ running \in [Numbers -> 0..LastStarted] /\ begun \in 0..LastStarted
  /\ sockets \in SUBSET (Numbers \X ListenPorts) /\ peers \in SUBSET (Numbers \X ListenPorts)
  /\ toDescribe \in SUBSET Numbers
  /\ scan \in [at: {"idle", "describe"}, sockets: SUBSET (Numbers \X ListenPorts),
               peers: SUBSET (Numbers \X ListenPorts)]

\* What is kept and what was read is of one process each.
SamplesAreOwn == cached \in Partial(Numbers, OwnSamples) /\ described \in Partial(Numbers, OwnSamples)

\* Whoever is in the listing was read or will be, and its connections end in it.
ScanIsCovered ==
  /\ NumbersOf(scan.sockets \cup scan.peers) \subseteq toDescribe \cup DOMAIN described
  /\ \A c \in scan.peers : \E s \in scan.sockets : s[2] = c[2]

\* Who is in the table.
InTable == {e[1] : e \in table.edges} \cup UNION {DOMAIN table.on[p] : p \in DOMAIN table.on}

CollectorInv ==
  /\ CollectorHas /\ SamplesAreOwn /\ ScanIsCovered /\ OwnMeasure
  /\ scan.at = "idle" => DOMAIN cached \subseteq InTable

LEMMA CollectorStarts == CollectorInit => CollectorInv
<1> SUFFICES ASSUME CollectorInit PROVE CollectorInv
  OBVIOUS
<1>1. <<>> \in Partial(Numbers, OwnSamples)
  BY PartialBy, {} \in SUBSET Numbers, <<>> \in [{} -> OwnSamples]
<1>2. SamplesAreOwn
  BY <1>1 DEF CollectorInit, SamplesAreOwn
<1>3. CollectorHas
  BY CollectorAssumption DEF CollectorInit, CollectorHas
<1>4. ScanIsCovered
  BY DEF CollectorInit, ScanIsCovered, NumbersOf
<1>5. OwnMeasure /\ DOMAIN cached = {}
  BY DEF CollectorInit, OwnMeasure
<1> QED
  BY <1>2, <1>3, <1>4, <1>5 DEF CollectorInv

\* The machine changes; what lirts has of it does not.
LEMMA MachineKeeps ==
  ASSUME CollectorInv, NEW n \in Numbers, NEW p \in ListenPorts,
         Begins(n) \/ ProcessEnds(n) \/ Listens(n, p) \/ Connects(n, p)
  PROVE  CollectorInv'
<1> USE CollectorAssumption DEF CollectorInv
<1>1. UNCHANGED <<cached, scan, toDescribe, described, table>>
  BY DEF Begins, ProcessEnds, Listens, Connects
<1>2. running' \in [Numbers -> 0..LastStarted] /\ begun' \in 0..LastStarted
  BY DEF Begins, ProcessEnds, Listens, Connects, CollectorHas
<1>3. sockets' \in SUBSET (Numbers \X ListenPorts) /\ peers' \in SUBSET (Numbers \X ListenPorts)
  BY DEF Begins, ProcessEnds, Listens, Connects, CollectorHas
<1>4. CollectorHas'
  BY <1>1, <1>2, <1>3 DEF CollectorHas
<1> QED
  BY <1>1, <1>4 DEF SamplesAreOwn, ScanIsCovered, OwnMeasure, InTable

\* The sockets are listed, as far as they may be seen.
LEMMA GatherKeeps ==
  ASSUME CollectorInv, GatherSockets
  PROVE  CollectorInv'
<1> USE DEF CollectorInv
<1>1. PICK L \in SUBSET sockets, C \in SUBSET peers : Gather(L, C)
  BY DEF GatherSockets
<1> DEFINE ends == {c \in C : \E s \in L : s[2] = c[2]}
<1>2. /\ scan' = [at |-> "describe", sockets |-> L, peers |-> ends]
      /\ toDescribe' = {s[1] : s \in L \cup ends} /\ described' = <<>>
      /\ UNCHANGED <<running, begun, sockets, peers, cached, table>>
  BY <1>1 DEF Gather, machineNow
<1>3. L \subseteq Numbers \X ListenPorts /\ ends \subseteq Numbers \X ListenPorts
  BY DEF CollectorHas
<1>4. \A c \in ends : \E s \in L : s[2] = c[2]
  OBVIOUS
<1> HIDE DEF ends
<1>5. CollectorHas'
  BY <1>2, <1>3 DEF CollectorHas
<1>6. <<>> \in Partial(Numbers, OwnSamples)
  BY PartialBy, {} \in SUBSET Numbers, <<>> \in [{} -> OwnSamples]
<1>7. SamplesAreOwn'
  BY <1>2, <1>6 DEF SamplesAreOwn
<1>8. ScanIsCovered'
  BY <1>2, <1>4 DEF ScanIsCovered, NumbersOf
<1>9. OwnMeasure' /\ scan'.at # "idle"
  BY <1>2 DEF OwnMeasure
<1> QED
  BY <1>5, <1>7, <1>8, <1>9

\* One process is read.
LEMMA DescribeKeeps ==
  ASSUME CollectorInv, NEW n \in Numbers, Describe(n)
  PROVE  CollectorInv'
<1> USE CollectorAssumption DEF CollectorInv
<1> DEFINE sample == IF running[n] = 0 THEN NoSample
                     ELSE [who |-> running[n], since |-> Process(n).since]
           keep == [Process(n) EXCEPT !.since = running[n]]
<1>1. /\ scan.at = "describe" /\ toDescribe' = toDescribe \ {n}
      /\ described' = Noted(described, n, sample)
      /\ cached' = IF running[n] = 0 THEN cached ELSE Noted(cached, n, keep)
      /\ UNCHANGED <<running, begun, sockets, peers, scan, table>>
  BY DEF Describe, machineNow
<1>2. running[n] \in 0..LastStarted
  BY DEF CollectorHas
<1>3. Process(n) \in OwnSamples /\ Process(n).who = running[n]
  <2>1. CASE n \in DOMAIN cached /\ cached[n].who = running[n]
    <3>1. cached[n] \in OwnSamples
      BY <2>1, PartialIs DEF SamplesAreOwn
    <3> QED
      BY <2>1, <3>1 DEF Process
  <2>2. CASE ~(n \in DOMAIN cached /\ cached[n].who = running[n])
    BY <1>2, <2>2 DEF Process, OwnSamples
  <2> QED
    BY <2>1, <2>2
<1>4. sample \in OwnSamples
  BY <1>2, <1>3 DEF NoSample, OwnSamples
<1>5. keep \in OwnSamples
  BY <1>2, <1>3 DEF OwnSamples
<1> HIDE DEF sample, keep
<1>6. /\ Noted(described, n, sample) \in Partial(Numbers, OwnSamples)
      /\ DOMAIN Noted(described, n, sample) = {n} \cup DOMAIN described
  <2>1. PICK v \in OwnSamples, d \in Partial(Numbers, OwnSamples) : v = sample /\ d = described
    BY <1>4 DEF SamplesAreOwn
  <2>2. Noted(d, n, v) \in Partial(Numbers, OwnSamples)
    BY PartialPut
  <2>3. DOMAIN Noted(d, n, v) = {n} \cup DOMAIN d
    BY DEF Noted
  <2> QED
    BY <2>1, <2>2, <2>3
<1>7. cached' \in Partial(Numbers, OwnSamples)
  <2>1. \A d \in Partial(Numbers, OwnSamples) : Noted(d, n, keep) \in Partial(Numbers, OwnSamples)
    BY <1>5, PartialPut
  <2> QED
    BY <1>1, <2>1 DEF SamplesAreOwn
<1>8. CollectorHas'
  BY <1>1 DEF CollectorHas
<1>9. SamplesAreOwn'
  BY <1>1, <1>6, <1>7 DEF SamplesAreOwn
<1>10. ScanIsCovered'
  BY <1>1, <1>6 DEF ScanIsCovered
<1>11. OwnMeasure' /\ scan'.at # "idle"
  BY <1>1 DEF OwnMeasure
<1> QED
  BY <1>8, <1>9, <1>10, <1>11

\* The table is drawn, and what was not seen is forgotten.
LEMMA EndCycleKeeps ==
  ASSUME CollectorInv, EndCycle
  PROVE  CollectorInv'
<1> USE DEF CollectorInv
<1> DEFINE seen == NumbersOf(scan.sockets \cup scan.peers)
           row(p) == [n \in {s[1] : s \in {t \in scan.sockets : t[2] = p}} |-> described[n]]
           on == [p \in {s[2] : s \in scan.sockets} |-> row(p)]
<1>1. /\ toDescribe = {} /\ toDescribe' = {}
      /\ table' = [on |-> on, edges |-> scan.peers]
      /\ cached' = Restrict(cached, DOMAIN cached \cap seen)
      /\ scan' = [at |-> "idle", sockets |-> {}, peers |-> {}]
      /\ described' = <<>> /\ UNCHANGED <<running, begun, sockets, peers>>
  BY DEF EndCycle, machineNow, NumbersOf
<1>2. CollectorHas'
  BY <1>1 DEF CollectorHas
<1>3. /\ cached' \in Partial(Numbers, OwnSamples) /\ DOMAIN cached' = DOMAIN cached \cap seen
  <2>1. cached \in Partial(Numbers, OwnSamples)
    BY DEF SamplesAreOwn
  <2>2. \A K \in SUBSET DOMAIN cached :
          Restrict(cached, K) \in Partial(Numbers, OwnSamples) /\ DOMAIN Restrict(cached, K) = K
    BY <2>1, PartialCut
  <2> QED
    BY <1>1, <2>2
<1>4. SamplesAreOwn'
  BY <1>1, <1>3, PartialBy, {} \in SUBSET Numbers, <<>> \in [{} -> OwnSamples] DEF SamplesAreOwn
<1>5. ScanIsCovered'
  BY <1>1 DEF ScanIsCovered, NumbersOf
<1>6. ASSUME NEW p \in DOMAIN on, NEW n \in DOMAIN on[p] PROVE on[p][n].since \in {0, on[p][n].who}
  <2>1. on[p] = row(p)
    OBVIOUS
  <2>2. PICK s \in scan.sockets : s[2] = p /\ s[1] = n
    BY <1>6, <2>1
  <2>3. n \in DOMAIN described /\ on[p][n] = described[n]
    BY <1>1, <1>6, <2>1, <2>2 DEF ScanIsCovered, NumbersOf
  <2>4. described[n] \in OwnSamples
    BY <2>3, PartialIs DEF SamplesAreOwn
  <2> QED
    BY <2>3, <2>4 DEF OwnSamples
<1>7. \A e \in scan.peers : e[2] \in DOMAIN on
  BY DEF ScanIsCovered
<1>8. seen \subseteq {e[1] : e \in scan.peers} \cup UNION {DOMAIN on[p] : p \in DOMAIN on}
  <2> DEFINE shownNumbers == UNION {DOMAIN on[p] : p \in DOMAIN on}
  <2>1. ASSUME NEW x \in seen, x \notin {e[1] : e \in scan.peers} PROVE x \in shownNumbers
    <3>1. PICK s \in scan.sockets : x = s[1]
      BY <2>1 DEF NumbersOf
    <3>2. s[2] \in DOMAIN on /\ s[1] \in DOMAIN row(s[2]) /\ on[s[2]] = row(s[2])
      OBVIOUS
    <3> QED
      BY <3>1, <3>2
  <2>2. seen \subseteq {e[1] : e \in scan.peers} \cup shownNumbers
    <3> HIDE DEF shownNumbers, seen
    <3> QED
      BY <2>1
  <2> QED
    BY <2>2
<1> HIDE DEF on, seen
<1>9. table'.on = on /\ table'.edges = scan.peers
  BY <1>1
<1>10. OwnMeasure'
  BY <1>6, <1>7, <1>9 DEF OwnMeasure
<1>11. DOMAIN cached' \subseteq InTable'
  BY <1>3, <1>8, <1>9 DEF InTable
<1> QED
  BY <1>2, <1>4, <1>5, <1>10, <1>11

LEMMA CollectorStep == CollectorInv /\ [CollectorNext]_collectorVars => CollectorInv'
<1> SUFFICES ASSUME CollectorInv, [CollectorNext]_collectorVars PROVE CollectorInv'
  OBVIOUS
<1>1. CASE UNCHANGED collectorVars
  <2>1. UNCHANGED <<running, begun, sockets, peers, cached, scan, toDescribe, described, table>>
    BY <1>1 DEF collectorVars, machineNow
  <2>2. CollectorHas' /\ SamplesAreOwn' /\ ScanIsCovered'
    BY <2>1 DEF CollectorInv, CollectorHas, SamplesAreOwn, ScanIsCovered
  <2> QED
    BY <2>1, <2>2 DEF CollectorInv, OwnMeasure, InTable
<1>2. ASSUME NEW n \in Numbers, Begins(n) \/ ProcessEnds(n) PROVE CollectorInv'
  <2>1. UNCHANGED <<cached, scan, toDescribe, described, table>>
    BY <1>2 DEF Begins, ProcessEnds
  <2>2. CollectorHas'
    BY <1>2, CollectorAssumption DEF Begins, ProcessEnds, CollectorInv, CollectorHas
  <2> QED
    BY <2>1, <2>2 DEF CollectorInv, SamplesAreOwn, ScanIsCovered, OwnMeasure, InTable
<1> QED
  BY <1>1, <1>2, MachineKeeps, GatherKeeps, DescribeKeeps, EndCycleKeeps DEF CollectorNext

\* The invariant holds in every reachable state.
THEOREM CollectorInductive == CollectorSpec => []CollectorInv
  BY CollectorStarts, CollectorStep, PTL DEF CollectorSpec

\* Every variable of the collectors keeps its type, and between two refreshes only processes
\* of the last table are kept (collectors/ports.py, end_cycle).
THEOREM CollectorTypeCorrect == CollectorSpec => []CollectorTypeOK
<1>1. CollectorInv => CollectorTypeOK
  <2> SUFFICES ASSUME CollectorInv PROVE CollectorTypeOK
    OBVIOUS
  <2>1. DOMAIN cached \subseteq Numbers /\ DOMAIN described \subseteq Numbers
    BY PartialIs DEF CollectorInv, SamplesAreOwn
  <2> QED
    BY <2>1 DEF CollectorInv, CollectorHas, CollectorTypeOK, InTable
<1> QED
  BY CollectorInductive, <1>1, PTL

\* A process that took over another's number is never charged with its time, however processes
\* come and go, and every edge ends at a row of the same refresh (collectors/ports.py:65).
THEOREM MeasuresAreOwn == CollectorSpec => []OwnMeasure
<1>1. CollectorInv => OwnMeasure
  BY DEF CollectorInv
<1> QED
  BY CollectorInductive, <1>1, PTL

-----------------------------------------------------------------------------
(* Bytes: since a sample, a process moved at least what its counter grew,   *)
(* whoever has its number.                                                  *)

ByteReads == [bytes: Nat, of: Nat]

CountersFit ==
  /\ backend \in Backends /\ enabled \in BOOLEAN /\ connections \in BOOLEAN
  /\ counter \in [Pids -> 0..MostBytes] /\ total \in [Pids -> 0..MostBytes]
  /\ \A p \in Pids : counter[p] <= total[p]
  /\ edgeHistory \in SUBSET Pids

\* What was moved since a sample.
SinceSample(reads) ==
  /\ reads \in Partial(Pids, ByteReads)
  /\ \A p \in DOMAIN reads :
       /\ reads[p].of <= total[p]
       /\ reads[p].of - reads[p].bytes <= total[p] - counter[p]

\* Rates show what was moved, at most.
WithinTotal(shownRates) ==
  /\ shownRates \in Partial(Pids, ByteReads)
  /\ \A p \in DOMAIN shownRates :
       shownRates[p].bytes <= shownRates[p].of /\ shownRates[p].of <= total[p]

BytesInv ==
  /\ CountersFit
  /\ SinceSample(last) /\ SinceSample(flowLast)
  /\ WithinTotal(rates) /\ WithinTotal(flowRates) /\ DOMAIN rates \subseteq DOMAIN last

LEMMA NoSamples == <<>> \in Partial(Pids, ByteReads) /\ DOMAIN <<>> = {}
  BY PartialBy, {} \in SUBSET Pids, <<>> \in [{} -> ByteReads]

LEMMA NothingSampled == SinceSample(<<>>) /\ WithinTotal(<<>>)
  BY NoSamples DEF SinceSample, WithinTotal

LEMMA BytesStart == ThroughputInit => BytesInv
<1> SUFFICES ASSUME ThroughputInit PROVE BytesInv
  OBVIOUS
<1>1. counter \in [Pids -> 0..MostBytes] /\ total \in [Pids -> 0..MostBytes]
      /\ (\A p \in Pids : counter[p] <= total[p]) /\ edgeHistory \in SUBSET Pids
  BY ThroughputAssumption DEF ThroughputInit
<1>2. backend \in Backends /\ enabled \in BOOLEAN /\ connections \in BOOLEAN
  BY Zenon DEF ThroughputInit
<1>3. last = <<>> /\ rates = <<>> /\ flowLast = <<>> /\ flowRates = <<>>
  BY DEF ThroughputInit
<1> QED
  BY <1>1, <1>2, <1>3, NothingSampled, NoSamples DEF BytesInv, CountersFit

\* Bytes are moved, or another process takes a number: all that was sampled still fits.
LEMMA CountingKeeps ==
  ASSUME BytesInv, NEW p \in Pids, MoveBytes(p) \/ TakeOver(p)
  PROVE  BytesInv'
<1> USE ThroughputAssumption DEF BytesInv
<1>1. UNCHANGED <<backend, enabled, connections, last, rates, flowLast, flowRates, edgeHistory>>
  BY DEF MoveBytes, TakeOver, sampler
<1>2. /\ counter' \in [Pids -> 0..MostBytes] /\ total' \in [Pids -> 0..MostBytes]
      /\ \A q \in Pids : /\ counter'[q] <= total'[q] /\ total[q] <= total'[q]
                         /\ total[q] - counter[q] <= total'[q] - counter'[q]
  <2>1. CASE MoveBytes(p)
    <3>1. /\ counter' = [counter EXCEPT ![p] = counter[p] + 1] /\ total' = [total EXCEPT ![p] = total[p] + 1]
          /\ total[p] < MostBytes
      BY <2>1 DEF MoveBytes
    <3>2. counter[p] + 1 \in 0..MostBytes /\ total[p] + 1 \in 0..MostBytes
      BY <3>1 DEF CountersFit
    <3> QED
      BY <3>1, <3>2 DEF CountersFit
  <2>2. CASE TakeOver(p)
    <3>1. counter' = [counter EXCEPT ![p] = 0] /\ total' = total
      BY <2>2 DEF TakeOver
    <3> QED
      BY <3>1 DEF CountersFit
  <2> QED
    BY <2>1, <2>2
<1>3. CountersFit'
  <2>1. backend' \in Backends /\ enabled' \in BOOLEAN /\ connections' \in BOOLEAN
    BY <1>1, Zenon DEF CountersFit
  <2> QED
    BY <1>1, <1>2, <2>1 DEF CountersFit
<1>4. ASSUME NEW reads, SinceSample(reads) PROVE SinceSample(reads)'
  <2>1. DOMAIN reads \subseteq Pids /\ reads \in [DOMAIN reads -> ByteReads]
    BY <1>4, PartialIs DEF SinceSample
  <2>2. ASSUME NEW q \in DOMAIN reads
        PROVE  reads[q].of <= total'[q] /\ reads[q].of - reads[q].bytes <= total'[q] - counter'[q]
    <3>1. q \in Pids /\ reads[q].of \in Nat /\ reads[q].bytes \in Nat
      BY <2>1 DEF ByteReads
    <3>2. /\ reads[q].of <= total[q] /\ reads[q].of - reads[q].bytes <= total[q] - counter[q]
      BY <1>4 DEF SinceSample
    <3>3. total[q] \in Nat /\ counter[q] \in Nat /\ total'[q] \in Nat /\ counter'[q] \in Nat
      BY <1>2, <3>1 DEF CountersFit
    <3>4. total[q] <= total'[q] /\ total[q] - counter[q] <= total'[q] - counter'[q]
      BY <1>2, <3>1
    <3> QED
      BY <3>1, <3>2, <3>3, <3>4
  <2> QED
    BY <1>4, <2>2 DEF SinceSample
<1>5. ASSUME NEW r, WithinTotal(r) PROVE WithinTotal(r)'
  <2>1. DOMAIN r \subseteq Pids /\ r \in [DOMAIN r -> ByteReads]
    BY <1>5, PartialIs DEF WithinTotal
  <2>2. ASSUME NEW q \in DOMAIN r PROVE r[q].of <= total'[q]
    <3>1. q \in Pids /\ r[q].of \in Nat /\ r[q].of <= total[q]
      BY <1>5, <2>1 DEF ByteReads, WithinTotal
    <3>2. total[q] \in Nat /\ total'[q] \in Nat /\ total[q] <= total'[q]
      BY <1>2, <3>1 DEF CountersFit
    <3> QED
      BY <3>1, <3>2
  <2> QED
    BY <1>5, <2>2 DEF WithinTotal
<1> QED
  BY <1>1, <1>3, <1>4, <1>5 DEF SinceSample, WithinTotal

\* A sample is of the counters of the moment.
LEMMA TakenIs ==
  ASSUME BytesInv, NEW reported \in SUBSET Pids
  PROVE  SinceSample(Taken(reported)) /\ DOMAIN Taken(reported) = reported
         /\ \A p \in reported : Taken(reported)[p] = [bytes |-> counter[p], of |-> total[p]]
<1> USE ThroughputAssumption
<1>1. Taken(reported) \in [reported -> ByteReads] /\ DOMAIN Taken(reported) = reported
      /\ \A p \in reported : Taken(reported)[p] = [bytes |-> counter[p], of |-> total[p]]
  BY DEF Taken, ByteReads, BytesInv, CountersFit
<1>2. Taken(reported) \in Partial(Pids, ByteReads)
  BY <1>1, PartialBy
<1>3. \A p \in reported : total[p] \in Nat /\ counter[p] \in Nat
  BY DEF BytesInv, CountersFit
<1> QED
  BY <1>1, <1>2, <1>3 DEF SinceSample

\* A rate is within what was moved between its two samples.
LEMMA MeasuredIs ==
  ASSUME BytesInv, NEW reported \in SUBSET Pids, NEW was, SinceSample(was)
  PROVE  WithinTotal(Measured(was, Taken(reported))) /\ DOMAIN Measured(was, Taken(reported)) \subseteq reported
<1> DEFINE reads == Taken(reported)
           D == {q \in DOMAIN reads \cap DOMAIN was : reads[q].bytes >= was[q].bytes}
           m == Measured(was, reads)
<1>1. /\ DOMAIN reads = reported
      /\ \A p \in reported : reads[p] = [bytes |-> counter[p], of |-> total[p]]
  BY TakenIs
<1>2. DOMAIN was \subseteq Pids /\ was \in [DOMAIN was -> ByteReads]
  BY PartialIs DEF SinceSample
<1> HIDE DEF reads
<1>3. m = [p \in D |-> [bytes |-> reads[p].bytes - was[p].bytes, of |-> reads[p].of - was[p].of]]
  BY DEF Measured
<1> HIDE DEF m
<1>4. ASSUME NEW p \in D
      PROVE  m[p] \in ByteReads /\ m[p].bytes <= m[p].of /\ m[p].of <= total[p]
  <2>1. p \in Pids /\ was[p].bytes \in Nat /\ was[p].of \in Nat /\ counter[p] >= was[p].bytes
    BY <1>1, <1>2 DEF ByteReads
  <2>2. was[p].of <= total[p] /\ was[p].of - was[p].bytes <= total[p] - counter[p]
    BY DEF SinceSample
  <2>3. total[p] \in Nat /\ counter[p] \in Nat
    BY <2>1, ThroughputAssumption DEF BytesInv, CountersFit
  <2>4. m[p] = [bytes |-> counter[p] - was[p].bytes, of |-> total[p] - was[p].of]
    BY <1>1, <1>3
  <2>5. counter[p] - was[p].bytes \in Nat /\ total[p] - was[p].of \in Nat
        /\ counter[p] - was[p].bytes <= total[p] - was[p].of /\ total[p] - was[p].of <= total[p]
    BY <2>1, <2>2, <2>3
  <2> QED
    BY <2>4, <2>5 DEF ByteReads
<1>5. D \in SUBSET Pids /\ D \subseteq reported /\ DOMAIN m = D
  BY <1>1, <1>2, <1>3
<1> HIDE DEF D
<1>6. m \in [D -> ByteReads]
  BY <1>3, <1>4, <1>5
<1>7. m \in Partial(Pids, ByteReads)
  BY <1>5, <1>6, PartialBy
<1>8. WithinTotal(m)
  BY <1>4, <1>5, <1>7 DEF WithinTotal
<1> QED
  BY <1>5, <1>8 DEF m, reads

LEMMA MeasuredFlowsAre ==
  ASSUME BytesInv, NEW flowing \in SUBSET Pids, NEW was, SinceSample(was)
  PROVE  WithinTotal(MeasuredFlows(was, Taken(flowing)))
<1> DEFINE reads == Taken(flowing)
           m == Measured(was, reads)
           rest == [p \in DOMAIN reads \ DOMAIN was |-> [bytes |-> 0, of |-> 0]]
           all == Merged(m, rest)
<1>1. WithinTotal(m) /\ DOMAIN m \subseteq flowing
  BY MeasuredIs
<1>2. DOMAIN reads = flowing
  BY TakenIs
<1>3. m \in [DOMAIN m -> ByteReads] /\ DOMAIN m \subseteq Pids
  BY <1>1, PartialIs DEF WithinTotal
<1>4. /\ rest \in [DOMAIN rest -> ByteReads] /\ DOMAIN rest \subseteq Pids
      /\ \A p \in DOMAIN rest : rest[p].bytes = 0 /\ rest[p].of = 0
  BY <1>2 DEF ByteReads
<1> HIDE DEF m, rest, reads
<1> DEFINE D == DOMAIN m \cup DOMAIN rest
<1>5. all = [p \in D |-> IF p \in DOMAIN m THEN m[p] ELSE rest[p]]
  BY DEF Merged
<1> HIDE DEF all
<1>6. all \in [D -> ByteReads] /\ D \in SUBSET Pids
  BY <1>3, <1>4, <1>5
<1>7. all \in Partial(Pids, ByteReads) /\ DOMAIN all = D
  BY <1>5, <1>6, PartialBy
<1>8. ASSUME NEW p \in D PROVE all[p].bytes <= all[p].of /\ all[p].of <= total[p]
  <2>1. CASE p \in DOMAIN m
    BY <1>1, <1>5, <2>1 DEF WithinTotal
  <2>2. CASE p \notin DOMAIN m
    <3>1. all[p] = rest[p] /\ p \in DOMAIN rest /\ total[p] \in Nat
      BY <1>4, <1>5, <2>2, ThroughputAssumption DEF BytesInv, CountersFit
    <3>2. rest[p].bytes = 0 /\ rest[p].of = 0
      BY <1>4, <3>1
    <3> QED
      BY <3>1, <3>2
  <2> QED
    BY <2>1, <2>2
<1>9. WithinTotal(all)
  BY <1>7, <1>8 DEF WithinTotal
<1> QED
  BY <1>9 DEF all, m, rest, reads, MeasuredFlows

LEMMA SampleKeeps ==
  ASSUME BytesInv, NEW reported \in SUBSET Pids, NEW flowing \in SUBSET Pids, NEW works \in BOOLEAN,
         NEW flowsWork \in BOOLEAN, SampleOnce(reported, works, flowing, flowsWork)
  PROVE  BytesInv'
<1> USE DEF BytesInv
<1>1. UNCHANGED <<backend, connections, counter, edgeHistory, total>>
  BY Zenon DEF SampleOnce
<1>2. enabled' \in BOOLEAN /\ SinceSample(last') /\ WithinTotal(rates') /\ DOMAIN rates' \subseteq DOMAIN last'
  <2>1. SampleProcesses(reported, works)
    BY Zenon DEF SampleOnce
  <2>2. CASE backend = "nettop" /\ works
    <3>1. rates' = Measured(last, Taken(reported)) /\ last' = Taken(reported) /\ enabled' = enabled
      BY <2>1, <2>2, Zenon DEF SampleProcesses
    <3>2. WithinTotal(Measured(last, Taken(reported))) /\ DOMAIN Measured(last, Taken(reported)) \subseteq reported
      BY MeasuredIs
    <3>3. SinceSample(Taken(reported)) /\ DOMAIN Taken(reported) = reported
      BY TakenIs
    <3>4. enabled' \in BOOLEAN
      BY <3>1, Zenon DEF CountersFit
    <3> QED
      BY <3>1, <3>2, <3>3, <3>4, Zenon
  <2>3. CASE ~(backend = "nettop" /\ works)
    <3>1. (enabled' = enabled \/ enabled' = FALSE) /\ last' = last /\ rates' = rates
      BY <2>1, <2>3, Zenon DEF SampleProcesses
    <3>2. enabled' \in BOOLEAN
      BY <3>1, Zenon DEF CountersFit
    <3> QED
      BY <3>1, <3>2, Zenon
  <2> QED
    BY <2>2, <2>3
<1>3. SinceSample(flowLast') /\ WithinTotal(flowRates')
  <2>1. UNCHANGED <<flowLast, flowRates>> \/ SampleFlows(flowing, flowsWork)
    BY Zenon DEF SampleOnce
  <2>2. CASE UNCHANGED <<flowLast, flowRates>>
    BY <2>2
  <2>3. CASE SampleFlows(flowing, flowsWork)
    <3>1. CASE ~connections
      <4>1. flowRates' = <<>> /\ (flowLast' = flowLast \/ flowLast' = <<>>)
        BY <2>3, <3>1, Zenon DEF SampleFlows
      <4> QED
        BY <4>1, NothingSampled
    <3>2. CASE connections /\ flowsWork
      <4>1. flowRates' = MeasuredFlows(flowLast, Taken(flowing)) /\ flowLast' = Taken(flowing)
        BY <2>3, <3>2, Zenon DEF SampleFlows
      <4> QED
        BY <4>1, MeasuredFlowsAre, TakenIs
    <3>3. CASE connections /\ ~flowsWork
      <4>1. flowLast' = flowLast /\ flowRates' = flowRates
        BY <2>3, <3>3, Zenon DEF SampleFlows
      <4> QED
        BY <4>1
    <3> QED
      BY <3>1, <3>2, <3>3
  <2> QED
    BY <2>1, <2>2, <2>3
<1>4. CountersFit'
  <2>1. backend' \in Backends /\ enabled' \in BOOLEAN /\ connections' \in BOOLEAN
    BY <1>1, <1>2, Zenon DEF CountersFit
  <2> QED
    BY <1>1, <2>1 DEF CountersFit
<1> QED
  BY <1>1, <1>2, <1>3, <1>4 DEF SinceSample, WithinTotal

LEMMA BytesStep == BytesInv /\ [ThroughputNext]_throughputVars => BytesInv'
<1> SUFFICES ASSUME BytesInv, [ThroughputNext]_throughputVars PROVE BytesInv'
  OBVIOUS
<1>1. ASSUME UNCHANGED <<backend, counter, total, enabled, last, rates, flowLast, flowRates>>,
             connections' \in BOOLEAN, edgeHistory' \in SUBSET Pids
      PROVE  BytesInv'
  <2>1. backend' \in Backends /\ enabled' \in BOOLEAN /\ connections' \in BOOLEAN
    BY <1>1, Zenon DEF BytesInv, CountersFit
  <2>2. CountersFit'
    BY <1>1, <2>1 DEF BytesInv, CountersFit
  <2> QED
    BY <1>1, <2>2 DEF BytesInv, SinceSample, WithinTotal
<1>2. CASE SetConnections
  <2>1. UNCHANGED <<backend, counter, total, enabled, last, rates, flowLast, flowRates, edgeHistory>>
        /\ connections' = ~connections
    BY <1>2, Zenon DEF SetConnections, sampler
  <2>2. connections' \in BOOLEAN
    BY <2>1, Zenon
  <2> QED
    BY <1>1, <2>1, <2>2 DEF BytesInv, CountersFit
<1>3. ASSUME NEW edges \in SUBSET Pids, AttachFlows(edges) PROVE BytesInv'
  <2>1. UNCHANGED <<backend, counter, total, enabled, last, rates, flowLast, flowRates, connections>>
    BY <1>3, Zenon DEF AttachFlows, sampler
  <2>2. edgeHistory' \in SUBSET Pids
    <3>1. edgeHistory' = {} \/ edgeHistory' = (edgeHistory \cap edges) \cup (edges \cap DOMAIN flowRates)
      BY <1>3, Zenon DEF AttachFlows
    <3> QED
      BY <3>1
  <2>3. connections' \in BOOLEAN
    BY <2>1, Zenon DEF BytesInv, CountersFit
  <2> QED
    BY <1>1, <2>1, <2>2, <2>3
<1>4. CASE UNCHANGED throughputVars
  <2>1. UNCHANGED <<backend, counter, total, enabled, last, rates, flowLast, flowRates, connections, edgeHistory>>
    BY <1>4, Zenon DEF throughputVars, sampler
  <2>2. connections' \in BOOLEAN /\ edgeHistory' \in SUBSET Pids
    BY <2>1, Zenon DEF BytesInv, CountersFit
  <2> QED
    BY <1>1, <2>1, <2>2
<1>5. ASSUME NEW reported \in SUBSET Pids, NEW flowing \in SUBSET Pids, NEW works \in BOOLEAN,
             NEW flowsWork \in BOOLEAN, SampleOnce(reported, works, flowing, flowsWork)
      PROVE  BytesInv'
  BY <1>5, SampleKeeps
<1> QED
  BY <1>2, <1>3, <1>4, <1>5, CountingKeeps, Zenon DEF ThroughputNext

\* The invariant holds in every reachable state.
THEOREM BytesInductive == ThroughputSpec => []BytesInv
  BY BytesStart, BytesStep, PTL DEF ThroughputSpec

\* Every variable of the sampler keeps its type; a rate is of a process of the last sample
\* (collectors/bandwidth.py, ingest).
THEOREM BytesTypeCorrect == ThroughputSpec => []ThroughputTypeOK
<1>1. BytesInv => ThroughputTypeOK
  <2> SUFFICES ASSUME BytesInv PROVE ThroughputTypeOK
    OBVIOUS
  <2>1. DOMAIN last \subseteq Pids /\ DOMAIN rates \subseteq Pids /\ DOMAIN flowLast \subseteq Pids
        /\ DOMAIN flowRates \subseteq Pids /\ edgeHistory \subseteq Pids
    BY PartialIs DEF BytesInv, SinceSample, WithinTotal, CountersFit
  <2>2. UNION {DOMAIN last, DOMAIN rates, DOMAIN flowLast, DOMAIN flowRates, edgeHistory} \subseteq Pids
    BY <2>1, Zenon
  <2>3. backend \in Backends /\ {enabled, connections} \subseteq BOOLEAN
    BY Zenon DEF BytesInv, CountersFit
  <2> QED
    BY <2>2, <2>3, Zenon DEF BytesInv, CountersFit, ThroughputTypeOK
<1> QED
  BY BytesInductive, <1>1, PTL

\* A rate never shows bytes that were not moved between its two samples
\* (collectors/bandwidth.py).
THEOREM NeverMoreThanMoved == ThroughputSpec => []NeverTooMuch
<1>1. BytesInv => NeverTooMuch
  <2> SUFFICES ASSUME BytesInv PROVE NeverTooMuch
    OBVIOUS
  <2>1. ASSUME NEW shownRates, WithinTotal(shownRates), NEW p \in DOMAIN shownRates
        PROVE  shownRates[p].bytes \in 0..shownRates[p].of
    <3>1. shownRates \in [DOMAIN shownRates -> ByteReads]
      BY <2>1, PartialIs DEF WithinTotal
    <3>2. shownRates[p].bytes \in Nat /\ shownRates[p].of \in Nat
      BY <2>1, <3>1 DEF ByteReads
    <3>3. shownRates[p].bytes <= shownRates[p].of
      BY <2>1 DEF WithinTotal
    <3> QED
      BY <3>2, <3>3
  <2>2. WithinTotal(rates) /\ WithinTotal(flowRates)
    BY DEF BytesInv
  <2> QED
    BY <2>1, <2>2 DEF NeverTooMuch
<1> QED
  BY BytesInductive, <1>1, PTL

-----------------------------------------------------------------------------
(* Where a process was started: HEAD that was read has every checkout       *)
(* before that time, and a row that is attached had it read not long ago.   *)

\* The cache of the branch is of a time there was; what was read then is what there is,
\* unless something was checked out since.
BranchFits ==
  /\ originTime \in 1..LastOriginTime
  /\ head.branch \in Nat /\ head.since \in 0..originTime
  /\ branch.at \in 0..originTime /\ branch.head \in 0..head.branch
  /\ head.since < branch.at => branch.head = head.branch

AttachedFits ==
  /\ \A p \in DOMAIN rowOrigin : rowOrigin[p].at \in 0..originTime
  /\ BranchIsRecent

\* What is listed, attached and kept are processes; between refreshes only the last rows.
ListedFits ==
  /\ rowsLeft \in Seq(OriginPids)
  /\ DOMAIN walked \subseteq OriginPids /\ DOMAIN rowOrigin \subseteq OriginPids
  /\ rowsLeft = <<>> => DOMAIN walked \subseteq DOMAIN rowOrigin

OriginInv == BranchFits /\ AttachedFits /\ ListedFits

LEMMA OriginStarts == OriginInit => OriginInv
<1> SUFFICES ASSUME OriginInit PROVE OriginInv
  OBVIOUS
<1>1. /\ originTime = 1 /\ head = [branch |-> 0, since |-> 0] /\ branch = [at |-> 0, head |-> 0]
      /\ walked = <<>> /\ rowsLeft = <<>> /\ rowOrigin = <<>>
  BY DEF OriginInit
<1>2. DOMAIN <<>> = {}
  OBVIOUS
<1> QED
  BY <1>1, <1>2, OriginAssumption DEF OriginInv, BranchFits, AttachedFits, ListedFits, BranchIsRecent

\* Time passes, and HEAD moves.
LEMMA ClockKeepsOrigin ==
  ASSUME OriginInv, OriginTick \/ Checkout
  PROVE  OriginInv'
<1>1. /\ UNCHANGED <<walked, branch, rowsLeft, rowOrigin>>
      /\ \/ originTime < LastOriginTime /\ originTime' = originTime + 1 /\ head' = head
         \/ originTime' = originTime /\ head' = [branch |-> head.branch + 1, since |-> originTime]
  BY DEF OriginTick, Checkout
<1>2. ListedFits'
  BY <1>1 DEF OriginInv, ListedFits
<1>3. BranchFits'
  BY <1>1, OriginAssumption DEF OriginInv, BranchFits
<1>4. AttachedFits'
  <2>1. ASSUME NEW p \in DOMAIN rowOrigin
        PROVE  /\ rowOrigin[p].at \in 0..originTime'
               /\ head'.since < rowOrigin[p].at - BranchSeconds => rowOrigin[p].branch = head'.branch
    <3>1. /\ rowOrigin[p].at \in 0..originTime
          /\ head.since < rowOrigin[p].at - BranchSeconds => rowOrigin[p].branch = head.branch
      BY DEF OriginInv, AttachedFits, BranchIsRecent
    <3>2. originTime \in Nat /\ BranchSeconds \in Nat
      BY OriginAssumption DEF OriginInv, BranchFits
    <3> QED
      BY <1>1, <3>1, <3>2
  <2> QED
    BY <1>1, <2>1 DEF AttachedFits, BranchIsRecent
<1> QED
  BY <1>2, <1>3, <1>4 DEF OriginInv

\* A refresh lists what runs.
LEMMA ListKeepsOrigin ==
  ASSUME OriginInv, NEW s \in UNION {[1..n -> OriginPids] : n \in 1..2}, ListRows(s)
  PROVE  OriginInv'
<1>1. s \in Seq(OriginPids) /\ s # <<>>
  <2>1. PICK n \in 1..2 : s \in [1..n -> OriginPids]
    OBVIOUS
  <2>2. n \in Nat /\ n # 0 /\ Len(s) = n /\ s \in Seq(OriginPids)
    BY <2>1
  <2> QED
    BY <2>2
<1>2. rowsLeft' = s /\ rowOrigin' = <<>> /\ UNCHANGED <<originTime, head, branch, walked>>
  BY DEF ListRows
<1>3. DOMAIN <<>> = {}
  OBVIOUS
<1> QED
  BY <1>1, <1>2, <1>3 DEF OriginInv, BranchFits, AttachedFits, ListedFits, BranchIsRecent

\* A row gets its origin.
LEMMA ResolveKeeps ==
  ASSUME OriginInv, Resolve
  PROVE  OriginInv'
<1> DEFINE pid  == Head(rowsLeft)
           mine == IF pid \in DOMAIN walked THEN walked[pid] ELSE Walk(pid)
           all  == Noted(walked, pid, mine)
           o    == Merged([branch |-> branch'.head, at |-> originTime], mine)
<1>1. /\ rowsLeft # <<>> /\ rowsLeft' = Tail(rowsLeft) /\ branch' = GitBranch
      /\ rowOrigin' = Noted(rowOrigin, pid, o)
      /\ walked' = IF Len(rowsLeft) = 1 THEN Restrict(all, DOMAIN rowOrigin') ELSE all
      /\ UNCHANGED <<originTime, head>>
  BY DEF Resolve
<1>2. o.branch = branch'.head /\ o.at = originTime
  BY DEF Merged
<1>3. DOMAIN all = {pid} \cup DOMAIN walked
  BY DEF Noted
<1> HIDE DEF o, mine, all
<1>4. pid \in OriginPids /\ Tail(rowsLeft) \in Seq(OriginPids)
      /\ (Tail(rowsLeft) = <<>> => Len(rowsLeft) = 1)
  <2>1. rowsLeft \in Seq(OriginPids) /\ rowsLeft # <<>>
    BY <1>1 DEF OriginInv, ListedFits
  <2>2. ASSUME NEW s \in Seq(OriginPids), s # <<>>
        PROVE  /\ Head(s) \in OriginPids /\ Tail(s) \in Seq(OriginPids)
               /\ Tail(s) = <<>> => Len(s) = 1
    <3>1. Len(s) \in Nat /\ Len(s) # 0 /\ Head(s) \in OriginPids /\ Tail(s) \in Seq(OriginPids)
          /\ Len(Tail(s)) = Len(s) - 1
      BY <2>2
    <3>2. Len(<<>>) = 0
      OBVIOUS
    <3>3. Tail(s) = <<>> => Len(Tail(s)) = 0
      BY <3>2, Zenon
    <3> QED
      BY <3>1, <3>3
  <2> QED
    BY <2>1, <2>2
<1>5. DOMAIN rowOrigin' = {pid} \cup DOMAIN rowOrigin
      /\ \A p \in DOMAIN rowOrigin' : rowOrigin'[p] = IF p = pid THEN o ELSE rowOrigin[p]
  BY <1>1 DEF Noted
<1>6. ListedFits'
  <2>1. CASE Len(rowsLeft) = 1
    <3>1. DOMAIN walked' = DOMAIN rowOrigin'
      BY <1>1, <2>1 DEF Restrict
    <3> QED
      BY <1>1, <1>4, <1>5, <3>1 DEF OriginInv, ListedFits
  <2>2. CASE Len(rowsLeft) # 1
    BY <1>1, <1>3, <1>4, <1>5, <2>2 DEF OriginInv, ListedFits
  <2> QED
    BY <2>1, <2>2
<1>7. /\ originTime \in Nat /\ BranchSeconds \in Nat /\ head.branch \in Nat /\ head.since \in 0..originTime
      /\ branch.at \in 0..originTime /\ branch.head \in 0..head.branch
      /\ head.since < branch.at => branch.head = head.branch
  BY OriginAssumption DEF OriginInv, BranchFits
<1>8. /\ branch'.at \in 0..originTime /\ branch'.head \in 0..head.branch
      /\ head.since < branch'.at => branch'.head = head.branch
      /\ head.since < originTime - BranchSeconds => head.since < branch'.at
  BY <1>1, <1>7 DEF GitBranch
<1>9. BranchFits'
  BY <1>1, <1>7, <1>8 DEF OriginInv, BranchFits
<1>10. AttachedFits'
  <2>1. ASSUME NEW p \in DOMAIN rowOrigin'
        PROVE  /\ rowOrigin'[p].at \in 0..originTime
               /\ head.since < rowOrigin'[p].at - BranchSeconds => rowOrigin'[p].branch = head.branch
    <3>1. CASE p = pid
      <4>1. rowOrigin'[p] = o
        BY <1>5, <3>1
      <4> QED
        BY <1>2, <1>7, <1>8, <4>1
    <3>2. CASE p # pid
      <4>1. rowOrigin'[p] = rowOrigin[p] /\ p \in DOMAIN rowOrigin
        BY <1>5, <3>2
      <4> QED
        BY <4>1 DEF OriginInv, AttachedFits, BranchIsRecent
    <3> QED
      BY <3>1, <3>2
  <2> QED
    BY <1>1, <2>1 DEF AttachedFits, BranchIsRecent
<1> QED
  BY <1>6, <1>9, <1>10 DEF OriginInv

LEMMA OriginStep == OriginInv /\ [OriginNext]_originVars => OriginInv'
<1> SUFFICES ASSUME OriginInv, [OriginNext]_originVars PROVE OriginInv'
  OBVIOUS
<1>1. CASE OriginTick \/ Checkout
  BY <1>1, ClockKeepsOrigin
<1>2. CASE Resolve
  BY <1>2, ResolveKeeps
<1>3. CASE \E s \in UNION {[1..n -> OriginPids] : n \in 1..2} : ListRows(s)
  BY <1>3, ListKeepsOrigin
<1>4. CASE UNCHANGED <<originTime, head, walked, branch, rowsLeft, rowOrigin>>
  BY <1>4 DEF OriginInv, BranchFits, AttachedFits, ListedFits, BranchIsRecent
<1>5. CASE \E p \in OriginPids :
             Leaves(p) \/ \E c \in Chains, t \in {Nowhere, "tty"} : Launch(p, c, t)
  BY <1>4, <1>5, Zenon DEF Leaves, Launch
<1>6. CASE \E w \in {"w1", Nowhere} : RenameWindow(w)
  BY <1>4, <1>6, Zenon DEF RenameWindow
<1>7. CASE UNCHANGED originVars
  BY <1>4, <1>7, Zenon DEF originVars
<1> QED
  BY <1>1, <1>2, <1>3, <1>5, <1>6, <1>7, Zenon DEF OriginNext

THEOREM OriginInductive == OriginSpec => []OriginInv
  BY OriginStarts, OriginStep, PTL DEF OriginSpec

\* The resolver keeps its types; between refreshes it knows the rows of the last one only
\* (collectors/origin.py).
THEOREM OriginTypeCorrect == OriginSpec => []OriginTypeOK
<1>1. OriginInv => OriginTypeOK
  BY DEF OriginInv, BranchFits, ListedFits, OriginTypeOK
<1> QED
  BY OriginInductive, <1>1, PTL

\* The branch a row shows is not older than ORIGIN_BRANCH_CACHE_SECONDS (collectors/origin.py).
THEOREM BranchesAreRecent == OriginSpec => []BranchIsRecent
<1>1. OriginInv => BranchIsRecent
  BY Zenon DEF OriginInv, AttachedFits
<1> QED
  BY OriginInductive, <1>1, PTL

-----------------------------------------------------------------------------
(* Routes: what a refresh applied, its rows show as a whole, whatever is    *)
(* asked and switched while it runs.                                        *)

RoutesFit ==
  /\ nginx \subseteq Servers /\ httpd \in HttpdConfigs
  /\ \A r \in routes : r.upstream \in ProxyPorts \cup {0}
  /\ DOMAIN asking = Asking
  /\ \A t \in Asking : /\ asking[t] = [at |-> asking[t].at, found |-> asking[t].found]
                       /\ asking[t].at \in {"idle", "begin", "nginx", "httpd"}
                       /\ \A r \in asking[t].found : r.upstream \in ProxyPorts \cup {0}

SwitchesFit == routesLoaded \in BOOLEAN /\ proxiesOn \in BOOLEAN

PageFits == DOMAIN page.hosts = DOMAIN page.targets /\ RowsAreOfOnePiece

RouteInv == RoutesFit /\ SwitchesFit /\ PageFits

\* What a configuration passes to is a port.
LEMMA RoutesLead ==
  ASSUME RoutesFit
  PROVE  /\ \A r \in NginxRoutes : r.upstream \in ProxyPorts \cup {0}
         /\ \A r \in HttpdRoutes : r.upstream \in ProxyPorts \cup {0}
<1>1. ASSUME NEW listen, NEW names, NEW passes \in SUBSET ProxyPorts, NEW r \in RoutesOf(listen, names, passes)
      PROVE  r.upstream \in ProxyPorts \cup {0}
  BY <1>1 DEF RoutesOf
<1>2. ASSUME NEW r \in NginxRoutes PROVE r.upstream \in ProxyPorts \cup {0}
  <2>1. PICK s \in nginx : r \in RoutesOf(s.listen, s.names, s.passes)
    BY <1>2 DEF NginxRoutes
  <2>2. s.passes \in SUBSET ProxyPorts
    BY RouteAssumption DEF RoutesFit
  <2> QED
    BY <1>1, <2>1, <2>2
<1>3. ASSUME NEW r \in HttpdRoutes PROVE r.upstream \in ProxyPorts \cup {0}
  <2>1. CASE httpd.vhosts = {}
    <3>1. r \in RoutesOf(httpd.listen, {}, httpd.passes)
      BY <1>3, <2>1 DEF HttpdRoutes
    <3>2. httpd.passes \in SUBSET ProxyPorts
      BY RouteAssumption DEF RoutesFit
    <3> QED
      BY <1>1, <3>1, <3>2
  <2>2. CASE httpd.vhosts # {}
    <3>1. PICK v \in httpd.vhosts :
            r \in RoutesOf(IF v.listen = {} THEN httpd.listen ELSE v.listen, v.names, v.passes)
      BY <1>3, <2>2 DEF HttpdRoutes
    <3>2. v.passes \in SUBSET ProxyPorts
      BY RouteAssumption DEF RoutesFit
    <3> QED
      BY <1>1, <3>1, <3>2
  <2> QED
    BY <2>1, <2>2
<1> QED
  BY <1>2, <1>3

LEMMA RouteStarts == RouteInit => RouteInv
<1> SUFFICES ASSUME RouteInit PROVE RouteInv
  OBVIOUS
<1>1. SwitchesFit
  BY Zenon DEF RouteInit, SwitchesFit
<1>2. RoutesFit
  BY DEF RouteInit, RoutesFit, NotAsking
<1>3. page.hosts = <<>> /\ page.targets = <<>> /\ page.applied = {} /\ DOMAIN <<>> = {}
  BY DEF RouteInit, NoPage
<1>4. PageFits
  BY <1>3 DEF PageFits, RowsAreOfOnePiece
<1> QED
  BY <1>1, <1>2, <1>4 DEF RouteInv

\* A thread asks the proxies.
LEMMA AskingKeeps ==
  ASSUME RouteInv, NEW t \in Asking, StartAsking(t) \/ AskNginx(t) \/ AskHttpd(t)
  PROVE  RouteInv'
<1>1. RoutesFit
  BY Zenon DEF RouteInv
<1>2. UNCHANGED <<nginx, httpd, proxiesOn, page>> /\ SwitchesFit'
  <2>1. CASE StartAsking(t)
    BY <2>1, Zenon DEF StartAsking, proxyWorld, RouteInv, SwitchesFit
  <2>2. CASE AskNginx(t)
    BY <2>2, Zenon DEF AskNginx, proxyWorld, routeEngine, RouteInv, SwitchesFit
  <2>3. CASE AskHttpd(t)
    BY <2>3, Zenon DEF AskHttpd, proxyWorld, RouteInv, SwitchesFit
  <2> QED
    BY <2>1, <2>2, <2>3
<1>3. PageFits'
  BY <1>2 DEF RouteInv, PageFits, RowsAreOfOnePiece
<1>4. RoutesFit'
  <2>1. CASE StartAsking(t)
    <3>1. \/ asking' = [asking EXCEPT ![t].at = "nginx"] /\ routes' = routes
          \/ asking' = [asking EXCEPT ![t] = NotAsking] /\ routes' = {}
      BY <2>1 DEF StartAsking
    <3> QED
      BY <1>1, <1>2, <3>1 DEF RoutesFit, NotAsking
  <2>2. CASE AskNginx(t)
    <3>1. PICK found \in {NginxRoutes, {}} : asking' = [asking EXCEPT ![t] = [at |-> "httpd", found |-> found]]
      BY <2>2 DEF AskNginx
    <3>2. \A r \in found : r.upstream \in ProxyPorts \cup {0}
      BY <1>1, RoutesLead
    <3>3. routes' = routes
      BY <2>2 DEF AskNginx, routeEngine
    <3> QED
      BY <1>1, <1>2, <3>1, <3>2, <3>3 DEF RoutesFit
  <2>3. CASE AskHttpd(t)
    <3>1. PICK found \in {HttpdRoutes, {}} : routes' = asking[t].found \cup found
      BY <2>3 DEF AskHttpd
    <3>2. \A r \in found : r.upstream \in ProxyPorts \cup {0}
      BY <1>1, RoutesLead
    <3>3. asking' = [asking EXCEPT ![t] = NotAsking]
      BY <2>3 DEF AskHttpd
    <3> QED
      BY <1>1, <1>2, <3>1, <3>2, <3>3 DEF RoutesFit, NotAsking
  <2> QED
    BY <2>1, <2>2, <2>3
<1> QED
  BY <1>2, <1>3, <1>4 DEF RouteInv

\* A refresh begins, or the screen asks.
LEMMA BeginKeepsRoutes ==
  ASSUME RouteInv, ReloadRoutes \/ \E P \in SUBSET ProxyPorts : BeginListing(P)
  PROVE  RouteInv'
<1>1. UNCHANGED <<nginx, httpd, routes, routesLoaded, proxiesOn>>
      /\ (asking' = asking \/ \E t \in Asking : asking' = [asking EXCEPT ![t].at = "begin"])
      /\ (page' = page \/ \E P : page' = NoPage(P))
  <2>1. CASE ReloadRoutes
    BY <2>1 DEF ReloadRoutes, proxyWorld, routeEngine, Asking
  <2>2. ASSUME NEW P \in SUBSET ProxyPorts, BeginListing(P)
        PROVE  /\ UNCHANGED <<nginx, httpd, routes, routesLoaded, proxiesOn>>
               /\ asking' = asking \/ \E t \in Asking : asking' = [asking EXCEPT ![t].at = "begin"]
               /\ page' = NoPage(P)
    BY <2>2 DEF BeginListing, proxyWorld, routeEngine, Asking
  <2> QED
    BY <2>1, <2>2, Zenon
<1>2. RoutesFit'
  BY <1>1 DEF RouteInv, RoutesFit
<1>3. PageFits'
  <2>1. CASE page' = page
    BY <2>1 DEF RouteInv, PageFits, RowsAreOfOnePiece
  <2>2. CASE \E P : page' = NoPage(P)
    <3>1. page'.hosts = <<>> /\ page'.targets = <<>> /\ page'.applied = {} /\ DOMAIN <<>> = {}
      BY <2>2 DEF NoPage
    <3> QED
      BY <3>1 DEF PageFits, RowsAreOfOnePiece
  <2> QED
    BY <1>1, <2>1, <2>2
<1>4. SwitchesFit'
  BY <1>1, Zenon DEF RouteInv, SwitchesFit
<1> QED
  BY <1>2, <1>3, <1>4 DEF RouteInv

\* Routes are applied to the rows of the refresh.
LEMMA ApplyIsWhole ==
  ASSUME RouteInv, ApplyRoutes
  PROVE  RouteInv'
<1> DEFINE P == page.rows
           A == Applied(P)
<1>1. /\ page'.hosts = [p \in P |-> IF p \in HostNamePorts THEN SharedNames(P) ELSE OwnNames(p, P)]
      /\ page'.targets = [p \in P |-> {r.upstream : r \in {q \in A : q.listen = p}} \cap (P \ {p})]
      /\ page'.names = SharedNames(P) /\ page'.applied = A
      /\ UNCHANGED <<nginx, httpd, routes, routesLoaded, proxiesOn, asking>>
  BY DEF ApplyRoutes, proxyWorld, routeEngine
<1>2. \A r \in A : r.listen \in P
  BY DEF Applied
<1>3. \A p \in P : OwnNames(p, P) \subseteq UNION {r.names : r \in A}
  BY DEF OwnNames
<1>4. \A r \in A : \A p \in {r.listen, r.upstream} \cap P : r.names \subseteq OwnNames(p, P)
  BY DEF OwnNames, NamedRows
<1>5. \A p \in P \cap HostNamePorts : OwnNames(p, P) \subseteq SharedNames(P)
  BY DEF SharedNames
<1>6. DOMAIN page'.hosts = P /\ DOMAIN page'.targets = P
  BY <1>1
<1>7. ASSUME NEW p \in P
      PROVE  /\ OwnNames(p, P) \subseteq page'.hosts[p]
             /\ page'.hosts[p] \ page'.names \subseteq UNION {r.names : r \in A}
             /\ page'.targets[p] = {r.upstream : r \in {q \in A : q.listen = p}} \cap (P \ {p})
  <2>1. page'.hosts[p] = IF p \in HostNamePorts THEN SharedNames(P) ELSE OwnNames(p, P)
    BY <1>1
  <2>2. page'.targets[p] = {r.upstream : r \in {q \in A : q.listen = p}} \cap (P \ {p})
    BY <1>1
  <2> HIDE DEF A, P
  <2>3. page'.names = SharedNames(P) /\ OwnNames(p, P) \subseteq UNION {r.names : r \in A}
    BY <1>1, <1>3
  <2> QED
    BY <1>5, <2>1, <2>2, <2>3
<1> HIDE DEF A, P
<1>8. ASSUME NEW r \in A
      PROVE  /\ r.names \subseteq page'.hosts[r.listen]
             /\ r.upstream \in P => r.names \subseteq page'.hosts[r.upstream]
             /\ r.upstream \in P \ {r.listen} => r.upstream \in page'.targets[r.listen]
  <2>1. r.listen \in P /\ r \in {q \in A : q.listen = r.listen}
    BY <1>2
  <2>2. page'.targets[r.listen] = {x.upstream : x \in {q \in A : q.listen = r.listen}} \cap (P \ {r.listen})
    BY <1>7, <2>1
  <2> QED
    BY <1>4, <1>7, <2>1, <2>2
<1>9. PageFits'
  <2>1. page'.applied = A /\ DOMAIN page'.hosts = P /\ DOMAIN page'.targets = P
    BY <1>1, <1>6, Zenon
  <2>2. ASSUME NEW p \in P
        PROVE  /\ page'.targets[p] \subseteq P \ {p}
               /\ page'.hosts[p] \ page'.names \subseteq UNION {r.names : r \in A}
    BY <1>7
  <2> QED
    BY <1>8, <2>1, <2>2, Zenon DEF PageFits, RowsAreOfOnePiece
<1>10. RoutesFit'
  BY <1>1 DEF RouteInv, RoutesFit
<1>11. SwitchesFit'
  BY <1>1, Zenon DEF RouteInv, SwitchesFit
<1> QED
  BY <1>9, <1>10, <1>11 DEF RouteInv

LEMMA RouteStep == RouteInv /\ [RouteNext]_routeVars => RouteInv'
<1> SUFFICES ASSUME RouteInv, [RouteNext]_routeVars PROVE RouteInv'
  OBVIOUS
<1>1. CASE \E t \in Asking : StartAsking(t) \/ AskNginx(t) \/ AskHttpd(t)
  BY <1>1, AskingKeeps
<1>2. CASE ReloadRoutes \/ \E P \in SUBSET ProxyPorts : BeginListing(P)
  BY <1>2, BeginKeepsRoutes
<1>3. CASE ApplyRoutes
  BY <1>3, ApplyIsWhole
<1>4. ASSUME UNCHANGED <<nginx, httpd, routes, asking>>, page' = page PROVE RoutesFit' /\ PageFits'
  BY <1>4 DEF RouteInv, RoutesFit, PageFits, RowsAreOfOnePiece
<1>5. CASE SetProxies
  <2>1. UNCHANGED <<nginx, httpd, routes, asking, page>>
    BY <1>5, Zenon DEF SetProxies, proxyWorld
  <2>2. SwitchesFit'
    BY <1>5, Zenon DEF SetProxies, RouteInv, SwitchesFit
  <2> QED
    BY <1>4, <2>1, <2>2 DEF RouteInv
<1>6. CASE Reconfigure
  <2>1. UNCHANGED <<routes, asking, page>> /\ nginx' \subseteq Servers /\ httpd' \in HttpdConfigs
    BY <1>6 DEF Reconfigure, routeEngine, RouteInv, RoutesFit
  <2>2. SwitchesFit'
    BY <1>6, Zenon DEF Reconfigure, routeEngine, RouteInv, SwitchesFit
  <2>3. RoutesFit' /\ PageFits'
    BY <2>1 DEF RouteInv, RoutesFit, PageFits, RowsAreOfOnePiece
  <2> QED
    BY <2>2, <2>3 DEF RouteInv
<1>7. CASE PublishRoutes
  <2>1. UNCHANGED <<nginx, httpd, routes, asking>>
    BY <1>7 DEF PublishRoutes, proxyWorld, routeEngine
  <2>2. SwitchesFit'
    BY <1>7, Zenon DEF PublishRoutes, routeEngine, RouteInv, SwitchesFit
  <2>3. /\ page'.hosts = page.hosts /\ page'.targets = page.targets
        /\ page'.names = page.names /\ page'.applied = page.applied
    BY <1>7 DEF PublishRoutes
  <2>4. RoutesFit' /\ PageFits'
    BY <2>1, <2>3 DEF RouteInv, RoutesFit, PageFits, RowsAreOfOnePiece
  <2> QED
    BY <2>2, <2>4 DEF RouteInv
<1>8. CASE UNCHANGED routeVars
  <2>1. UNCHANGED <<nginx, httpd, routes, asking, page>> /\ SwitchesFit'
    BY <1>8, Zenon DEF routeVars, proxyWorld, routeEngine, RouteInv, SwitchesFit
  <2> QED
    BY <1>4, <2>1 DEF RouteInv
<1> QED
  BY <1>1, <1>2, <1>3, <1>5, <1>6, <1>7, <1>8, Zenon DEF RouteNext

THEOREM RoutesInductive == RouteSpec => []RouteInv
  BY RouteStarts, RouteStep, PTL DEF RouteSpec

\* The routes of the engine, of a thread that asks and of the rows keep their types (engine/routes.py).
THEOREM RouteTypeCorrect == RouteSpec => []RouteTypeOK
<1>1. RouteInv => RouteTypeOK
  <2> SUFFICES ASSUME RouteInv PROVE RouteTypeOK
    OBVIOUS
  <2>1. {routesLoaded, proxiesOn} \subseteq BOOLEAN
    BY Zenon DEF RouteInv, SwitchesFit
  <2> QED
    BY <2>1 DEF RouteInv, RoutesFit, PageFits, RouteTypeOK
<1> QED
  BY RoutesInductive, <1>1, PTL

\* The rows of a refresh are of one piece (engine/routes.py, _apply_routes).
THEOREM RowsOfOnePiece == RouteSpec => []RowsAreOfOnePiece
<1>1. RouteInv => RowsAreOfOnePiece
  BY Zenon DEF RouteInv, PageFits
<1> QED
  BY RoutesInductive, <1>1, PTL

-----------------------------------------------------------------------------
(* Names: an alias of the configuration is the first candidate of full      *)
(* confidence, and stays it in every choice among the candidates.           *)

Names ==
  {NoName, "Shop", "Api", "port-forward", "ssh tunnel", "PostgreSQL", "Nginx", "Node.js app",
   "Docker port proxy", "App helper process", "Parcel dev server", "Express (Node.js)",
   "HTTP server", "Vite dev server", "db", "web", "api", "x1", "other"}

Sures == 30..100
Cand == Names \X Roles \X Sures

\* The first candidate that is quite sure is the alias a.
AliasLeads(cs, a) ==
  \E k \in 1..Len(cs) : /\ cs[k] = <<a, "unknown", 100>>
                        /\ \A i \in 1..(k - 1) : cs[i][3] < 100

LEMMA CandIs ==
  ASSUME NEW c \in Cand
  PROVE  c[1] \in Names /\ c[2] \in Roles /\ c[3] \in Sures
  BY DEF Cand

LEMMA SureIs == \A x \in Sures : x \in Nat /\ 30 <= x /\ x <= 100
  BY DEF Sures

\* What is left out of the candidates does not come before it.
LEMMA AliasStaysFirst ==
  ASSUME NEW cs \in Seq(Cand), NEW a, AliasLeads(cs, a), NEW kept, <<a, "unknown", 100>> \in kept
  PROVE  AliasLeads(Only(cs, kept), a)
<1>1. PICK n \in Seq(Cand) : n = Only(cs, kept)
  BY OnlyPicks
<1>2. PICK h : Picks(h, n, cs, kept, Len(cs))
  BY <1>1, OnlyPicks
<1>3. Len(cs) \in Nat /\ Len(n) \in Nat
  BY LenProperties
<1>4. PICK k \in 1..Len(cs) : cs[k] = <<a, "unknown", 100>> /\ \A i \in 1..(k - 1) : cs[i][3] < 100
  BY DEF AliasLeads
<1>5. PICK j \in 1..Len(n) : h[j] = k
  BY <1>2, <1>4 DEF Picks
<1>6. n[j] = <<a, "unknown", 100>>
  BY <1>2, <1>4, <1>5 DEF Picks
<1>7. ASSUME NEW i \in 1..(j - 1) PROVE n[i][3] < 100
  <2>1. i \in 1..Len(n) /\ i < j
    BY <1>3, <1>5
  <2>2. h[i] \in 1..Len(cs) /\ h[i] < h[j] /\ n[i] = cs[h[i]]
    BY <1>2, <2>1 DEF Picks
  <2>3. h[i] \in 1..(k - 1)
    BY <1>3, <1>4, <1>5, <2>2
  <2> QED
    BY <1>4, <2>2, <2>3
<1> QED
  BY <1>1, <1>5, <1>6, <1>7 DEF AliasLeads

\* How sure the candidates are.
LEMMA SureOnes ==
  ASSUME NEW cs \in Seq(Cand)
  PROVE  \E sure \in [1..Len(cs) -> Nat] :
           \A i \in 1..Len(cs) : sure[i] = cs[i][3] /\ sure[i] <= 100
<1>1. \A i \in 1..Len(cs) : cs[i] \in Cand
  BY LenProperties
<1>2. \A i \in 1..Len(cs) : cs[i][3] \in Nat /\ cs[i][3] <= 100
  <2>1. ASSUME NEW c \in Cand PROVE c[3] \in Nat /\ c[3] <= 100
    BY CandIs, SureIs
  <2> QED
    BY <1>1, <2>1, Zenon
<1> DEFINE sure == [i \in 1..Len(cs) |-> cs[i][3]]
<1>3. sure \in [1..Len(cs) -> Nat]
  BY <1>2, Zenon
<1>4. \A i \in 1..Len(cs) : sure[i] = cs[i][3]
  BY Zenon
<1> HIDE DEF sure
<1>5. \A i \in 1..Len(cs) : sure[i] = cs[i][3] /\ sure[i] <= 100
  BY <1>2, <1>4, Zenon
<1> QED
  BY <1>3, <1>5, Zenon

\* The first of the most confident.
Foremost(sure, i) ==
  /\ \A j \in DOMAIN sure : sure[j] <= sure[i]
  /\ \A j \in 1 .. i - 1 : sure[j] < sure[i]

LEMMA SurestIsForemost ==
  ASSUME NEW cs \in Seq(Cand), NEW sure \in [1..Len(cs) -> Nat],
         \A i \in 1..Len(cs) : sure[i] = cs[i][3]
  PROVE  Surest(cs) = cs[CHOOSE i \in DOMAIN sure : Foremost(sure, i)]
<1>1. DOMAIN cs = 1..Len(cs) /\ Len(cs) \in Nat /\ DOMAIN sure = 1..Len(cs)
  BY LenProperties
<1>2. ASSUME NEW i \in DOMAIN sure
      PROVE  Foremost(sure, i) <=> /\ \A j \in DOMAIN cs : cs[j][3] <= cs[i][3]
                                   /\ \A j \in 1 .. i - 1 : cs[j][3] < cs[i][3]
  <2>1. sure[i] = cs[i][3] /\ \A j \in 1..(i - 1) : j \in 1..Len(cs)
    BY <1>1
  <2>2. (\A j \in DOMAIN sure : sure[j] <= sure[i]) <=> \A j \in DOMAIN cs : cs[j][3] <= cs[i][3]
    BY <1>1, <2>1, Zenon
  <2>3. (\A j \in 1 .. i - 1 : sure[j] < sure[i]) <=> \A j \in 1 .. i - 1 : cs[j][3] < cs[i][3]
    BY <2>1, Zenon
  <2> QED
    BY <2>2, <2>3, Zenon DEF Foremost
<1>3. (CHOOSE i \in DOMAIN sure : Foremost(sure, i)) =
        CHOOSE i \in DOMAIN cs : /\ \A j \in DOMAIN cs : cs[j][3] <= cs[i][3]
                                 /\ \A j \in 1 .. i - 1 : cs[j][3] < cs[i][3]
  BY <1>1, <1>2, Zenon
<1> QED
  BY <1>3, Zenon DEF Surest

LEMMA ForemostExists ==
  ASSUME NEW n \in Nat \ {0}, NEW sure \in [1..n -> Nat], \A i \in 1..n : sure[i] <= 100
  PROVE  \E k \in 1..n : Foremost(sure, k)
<1> DEFINE V == {100 - sure[i] : i \in 1..n}
<1>1. V \in SUBSET Nat /\ V # {}
  <2>1. ASSUME NEW i \in 1..n PROVE 100 - sure[i] \in Nat
    <3>1. sure[i] \in Nat /\ sure[i] <= 100
      OBVIOUS
    <3> QED
      BY <3>1
  <2>2. 100 - sure[1] \in V
    OBVIOUS
  <2> QED
    BY <2>1, <2>2
<1>2. PICK v \in V : \A w \in V : v <= w
  BY <1>1, LeastNatural
<1> DEFINE I == {i \in 1..n : 100 - sure[i] = v}
<1>3. I \in SUBSET Nat /\ I # {}
  BY <1>2
<1>4. PICK k \in I : \A i \in I : k <= i
  BY <1>3, LeastNatural
<1>5. k \in 1..n /\ 100 - sure[k] = v
  BY <1>4
<1>6. ASSUME NEW j \in 1..n PROVE sure[j] <= sure[k]
  <2>1. 100 - sure[k] <= 100 - sure[j]
    BY <1>2, <1>5
  <2> QED
    BY <1>5, <2>1
<1>7. ASSUME NEW j \in 1..(k - 1) PROVE sure[j] < sure[k]
  <2>1. j \in 1..n /\ ~(k <= j)
    BY <1>5
  <2>2. j \notin I
    BY <1>4, <2>1
  <2>3. 100 - sure[j] # 100 - sure[k]
    BY <1>5, <2>1, <2>2
  <2>4. sure[j] <= sure[k]
    BY <1>6, <2>1
  <2> QED
    BY <1>5, <2>1, <2>3, <2>4
<1> QED
  BY <1>5, <1>6, <1>7 DEF Foremost

LEMMA SurestIs ==
  ASSUME NEW cs \in Seq(Cand), cs # <<>>
  PROVE  Surest(cs) \in Cand
<1>1. Len(cs) \in Nat \ {0} /\ \A i \in 1..Len(cs) : cs[i] \in Cand
  BY LenProperties, EmptySeq
<1>2. PICK sure \in [1..Len(cs) -> Nat] : \A i \in 1..Len(cs) : sure[i] = cs[i][3] /\ sure[i] <= 100
  BY SureOnes
<1>3. \E k \in 1..Len(cs) : Foremost(sure, k)
  BY <1>1, <1>2, ForemostExists
<1>4. (CHOOSE i \in DOMAIN sure : Foremost(sure, i)) \in 1..Len(cs)
  BY <1>2, <1>3
<1> QED
  BY <1>1, <1>2, <1>4, SurestIsForemost

\* Among all of them the alias is the surest.
LEMMA AliasIsSurest ==
  ASSUME NEW cs \in Seq(Cand), NEW a, AliasLeads(cs, a)
  PROVE  Surest(cs) = <<a, "unknown", 100>> /\ cs # <<>>
<1>1. Len(cs) \in Nat
  BY LenProperties
<1>2. PICK k \in 1..Len(cs) : cs[k] = <<a, "unknown", 100>> /\ \A i \in 1..(k - 1) : cs[i][3] < 100
  BY DEF AliasLeads
<1>3. PICK sure \in [1..Len(cs) -> Nat] : \A i \in 1..Len(cs) : sure[i] = cs[i][3] /\ sure[i] <= 100
  BY SureOnes
<1>4. sure[k] = 100
  BY <1>2, <1>3
<1>5. \A i \in 1..(k - 1) : sure[i] < 100
  <2>1. \A i \in 1..(k - 1) : i \in 1..Len(cs)
    BY <1>1, <1>2
  <2> QED
    BY <1>2, <1>3, <2>1, Zenon
<1>6. Foremost(sure, k)
  BY <1>3, <1>4, <1>5 DEF Foremost
<1>7. ASSUME NEW i \in 1..Len(cs), Foremost(sure, i) PROVE i = k
  <2>1. sure[i] = 100 /\ \A j \in 1..(i - 1) : sure[j] < sure[i]
    <3>1. sure[k] <= sure[i] /\ sure[i] <= 100 /\ sure[i] \in Nat
      BY <1>2, <1>3, <1>7 DEF Foremost
    <3> QED
      BY <1>4, <1>7, <3>1 DEF Foremost
  <2>2. ~(i < k) /\ ~(k < i)
    BY <1>1, <1>2, <1>4, <1>5, <2>1
  <2> QED
    BY <1>1, <1>2, <2>2
<1>8. (CHOOSE i \in DOMAIN sure : Foremost(sure, i)) = k
  BY <1>2, <1>3, <1>6, <1>7
<1>9. Surest(cs) = cs[k]
  BY <1>3, <1>8, SurestIsForemost
<1> QED
  BY <1>1, <1>2, <1>9

-----------------------------------------------------------------------------
\* What signals other than an alias contribute.
Weak == 30..99
Clues == Names \X Roles \X Weak

LEMMA LineIs == \A c \in Clues : c \in Cand /\ c[3] < 100
  BY SureIs DEF Clues, Weak, Cand, Sures

LEMMA TableNames ==
  /\ {35, 40, 50, 60, 70, 75, 80, 90, 95, 97} \subseteq Weak
  /\ {"frontend", "backend", "db", "cache", "proxy", "docker", "tool", "tunnel", "unknown"} \subseteq Roles
  /\ {NoName, "PostgreSQL", "Nginx", "Node.js app", "Docker port proxy", "App helper process"} \subseteq Names
  /\ {"Parcel dev server", "Express (Node.js)", "HTTP server", "Vite dev server", "other"} \subseteq Names
  /\ {"port-forward", "ssh tunnel", "Shop", "Api", "db", "web", "api", "x1"} \subseteq Names
  BY DEF Weak, Roles, Names

\* The lines of the tables.
LEMMA TunnelLines == <<"port-forward", "tunnel", 97>> \in Clues /\ <<"ssh tunnel", "tunnel", 95>> \in Clues
  BY TableNames DEF Clues

LEMMA ImageLines == \A x \in DOMAIN ImageRules : ImageRules[x] \in Clues
<1>1. DOMAIN ImageRules = {"postgres", "nginx"} /\ ImageRules["postgres"] = <<"PostgreSQL", "db", 90>>
      /\ ImageRules["nginx"] = <<"Nginx", "proxy", 90>>
  BY DEF ImageRules
<1>2. <<"PostgreSQL", "db", 90>> \in Clues /\ <<"Nginx", "proxy", 90>> \in Clues
  BY TableNames DEF Clues
<1> QED
  BY <1>1, <1>2

LEMMA HeaderLines ==
  DOMAIN HeaderRules = {"nginx", "express"} /\ \A x \in DOMAIN HeaderRules : HeaderRules[x] \in Clues
<1>1. DOMAIN HeaderRules = {"nginx", "express"} /\ HeaderRules["nginx"] = <<"Nginx", "proxy", 70>>
      /\ HeaderRules["express"] = <<"Express (Node.js)", "backend", 70>>
  BY DEF HeaderRules
<1>2. <<"Nginx", "proxy", 70>> \in Clues /\ <<"Express (Node.js)", "backend", 70>> \in Clues
  BY TableNames DEF Clues
<1> QED
  BY <1>1, <1>2

LEMMA PortLines == \A x \in DOMAIN KnownPorts : KnownPorts[x] \in Clues
<1> DEFINE web == <<"HTTP server", "proxy", 35>>
           pg  == <<"PostgreSQL", "db", 35>>
<1>1. web \in Clues /\ pg \in Clues
  BY TableNames DEF Clues
<1>2. KnownPorts = [p \in {5432, 80} |-> IF p = 80 THEN web ELSE pg]
  BY DEF KnownPorts
<1> HIDE DEF web, pg
<1>3. KnownPorts \in [{5432, 80} -> Clues]
  BY <1>1, <1>2
<1> QED
  BY <1>3

LEMMA WebLines == \A x \in DOMAIN WebSignals : WebSignals[x] \in Clues
<1> DEFINE v == <<"Vite dev server", "frontend", 90>>
           o == <<NoName, "backend", 80>>
<1>1. v \in Clues /\ o \in Clues
  BY TableNames DEF Clues
<1>2. WebSignals = [vite |-> v, openapi |-> o]
  BY Zenon DEF WebSignals
<1> HIDE DEF v, o
<1> QED
  BY <1>1, <1>2

LEMMA ProcessLines == \A x \in DOMAIN ProcessRule : ProcessRule[x] \in Clues
<1> DEFINE pg     == <<"PostgreSQL", "db", 95>>
           nx     == <<"Nginx", "proxy", 95>>
           js     == <<"Node.js app", "backend", 50>>
           dp     == <<"Docker port proxy", "docker", 90>>
           hp     == <<"App helper process", "tool", 40>>
           parcel == <<"Parcel dev server", "frontend", 90>>
<1>1. pg \in Clues /\ nx \in Clues /\ js \in Clues /\ dp \in Clues /\ hp \in Clues /\ parcel \in Clues
  BY TableNames DEF Clues
<1>2. ProcessRules = [postgres |-> pg, nginx |-> nx, node |-> js, dockerproxy |-> dp, helper |-> hp]
  BY Zenon DEF ProcessRules
<1>3. WebProcessRules = [parcel |-> parcel]
  BY Zenon DEF WebProcessRules
<1> HIDE DEF pg, nx, js, dp, hp, parcel
<1>4. \A x \in DOMAIN WebProcessRules : WebProcessRules[x] \in Clues
  BY <1>1, <1>3
<1>5. \A x \in DOMAIN ProcessRules : ProcessRules[x] \in Clues
  BY <1>1, <1>2
<1> QED
  BY <1>4, <1>5, Zenon DEF ProcessRule, Merged

LEMMA OneLine ==
  ASSUME NEW c \in Clues
  PROVE  <<c>> \in Seq(Clues)
  OBVIOUS

LEMMA NoLine == <<>> \in Seq(Clues)
  OBVIOUS

LEMMA TunnelContributes ==
  ASSUME NEW row
  PROVE  TunnelCandidates(row) \in Seq(Clues)
  BY TunnelLines, OneLine, NoLine DEF TunnelCandidates

LEMMA ContainerContributes ==
  ASSUME NEW row \in RowSignals
  PROVE  ContainerCandidates(row) \in Seq(Clues)
<1>1. row.label \in {"db", "web", "api", "x1", "none"}
  BY DEF RowSignals, NameRoles
<1>2. RoleOfName(row.label) \in Roles
  BY DEF RoleOfName, NameRoles, Roles
<1>3. (IF row.image \in DOMAIN ImageRules THEN <<ImageRules[row.image]>> ELSE <<>>) \in Seq(Clues)
  BY ImageLines, OneLine, NoLine
<1>4. ASSUME HasContainer(row)
      PROVE  <<row.label, RoleOfName(row.label), IF RoleOfName(row.label) = "unknown" THEN 60 ELSE 75>> \in Clues
  <2>1. row.label \in Names
    BY <1>1, <1>4, TableNames DEF HasContainer
  <2>2. PICK n \in Names : n = row.label
    BY <2>1
  <2>3. PICK r \in Roles : r = RoleOfName(row.label)
    BY <1>2
  <2>4. <<n, r, 60>> \in Clues /\ <<n, r, 75>> \in Clues
    BY TableNames DEF Clues
  <2>5. CASE r = "unknown"
    BY <2>2, <2>3, <2>4, <2>5, Zenon
  <2>6. CASE r # "unknown"
    BY <2>2, <2>3, <2>4, <2>6, Zenon
  <2> QED
    BY <2>5, <2>6
<1>5. \A s, t \in Seq(Clues) : s \o t \in Seq(Clues)
  OBVIOUS
<1> QED
  BY <1>3, <1>4, <1>5, OneLine, NoLine, Zenon DEF ContainerCandidates

LEMMA ProcessContributes ==
  ASSUME NEW row \in RowSignals
  PROVE  ProcessCandidates(row) \in Seq(Clues)
<1> DEFINE S == DOMAIN ProcessRule \cup {"kubectl", "ssh", "mystery"}
           first == SubSeq(row.processes, 1, IF Len(row.processes) < 3 THEN Len(row.processes) ELSE 3)
           known == Only(first, DOMAIN ProcessRule)
<1>1. first \in Seq(S)
  <2>1. row.processes \in Seq(S) /\ Len(row.processes) \in Nat
    BY DEF RowSignals
  <2>2. ASSUME NEW s \in Seq(S), NEW m \in Nat, m <= Len(s) PROVE SubSeq(s, 1, m) \in Seq(S)
    <3>1. Len(s) \in Nat /\ \A i \in 1..m : s[i] \in S
      BY <2>2
    <3> QED
      BY <3>1, SubSeqProperties
  <2> QED
    BY <2>1, <2>2
<1>2. ProcessCandidates(row) = [i \in DOMAIN known |-> ProcessRule[known[i]]]
  BY DEF ProcessCandidates
<1> HIDE DEF first, S
<1>3. known \in Seq(S) /\ Len(known) \in Nat /\ \A i \in 1..Len(known) : known[i] \in DOMAIN ProcessRule
  <2>1. PICK h : Picks(h, known, first, DOMAIN ProcessRule, Len(first))
    BY <1>1, OnlyPicks
  <2>2. known \in Seq(S)
    BY <1>1, OnlyPicks
  <2> QED
    BY <2>1, <2>2, LenProperties DEF Picks
<1> HIDE DEF known
<1>4. DOMAIN known = 1..Len(known)
  BY <1>3, LenProperties
<1>5. ProcessCandidates(row) \in [1..Len(known) -> Clues]
  BY <1>2, <1>3, <1>4, ProcessLines, Zenon
<1> QED
  BY <1>3, <1>5

LEMMA HeaderContributes ==
  ASSUME NEW row \in RowSignals
  PROVE  HeaderCandidates(row) \in Seq(Clues)
<1>1. row.header \in {"nginx", "express", "other", "none"}
  BY DEF RowSignals, HeaderRules
<1>2. row.header = "other" => <<row.header, "backend", 50>> \in Clues
  BY TableNames DEF Clues
<1> QED
  BY <1>1, <1>2, HeaderLines, OneLine, NoLine DEF HeaderCandidates

LEMMA PortContributes ==
  ASSUME NEW row
  PROVE  PortCandidates(row) \in Seq(Clues)
  BY PortLines, OneLine, NoLine DEF PortCandidates

LEMMA ProbeContributes ==
  ASSUME NEW row, NEW soFar
  PROVE  ProbeCandidates(row, soFar) \in Seq(Clues)
<1>1. <<NoName, "backend", 70>> \in Clues /\ <<NoName, "frontend", 60>> \in Clues
  BY TableNames DEF Clues
<1> QED
  BY <1>1, WebLines, OneLine, NoLine, Zenon DEF ProbeCandidates

\* What follows does not take the lead.
LEMMA LeadStays ==
  ASSUME NEW s \in Seq(Cand), NEW t \in Seq(Cand), NEW a
  PROVE  s \o t \in Seq(Cand) /\ (AliasLeads(s, a) => AliasLeads(s \o t, a))
<1>1. /\ s \o t \in Seq(Cand) /\ Len(s \o t) = Len(s) + Len(t) /\ Len(s) \in Nat /\ Len(t) \in Nat
      /\ \A i \in 1..Len(s) : (s \o t)[i] = s[i]
  BY ConcatProperties, LenProperties
<1>2. ASSUME AliasLeads(s, a) PROVE AliasLeads(s \o t, a)
  <2>1. PICK k \in 1..Len(s) : s[k] = <<a, "unknown", 100>> /\ \A i \in 1..(k - 1) : s[i][3] < 100
    BY <1>2 DEF AliasLeads
  <2>2. k \in 1..Len(s \o t) /\ (s \o t)[k] = s[k]
    BY <1>1
  <2>3. \A i \in 1..(k - 1) : (s \o t)[i] = s[i]
    BY <1>1
  <2>4. \A i \in 1..(k - 1) : (s \o t)[i][3] < 100
    BY <2>1, <2>3, Zenon
  <2> QED
    BY <2>1, <2>2, <2>4 DEF AliasLeads
<1> QED
  BY <1>1, <1>2

LEMMA AliasCandidatesAre ==
  ASSUME NEW row \in RowSignals
  PROVE  /\ AliasCandidates(row) \in Seq(Cand)
         /\ row.aliases # <<>> => /\ Len(AliasCandidates(row)) \in Nat \ {0}
                                  /\ AliasCandidates(row)[1] = <<row.aliases[1], "unknown", 100>>
                                  /\ row.aliases[1] # NoName
<1>1. PICK al \in Seq({"Shop", "Api"}) : al = row.aliases
  BY DEF RowSignals
<1>2. DOMAIN al = 1..Len(al) /\ Len(al) \in Nat /\ (al # <<>> => Len(al) # 0)
  BY LenProperties, EmptySeq
<1>3. 100 \in Sures /\ "unknown" \in Roles /\ {"Shop", "Api"} \subseteq Names
  <2>1. 100 \in Sures
    BY DEF Sures
  <2> QED
    BY <2>1, TableNames
<1>4. AliasCandidates(row) = [i \in 1..Len(al) |-> <<al[i], "unknown", 100>>]
  BY <1>1, <1>2, Zenon DEF AliasCandidates
<1>5. \A i \in 1..Len(al) : al[i] \in {"Shop", "Api"}
  BY <1>2
<1>6. \A i \in 1..Len(al) : <<al[i], "unknown", 100>> \in Cand
  BY <1>3, <1>5 DEF Cand
<1>7. AliasCandidates(row) \in [1..Len(al) -> Cand]
  BY <1>4, <1>6, Zenon
<1>8. AliasCandidates(row) \in Seq(Cand) /\ Len(AliasCandidates(row)) = Len(al)
  BY <1>2, <1>7
<1>9. ASSUME al # <<>>
      PROVE  AliasCandidates(row)[1] = <<al[1], "unknown", 100>> /\ al[1] # NoName
  <2>1. 1 \in 1..Len(al)
    BY <1>2, <1>9
  <2>2. al[1] # NoName
    BY <1>5, <2>1 DEF NoName
  <2> QED
    BY <1>4, <2>1, <2>2, Zenon
<1> QED
  BY <1>1, <1>2, <1>8, <1>9

\* The candidates: an alias of the configuration leads them.
LEMMA CandidatesAre ==
  ASSUME NEW row \in RowSignals
  PROVE  /\ Candidates(row) \in Seq(Cand)
         /\ row.aliases # <<>> => AliasLeads(Candidates(row), row.aliases[1]) /\ row.aliases[1] # NoName
<1> DEFINE T == TunnelCandidates(row)
           A == AliasCandidates(row)
           C == ContainerCandidates(row)
           P == ProcessCandidates(row)
           H == HeaderCandidates(row)
           K == PortCandidates(row)
           soFar == T \o A \o C \o P \o H \o K
           W == ProbeCandidates(row, soFar)
           a == row.aliases[1]
<1>1. \A s \in Seq(Clues) : s \in Seq(Cand)
  <2>1. Clues \subseteq Cand
    BY LineIs
  <2> QED
    BY <2>1
<1>2. /\ T \in Seq(Cand) /\ A \in Seq(Cand) /\ C \in Seq(Cand) /\ P \in Seq(Cand)
      /\ H \in Seq(Cand) /\ K \in Seq(Cand) /\ W \in Seq(Cand)
  BY <1>1, TunnelContributes, AliasCandidatesAre, ContainerContributes, ProcessContributes,
     HeaderContributes, PortContributes, ProbeContributes
<1>3. Candidates(row) = soFar \o W
  BY DEF Candidates
<1>4. ASSUME row.aliases # <<>> PROVE AliasLeads(T \o A, a)
  <2>1. /\ Len(T \o A) = Len(T) + Len(A) /\ Len(T) \in Nat /\ Len(A) \in Nat \ {0}
        /\ \A i \in 1..Len(T) : (T \o A)[i] = T[i]
        /\ (T \o A)[Len(T) + 1] = A[1]
    BY <1>2, <1>4, AliasCandidatesAre, ConcatProperties, LenProperties
  <2>2. \A i \in 1..Len(T) : T[i] \in Clues
    BY TunnelContributes
  <2>3. \A i \in 1..Len(T) : (T \o A)[i][3] < 100
    BY <2>1, <2>2, LineIs, Zenon
  <2>4. A[1] = <<a, "unknown", 100>>
    BY <1>4, AliasCandidatesAre
  <2>5. Len(T) + 1 \in 1..Len(T \o A) /\ (Len(T) + 1) - 1 = Len(T)
    BY <2>1
  <2>6. (T \o A)[Len(T) + 1] = <<a, "unknown", 100>>
    BY <2>1, <2>4
  <2> QED
    BY <2>3, <2>5, <2>6, Zenon DEF AliasLeads
<1> HIDE DEF T, A, C, P, H, K, W
<1>5. T \o A \in Seq(Cand)
  BY <1>2, LeadStays
<1>6. T \o A \o C \in Seq(Cand) /\ (AliasLeads(T \o A, a) => AliasLeads(T \o A \o C, a))
  BY <1>2, <1>5, LeadStays, Zenon
<1>7. T \o A \o C \o P \in Seq(Cand) /\ (AliasLeads(T \o A \o C, a) => AliasLeads(T \o A \o C \o P, a))
  BY <1>2, <1>6, LeadStays, Zenon
<1>8. T \o A \o C \o P \o H \in Seq(Cand) /\ (AliasLeads(T \o A \o C \o P, a) => AliasLeads(T \o A \o C \o P \o H, a))
  BY <1>2, <1>7, LeadStays, Zenon
<1>9. soFar \in Seq(Cand) /\ (AliasLeads(T \o A \o C \o P \o H, a) => AliasLeads(soFar, a))
  BY <1>2, <1>8, LeadStays, Zenon
<1>10. soFar \o W \in Seq(Cand) /\ (AliasLeads(soFar, a) => AliasLeads(soFar \o W, a))
  BY <1>2, <1>9, LeadStays, Zenon
<1> HIDE DEF soFar
<1> QED
  BY <1>3, <1>4, <1>6, <1>7, <1>8, <1>9, <1>10, AliasCandidatesAre, Zenon

-----------------------------------------------------------------------------
\* What identify makes of candidates.

LEMMA NamedAre ==
  ASSUME NEW cs \in Seq(Cand)
  PROVE  /\ Named(cs) \in Seq(Cand) /\ WithRole(cs) \in Seq(Cand) /\ Others(cs) \in Seq(Cand)
  BY OnlyPicks DEF Named, WithRole, Others

LEMMA LeadsAreNamed ==
  ASSUME NEW cs \in Seq(Cand), NEW a, a # NoName, AliasLeads(cs, a)
  PROVE  /\ Named(cs) # <<>> /\ Others(cs) # <<>>
         /\ Surest(Named(cs))[1] = a /\ Surest(Others(cs))[1] = a
<1> DEFINE c == <<a, "unknown", 100>>
<1>1. ASSUME NEW s \in Seq(Cand), AliasLeads(s, a) PROVE c \in Range(s)
  <2>1. DOMAIN s = 1..Len(s)
    BY LenProperties
  <2> QED
    BY <1>1, <2>1 DEF AliasLeads, Range
<1>2. c[1] = a /\ c[2] = "unknown"
  OBVIOUS
<1> HIDE DEF c
<1>3. Named(cs) \in Seq(Cand) /\ AliasLeads(Named(cs), a)
  <2>1. c \in {x \in Range(cs) : x[1] # NoName}
    BY <1>1, <1>2, Zenon
  <2> QED
    BY <2>1, AliasStaysFirst, NamedAre DEF Named, c
<1>4. Others(cs) \in Seq(Cand) /\ AliasLeads(Others(cs), a)
  <2>1. PICK n \in Seq(Cand) : n = Named(cs)
    BY <1>3
  <2>2. c \in Range(cs) /\ c[2] # "docker"
    BY <1>1, <1>2
  <2>3. PICK kept : kept = {x \in Range(cs) : x[2] # "docker"}
    OBVIOUS
  <2>4. c \in kept
    BY <2>2, <2>3
  <2>5. <<a, "unknown", 100>> \in kept
    BY <2>4, Zenon DEF c
  <2>9. AliasLeads(n, a)
    BY <1>3, <2>1, Zenon
  <2>6. AliasLeads(Only(n, kept), a)
    BY <2>5, <2>9, AliasStaysFirst, Zenon
  <2>7. Others(cs) = Only(n, kept)
    BY <2>1, <2>3, Zenon DEF Others
  <2>8. Others(cs) \in Seq(Cand)
    BY NamedAre
  <2> QED
    BY <2>6, <2>7, <2>8, Zenon
<1> QED
  BY <1>2, <1>3, <1>4, AliasIsSurest DEF c

\* Whatever else speaks for another name.
LEMMA AliasWins ==
  ASSUME NEW row \in RowSignals, row.aliases # <<>>
  PROVE  Identify(row).service = row.aliases[1]
<1> DEFINE cs == Candidates(row)
           a  == row.aliases[1]
<1>1. /\ Named(cs) # <<>> /\ Surest(Named(cs))[1] = a
      /\ Others(cs) # <<>> => Surest(Others(cs))[1] = a
  BY CandidatesAre, LeadsAreNamed
<1> QED
  BY <1>1 DEF Identify

LEMMA RolesAre ==
  ASSUME NEW row, NEW cs \in Seq(Cand), NEW best \in Cand
  PROVE  RoleOf(row, cs, best) \in Roles /\ Unnamed(row, cs).role \in Roles
<1>1. best[2] \in Roles
  BY CandIs
<1>2. WithRole(cs) # <<>> => Surest(WithRole(cs))[2] \in Roles
  BY NamedAre, SurestIs, CandIs
<1>3. "docker" \in Roles /\ "unknown" \in Roles
  BY DEF Roles
<1>4. RoleOf(row, cs, best) \in Roles
  BY <1>1, <1>2, <1>3 DEF RoleOf
<1>5. Unnamed(row, cs).role \in Roles
  BY <1>2, <1>3 DEF Unnamed
<1> QED
  BY <1>4, <1>5

LEMMA CorroboratedIs ==
  ASSUME NEW cs \in Seq(Cand), NEW best \in Cand, NEW role
  PROVE  Corroborated(cs, best, role) \in 0..99
<1> DEFINE agree == {c \in Range(cs) : c[2] = role \/ c[1] = best[1]}
<1>1. Len(Only(cs, agree)) \in Nat
  BY OnlyPicks, LenProperties
<1>2. best[3] \in Nat /\ 30 <= best[3]
  BY CandIs, SureIs
<1>3. Corroborated(cs, best, role) = IF best[3] + 5 * (Len(Only(cs, agree)) - 1) > 99 THEN 99
                                     ELSE best[3] + 5 * (Len(Only(cs, agree)) - 1)
  BY DEF Corroborated
<1> HIDE DEF agree
<1>4. ASSUME NEW b \in Nat, NEW n \in Nat, 30 <= b
      PROVE  (IF b + 5 * (n - 1) > 99 THEN 99 ELSE b + 5 * (n - 1)) \in 0..99
  <2>1. CASE b + 5 * (n - 1) > 99
    BY <2>1
  <2>2. CASE ~(b + 5 * (n - 1) > 99)
    <3>1. b + 5 * (n - 1) \in Int /\ 0 <= b + 5 * (n - 1) /\ b + 5 * (n - 1) <= 99
      BY <1>4, <2>2
    <3> QED
      BY <2>2, <3>1
  <2> QED
    BY <2>1, <2>2
<1>5. PICK b \in Nat : b = best[3]
  BY <1>2
<1>6. PICK n \in Nat : n = Len(Only(cs, agree))
  BY <1>1
<1>7. (IF b + 5 * (n - 1) > 99 THEN 99 ELSE b + 5 * (n - 1)) \in 0..99
  BY <1>2, <1>4, <1>5
<1> QED
  BY <1>3, <1>5, <1>6, <1>7, Zenon

LEMMA IdentifyIs ==
  ASSUME NEW row \in RowSignals
  PROVE  /\ Identify(row).role \in Roles /\ Identify(row).confidence \in 0..99
         /\ DOMAIN Identify(row) = {"service", "role", "confidence", "project"}
<1> DEFINE cs == Candidates(row)
<1>1. cs \in Seq(Cand)
  BY CandidatesAre
<1> HIDE DEF cs
<1>2. CASE Named(cs) = <<>>
  <2>1. PICK c : c \in Cand
    BY LineIs, TunnelLines
  <2>2. Unnamed(row, cs).role \in Roles
    BY <1>1, <2>1, RolesAre
  <2>3. Unnamed(row, cs).confidence \in 0..99
    BY DEF Unnamed
  <2>4. Identify(row) = Unnamed(row, cs)
    BY <1>2, Zenon DEF Identify, cs
  <2>5. DOMAIN Unnamed(row, cs) = {"service", "role", "confidence", "project"}
    BY DEF Unnamed
  <2> QED
    BY <2>2, <2>3, <2>4, <2>5, Zenon
<1>3. CASE Named(cs) # <<>>
  <2>1. Surest(Named(cs)) \in Cand /\ (Others(cs) # <<>> => Surest(Others(cs)) \in Cand)
    BY <1>1, <1>3, NamedAre, SurestIs
  <2>2. /\ RoleOf(row, cs, Surest(Named(cs))) \in Roles
        /\ Corroborated(cs, Surest(Named(cs)), RoleOf(row, cs, Surest(Named(cs)))) \in 0..99
    BY <1>1, <2>1, RolesAre, CorroboratedIs
  <2>3. Others(cs) # <<>> => /\ Surest(Others(cs))[2] \in Roles
                             /\ Corroborated(cs, Surest(Others(cs)), Surest(Others(cs))[2]) \in 0..99
    BY <1>1, <2>1, CorroboratedIs, CandIs
  <2> QED
    BY <1>3, <2>2, <2>3 DEF Identify, cs
<1> QED
  BY <1>2, <1>3

-----------------------------------------------------------------------------
IdentityInv == IdentityTypeOK /\ AliasesName

LEMMA IdentityStep == IdentityInv /\ [IdentityNext]_identityVars => IdentityInv'
<1> SUFFICES ASSUME IdentityInv, [IdentityNext]_identityVars PROVE IdentityInv'
  OBVIOUS
<1>1. CASE Refresh
  <2>1. /\ identity' = Merged([hosts |-> signals.port = 80 \/ Identify(Unasked(signals)).role = "proxy"],
                              Identify(signals))
        /\ named' = <<signals>> /\ signals' = signals
    BY <1>1, Zenon DEF Refresh
  <2>2. signals \in Signals /\ signals \in RowSignals
    BY IdentityAssumption DEF IdentityInv, IdentityTypeOK
  <2>3. ASSUME NEW hosted, NEW of, DOMAIN of = {"service", "role", "confidence", "project"}
        PROVE  /\ Merged([hosts |-> hosted], of).hosts = hosted
               /\ Merged([hosts |-> hosted], of).role = of.role
               /\ Merged([hosts |-> hosted], of).confidence = of.confidence
               /\ Merged([hosts |-> hosted], of).service = of.service
    BY <2>3 DEF Merged
  <2> DEFINE hosted == signals.port = 80 \/ Identify(Unasked(signals)).role = "proxy"
  <2>7. hosted \in BOOLEAN
    BY Zenon
  <2>8. identity' = Merged([hosts |-> hosted], Identify(signals))
    BY <2>1, Zenon
  <2> HIDE DEF hosted
  <2>9. DOMAIN Identify(signals) = {"service", "role", "confidence", "project"}
    BY <2>2, IdentifyIs, Zenon
  <2>11. /\ Merged([hosts |-> hosted], Identify(signals)).hosts = hosted
         /\ Merged([hosts |-> hosted], Identify(signals)).role = Identify(signals).role
         /\ Merged([hosts |-> hosted], Identify(signals)).confidence = Identify(signals).confidence
         /\ Merged([hosts |-> hosted], Identify(signals)).service = Identify(signals).service
    BY <2>3, <2>9, ZenonT(60)
  <2>10. /\ identity'.hosts = hosted /\ identity'.role = Identify(signals).role
         /\ identity'.confidence = Identify(signals).confidence
         /\ identity'.service = Identify(signals).service
    BY <2>8, <2>11, Zenon
  <2>4. identity'.hosts \in BOOLEAN
    BY <2>7, <2>10, Zenon
  <2>5. /\ identity'.role \in Roles /\ identity'.confidence \in 0..99
        /\ signals.aliases # <<>> => identity'.service = signals.aliases[1]
    BY <2>2, <2>10, IdentifyIs, AliasWins, Zenon
  <2>6. named'[1] = signals
    BY <2>1
  <2> QED
    BY <2>1, <2>2, <2>4, <2>5, <2>6, Zenon DEF IdentityInv, IdentityTypeOK, AliasesName
<1>2. CASE \E row \in Signals : SignalsChange(row)
  BY <1>2, Zenon DEF SignalsChange, IdentityInv, IdentityTypeOK, AliasesName
<1>3. CASE UNCHANGED identityVars
  BY <1>3, Zenon DEF identityVars, IdentityInv, IdentityTypeOK, AliasesName
<1> QED
  BY <1>1, <1>2, <1>3, Zenon DEF IdentityNext

THEOREM IdentityInductive == IdentitySpec => []IdentityInv
<1>1. IdentityInit => IdentityInv
  <2> SUFFICES ASSUME IdentityInit PROVE IdentityInv
    OBVIOUS
  <2>1. identity.hosts \in BOOLEAN /\ named = <<>> /\ signals \in Signals
    BY DEF IdentityInit
  <2>2. identity.role \in Roles /\ identity.confidence \in 0..99
    BY DEF IdentityInit, Roles
  <2> QED
    BY <2>1, <2>2, Zenon DEF IdentityInv, IdentityTypeOK, AliasesName
<1> QED
  BY <1>1, IdentityStep, PTL DEF IdentitySpec

\* A row keeps the types of what it is called, whatever signals speak for it (identity.py).
THEOREM IdentityTypeCorrect == IdentitySpec => []IdentityTypeOK
<1>1. IdentityInv => IdentityTypeOK
  BY Zenon DEF IdentityInv
<1> QED
  BY IdentityInductive, <1>1, PTL

\* A row the configuration gives a name has that name (identity.py).
THEOREM AliasesAlwaysName == IdentitySpec => []AliasesName
<1>1. IdentityInv => AliasesName
  BY Zenon DEF IdentityInv
<1> QED
  BY IdentityInductive, <1>1, PTL

-----------------------------------------------------------------------------
(* Patterns: a tally never counts more than there was, and no less than what *)
(* the window holds of the events that were not lost with an engine.        *)

Tallied == PatternPorts \X CountedKinds
Tallies == [Tallied -> [1..LastDay -> Nat]]

\* The events of a tally's key on a day.
IssuesOf(es, pk, d) == Of(es, pk[1], pk[2], d)

NoMore(t) == \A pk \in Tallied, d \in 1..LastDay : t[pk][d] <= Cardinality(IssuesOf(issues, pk, d))

NoLess(t, gone) ==
  \A pk \in Tallied, d \in 1..LastDay :
    pk[2] = "conflict" /\ InWindow(d) => Cardinality(IssuesOf(issues \ gone, pk, d)) <= t[pk][d]

\* Events are numbered as they come.
IssuesFit ==
  /\ today \in 1..LastDay
  /\ issues \subseteq Issues /\ issueLog \subseteq issues /\ issueFile \subseteq issues
  /\ unsaved \subseteq issues /\ forgotten \subseteq issues
  /\ IsFiniteSet(issues) /\ Cardinality(issues) <= LastIssue
  /\ \A e \in issues : e.id <= Cardinality(issues)
  /\ counted \in SUBSET (1..Cardinality(issues)) /\ Cardinality(counted) <= SeenLimit

TalliesFit == tally \in Tallies /\ tallyFile \in Tallies /\ NoMore(tally) /\ NoMore(tallyFile)

PatternInv ==
  /\ engineUp \in BOOLEAN /\ tallyDirty \in BOOLEAN
  /\ IssuesFit /\ TalliesFit
  /\ engineUp => NoLess(tally, forgotten)
  /\ ~engineUp => unsaved = {}
  /\ NoLess(tallyFile, forgotten \cup unsaved)

LEMMA SomeOf ==
  ASSUME NEW s, IsFiniteSet(s), NEW r \in SUBSET s
  PROVE  IsFiniteSet(r) /\ Cardinality(r) \in Nat /\ Cardinality(s) \in Nat /\ Cardinality(r) <= Cardinality(s)
  BY FS_Subset, FS_CardinalityType

LEMMA FoundAre ==
  ASSUME NEW es, IsFiniteSet(es), NEW pk, NEW d
  PROVE  /\ IsFiniteSet(IssuesOf(es, pk, d)) /\ Cardinality(IssuesOf(es, pk, d)) \in Nat
         /\ IssuesOf(es, pk, d) \subseteq es
         /\ \A r \in SUBSET es : Cardinality(IssuesOf(r, pk, d)) <= Cardinality(IssuesOf(es, pk, d))
<1>1. IssuesOf(es, pk, d) \in SUBSET es
  BY DEF IssuesOf, Of
<1>2. ASSUME NEW r \in SUBSET es PROVE IssuesOf(r, pk, d) \in SUBSET IssuesOf(es, pk, d)
  BY DEF IssuesOf, Of
<1> QED
  BY <1>1, <1>2, SomeOf

\* A new event makes one more, where it belongs.
LEMMA OneMore ==
  ASSUME NEW es, IsFiniteSet(es), NEW e, e \notin es, NEW pk, NEW d
  PROVE  Cardinality(IssuesOf(es \cup {e}, pk, d)) = Cardinality(IssuesOf(es, pk, d)) + Cardinality(IssuesOf({e}, pk, d))
<1>1. CASE e.port = pk[1] /\ e.kind = pk[2] /\ e.day = d
  <2>1. IssuesOf(es \cup {e}, pk, d) = IssuesOf(es, pk, d) \cup {e} /\ IssuesOf({e}, pk, d) = {e}
    BY <1>1 DEF IssuesOf, Of
  <2>2. e \notin IssuesOf(es, pk, d) /\ IsFiniteSet(IssuesOf(es, pk, d)) /\ Cardinality(IssuesOf(es, pk, d)) \in Nat
    BY FoundAre
  <2>3. Cardinality(IssuesOf(es, pk, d) \cup {e}) = Cardinality(IssuesOf(es, pk, d)) + 1
    BY <2>2, FS_AddElement
  <2> QED
    BY <2>1, <2>3, FS_Singleton
<1>2. CASE ~(e.port = pk[1] /\ e.kind = pk[2] /\ e.day = d)
  <2>1. IssuesOf(es \cup {e}, pk, d) = IssuesOf(es, pk, d) /\ IssuesOf({e}, pk, d) = {}
    BY <1>2 DEF IssuesOf, Of
  <2>2. Cardinality(IssuesOf(es, pk, d)) \in Nat
    BY FoundAre
  <2> QED
    BY <2>1, <2>2, FS_EmptySet
<1> QED
  BY <1>1, <1>2

\* What a tally makes of the events it is given: those of the window, each once.
LEMMA IngestedIs ==
  ASSUME NEW t \in Tallies, NEW found, IsFiniteSet(found), NEW stamps
  PROVE  /\ Ingested(t, found, stamps) \in Tallies
         /\ \A pk \in Tallied, d \in 1..LastDay :
              Ingested(t, found, stamps)[pk][d] =
                IF InWindow(d) THEN t[pk][d] + Cardinality(IssuesOf(Fresh(found, stamps), pk, d)) ELSE 0
<1>1. PICK F : F = Fresh(found, stamps)
  OBVIOUS
<1>2. IsFiniteSet(F)
  <2>1. F \in SUBSET found
    BY <1>1 DEF Fresh
  <2> QED
    BY <2>1, SomeOf
<1>3. \A pk \in Tallied, d \in 1..LastDay : Cardinality(IssuesOf(F, pk, d)) \in Nat
  BY <1>2, FoundAre
<1>4. DOMAIN t = Tallied /\ \A pk \in Tallied, d \in 1..LastDay : t[pk][d] \in Nat
  BY DEF Tallies
<1>5. PICK c : c = Counting(t, F)
  OBVIOUS
<1>6. c = [pk \in Tallied |-> [d \in 1..LastDay |-> t[pk][d] + Cardinality(IssuesOf(F, pk, d))]]
  BY <1>4, <1>5, Zenon DEF Counting, IssuesOf, Of
<1>7. DOMAIN c = Tallied /\ \A pk \in Tallied, d \in 1..LastDay : c[pk][d] = t[pk][d] + Cardinality(IssuesOf(F, pk, d))
  BY <1>6
<1>8. \A pk \in Tallied, d \in 1..LastDay : c[pk][d] \in Nat
  BY <1>3, <1>4, <1>7
<1>9. Ingested(t, found, stamps) = [pk \in Tallied |-> [d \in 1..LastDay |-> IF InWindow(d) THEN c[pk][d] ELSE 0]]
  BY <1>1, <1>5, <1>7, Zenon DEF Ingested, Pruned
<1>10. \A pk \in Tallied, d \in 1..LastDay : (IF InWindow(d) THEN c[pk][d] ELSE 0) \in Nat
  BY <1>8
<1>11. Ingested(t, found, stamps) \in Tallies
  BY <1>9, <1>10, ZenonT(60) DEF Tallies
<1>12. PICK r : r = Ingested(t, found, stamps)
  OBVIOUS
<1>13. \A pk \in Tallied, d \in 1..LastDay : r[pk][d] = IF InWindow(d) THEN c[pk][d] ELSE 0
  BY <1>9, <1>12
<1> QED
  BY <1>1, <1>7, <1>11, <1>12, <1>13, Zenon

LEMMA PrunedIs ==
  ASSUME NEW t \in Tallies
  PROVE  /\ Pruned(t) \in Tallies
         /\ \A pk \in Tallied, d \in 1..LastDay : Pruned(t)[pk][d] = IF InWindow(d) THEN t[pk][d] ELSE 0
<1>1. DOMAIN t = Tallied /\ \A pk \in Tallied, d \in 1..LastDay : t[pk][d] \in Nat
  BY DEF Tallies
<1>2. Pruned(t) = [pk \in Tallied |-> [d \in 1..LastDay |-> IF InWindow(d) THEN t[pk][d] ELSE 0]]
  BY <1>1, Zenon DEF Pruned
<1>3. \A pk \in Tallied, d \in 1..LastDay : (IF InWindow(d) THEN t[pk][d] ELSE 0) \in Nat
  BY <1>1
<1>4. Pruned(t) \in Tallies
  BY <1>2, <1>3, Zenon DEF Tallies
<1>5. PICK r : r = Pruned(t)
  OBVIOUS
<1>6. \A pk \in Tallied, d \in 1..LastDay : r[pk][d] = IF InWindow(d) THEN t[pk][d] ELSE 0
  BY <1>2, <1>5
<1> QED
  BY <1>4, <1>5, <1>6, Zenon

LEMMA NothingIs ==
  /\ Nothing \in Tallies /\ \A pk \in Tallied, d \in 1..LastDay : Nothing[pk][d] = 0
<1>1. Nothing = [pk \in Tallied |-> [d \in 1..LastDay |-> 0]]
  BY DEF Nothing, Tallied
<1> QED
  BY <1>1 DEF Tallies

\* However many stamps there are, no more are kept than are allowed.
LEMMA StampsAreFew ==
  ASSUME NEW n \in Nat, NEW s \in SUBSET (1..n)
  PROVE  Stamps(s) \in SUBSET (1..n) /\ Cardinality(Stamps(s)) <= SeenLimit
<1>1. IsFiniteSet(s) /\ \A r \in SUBSET s : IsFiniteSet(r) /\ Cardinality(r) \in Nat
  <2>1. IsFiniteSet(1..n)
    BY FS_Interval
  <2> QED
    BY <2>1, SomeOf
<1>2. Stamps(s) \in SUBSET s
  BY DEF Stamps
<1>3. CASE Cardinality(s) <= SeenLimit
  BY <1>2, <1>3 DEF Stamps
<1>4. CASE ~(Cardinality(s) <= SeenLimit)
  <2>1. PICK K : K = {i \in s : Cardinality({j \in s : j > i}) < SeenKeep}
    OBVIOUS
  <2>5. Stamps(s) = K
    BY <1>4, <2>1, Zenon DEF Stamps
  <2>6. K \in SUBSET s
    BY <1>2, <2>5, Zenon
  <2>7. \A i \in K : i \in Nat
    BY <2>6
  <2>2. Stamps(s) = K /\ K \in SUBSET s /\ K \in SUBSET Nat
    BY <2>5, <2>6, <2>7, Zenon
  <2>3. CASE K = {}
    BY <2>2, <2>3, FS_EmptySet, PatternAssumption
  <2>4. CASE K # {}
    <3>1. PICK m \in K : \A i \in K : m <= i
      BY <2>2, <2>4, LeastNatural
    <3>2. PICK U : U = {j \in s : j > m}
      OBVIOUS
    <3>3. Cardinality(U) < SeenKeep
      BY <2>1, <3>1, <3>2
    <3>4. K \ {m} \in SUBSET U
      BY <2>2, <3>1, <3>2
    <3>5. IsFiniteSet(U) /\ Cardinality(U) \in Nat /\ IsFiniteSet(K) /\ Cardinality(K) \in Nat
      BY <1>1, <2>2, <3>2
    <3>6. Cardinality(K \ {m}) <= Cardinality(U)
      BY <3>4, <3>5, SomeOf
    <3>7. Cardinality(K \ {m}) = Cardinality(K) - 1
      BY <3>1, <3>5, FS_RemoveElement
    <3> QED
      BY <2>2, <3>3, <3>5, <3>6, <3>7, PatternAssumption
  <2> QED
    BY <2>2, <2>3, <2>4
<1> QED
  BY <1>2, <1>3, <1>4

LEMMA PatternStart == PatternInit => PatternInv
<1> SUFFICES ASSUME PatternInit PROVE PatternInv
  OBVIOUS
<1>1. /\ today = 1 /\ issues = {} /\ issueLog = {} /\ issueFile = {} /\ unsaved = {} /\ forgotten = {}
      /\ counted = {} /\ tally = Nothing /\ tallyFile = Nothing
  BY Zenon DEF PatternInit
<1>2. engineUp = FALSE /\ tallyDirty = FALSE
  BY Zenon DEF PatternInit
<1>3. IsFiniteSet({}) /\ Cardinality({}) = 0
  BY FS_EmptySet
<1>4. IssuesFit
  BY <1>1, <1>3, PatternAssumption DEF IssuesFit
<1>5. \A pk, d : IssuesOf({}, pk, d) = {}
  BY DEF IssuesOf, Of
<1>6. NoMore(Nothing)
  <2>1. ASSUME NEW pk \in Tallied, NEW d \in 1..LastDay PROVE Nothing[pk][d] <= Cardinality(IssuesOf(issues, pk, d))
    <3>1. IssuesOf(issues, pk, d) = {} /\ Nothing[pk][d] = 0
      BY <1>1, <1>5, NothingIs
    <3> QED
      BY <1>3, <3>1
  <2> QED
    BY <2>1, Zenon DEF NoMore
<1>7. NoLess(Nothing, forgotten \cup unsaved)
  <2>1. issues \ (forgotten \cup unsaved) = {}
    BY <1>1
  <2> QED
    BY <1>3, <1>5, <2>1, NothingIs DEF NoLess
<1> QED
  BY <1>1, <1>2, <1>4, <1>6, <1>7, NothingIs, Zenon DEF PatternInv, TalliesFit

\* An engine that starts reads what the file has of the window, or learns from its log.
LEMMA PatternsStarted ==
  ASSUME PatternInv, StartPatterns
  PROVE  PatternInv'
<1>1. /\ engineUp' = TRUE /\ issueLog' = issueFile
      /\ tally' = Learned(Pruned(tallyFile))
      /\ counted' = IF Pruned(tallyFile) = Nothing THEN Stamps({e.id : e \in Fresh(issueFile, {})}) ELSE {}
      /\ tallyDirty' = Dirtied(tallyFile, IF Pruned(tallyFile) = Nothing THEN Fresh(issueFile, {}) ELSE {})
      /\ UNCHANGED <<today, issues, issueFile, tallyFile, unsaved, forgotten>>
  BY Zenon DEF StartPatterns
<1>2. ~engineUp /\ unsaved = {}
  BY Zenon DEF StartPatterns, PatternInv
<1>3. IssuesFit /\ TalliesFit /\ NoLess(tallyFile, forgotten \cup unsaved)
  BY Zenon DEF PatternInv
<1>4. tallyDirty' \in BOOLEAN /\ engineUp' \in BOOLEAN
  BY <1>1, Zenon DEF Dirtied
<1>5. counted' \in SUBSET (1..Cardinality(issues)) /\ Cardinality(counted') <= SeenLimit
  <2>1. Cardinality(issues) \in Nat
    BY <1>3, FS_CardinalityType DEF IssuesFit
  <2>2. {e.id : e \in Fresh(issueFile, {})} \in SUBSET (1..Cardinality(issues))
    <3>1. ASSUME NEW e \in Fresh(issueFile, {}) PROVE e.id \in 1..Cardinality(issues)
      <4>1. e \in issues
        BY <1>3 DEF Fresh, IssuesFit
      <4>2. e.id \in 1..LastIssue
        BY <1>3, <4>1 DEF IssuesFit, Issues
      <4> QED
        BY <1>3, <2>1, <4>1, <4>2 DEF IssuesFit
    <3> QED
      BY <3>1
  <2>3. CASE Pruned(tallyFile) = Nothing
    <3>1. counted' = Stamps({e.id : e \in Fresh(issueFile, {})})
      BY <1>1, <2>3, Zenon
    <3> QED
      BY <2>1, <2>2, <3>1, StampsAreFew
  <2>4. CASE Pruned(tallyFile) # Nothing
    <3>1. counted' = {}
      BY <1>1, <2>4, Zenon
    <3> QED
      BY <3>1, FS_EmptySet, PatternAssumption
  <2> QED
    BY <2>3, <2>4
<1>6. IssuesFit'
  BY <1>1, <1>3, <1>5 DEF IssuesFit
<1>7. tallyFile \in Tallies /\ NoMore(tallyFile) /\ Pruned(tallyFile) \in Tallies
  BY <1>3, PrunedIs, Zenon DEF TalliesFit
<1>8. IsFiniteSet(issueFile)
  BY <1>3, SomeOf DEF IssuesFit
<1>9. tally' \in Tallies
  BY <1>1, <1>7, <1>8, IngestedIs, Zenon DEF Learned
<1>10. ASSUME NEW pk \in Tallied, NEW d \in 1..LastDay
       PROVE  /\ tally'[pk][d] <= Cardinality(IssuesOf(issues, pk, d))
              /\ pk[2] = "conflict" /\ InWindow(d) => Cardinality(IssuesOf(issues \ forgotten, pk, d)) <= tally'[pk][d]
  <2>1. /\ Pruned(tallyFile)[pk][d] = IF InWindow(d) THEN tallyFile[pk][d] ELSE 0
        /\ tallyFile[pk][d] \in Nat /\ tallyFile[pk][d] <= Cardinality(IssuesOf(issues, pk, d))
    BY <1>7, PrunedIs DEF Tallies, NoMore
  <2>2. Cardinality(IssuesOf(issues, pk, d)) \in Nat /\ Cardinality(IssuesOf(issues \ forgotten, pk, d)) \in Nat
    <3>1. IsFiniteSet(issues) /\ IsFiniteSet(issues \ forgotten)
      BY <1>3, SomeOf DEF IssuesFit
    <3> QED
      BY <3>1, FoundAre
  <2>3. pk[2] = "conflict" /\ InWindow(d) => Cardinality(IssuesOf(issues \ forgotten, pk, d)) <= tallyFile[pk][d]
    <3>1. forgotten \cup unsaved = forgotten
      BY <1>2
    <3> QED
      BY <1>3, <3>1, Zenon DEF NoLess
  <2>4. CASE Pruned(tallyFile) = Nothing
    <3>1. tally' = Ingested(Nothing, issueFile, {})
      BY <1>1, <2>4, Zenon DEF Learned
    <3>2. tally'[pk][d] = IF InWindow(d) THEN Nothing[pk][d] + Cardinality(IssuesOf(Fresh(issueFile, {}), pk, d)) ELSE 0
      <4>1. PICK r : r = Ingested(Nothing, issueFile, {})
        OBVIOUS
      <4>2. r[pk][d] = IF InWindow(d) THEN Nothing[pk][d] + Cardinality(IssuesOf(Fresh(issueFile, {}), pk, d)) ELSE 0
        BY <1>8, <4>1, IngestedIs, NothingIs
      <4> QED
        BY <3>1, <4>1, <4>2, Zenon
    <3>3. Nothing[pk][d] = 0
      BY NothingIs
    <3>4. /\ Cardinality(IssuesOf(Fresh(issueFile, {}), pk, d)) <= Cardinality(IssuesOf(issues, pk, d))
          /\ Cardinality(IssuesOf(Fresh(issueFile, {}), pk, d)) \in Nat
      <4>1. Fresh(issueFile, {}) \in SUBSET issues /\ IsFiniteSet(issues)
        BY <1>3 DEF Fresh, IssuesFit
      <4>2. IsFiniteSet(Fresh(issueFile, {}))
        BY <4>1, SomeOf
      <4> QED
        BY <4>1, <4>2, FoundAre
    <3>5. InWindow(d) => tallyFile[pk][d] = 0
      BY <2>1, <2>4, <3>3
    <3> QED
      BY <2>2, <2>3, <3>2, <3>3, <3>4, <3>5
  <2>5. CASE Pruned(tallyFile) # Nothing
    <3>1. tally' = Pruned(tallyFile)
      BY <1>1, <2>5, Zenon DEF Learned
    <3> QED
      BY <2>1, <2>2, <2>3, <3>1
  <2> QED
    BY <2>4, <2>5
<1>11. NoMore(tally)' /\ NoMore(tallyFile)' /\ NoLess(tally, forgotten)' /\ NoLess(tallyFile, forgotten \cup unsaved)'
  <2>1. today' = today /\ issues' = issues /\ forgotten' = forgotten /\ tallyFile' = tallyFile /\ unsaved' = unsaved
    BY <1>1
  <2>2. NoMore(tally)' /\ NoLess(tally, forgotten)'
    BY <1>10, <2>1, Zenon DEF NoMore, NoLess, InWindow
  <2>3. NoMore(tallyFile)' /\ NoLess(tallyFile, forgotten \cup unsaved)'
    BY <1>3, <1>7, <2>1, Zenon DEF NoMore, NoLess, InWindow
  <2> QED
    BY <2>2, <2>3
<1> QED
  BY <1>1, <1>4, <1>6, <1>7, <1>9, <1>11, Zenon DEF PatternInv, TalliesFit

\* What a refresh finds is counted at once; the file has it when it is written.
LEMMA PatternsRefreshed ==
  ASSUME PatternInv, NEW found, NEW timely, NEW ok, NEW logSaved,
         RefreshPatterns(found, timely, ok, logSaved),
         \/ found = {}
         \/ Cardinality(issues) < LastIssue /\ \E p \in PatternPorts, k \in IssueKinds : found = {Issue(p, k)}
  PROVE  PatternInv'
<1> DEFINE fresh == Fresh(found, counted)
           dirty == tallyDirty \/ Dirtied(Counting(tally, fresh), fresh)
<1>1. /\ engineUp /\ issues' = issues \cup found /\ issueLog' = issueLog \cup found
      /\ counted' = Stamps(counted \cup {e.id : e \in fresh})
      /\ tally' = Ingested(tally, found, counted)
      /\ issueFile' = IF logSaved THEN issueLog' ELSE issueFile
      /\ engineUp' = engineUp /\ today' = today /\ forgotten' = forgotten
  BY Zenon DEF RefreshPatterns
<1>2. IF timely /\ dirty THEN WritePatterns(ok)
      ELSE tallyDirty' = dirty /\ unsaved' = unsaved \cup found /\ tallyFile' = tallyFile
  BY Zenon DEF RefreshPatterns
<1>3. IssuesFit /\ TalliesFit /\ NoLess(tally, forgotten) /\ NoLess(tallyFile, forgotten \cup unsaved)
  BY <1>1, Zenon DEF PatternInv
<1>4. /\ \/ tallyFile' = tally' /\ unsaved' = {}
         \/ tallyFile' = tallyFile /\ (unsaved' = unsaved \cup found \/ unsaved' = unsaved \cup (issues' \ issues))
      /\ tallyDirty' \in BOOLEAN
  <2>1. CASE timely /\ dirty
    <3>1. /\ tallyFile' = IF ok THEN tally' ELSE tallyFile
          /\ tallyDirty' = ~ok
          /\ unsaved' = IF ok THEN {} ELSE unsaved \cup (issues' \ issues)
      BY <1>2, <2>1, Zenon DEF WritePatterns
    <3> QED
      BY <3>1, Zenon
  <2>2. CASE ~(timely /\ dirty)
    BY <1>2, <2>2, Zenon
  <2> QED
    BY <2>1, <2>2, Zenon
<1>5. PICK n \in Nat : n = Cardinality(issues)
  BY <1>3, FS_CardinalityType DEF IssuesFit
<1>6. /\ found \subseteq Issues /\ found \cap issues = {} /\ IsFiniteSet(found)
      /\ IsFiniteSet(issues') /\ Cardinality(issues') \in Nat /\ n <= Cardinality(issues') /\ Cardinality(issues') <= LastIssue
      /\ \A e \in found : e.id \in 1..Cardinality(issues') /\ e.id \notin counted
      /\ found = {} \/ \E e : found = {e}
  <2>1. CASE found = {}
    BY <1>1, <1>3, <1>5, <2>1, FS_EmptySet DEF IssuesFit
  <2>2. CASE Cardinality(issues) < LastIssue /\ \E p \in PatternPorts, k \in IssueKinds : found = {Issue(p, k)}
    <3>1. PICK p \in PatternPorts, k \in IssueKinds : found = {Issue(p, k)}
      BY <2>2
    <3>2. PICK e : e = Issue(p, k)
      OBVIOUS
    <3>3. e.id = n + 1 /\ e \in Issues
      <4>1. n + 1 \in 1..LastIssue /\ today \in 1..LastDay
        BY <1>3, <1>5, <2>2, PatternAssumption DEF IssuesFit
      <4> QED
        BY <1>5, <3>2, <4>1 DEF Issue, Issues
    <3>4. e \notin issues /\ e.id \notin counted
      BY <1>3, <1>5, <3>3 DEF IssuesFit
    <3>5. IsFiniteSet(issues') /\ Cardinality(issues') = n + 1
      BY <1>1, <1>3, <1>5, <3>1, <3>2, <3>4, FS_AddElement DEF IssuesFit
    <3>6. IsFiniteSet(found) /\ found = {e}
      BY <3>1, <3>2, FS_Singleton
    <3> QED
      BY <1>5, <2>2, <3>3, <3>4, <3>5, <3>6, PatternAssumption
  <2> QED
    BY <2>1, <2>2
<1>7. fresh \in SUBSET found /\ IsFiniteSet(fresh)
  <2>1. fresh \in SUBSET found
    BY DEF Fresh
  <2> QED
    BY <1>6, <2>1, SomeOf
<1>8. fresh = {e \in found : Classified(e)}
  BY <1>6 DEF Fresh
<1> HIDE DEF fresh, dirty
<1>9. counted' \in SUBSET (1..Cardinality(issues')) /\ Cardinality(counted') <= SeenLimit
  <2>1. {e.id : e \in fresh} \in SUBSET (1..Cardinality(issues'))
    BY <1>6, <1>7
  <2>2. counted \in SUBSET (1..Cardinality(issues'))
    BY <1>3, <1>5, <1>6 DEF IssuesFit
  <2>3. counted \cup {e.id : e \in fresh} \in SUBSET (1..Cardinality(issues'))
    BY <2>1, <2>2
  <2> QED
    BY <1>1, <1>6, <2>3, StampsAreFew
<1>10. IssuesFit'
  <2>1. /\ today' \in 1..LastDay /\ issues' \subseteq Issues /\ issueLog' \subseteq issues'
        /\ forgotten' \subseteq issues'
    BY <1>1, <1>3, <1>6 DEF IssuesFit
  <2>2. issueFile' \subseteq issues'
    BY <1>1, <1>3, <2>1 DEF IssuesFit
  <2>3. unsaved' \subseteq issues'
    BY <1>1, <1>3, <1>4 DEF IssuesFit
  <2>4. ASSUME NEW e \in issues' PROVE e.id <= Cardinality(issues')
    <3>1. CASE e \in issues
      <4>1. e.id <= n /\ e.id \in Nat
        BY <1>3, <1>5, <3>1 DEF IssuesFit, Issues
      <4> QED
        BY <1>5, <1>6, <4>1
    <3>2. CASE e \in found
      BY <1>6, <3>2
    <3> QED
      BY <1>1, <3>1, <3>2
  <2> QED
    BY <1>6, <1>9, <2>1, <2>2, <2>3, <2>4 DEF IssuesFit
<1>11. ASSUME NEW pk \in Tallied, NEW d \in 1..LastDay
       PROVE  /\ tally'[pk][d] = IF InWindow(d) THEN tally[pk][d] + Cardinality(IssuesOf(fresh, pk, d)) ELSE 0
              /\ tally[pk][d] \in Nat
  <2>1. tally \in Tallies
    BY <1>3, Zenon DEF TalliesFit
  <2>2. tally[pk][d] \in Nat
    BY <2>1 DEF Tallies
  <2>3. PICK r : r = Ingested(tally, found, counted)
    OBVIOUS
  <2>4. r[pk][d] = IF InWindow(d) THEN tally[pk][d] + Cardinality(IssuesOf(Fresh(found, counted), pk, d)) ELSE 0
    BY <1>6, <2>1, <2>3, IngestedIs
  <2> QED
    BY <1>1, <2>2, <2>3, <2>4, Zenon DEF fresh
<1>12. ASSUME NEW pk \in Tallied, NEW d \in 1..LastDay
       PROVE  /\ tally'[pk][d] <= Cardinality(IssuesOf(issues', pk, d))
              /\ Cardinality(IssuesOf(issues, pk, d)) <= Cardinality(IssuesOf(issues', pk, d))
  <2>1. /\ Cardinality(IssuesOf(issues, pk, d)) \in Nat /\ Cardinality(IssuesOf(found, pk, d)) \in Nat
        /\ Cardinality(IssuesOf(fresh, pk, d)) \in Nat
        /\ Cardinality(IssuesOf(fresh, pk, d)) <= Cardinality(IssuesOf(found, pk, d))
    BY <1>3, <1>6, <1>7, FoundAre DEF IssuesFit
  <2>2. Cardinality(IssuesOf(issues', pk, d)) = Cardinality(IssuesOf(issues, pk, d)) + Cardinality(IssuesOf(found, pk, d))
    <3>1. CASE found = {}
      <4>1. IssuesOf(found, pk, d) = {} /\ issues' = issues
        BY <1>1, <3>1 DEF IssuesOf, Of
      <4> QED
        BY <2>1, <4>1, FS_EmptySet
    <3>2. CASE \E e : found = {e}
      <4>1. PICK e : found = {e}
        BY <3>2
      <4>2. e \notin issues /\ issues' = issues \cup {e} /\ IsFiniteSet(issues)
        BY <1>1, <1>3, <1>6, <4>1 DEF IssuesFit
      <4> QED
        BY <4>1, <4>2, OneMore
    <3> QED
      BY <1>6, <3>1, <3>2
  <2>3. tally[pk][d] <= Cardinality(IssuesOf(issues, pk, d))
    BY <1>3 DEF TalliesFit, NoMore
  <2> QED
    BY <1>11, <2>1, <2>2, <2>3
<1>13. ASSUME NEW pk \in Tallied, NEW d \in 1..LastDay, pk[2] = "conflict", InWindow(d)
       PROVE  Cardinality(IssuesOf(issues' \ forgotten, pk, d)) <= tally'[pk][d]
  <2>1. PICK es : es = issues \ forgotten
    OBVIOUS
  <2>2. IsFiniteSet(es) /\ Cardinality(IssuesOf(es, pk, d)) \in Nat /\ Cardinality(IssuesOf(es, pk, d)) <= tally[pk][d]
    <3>1. es \in SUBSET issues
      BY <2>1
    <3>2. IsFiniteSet(es)
      BY <1>3, <3>1, SomeOf DEF IssuesFit
    <3>3. Cardinality(IssuesOf(es, pk, d)) \in Nat
      BY <3>2, FoundAre
    <3> QED
      BY <1>3, <1>13, <2>1, <3>2, <3>3, Zenon DEF NoLess
  <2>3. Cardinality(IssuesOf(fresh, pk, d)) \in Nat
    BY <1>7, FoundAre
  <2>4. CASE found = {}
    <3>1. issues' \ forgotten = es
      BY <1>1, <2>1, <2>4
    <3>2. tally'[pk][d] = tally[pk][d] + Cardinality(IssuesOf(fresh, pk, d)) /\ tally[pk][d] \in Nat
      BY <1>11, <1>13
    <3>3. Cardinality(IssuesOf(es, pk, d)) <= tally'[pk][d]
      BY <2>2, <2>3, <3>2
    <3> QED
      BY <3>1, <3>3
  <2>5. CASE \E e : found = {e}
    <3>1. PICK e : found = {e}
      BY <2>5
    <3>2. issues' \ forgotten = es \cup {e} /\ e \notin es
      BY <1>1, <1>3, <1>6, <2>1, <3>1 DEF IssuesFit
    <3>3. Cardinality(IssuesOf(issues' \ forgotten, pk, d)) = Cardinality(IssuesOf(es, pk, d)) + Cardinality(IssuesOf({e}, pk, d))
      BY <2>2, <3>2, OneMore
    <3>4. IssuesOf({e}, pk, d) \in SUBSET IssuesOf(fresh, pk, d)
      BY <1>8, <1>13, <3>1 DEF IssuesOf, Of, Classified, CountedKinds
    <3>5. IsFiniteSet(IssuesOf(fresh, pk, d))
      BY <1>7, FoundAre
    <3>6. Cardinality(IssuesOf({e}, pk, d)) <= Cardinality(IssuesOf(fresh, pk, d)) /\ Cardinality(IssuesOf({e}, pk, d)) \in Nat
      BY <3>4, <3>5, SomeOf
    <3> QED
      BY <1>11, <1>13, <2>2, <2>3, <3>3, <3>6
  <2> QED
    BY <1>6, <2>4, <2>5
<1>14. NoMore(tally)' /\ NoLess(tally, forgotten)'
  BY <1>1, <1>12, <1>13, Zenon DEF NoMore, NoLess, InWindow
<1>15. tally' \in Tallies
  BY <1>1, <1>3, <1>6, IngestedIs, Zenon DEF TalliesFit
<1>16. CASE tallyFile' = tally' /\ unsaved' = {}
  <2>1. forgotten' \cup unsaved' = forgotten'
    BY <1>16
  <2>2. NoLess(tallyFile, forgotten \cup unsaved)'
    BY <1>14, <1>16, <2>1, Zenon DEF NoLess
  <2>3. NoMore(tallyFile)'
    BY <1>14, <1>16, Zenon DEF NoMore
  <2> QED
    BY <1>1, <1>4, <1>10, <1>14, <1>15, <1>16, <2>2, <2>3, Zenon DEF PatternInv, TalliesFit
<1>17. CASE tallyFile' = tallyFile /\ (unsaved' = unsaved \cup found \/ unsaved' = unsaved \cup (issues' \ issues))
  <2>1. issues' \ (forgotten' \cup unsaved') \in SUBSET (issues \ (forgotten \cup unsaved))
    BY <1>1, <1>17
  <2>2. IsFiniteSet(issues \ (forgotten \cup unsaved))
    BY <1>3, SomeOf DEF IssuesFit
  <2>3. ASSUME NEW pk \in Tallied, NEW d \in 1..LastDay
        PROVE  /\ tallyFile[pk][d] <= Cardinality(IssuesOf(issues', pk, d))
               /\ pk[2] = "conflict" /\ InWindow(d) =>
                    Cardinality(IssuesOf(issues' \ (forgotten' \cup unsaved'), pk, d)) <= tallyFile[pk][d]
    <3>1. /\ tallyFile[pk][d] \in Nat /\ tallyFile[pk][d] <= Cardinality(IssuesOf(issues, pk, d))
          /\ pk[2] = "conflict" /\ InWindow(d) =>
                Cardinality(IssuesOf(issues \ (forgotten \cup unsaved), pk, d)) <= tallyFile[pk][d]
      BY <1>3, Zenon DEF TalliesFit, NoMore, NoLess, Tallies
    <3>2. PICK a : a = Cardinality(IssuesOf(issues' \ (forgotten' \cup unsaved'), pk, d))
      OBVIOUS
    <3>3. PICK b : b = Cardinality(IssuesOf(issues \ (forgotten \cup unsaved), pk, d))
      OBVIOUS
    <3>4. a \in Nat /\ b \in Nat /\ a <= b
      <4>1. IsFiniteSet(issues' \ (forgotten' \cup unsaved'))
        BY <2>1, <2>2, SomeOf
      <4> QED
        BY <2>1, <2>2, <3>2, <3>3, <4>1, FoundAre
    <3>5. pk[2] = "conflict" /\ InWindow(d) => a <= tallyFile[pk][d]
      BY <3>1, <3>3, <3>4
    <3>6. Cardinality(IssuesOf(issues, pk, d)) \in Nat /\ Cardinality(IssuesOf(issues', pk, d)) \in Nat
      BY <1>3, <1>6, FoundAre DEF IssuesFit
    <3>7. tallyFile[pk][d] <= Cardinality(IssuesOf(issues', pk, d))
      BY <1>12, <3>1, <3>6
    <3> QED
      BY <3>2, <3>5, <3>7, Zenon
  <2>4. NoMore(tallyFile)' /\ NoLess(tallyFile, forgotten \cup unsaved)'
    BY <1>1, <1>17, <2>3, Zenon DEF NoMore, NoLess, InWindow
  <2>5. tallyFile' \in Tallies
    BY <1>3, <1>17, Zenon DEF TalliesFit
  <2> QED
    BY <1>1, <1>4, <1>10, <1>14, <1>15, <2>4, <2>5, Zenon DEF PatternInv, TalliesFit
<1> QED
  BY <1>4, <1>16, <1>17, Zenon

\* A kill is an issue that no refresh finds.
LEMMA PatternsNoted ==
  ASSUME PatternInv, Cardinality(issues) < LastIssue, NEW p \in PatternPorts, NotePattern(Issue(p, "killed"))
  PROVE  PatternInv'
<1>1. PICK e : e = Issue(p, "killed")
  OBVIOUS
<1>2. /\ engineUp /\ issues' = issues \cup {e} /\ issueLog' = issueLog \cup {e}
      /\ UNCHANGED <<engineUp, today, issueFile, tally, counted, tallyDirty, tallyFile, unsaved, forgotten>>
  BY <1>1, Zenon DEF NotePattern
<1>3. IssuesFit /\ TalliesFit /\ NoLess(tally, forgotten) /\ NoLess(tallyFile, forgotten \cup unsaved)
  BY <1>2, Zenon DEF PatternInv
<1>4. PICK n \in Nat : n = Cardinality(issues)
  BY <1>3, FS_CardinalityType DEF IssuesFit
<1>5. e.id = n + 1 /\ e.kind = "killed" /\ e \in Issues
  <2>1. n + 1 \in 1..LastIssue /\ today \in 1..LastDay
    BY <1>3, <1>4, PatternAssumption DEF IssuesFit
  <2> QED
    BY <1>1, <1>4, <2>1 DEF Issue, Issues, IssueKinds, CountedKinds
<1>6. e \notin issues
  BY <1>3, <1>4, <1>5 DEF IssuesFit
<1>7. IsFiniteSet(issues) /\ IsFiniteSet(issues') /\ Cardinality(issues') = n + 1
  BY <1>2, <1>3, <1>4, <1>6, FS_AddElement DEF IssuesFit
<1>8. IssuesFit'
  <2>1. ASSUME NEW x \in issues' PROVE x.id <= Cardinality(issues')
    <3>1. CASE x \in issues
      <4>1. x.id <= n /\ x.id \in Nat
        BY <1>3, <1>4, <3>1 DEF IssuesFit, Issues
      <4> QED
        BY <1>4, <1>7, <4>1
    <3>2. CASE x = e
      BY <1>4, <1>5, <1>7, <3>2
    <3> QED
      BY <1>2, <3>1, <3>2
  <2>2. counted' \in SUBSET (1..Cardinality(issues')) /\ Cardinality(counted') <= SeenLimit
    BY <1>2, <1>3, <1>4, <1>7 DEF IssuesFit
  <2>3. /\ today' \in 1..LastDay /\ issues' \subseteq Issues /\ issueLog' \subseteq issues' /\ issueFile' \subseteq issues'
        /\ unsaved' \subseteq issues' /\ forgotten' \subseteq issues'
    BY <1>2, <1>3, <1>5 DEF IssuesFit
  <2>4. Cardinality(issues') <= LastIssue
    BY <1>4, <1>7, PatternAssumption
  <2> QED
    BY <1>7, <2>1, <2>2, <2>3, <2>4, Zenon DEF IssuesFit
<1>9. ASSUME NEW gone, NEW pk, pk[2] = "conflict", NEW d
      PROVE  IssuesOf(issues' \ gone, pk, d) = IssuesOf(issues \ gone, pk, d)
  BY <1>2, <1>5, <1>9 DEF IssuesOf, Of
<1>10. ASSUME NEW pk, NEW d
       PROVE  /\ Cardinality(IssuesOf(issues, pk, d)) <= Cardinality(IssuesOf(issues', pk, d))
              /\ Cardinality(IssuesOf(issues, pk, d)) \in Nat /\ Cardinality(IssuesOf(issues', pk, d)) \in Nat
  BY <1>2, <1>7, FoundAre
<1>11. ASSUME NEW t \in Tallies, NoMore(t) PROVE \A pk \in Tallied, d \in 1..LastDay : t[pk][d] <= Cardinality(IssuesOf(issues', pk, d))
  <2>1. ASSUME NEW pk \in Tallied, NEW d \in 1..LastDay PROVE t[pk][d] <= Cardinality(IssuesOf(issues', pk, d))
    <3>1. t[pk][d] \in Nat /\ t[pk][d] <= Cardinality(IssuesOf(issues, pk, d))
      BY <1>11 DEF Tallies, NoMore
    <3> QED
      BY <1>10, <3>1
  <2> QED
    BY <2>1
<1>12. NoMore(tally)' /\ NoMore(tallyFile)'
  BY <1>2, <1>3, <1>11, Zenon DEF NoMore, TalliesFit
<1>13. NoLess(tally, forgotten)' /\ NoLess(tallyFile, forgotten \cup unsaved)'
  <2>1. ASSUME NEW t, NEW gone, NoLess(t, gone)
        PROVE  \A pk \in Tallied, d \in 1..LastDay :
                 pk[2] = "conflict" /\ InWindow(d) => Cardinality(IssuesOf(issues' \ gone, pk, d)) <= t[pk][d]
    <3>1. ASSUME NEW pk \in Tallied, NEW d \in 1..LastDay, pk[2] = "conflict", InWindow(d)
          PROVE  Cardinality(IssuesOf(issues' \ gone, pk, d)) <= t[pk][d]
      <4>1. Cardinality(IssuesOf(issues \ gone, pk, d)) <= t[pk][d]
        BY <2>1, <3>1, Zenon DEF NoLess
      <4> QED
        BY <1>9, <3>1, <4>1
    <3> QED
      BY <3>1, Zenon
  <2>2. UNCHANGED <<today, tally, tallyFile, unsaved, forgotten>>
    BY <1>2
  <2> QED
    BY <1>3, <2>1, <2>2, Zenon DEF NoLess, InWindow
<1> QED
  BY <1>2, <1>3, <1>8, <1>12, <1>13, Zenon DEF PatternInv, TalliesFit

\* An engine ends, and what it did not save is lost with it.
LEMMA PatternsClosed ==
  ASSUME PatternInv, CrashPatterns \/ \E ok, logSaved \in BOOLEAN : ClosePatterns(ok, logSaved)
  PROVE  PatternInv'
<1>1. /\ engineUp /\ engineUp' = FALSE /\ unsaved' = {}
      /\ UNCHANGED <<today, issues, stores>>
      /\ issueFile' = issueFile \/ issueFile' = issueLog
      /\ \/ tallyFile' = tally /\ forgotten' = forgotten
         \/ tallyFile' = tallyFile /\ forgotten' = forgotten \cup unsaved
  BY Zenon DEF CrashPatterns, ClosePatterns
<1>2. IssuesFit /\ TalliesFit /\ NoLess(tally, forgotten) /\ NoLess(tallyFile, forgotten \cup unsaved)
  BY <1>1, Zenon DEF PatternInv
<1>3. UNCHANGED <<issueLog, tally, counted, tallyDirty>> /\ UNCHANGED <<today, issues>>
  BY <1>1 DEF stores
<1>4. IssuesFit'
  BY <1>1, <1>2, <1>3 DEF IssuesFit
<1>5. forgotten' \cup unsaved' = forgotten'
  BY <1>1
<1>6. NoLess(tallyFile, forgotten \cup unsaved)'
  BY <1>1, <1>2, <1>3, <1>5, Zenon DEF NoLess, InWindow
<1>7. TalliesFit'
  BY <1>1, <1>2, <1>3, Zenon DEF TalliesFit, NoMore
<1> QED
  BY <1>1, <1>3, <1>4, <1>6, <1>7, Zenon DEF PatternInv

\* What is cleared counts as forgotten, also in the tally of an engine that runs.
LEMMA PatternsCleared ==
  ASSUME PatternInv, NEW ok, ClearCommand(ok)
  PROVE  PatternInv'
<1>1. /\ UNCHANGED <<engineUp, today, issues, stores, issueFile, unsaved>>
      /\ tallyFile' = IF ok THEN Nothing ELSE tallyFile
      /\ forgotten' = IF ok THEN forgotten \cup issues ELSE forgotten
  BY Zenon DEF ClearCommand
<1>2. UNCHANGED <<issueLog, tally, counted, tallyDirty>> /\ UNCHANGED <<engineUp, today, issues, issueFile, unsaved>>
  BY <1>1 DEF stores
<1>3. IssuesFit /\ TalliesFit /\ NoLess(tallyFile, forgotten \cup unsaved)
  BY Zenon DEF PatternInv
<1>4. CASE ok
  <2>1. tallyFile' = Nothing /\ forgotten' = issues
    BY <1>1, <1>3, <1>4 DEF IssuesFit
  <2>2. IssuesFit'
    BY <1>2, <1>3, <2>1 DEF IssuesFit
  <2>3. \A pk, d : Cardinality(IssuesOf({}, pk, d)) = 0
    <3>1. \A pk, d : IssuesOf({}, pk, d) = {}
      BY DEF IssuesOf, Of
    <3> QED
      BY <3>1, FS_EmptySet
  <2>4. ASSUME NEW t \in Tallies, NEW gone, issues \subseteq gone
        PROVE  \A pk \in Tallied, d \in 1..LastDay : Cardinality(IssuesOf(issues \ gone, pk, d)) <= t[pk][d]
    <3>1. issues \ gone = {}
      BY <2>4
    <3>2. \A pk \in Tallied, d \in 1..LastDay : t[pk][d] \in Nat
      BY DEF Tallies
    <3>3. \A pk \in Tallied, d \in 1..LastDay : 0 <= t[pk][d]
      BY <3>2
    <3> QED
      BY <2>3, <3>1, <3>3, Zenon
  <2>5. NoLess(tally, forgotten)' /\ NoLess(tallyFile, forgotten \cup unsaved)'
    <3>1. tally' \in Tallies /\ tallyFile' \in Tallies
      BY <1>2, <1>3, <2>1, NothingIs, Zenon DEF TalliesFit
    <3>2. issues \subseteq forgotten' /\ issues \subseteq forgotten' \cup unsaved'
      BY <2>1
    <3> QED
      BY <1>2, <2>4, <3>1, <3>2, Zenon DEF NoLess
  <2>6. NoMore(tallyFile)'
    <3>1. \A pk \in Tallied, d \in 1..LastDay : Cardinality(IssuesOf(issues, pk, d)) \in Nat
      BY <1>3, FoundAre DEF IssuesFit
    <3>2. \A pk \in Tallied, d \in 1..LastDay : Nothing[pk][d] <= Cardinality(IssuesOf(issues, pk, d))
      BY <3>1, NothingIs
    <3> QED
      BY <1>2, <2>1, <3>2, Zenon DEF NoMore
  <2>7. NoMore(tally)' /\ tally' \in Tallies /\ tallyFile' \in Tallies
    BY <1>2, <1>3, <2>1, NothingIs, Zenon DEF TalliesFit, NoMore
  <2> QED
    BY <1>2, <2>2, <2>5, <2>6, <2>7, Zenon DEF PatternInv, TalliesFit
<1>5. CASE ~ok
  <2>1. tallyFile' = tallyFile /\ forgotten' = forgotten
    BY <1>1, <1>5
  <2> QED
    BY <1>2, <2>1, Zenon DEF PatternInv, IssuesFit, TalliesFit, NoMore, NoLess, InWindow
<1> QED
  BY <1>4, <1>5

\* A day that leaves the window is asked for no more.
LEMMA PatternsNextDay ==
  ASSUME PatternInv, NextDay
  PROVE  PatternInv'
<1>1. /\ today < LastDay /\ today' = today + 1
      /\ UNCHANGED <<engineUp, issues, stores, issueFile, tallyFile, unsaved, forgotten>>
  BY Zenon DEF NextDay
<1>2. UNCHANGED <<issueLog, tally, counted, tallyDirty>> /\ UNCHANGED <<engineUp, issues, issueFile, tallyFile, unsaved, forgotten>>
  BY <1>1 DEF stores
<1>3. IssuesFit /\ TalliesFit
  BY Zenon DEF PatternInv
<1>4. today' \in 1..LastDay /\ \A d \in 1..LastDay : InWindow(d)' => InWindow(d)
  BY <1>1, <1>3, PatternAssumption DEF IssuesFit, InWindow
<1>5. IssuesFit'
  BY <1>2, <1>3, <1>4, Zenon DEF IssuesFit
<1>6. ASSUME NoLess(tally, forgotten) PROVE NoLess(tally, forgotten)'
  BY <1>2, <1>4, <1>6, Zenon DEF NoLess
<1>7. NoLess(tallyFile, forgotten \cup unsaved) => NoLess(tallyFile, forgotten \cup unsaved)'
  BY <1>2, <1>4, Zenon DEF NoLess
<1> QED
  BY <1>2, <1>3, <1>5, <1>6, <1>7, Zenon DEF PatternInv, TalliesFit, NoMore

THEOREM PatternsInductive == PatternSpec => []PatternInv
<1>1. PatternInv /\ [PatternNext]_patternVars => PatternInv'
  <2> SUFFICES ASSUME PatternInv, [PatternNext]_patternVars PROVE PatternInv'
    OBVIOUS
  <2>1. ASSUME NEW p \in PatternPorts, Cardinality(issues) < LastIssue,
               NEW k \in {"conflict", "started"}, NEW timely, NEW ok, NEW logSaved,
               RefreshPatterns({Issue(p, k)}, timely, ok, logSaved)
        PROVE  PatternInv'
    <3>1. k \in IssueKinds
      BY DEF IssueKinds, CountedKinds
    <3> QED
      BY <2>1, <3>1, PatternsRefreshed, Zenon
  <2>2. CASE UNCHANGED patternVars
    BY <2>2, Zenon DEF patternVars, stores, PatternInv, IssuesFit, TalliesFit, NoMore, NoLess, InWindow
  <2> QED
    BY <2>1, <2>2, PatternsStarted, PatternsRefreshed, PatternsNoted, PatternsClosed, PatternsCleared,
       PatternsNextDay, Zenon DEF PatternNext
<1> QED
  BY <1>1, PatternStart, PTL DEF PatternSpec

\* The stores of patterns and of the log keep their types (patterns.py).
THEOREM PatternTypeCorrect == PatternSpec => []PatternTypeOK
<1>1. PatternInv => PatternTypeOK
  <2> SUFFICES ASSUME PatternInv PROVE PatternTypeOK
    OBVIOUS
  <2>1. IssuesFit /\ TalliesFit
    BY Zenon DEF PatternInv
  <2>2. UNION {issues, issueLog, issueFile, unsaved, forgotten} \subseteq Issues
    BY <2>1 DEF IssuesFit
  <2>3. counted \subseteq 1..LastIssue /\ Cardinality(counted) <= SeenLimit
    <3>1. Cardinality(issues) \in Nat
      BY <2>1, FS_CardinalityType DEF IssuesFit
    <3> QED
      BY <2>1, <3>1, PatternAssumption DEF IssuesFit
  <2>4. ASSUME NEW t \in Tallies, NoMore(t) PROVE t \in [PatternPorts \X CountedKinds -> [1..LastDay -> 0..LastIssue]]
    <3>1. ASSUME NEW pk \in Tallied, NEW d \in 1..LastDay PROVE t[pk][d] \in 0..LastIssue
      <4>1. /\ t[pk][d] \in Nat /\ t[pk][d] <= Cardinality(IssuesOf(issues, pk, d))
        BY <2>4 DEF Tallies, NoMore
      <4>2. IssuesOf(issues, pk, d) \in SUBSET issues /\ IsFiniteSet(issues) /\ Cardinality(issues) <= LastIssue
        BY <2>1, FoundAre DEF IssuesFit
      <4>3. /\ Cardinality(IssuesOf(issues, pk, d)) \in Nat /\ Cardinality(issues) \in Nat
            /\ Cardinality(IssuesOf(issues, pk, d)) <= Cardinality(issues)
        BY <4>2, SomeOf
      <4> QED
        BY <4>1, <4>2, <4>3, PatternAssumption
    <3>2. t \in [Tallied -> [1..LastDay -> Nat]]
      BY DEF Tallies
    <3>3. t \in [Tallied -> [1..LastDay -> 0..LastIssue]]
      BY <3>1, <3>2
    <3> QED
      BY <3>3 DEF Tallied
  <2> QED
    BY <2>1, <2>2, <2>3, <2>4, Zenon DEF PatternTypeOK, TalliesFit, PatternInv, IssuesFit
<1> QED
  BY <1>1, PatternsInductive, PTL

\* Over restarts, crashes, failed saves and a clear, no event is counted twice, and none of the
\* window that a refresh found is missing unless its engine ended first (patterns.py).
THEOREM PatternsCountOnce == PatternSpec => []CountedOnce
<1>1. PatternInv => CountedOnce
  <2> SUFFICES ASSUME PatternInv, engineUp, NEW p \in PatternPorts, NEW d \in 1..LastDay
               PROVE  /\ \A k \in CountedKinds : tally[<<p, k>>][d] <= Cardinality(Of(issues, p, k, d))
                      /\ InWindow(d) =>
                            tally[<<p, "conflict">>][d] >= Cardinality(Of(issues \ forgotten, p, "conflict", d))
    BY Zenon DEF CountedOnce
  <2>1. ASSUME NEW k \in CountedKinds PROVE tally[<<p, k>>][d] <= Cardinality(Of(issues, p, k, d))
    BY DEF PatternInv, TalliesFit, NoMore, IssuesOf, Tallied
  <2>2. ASSUME InWindow(d) PROVE Cardinality(Of(issues \ forgotten, p, "conflict", d)) <= tally[<<p, "conflict">>][d]
    <3>1. <<p, "conflict">> \in Tallied
      BY DEF Tallied, CountedKinds
    <3>2. NoLess(tally, forgotten)
      BY Zenon DEF PatternInv
    <3>3. <<p, "conflict">>[1] = p /\ <<p, "conflict">>[2] = "conflict"
      OBVIOUS
    <3> QED
      BY <2>2, <3>1, <3>2, <3>3 DEF NoLess, IssuesOf
  <2>3. tally[<<p, "conflict">>][d] \in Nat /\ Cardinality(Of(issues \ forgotten, p, "conflict", d)) \in Nat
    <3>1. <<p, "conflict">> \in Tallied /\ tally \in Tallies
      BY DEF Tallied, CountedKinds, PatternInv, TalliesFit
    <3>2. Of(issues \ forgotten, p, "conflict", d) \in SUBSET issues /\ IsFiniteSet(issues)
      BY DEF Of, PatternInv, IssuesFit
    <3> QED
      BY <3>1, <3>2, SomeOf DEF Tallies
  <2> QED
    BY <2>1, <2>2, <2>3
<1> QED
  BY <1>1, PatternsInductive, PTL

-----------------------------------------------------------------------------
(* The star map: what is known of a star or line is what its sightings say,  *)
(* and a line is never known longer than the stars it joins.                *)

\* A star is no line, and a line of a scene joins two stars of it.
LEMMA StarsAreNoLines == AllStars \cap AllLines = {}
<1> SUFFICES ASSUME NEW s \in Scenes, NEW z \in Scenes, NEW x \in Stars(s), x \in Lines(z) PROVE FALSE
  BY DEF AllStars, AllLines
<1>1. PICK n : x = <<n>>
  BY DEF Stars
<1>2. PICK a, b, c : x = <<a, b, c>>
  BY Zenon DEF Lines, Sessions, Connections, RouteLines, Tunnels
<1>3. Len(<<n>>) = 1 /\ Len(<<a, b, c>>) = 3
  OBVIOUS
<1> QED
  BY <1>1, <1>2, <1>3

\* The owner of a port or a process is a star of a row.
LEMMA OwnersAreStars ==
  ASSUME NEW s \in Scenes, NEW those \in SUBSET DOMAIN s.rows, Owner(s.rows, those) # NoStar
  PROVE  Owner(s.rows, those) \in RowStars(s)
<1> DEFINE I == {i \in those : s.rows[i].star # NoStar /\ s.rows[i].kind # "ssh"}
<1>1. I # {} /\ Owner(s.rows, those) = s.rows[Max(I)].star
  BY DEF Owner
<1>2. I \in SUBSET DOMAIN s.rows
  OBVIOUS
<1>3. I \in SUBSET Nat /\ IsFiniteSet(I)
  <2>1. Len(s.rows) \in Nat /\ DOMAIN s.rows = 1..Len(s.rows)
    BY TopologyAssumption
  <2>2. IsFiniteSet(1..Len(s.rows)) /\ 1..Len(s.rows) \subseteq Nat
    BY <2>1, FS_Interval
  <2> QED
    BY <1>2, <2>1, <2>2, FS_Subset
<1>4. Max(I) \in I
  BY <1>1, <1>3, MaxIs
<1> QED
  BY <1>1, <1>4 DEF RowStars

LEMMA PortsAreStars ==
  ASSUME NEW s \in Scenes, NEW p
  PROVE  /\ ByPort(s, p) # NoStar => ByPort(s, p) \in RowStars(s)
         /\ ByPid(s, p) # NoStar => ByPid(s, p) \in RowStars(s)
  BY OwnersAreStars DEF ByPort, ByPid

LEMMA LinesJoinStars ==
  ASSUME NEW s \in Scenes, NEW l \in Lines(s)
  PROVE  Ends(l) \subseteq Stars(s)
<1>1. ASSUME NEW a, NEW b, NEW c, l = <<a, b, c>>, <<a>> \in Stars(s), <<b>> \in Stars(s)
      PROVE  Ends(l) \subseteq Stars(s)
  <2>1. l[1] = a /\ l[2] = b
    BY <1>1
  <2> QED
    BY <1>1, <2>1, Zenon DEF Ends
<1>2. \A n : n \in RowStars(s) \/ n = Machine \/ n \in Clients(s) => <<n>> \in Stars(s)
  BY Zenon DEF Stars
<1>3. \A p : ByPort(s, p) # NoStar => <<ByPort(s, p)>> \in Stars(s)
  BY <1>2, PortsAreStars, Zenon
<1>4. CASE l \in Sessions(s)
  <2>1. PICK i \in DOMAIN s.rows : s.rows[i].kind = "ssh" /\ l = <<Machine, s.rows[i].star, "session">>
    BY <1>4 DEF Sessions
  <2>2. s.rows[i].star \in RowStars(s)
    BY <2>1, TopologyAssumption DEF RowStars
  <2> QED
    BY <1>1, <1>2, <2>1, <2>2, Zenon
<1>5. CASE l \in Connections(s)
  <2>1. PICK e \in Connected(s) : l = <<Source(s, e), ByPort(s, e.port), "connects">>
    BY <1>5, Zenon DEF Connections
  <2>2. Source(s, e) \in Clients(s) /\ ByPort(s, e.port) # NoStar
    BY <2>1, Zenon DEF Clients, Connected
  <2> QED
    BY <1>1, <1>2, <1>3, <2>1, <2>2, Zenon
<1>6. CASE l \in RouteLines(s)
  <2>1. PICK r : /\ l = <<ByPort(s, r.listen), ByPort(s, r.upstream), "proxies">>
                 /\ NoStar \notin {ByPort(s, r.listen), ByPort(s, r.upstream)}
    BY <1>6, Zenon DEF RouteLines
  <2> QED
    BY <1>1, <1>3, <2>1, Zenon
<1>7. CASE l \in Tunnels(s)
  <2>1. PICK r \in TunnelRows(s) : l = <<ByPort(s, r.port), r.target, "tunnels">>
    BY <1>7, Zenon DEF Tunnels
  <2>2. ByPort(s, r.port) # NoStar /\ <<r.target>> \in Stars(s)
    BY <2>1, Zenon DEF TunnelRows, Stars
  <2> QED
    BY <1>1, <1>3, <2>1, <2>2, Zenon
<1> QED
  BY <1>4, <1>5, <1>6, <1>7, Zenon DEF Lines

-----------------------------------------------------------------------------
(* Days. *)

\* The newest of the days, as many as are kept.
Newest(D) == {d \in D : Cardinality({e \in D : e > d}) < DaysKept}

LEMMA NewestAre ==
  ASSUME NEW D \in SUBSET Nat, IsFiniteSet(D)
  PROVE  /\ Newest(D) \in SUBSET D /\ IsFiniteSet(Newest(D))
         /\ Newest(D) # D =>
              \E y \in D \ Newest(D) : /\ Cardinality({e \in D : e > y}) >= DaysKept
                                       /\ {e \in D : e > y} \subseteq Newest(D)
<1>1. Newest(D) \in SUBSET D /\ IsFiniteSet(Newest(D))
  BY SomeOf DEF Newest
<1>2. ASSUME Newest(D) # D
      PROVE  \E y \in D \ Newest(D) : /\ Cardinality({e \in D : e > y}) >= DaysKept
                                      /\ {e \in D : e > y} \subseteq Newest(D)
  <2> DEFINE gone == D \ Newest(D)
  <2>1. gone # {} /\ gone \in SUBSET Nat /\ gone \in SUBSET D
    BY <1>1, <1>2
  <2>2. IsFiniteSet(gone)
    BY <2>1, SomeOf
  <2>3. PICK y \in gone : \A e \in gone : e <= y
    BY <2>1, <2>2, MaxIs
  <2>4. Cardinality({e \in D : e > y}) \in Nat
    <3>1. {e \in D : e > y} \in SUBSET D
      OBVIOUS
    <3> QED
      BY <3>1, SomeOf
  <2>5. ~(Cardinality({e \in D : e > y}) < DaysKept)
    BY <2>3 DEF Newest
  <2>6. Cardinality({e \in D : e > y}) >= DaysKept
    BY <2>4, <2>5, TopologyAssumption
  <2>7. {e \in D : e > y} \subseteq Newest(D)
    <3> SUFFICES ASSUME NEW e \in D, e > y, e \notin Newest(D) PROVE FALSE
      OBVIOUS
    <3>1. e \in gone /\ e \in Nat /\ y \in Nat
      BY <2>1
    <3> QED
      BY <2>3, <3>1
  <2> QED
    BY <2>3, <2>6, <2>7
<1> QED
  BY <1>1, <1>2

\* One more day leaves the same days, whether or not the others were let go before.
LEMMA NewestOfMore ==
  ASSUME NEW D \in SUBSET Nat, IsFiniteSet(D), NEW d \in Nat
  PROVE  Newest(Newest(D) \cup {d}) = Newest(D \cup {d})
<1> DEFINE A == D \cup {d}
           B == Newest(D) \cup {d}
           Above(S, x) == {e \in S : e > x}
<1>1. A \in SUBSET Nat /\ IsFiniteSet(A) /\ B \in SUBSET A /\ IsFiniteSet(B)
  <2>1. IsFiniteSet(A) /\ Newest(D) \in SUBSET D
    BY FS_AddElement, NewestAre
  <2> QED
    BY <2>1, SomeOf
<1>2. DaysKept \in Nat
  BY TopologyAssumption
<1>3. ASSUME NEW S \in SUBSET A, NEW T \in SUBSET S
      PROVE  Cardinality(T) \in Nat /\ Cardinality(S) \in Nat /\ Cardinality(T) <= Cardinality(S)
  BY <1>1, <1>3, SomeOf
<1>4. ASSUME NEW x \in Newest(A) PROVE x \in Newest(B)
  <2>1. x \in A /\ Cardinality(Above(A, x)) < DaysKept
    BY DEF Newest
  <2>2. Above(B, x) \in SUBSET Above(A, x) /\ Above(D, x) \in SUBSET Above(A, x) /\ Above(A, x) \in SUBSET A
    BY <1>1
  <2>3. Cardinality(Above(B, x)) < DaysKept /\ Cardinality(Above(D, x)) < DaysKept
    BY <1>2, <1>3, <2>1, <2>2
  <2>4. x \in B
    BY <2>1, <2>3 DEF Newest
  <2> QED
    BY <2>3, <2>4 DEF Newest
<1>5. ASSUME NEW x \in Newest(B) PROVE x \in Newest(A)
  <2>1. x \in B /\ x \in A /\ Cardinality(Above(B, x)) < DaysKept
    BY <1>1 DEF Newest
  <2>2. CASE Newest(D) = D
    <3>1. A = B
      BY <2>2
    <3> QED
      BY <3>1
  <2>3. CASE Newest(D) # D
    <3>1. PICK y \in D \ Newest(D) : /\ Cardinality(Above(D, y)) >= DaysKept
                                     /\ Above(D, y) \subseteq Newest(D)
      BY <2>3, NewestAre
    <3>2. CASE y > x
      <4>1. Above(D, y) \in SUBSET Above(B, x) /\ Above(B, x) \in SUBSET A
        <5>1. ASSUME NEW e \in D, e > y PROVE e \in B /\ e > x
          <6>1. e \in Nat /\ y \in Nat /\ x \in Nat
            BY <1>1, <2>1, <3>1
          <6> QED
            BY <3>1, <3>2, <5>1, <6>1
        <5> QED
          BY <1>1, <5>1
      <4> QED
        BY <1>2, <1>3, <2>1, <3>1, <4>1
    <3>3. CASE ~(y > x)
      <4>1. Above(A, x) \in SUBSET Above(B, x) /\ Above(B, x) \in SUBSET A
        <5>1. ASSUME NEW e \in A, e > x, e \notin B PROVE FALSE
          <6>1. e \in D \ Newest(D) /\ e \in Nat /\ y \in Nat /\ x \in Nat
            BY <1>1, <2>1, <3>1, <5>1
          <6>2. ~(e > y)
            BY <3>1, <6>1
          <6> QED
            BY <3>3, <5>1, <6>1, <6>2
        <5> QED
          BY <1>1, <5>1
      <4>2. Cardinality(Above(A, x)) < DaysKept
        BY <1>2, <1>3, <2>1, <4>1
      <4> QED
        BY <2>1, <4>2 DEF Newest
    <3> QED
      BY <3>2, <3>3
  <2> QED
    BY <2>2, <2>3
<1> QED
  BY <1>4, <1>5

\* The days that are kept tell whether there were enough of them.
LEMMA NewestTell ==
  ASSUME NEW D \in SUBSET Nat, IsFiniteSet(D)
  PROVE  Cardinality(Newest(D)) >= UsualDays <=> Cardinality(D) >= UsualDays
<1>1. Cardinality(Newest(D)) \in Nat /\ Cardinality(D) \in Nat /\ Cardinality(Newest(D)) <= Cardinality(D)
  BY NewestAre, SomeOf
<1>2. UsualDays \in Nat /\ DaysKept \in Nat /\ UsualDays <= DaysKept
  BY TopologyAssumption
<1>3. CASE Newest(D) = D
  BY <1>3
<1>4. CASE Newest(D) # D
  <2>1. PICK y \in D \ Newest(D) : /\ Cardinality({e \in D : e > y}) >= DaysKept
                                   /\ {e \in D : e > y} \subseteq Newest(D)
    BY <1>4, NewestAre
  <2>2. /\ Cardinality({e \in D : e > y}) \in Nat
        /\ Cardinality({e \in D : e > y}) <= Cardinality(Newest(D))
    BY <2>1, NewestAre, SomeOf
  <2> QED
    BY <1>1, <1>2, <2>1, <2>2
<1> QED
  BY <1>3, <1>4

-----------------------------------------------------------------------------
(* What is remembered. *)

Starry == AllStars \cup AllLines
Notes == [last: Nat, days: SUBSET Nat, usual: BOOLEAN, live: BOOLEAN]

DaysOf(H) == {Day(u) : u \in H}

Sightings(h, t) ==
  h \in [Starry -> SUBSET Nat] /\ \A x \in Starry : IsFiniteSet(h[x]) /\ \A u \in h[x] : u <= t

LinesHold(g) ==
  \A l \in DOMAIN g \cap AllLines : \A e \in Ends(l) : e \in DOMAIN g /\ g[l].last <= g[e].last

AsSighted(n, H) ==
  /\ n \in Notes /\ n.last \in H /\ \A u \in H : u <= n.last
  /\ n.days = Newest(DaysOf(H))
  /\ n.usual <=> Cardinality(DaysOf(H)) >= UsualDays

Vouched(g, h, t) ==
  /\ Sightings(h, t) /\ LinesHold(g)
  /\ g \in Partial(Starry, Notes)
  /\ \A x \in Starry : x \in DOMAIN g <=> h[x] # {}
  /\ \A x \in DOMAIN g : AsSighted(g[x], h[x])

MapInv ==
  /\ mapUp \in BOOLEAN /\ mapDirty \in BOOLEAN /\ tick \in 0..LastTick
  /\ Vouched(learned, sighted, tick) /\ Vouched(mapFile, sightedFile, tick)

LEMMA DaysAre ==
  ASSUME NEW H \in SUBSET Nat, IsFiniteSet(H)
  PROVE  DaysOf(H) \in SUBSET Nat /\ IsFiniteSet(DaysOf(H))
<1>1. ASSUME NEW u \in Nat PROVE Day(u) \in Nat
  BY TopologyAssumption DEF Day
<1>2. DaysOf(H) \in SUBSET Nat
  BY <1>1 DEF DaysOf
<1>3. IsFiniteSet(DaysOf(H))
  <2> DEFINE f == [u \in H |-> Day(u)]
  <2>1. f \in Surjection(H, DaysOf(H))
    BY DEF DaysOf, Surjection
  <2> QED
    BY <2>1, FS_Surjection
<1> QED
  BY <1>2, <1>3

\* Time passes.
LEMMA VouchedLater ==
  ASSUME NEW g, NEW h, NEW t \in Nat, Vouched(g, h, t)
  PROVE  Vouched(g, h, t + 1)
<1>1. Sightings(h, t + 1)
  <2>1. h \in [Starry -> SUBSET Nat] /\ \A x \in Starry : IsFiniteSet(h[x]) /\ \A u \in h[x] : u <= t
    BY Zenon DEF Vouched, Sightings
  <2>2. \A x \in Starry : \A u \in h[x] : u <= t + 1
    BY <2>1
  <2> QED
    BY <2>1, <2>2, Zenon DEF Sightings
<1> QED
  BY <1>1, Zenon DEF Vouched

LEMMA NothingVouched == Vouched(<<>>, Unsighted, 0)
<1>1. <<>> \in Partial(Starry, Notes) /\ DOMAIN <<>> = {}
  BY DEF Partial
<1>2. Unsighted = [x \in Starry |-> {}]
  BY DEF Unsighted, Starry
<1>3. Unsighted \in [Starry -> SUBSET Nat] /\ \A x \in Starry : Unsighted[x] = {}
  BY <1>2
<1>4. Sightings(Unsighted, 0)
  BY <1>3, FS_EmptySet, Zenon DEF Sightings
<1> QED
  BY <1>1, <1>3, <1>4, Zenon DEF Vouched, LinesHold

\* Between two engines nothing is live, and nothing else changes.
LEMMA IdleIs ==
  ASSUME NEW g, NEW h, NEW t, Vouched(g, h, t)
  PROVE  Vouched(Idle(g), h, t)
<1>1. g \in [DOMAIN g -> Notes] /\ DOMAIN g \subseteq Starry
  BY PartialIs, Zenon DEF Vouched
<1>2. PICK f : f = Idle(g)
  OBVIOUS
<1>3. DOMAIN f = DOMAIN g /\ \A x \in DOMAIN g : f[x] = [g[x] EXCEPT !.live = FALSE]
  BY <1>2 DEF Idle
<1>4. ASSUME NEW x \in DOMAIN g
      PROVE  f[x] \in Notes /\ f[x].last = g[x].last /\ f[x].days = g[x].days /\ f[x].usual = g[x].usual
  <2>1. g[x] \in Notes /\ f[x] = [g[x] EXCEPT !.live = FALSE]
    BY <1>1, <1>3
  <2>2. PICK n \in Notes : n = g[x]
    BY <2>1
  <2>3. f[x] = [n EXCEPT !.live = FALSE]
    BY <2>1, <2>2
  <2> QED
    BY <2>2, <2>3 DEF Notes
<1>5. f \in Partial(Starry, Notes)
  <2>1. f = [x \in DOMAIN g |-> f[x]]
    BY <1>2 DEF Idle
  <2>2. f \in [DOMAIN g -> Notes]
    BY <1>4, <2>1
  <2> QED
    BY <1>1, <2>2, PartialBy
<1>6. LinesHold(f)
  <2>1. LinesHold(g)
    BY Zenon DEF Vouched
  <2>2. ASSUME NEW l \in DOMAIN g \cap AllLines, NEW e \in Ends(l)
        PROVE  e \in DOMAIN g /\ f[l].last <= f[e].last
    BY <1>4, <2>1 DEF LinesHold
  <2> QED
    BY <1>3, <2>2, Zenon DEF LinesHold
<1>7. \A x \in DOMAIN f : AsSighted(f[x], h[x])
  <2> SUFFICES ASSUME NEW x \in DOMAIN g PROVE AsSighted(f[x], h[x])
    BY <1>3
  <2>1. AsSighted(g[x], h[x])
    BY Zenon DEF Vouched
  <2> QED
    BY <1>4, <2>1, Zenon DEF AsSighted
<1>8. \A x \in Starry : x \in DOMAIN f <=> h[x] # {}
  BY <1>3, Zenon DEF Vouched
<1>9. Sightings(h, t)
  BY Zenon DEF Vouched
<1> QED
  BY <1>2, <1>5, <1>6, <1>7, <1>8, <1>9, Zenon DEF Vouched

\* What was not seen for long is forgotten, and a line before the stars it joins.
LEMMA PrunedMapIs ==
  ASSUME NEW g, NEW h, NEW t \in Nat, Vouched(g, h, t)
  PROVE  Vouched(PrunedMap(g, t), Recall(h, t), t)
<1>1. g \in Partial(Starry, Notes) /\ g \in [DOMAIN g -> Notes] /\ DOMAIN g \subseteq Starry
  BY PartialIs, Zenon DEF Vouched
<1>2. PICK b \in Int : b = t - KeptDays * TicksPerDay
  BY TopologyAssumption
<1> DEFINE recent == {x \in DOMAIN g : g[x].last >= b}
<1>3. LinesHold(g) /\ Sightings(h, t) /\ \A x \in DOMAIN g : AsSighted(g[x], h[x])
  BY Zenon DEF Vouched
<1>4. \A x \in DOMAIN g : g[x].last \in Nat
  BY <1>1 DEF Notes
<1>5. ASSUME NEW l \in recent \cap AllLines, NEW e \in Ends(l)
      PROVE  e \in recent /\ g[l].last <= g[e].last
  <2>1. e \in DOMAIN g /\ g[l].last <= g[e].last
    BY <1>3, Zenon DEF LinesHold
  <2>2. g[l].last >= b /\ g[l].last \in Nat /\ g[e].last \in Nat
    BY <1>4, <2>1
  <2> QED
    BY <2>1, <2>2
<1>6. PICK f : f = Restrict(g, recent)
  OBVIOUS
<1>7. PrunedMap(g, t) = f
  <2>1. PrunedMap(g, t) = Restrict(g, {x \in recent : x \in AllLines => Ends(x) \subseteq recent})
    BY <1>2, Zenon DEF PrunedMap
  <2>2. {x \in recent : x \in AllLines => Ends(x) \subseteq recent} = recent
    BY <1>5, Zenon
  <2> QED
    BY <1>6, <2>1, <2>2, Zenon
<1>8. f \in Partial(Starry, Notes) /\ DOMAIN f = recent /\ \A x \in recent : f[x] = g[x]
  <2>1. PICK R : R = recent
    OBVIOUS
  <2>2. R \in SUBSET DOMAIN g /\ f = Restrict(g, R)
    BY <1>6, <2>1
  <2>3. f \in Partial(Starry, Notes) /\ DOMAIN f = R /\ \A x \in R : f[x] = g[x]
    BY <1>1, <2>2, PartialCut
  <2> QED
    BY <2>1, <2>3, Zenon
<1>9. PICK k : k = Recall(h, t)
  OBVIOUS
<1>10. h \in [Starry -> SUBSET Nat] /\ \A x \in Starry : IsFiniteSet(h[x]) /\ \A u \in h[x] : u <= t
  BY <1>3, Zenon DEF Sightings
<1>11. k = [x \in Starry |-> IF \E u \in h[x] : u >= b THEN h[x] ELSE {}]
  BY <1>2, <1>9, <1>10, Zenon DEF Recall
<1>12. ASSUME NEW x \in Starry PROVE k[x] = IF \E u \in h[x] : u >= b THEN h[x] ELSE {}
  BY <1>11, Zenon
<1>13. Sightings(k, t)
  <2>1. k \in [Starry -> SUBSET Nat]
    BY <1>10, <1>11
  <2>2. ASSUME NEW x \in Starry PROVE IsFiniteSet(k[x]) /\ \A u \in k[x] : u <= t
    BY <1>10, <1>12, FS_EmptySet, Zenon
  <2> QED
    BY <2>1, <2>2, Zenon DEF Sightings
<1>14. ASSUME NEW x \in DOMAIN g PROVE x \in recent <=> \E u \in h[x] : u >= b
  <2>1. g[x].last \in h[x] /\ \A u \in h[x] : u <= g[x].last
    BY <1>3, Zenon DEF AsSighted
  <2>2. h[x] \in SUBSET Nat /\ g[x].last \in Nat
    BY <1>1, <1>4, <1>10
  <2> QED
    BY <2>1, <2>2
<1>15. ASSUME NEW x \in Starry PROVE x \in DOMAIN f <=> k[x] # {}
  <2>1. x \in DOMAIN g <=> h[x] # {}
    BY Zenon DEF Vouched
  <2>2. CASE x \in DOMAIN g
    BY <1>8, <1>12, <1>14, <2>1, <2>2, Zenon
  <2>3. CASE x \notin DOMAIN g
    <3>1. h[x] = {} /\ x \notin recent
      BY <2>1, <2>3
    <3> QED
      BY <1>8, <1>12, <3>1, Zenon
  <2> QED
    BY <2>2, <2>3
<1>16. ASSUME NEW x \in recent PROVE AsSighted(f[x], k[x])
  <2>1. k[x] = h[x]
    BY <1>1, <1>12, <1>14, Zenon
  <2> QED
    BY <1>3, <1>8, <2>1, Zenon
<1>17. LinesHold(f)
  BY <1>5, <1>8, Zenon DEF LinesHold
<1> QED
  BY <1>7, <1>8, <1>9, <1>13, <1>15, <1>16, <1>17, Zenon DEF Vouched

\* The sightings of what is found again are those of other days and this one.
LEMMA SightIs ==
  ASSUME NEW h, NEW t \in Nat, Sightings(h, t), NEW s \in Scenes
  PROVE  /\ Sightings(Sight(h, s, t), t)
         /\ \A x \in Starry : x \notin Stars(s) \cup Lines(s) => Sight(h, s, t)[x] = h[x]
         /\ \A x \in Starry : x \in Stars(s) \cup Lines(s) =>
              /\ t \in Sight(h, s, t)[x] /\ \A u \in Sight(h, s, t)[x] : u <= t
              /\ DaysOf(Sight(h, s, t)[x]) = DaysOf(h[x]) \cup {Day(t)}
<1>1. PICK F : F = Stars(s) \cup Lines(s)
  OBVIOUS
<1>2. PICK k : k = Sight(h, s, t)
  OBVIOUS
<1>3. h \in [Starry -> SUBSET Nat] /\ \A x \in Starry : IsFiniteSet(h[x]) /\ \A u \in h[x] : u <= t
  BY Zenon DEF Sightings
<1>4. k = [x \in Starry |-> IF x \in F THEN {u \in h[x] : Day(u) # Day(t)} \cup {t} ELSE h[x]]
  BY <1>1, <1>2, <1>3, Zenon DEF Sight
<1>5. \A x \in Starry : k[x] = IF x \in F THEN {u \in h[x] : Day(u) # Day(t)} \cup {t} ELSE h[x]
  BY <1>4, Zenon
<1>6. ASSUME NEW x \in Starry, x \in F
      PROVE  /\ k[x] \in SUBSET Nat /\ IsFiniteSet(k[x])
             /\ t \in k[x] /\ \A u \in k[x] : u <= t
             /\ DaysOf(k[x]) = DaysOf(h[x]) \cup {Day(t)}
  <2> DEFINE old == {u \in h[x] : Day(u) # Day(t)}
  <2>1. k[x] = old \cup {t} /\ h[x] \in SUBSET Nat /\ IsFiniteSet(h[x]) /\ \A u \in h[x] : u <= t
    BY <1>3, <1>5, <1>6
  <2>2. IsFiniteSet(old)
    BY <2>1, SomeOf
  <2>3. IsFiniteSet(old \cup {t})
    BY <2>2, FS_AddElement
  <2>4. \A u \in k[x] : u <= t
    BY <2>1
  <2>5. DaysOf(k[x]) = DaysOf(h[x]) \cup {Day(t)}
    BY <2>1, Zenon DEF DaysOf
  <2> QED
    BY <2>1, <2>3, <2>4, <2>5
<1>7. ASSUME NEW x \in Starry
      PROVE  k[x] \in SUBSET Nat /\ IsFiniteSet(k[x]) /\ \A u \in k[x] : u <= t
  BY <1>3, <1>5, <1>6
<1>8. Sightings(k, t)
  <2>1. k \in [Starry -> SUBSET Nat]
    BY <1>4, <1>7
  <2> QED
    BY <1>7, <2>1, Zenon DEF Sightings
<1> QED
  BY <1>1, <1>2, <1>5, <1>6, <1>8, Zenon

\* What a refresh finds is seen now; the rest is what it was.
LEMMA SeenIs ==
  ASSUME NEW g, NEW h, NEW t \in Nat, Vouched(g, h, t), NEW s \in Scenes
  PROVE  Vouched(Seen(g, s, t), Sight(h, s, t), t)
<1>1. PICK F : F = Stars(s) \cup Lines(s)
  OBVIOUS
<1>2. PICK k : k = Sight(h, s, t)
  OBVIOUS
<1>3. PICK q : q = Idle(g)
  OBVIOUS
<1>4. PICK f : f = Seen(g, s, t)
  OBVIOUS
<1>5. F \in SUBSET Starry
  BY <1>1 DEF Starry, AllStars, AllLines
<1>6. Sightings(h, t) /\ Vouched(q, h, t)
  BY <1>3, IdleIs, Zenon DEF Vouched
<1>7. /\ Sightings(k, t)
      /\ \A x \in Starry : x \notin F => k[x] = h[x]
      /\ \A x \in Starry : x \in F => /\ t \in k[x] /\ \A u \in k[x] : u <= t
                                      /\ DaysOf(k[x]) = DaysOf(h[x]) \cup {Day(t)}
  <2>1. /\ Sightings(k, t)
        /\ \A x \in Starry : x \notin Stars(s) \cup Lines(s) => k[x] = h[x]
        /\ \A x \in Starry : x \in Stars(s) \cup Lines(s) =>
             /\ t \in k[x] /\ \A u \in k[x] : u <= t
             /\ DaysOf(k[x]) = DaysOf(h[x]) \cup {Day(t)}
    BY <1>2, <1>6, SightIs
  <2> QED
    BY <1>1, <2>1, Zenon
<1>8. \A x \in Starry : h[x] \in SUBSET Nat /\ IsFiniteSet(h[x]) /\ k[x] \in SUBSET Nat /\ IsFiniteSet(k[x])
  BY <1>6, <1>7 DEF Sightings
<1>9. /\ q \in Partial(Starry, Notes) /\ LinesHold(q)
      /\ \A x \in Starry : x \in DOMAIN q <=> h[x] # {}
      /\ \A x \in DOMAIN q : AsSighted(q[x], h[x])
  BY <1>6, Zenon DEF Vouched
<1>10. DOMAIN q = DOMAIN g /\ q \in [DOMAIN q -> Notes] /\ DOMAIN q \subseteq Starry
  BY <1>3, <1>9, PartialIs DEF Idle
<1> DEFINE days(x) == MarkDay(IF x \in DOMAIN g THEN g[x].days ELSE {}, t)
           now(x) == [last |-> t, days |-> days(x), usual |-> Cardinality(days(x)) >= UsualDays,
                      live |-> x \in AllLines \/ StarLive(s, x)]
<1>11. f = Merged([x \in F |-> now(x)], q)
  BY <1>1, <1>3, <1>4, Zenon DEF Seen
<1>12. ASSUME NEW x \in F
       PROVE  days(x) = Newest(DaysOf(k[x]))
  <2>1. x \in Starry
    BY <1>5
  <2>2. DaysOf(k[x]) = DaysOf(h[x]) \cup {Day(t)}
    BY <1>7, <2>1, Zenon
  <2>3. DaysOf(h[x]) \in SUBSET Nat /\ IsFiniteSet(DaysOf(h[x])) /\ Day(t) \in Nat
    <3>1. t \in Nat /\ TicksPerDay \in Nat \ {0}
      BY TopologyAssumption
    <3>2. Day(t) \in Nat
      BY <3>1 DEF Day
    <3> QED
      BY <1>8, <2>1, <3>2, DaysAre, Zenon
  <2>4. (IF x \in DOMAIN g THEN g[x].days ELSE {}) = Newest(DaysOf(h[x]))
    <3>1. CASE x \in DOMAIN g
      <4>1. AsSighted(g[x], h[x])
        BY <3>1, Zenon DEF Vouched
      <4> QED
        BY <3>1, <4>1, Zenon DEF AsSighted
    <3>2. CASE x \notin DOMAIN g
      <4>1. h[x] = {}
        BY <1>9, <1>10, <2>1, <3>2, Zenon
      <4>2. DaysOf(h[x]) = {}
        BY <4>1, Zenon DEF DaysOf
      <4>3. Newest(DaysOf(h[x])) = {}
        BY <4>2, Zenon DEF Newest
      <4> QED
        BY <3>2, <4>3, Zenon
    <3> QED
      BY <3>1, <3>2
  <2>5. days(x) = Newest(Newest(DaysOf(h[x])) \cup {Day(t)})
    BY <2>4, Zenon DEF MarkDay, Newest
  <2> QED
    BY <2>2, <2>3, <2>5, NewestOfMore, Zenon
<1>13. ASSUME NEW x \in F
       PROVE  AsSighted(now(x), k[x])
  <2>1. x \in Starry /\ DaysOf(k[x]) \in SUBSET Nat /\ IsFiniteSet(DaysOf(k[x]))
    BY <1>5, <1>8, DaysAre
  <2>2. PICK D : D = days(x)
    OBVIOUS
  <2>3. D = Newest(DaysOf(k[x])) /\ D \in SUBSET Nat
    BY <1>12, <2>1, <2>2, NewestAre
  <2>4. Cardinality(D) >= UsualDays <=> Cardinality(DaysOf(k[x])) >= UsualDays
    BY <2>1, <2>3, NewestTell
  <2>5. PICK usual : usual = (Cardinality(D) >= UsualDays)
    BY Zenon
  <2>6. PICK live : live = (x \in AllLines \/ StarLive(s, x))
    BY Zenon
  <2>7. usual \in BOOLEAN
    BY <2>5
  <2>8. live \in BOOLEAN
    BY <2>6, Zenon
  <2>9. now(x) = [last |-> t, days |-> D, usual |-> usual, live |-> live]
    BY <2>2, <2>5, <2>6, Zenon
  <2>10. PICK m : m = [last |-> t, days |-> D, usual |-> usual, live |-> live]
    OBVIOUS
  <2>11. m \in Notes /\ m.last = t /\ m.days = D /\ m.usual = usual
    BY <2>3, <2>10, <2>7, <2>8 DEF Notes
  <2>12. t \in k[x] /\ \A u \in k[x] : u <= t
    BY <1>7, <2>1, Zenon
  <2>13. AsSighted(m, k[x])
    BY <2>3, <2>4, <2>5, <2>11, <2>12, Zenon DEF AsSighted
  <2> QED
    BY <2>9, <2>10, <2>13, Zenon
<1>14. PICK of : of = [x \in F |-> now(x)]
  OBVIOUS
<1>15. DOMAIN of = F /\ \A x \in F : AsSighted(of[x], k[x]) /\ of[x] \in Notes /\ of[x].last = t
  <2>1. DOMAIN of = F /\ \A x \in F : of[x] = now(x)
    BY <1>14, Zenon
  <2>2. \A x \in F : of[x].last = t
    BY <2>1
  <2> QED
    BY <1>13, <2>1, <2>2, Zenon DEF AsSighted
<1> HIDE DEF days, now
<1>16. f = [x \in F \cup DOMAIN q |-> IF x \in F THEN of[x] ELSE q[x]]
  BY <1>11, <1>14, <1>15, Zenon DEF Merged
<1>17. DOMAIN f = F \cup DOMAIN q /\ \A x \in F \cup DOMAIN q : f[x] = IF x \in F THEN of[x] ELSE q[x]
  BY <1>16, Zenon
<1>18. f \in Partial(Starry, Notes)
  <2>1. \A x \in F \cup DOMAIN q : (IF x \in F THEN of[x] ELSE q[x]) \in Notes
    BY <1>10, <1>15
  <2>2. f \in [(F \cup DOMAIN q) -> Notes]
    BY <1>16, <2>1
  <2>3. F \cup DOMAIN q \in SUBSET Starry
    BY <1>5, <1>10
  <2> QED
    BY <2>2, <2>3, PartialBy
<1>19. ASSUME NEW x \in DOMAIN f PROVE AsSighted(f[x], k[x])
  <2>1. x \in Starry
    BY <1>5, <1>10, <1>17
  <2> QED
    BY <1>7, <1>9, <1>15, <1>17, <2>1, Zenon
<1>20. ASSUME NEW x \in Starry PROVE x \in DOMAIN f <=> k[x] # {}
  BY <1>7, <1>9, <1>17, Zenon
<1>21. LinesHold(f)
  <2> SUFFICES ASSUME NEW l \in DOMAIN f \cap AllLines, NEW e \in Ends(l)
               PROVE  e \in DOMAIN f /\ f[l].last <= f[e].last
    BY Zenon DEF LinesHold
  <2>1. \A x \in DOMAIN q : q[x].last \in Nat /\ q[x].last <= t
    <3>1. ASSUME NEW x \in DOMAIN q PROVE q[x].last \in Nat /\ q[x].last \in h[x]
      BY <1>9, <1>10 DEF AsSighted, Notes
    <3> QED
      BY <1>6, <1>10, <3>1, Zenon DEF Sightings
  <2>2. CASE l \in F
    <3>1. l \in Lines(s)
      BY <1>1, <2>2, StarsAreNoLines DEF AllStars
    <3>2. e \in F
      BY <1>1, <3>1, LinesJoinStars
    <3>3. f[l].last = t /\ f[e].last = t
      BY <1>15, <1>17, <2>2, <3>2
    <3> QED
      BY <1>17, <3>2, <3>3
  <2>3. CASE l \notin F
    <3>1. l \in DOMAIN q /\ f[l] = q[l]
      BY <1>17, <2>3
    <3>2. e \in DOMAIN q /\ q[l].last <= q[e].last
      BY <1>9, <3>1, Zenon DEF LinesHold
    <3>3. e \in DOMAIN f /\ (f[e].last = t \/ f[e] = q[e])
      BY <1>15, <1>17, <3>2, Zenon
    <3> QED
      BY <2>1, <3>1, <3>2, <3>3
  <2> QED
    BY <2>2, <2>3
<1> QED
  BY <1>2, <1>4, <1>7, <1>18, <1>19, <1>20, <1>21, Zenon DEF Vouched

LEMMA MapStart == MapInit => MapInv
<1> SUFFICES ASSUME MapInit PROVE MapInv
  OBVIOUS
<1>1. mapUp \in BOOLEAN /\ mapDirty \in BOOLEAN
  BY Zenon DEF MapInit
<1>2. tick \in 0..LastTick
  BY TopologyAssumption DEF MapInit
<1>3. Vouched(learned, sighted, tick) /\ Vouched(mapFile, sightedFile, tick)
  BY NothingVouched, Zenon DEF MapInit
<1> QED
  BY <1>1, <1>2, <1>3, Zenon DEF MapInv

LEMMA MapStep == MapInv /\ [MapNext]_mapVars => MapInv'
<1> SUFFICES ASSUME MapInv, [MapNext]_mapVars PROVE MapInv'
  OBVIOUS
<1>1. /\ mapUp \in BOOLEAN /\ mapDirty \in BOOLEAN /\ tick \in 0..LastTick
      /\ Vouched(learned, sighted, tick) /\ Vouched(mapFile, sightedFile, tick)
  BY Zenon DEF MapInv
<1>2. tick \in Nat
  BY <1>1, TopologyAssumption
<1>3. CASE \E s \in Scenes, saves \in BOOLEAN : ObserveScene(s, saves)
  <2>1. PICK s \in Scenes, saves \in BOOLEAN : ObserveScene(s, saves)
    BY <1>3, Zenon
  <2>2. Vouched(Seen(learned, s, tick), Sight(sighted, s, tick), tick)
    BY <1>1, <1>2, SeenIs, Zenon
  <2>3. Vouched(learned', sighted', tick)
    BY <1>2, <2>1, <2>2, PrunedMapIs, Zenon DEF ObserveScene
  <2>4. Vouched(mapFile', sightedFile', tick)
    BY <1>1, <2>1, <2>3, Zenon DEF ObserveScene
  <2>5. tick' = tick /\ mapUp' = mapUp /\ mapDirty' = ~saves
    BY <2>1, Zenon DEF ObserveScene
  <2>6. mapDirty' \in BOOLEAN
    BY <2>5, Zenon
  <2> QED
    BY <1>1, <2>3, <2>4, <2>5, <2>6, Zenon DEF MapInv
<1>4. CASE StartMap
  <2>1. Vouched(Idle(mapFile), sightedFile, tick)
    BY <1>1, IdleIs, Zenon
  <2>2. Vouched(learned', sighted', tick)
    BY <1>2, <1>4, <2>1, PrunedMapIs, Zenon DEF StartMap
  <2>3. UNCHANGED <<tick, mapFile, sightedFile>> /\ mapUp' = TRUE /\ mapDirty' = (DOMAIN learned' # DOMAIN mapFile)
    BY <1>4, Zenon DEF StartMap
  <2>4. mapDirty' \in BOOLEAN
    BY <2>3, Zenon
  <2> QED
    BY <1>1, <2>2, <2>3, <2>4, Zenon DEF MapInv
<1>5. CASE CrashMap
  BY <1>1, <1>5, Zenon DEF CrashMap, MapInv, sights
<1>6. CASE TickMap
  <2>1. tick < LastTick /\ tick' = tick + 1 /\ UNCHANGED <<mapUp, learned, mapDirty, mapFile>> /\ UNCHANGED <<sighted, sightedFile>>
    BY <1>6, Zenon DEF TickMap, sights
  <2>2. tick' \in 0..LastTick
    BY <1>1, <2>1, TopologyAssumption
  <2>3. Vouched(learned, sighted, tick + 1) /\ Vouched(mapFile, sightedFile, tick + 1)
    BY <1>1, <1>2, VouchedLater, Zenon
  <2> QED
    BY <1>1, <2>1, <2>2, <2>3, Zenon DEF MapInv
<1>7. CASE \E ok \in BOOLEAN : CloseMap(ok)
  BY <1>1, <1>7, Zenon DEF CloseMap, MapInv
<1>8. CASE \E ok \in BOOLEAN : ClearMap(ok)
  <2>1. PICK ok \in BOOLEAN : ClearMap(ok)
    BY <1>8, Zenon
  <2>2. \A i \in 0..tick : Vouched(<<>>, Unsighted, i)
    <3> DEFINE T == {i \in Nat : Vouched(<<>>, Unsighted, i)}
    <3>1. 0 \in T
      BY NothingVouched
    <3>2. \A i \in 0..(tick - 1) : i \in T => i + 1 \in T
      BY <1>2, VouchedLater
    <3> HIDE DEF T
    <3>3. 0..tick \subseteq T
      BY <1>2, <3>1, <3>2, UpTo
    <3> QED
      BY <3>3 DEF T
  <2>3. Vouched(<<>>, Unsighted, tick)
    BY <1>2, <2>2
  <2> QED
    BY <1>1, <2>1, <2>3, Zenon DEF ClearMap, MapInv
<1>9. CASE UNCHANGED mapVars
  BY <1>1, <1>9, Zenon DEF mapVars, sights, MapInv
<1> QED
  BY <1>3, <1>4, <1>5, <1>6, <1>7, <1>8, <1>9, Zenon DEF MapNext

THEOREM MapInductive == MapSpec => []MapInv
  BY MapStart, MapStep, PTL DEF MapSpec

\* What is known has its type, and a known line always has both its ends
\* (topology_store.py, prune).
THEOREM MapTypeCorrect == MapSpec => []MapTypeOK
<1>1. MapInv => MapTypeOK
  <2> SUFFICES ASSUME MapInv PROVE MapTypeOK
    OBVIOUS
  <2>1. /\ mapUp \in BOOLEAN /\ mapDirty \in BOOLEAN /\ tick \in 0..LastTick
        /\ Vouched(learned, sighted, tick) /\ Vouched(mapFile, sightedFile, tick)
    BY Zenon DEF MapInv
  <2>2. ASSUME NEW g, NEW h, Vouched(g, h, tick)
        PROVE  /\ DOMAIN g \subseteq AllStars \cup AllLines
               /\ \A l \in DOMAIN g \cap AllLines : Ends(l) \subseteq DOMAIN g
               /\ \A x \in DOMAIN g : g[x].last \in 0..LastTick /\ g[x].live \in BOOLEAN
    <3>1. g \in [DOMAIN g -> Notes] /\ DOMAIN g \subseteq Starry
      BY <2>2, PartialIs, Zenon DEF Vouched
    <3>2. \A l \in DOMAIN g \cap AllLines : Ends(l) \subseteq DOMAIN g
      BY <2>2, Zenon DEF Vouched, LinesHold
    <3>3. \A x \in DOMAIN g : g[x].last <= tick
      BY <2>2, <3>1, Zenon DEF Vouched, Sightings, AsSighted
    <3>4. \A x \in DOMAIN g : g[x].last \in Nat /\ g[x].live \in BOOLEAN
      BY <3>1 DEF Notes
    <3>5. \A x \in DOMAIN g : g[x].last \in 0..LastTick
      BY <2>1, <3>3, <3>4, TopologyAssumption
    <3> QED
      BY <3>1, <3>2, <3>4, <3>5, Zenon DEF Starry
  <2> QED
    BY <2>1, <2>2, Zenon DEF MapTypeOK
<1> QED
  BY MapInductive, <1>1, PTL

\* A star or line is known while its last sighting is not too old, and usual exactly when
\* it was found on as many days as that takes, over restarts, crashes and failing saves and
\* however few days are kept (topology_store.py:5, _mark_day).
THEOREM SightingsEarn == MapSpec => []UsualIsEarned
<1>1. MapInv => UsualIsEarned
  <2> SUFFICES ASSUME MapInv, NEW x \in DOMAIN sighted
               PROVE  /\ x \in DOMAIN learned <=> sighted[x] # {}
                      /\ x \in DOMAIN learned =>
                           (learned[x].usual <=> Cardinality({Day(u) : u \in sighted[x]}) >= UsualDays)
    BY Zenon DEF UsualIsEarned
  <2>1. Vouched(learned, sighted, tick) /\ DOMAIN sighted = Starry
    BY DEF MapInv, Vouched, Sightings
  <2>2. x \in DOMAIN learned => AsSighted(learned[x], sighted[x])
    BY <2>1, Zenon DEF Vouched
  <2> QED
    BY <2>1, <2>2, Zenon DEF Vouched, AsSighted, DaysOf
<1> QED
  BY MapInductive, <1>1, PTL

-----------------------------------------------------------------------------
(* Port memory: no count of an entry is more than the refreshes in which the *)
(* label had the port, and days and counts only grow.                       *)

Remembers == [who: Labels, n: Nat]

\* Counts that refreshes account for.
Backed(of) == {e \in Remembers : e.n <= of[e.who]}

HoldsFit ==
  /\ holds \in [MemoryPorts -> Holders \cup {NoHolder}]
  /\ memoryDay \in 1..LastMemoryDay /\ refreshes \in 0..LastRefresh
  /\ held \in [MemoryPorts -> [Labels -> Nat]]

CountsFit == \A p \in MemoryPorts : seenOn[p] \in Seq(Backed(held[p])) /\ Len(seenOn[p]) <= ServicesKept

StarsFit ==
  /\ DOMAIN stars \subseteq Holders
  /\ \A h \in DOMAIN stars : stars[h].days \in SUBSET (1..memoryDay) /\ stars[h].ports \in SUBSET MemoryPorts

WarningsFit == UsualIsKnown /\ \A w \in warnings : w.port \in MemoryPorts

MemoryInv == HoldsFit /\ CountsFit /\ StarsFit /\ WarningsFit

LEMMA OneRemoved ==
  ASSUME NEW S, NEW s \in Seq(S), NEW k \in 1..Len(s)
  PROVE  RemoveAt(s, k) \in Seq(S) /\ Len(RemoveAt(s, k)) = Len(s) - 1
<1>1. PICK n \in Nat : n = Len(s)
  BY LenProperties
<1>2. \A i \in 1..n : s[i] \in S
  BY <1>1, LenProperties
<1>3. k \in 1..n
  BY <1>1
<1>4. SubSeq(s, 1, k - 1) \in Seq(S) /\ Len(SubSeq(s, 1, k - 1)) = k - 1
  <2>1. k - 1 \in Int /\ \A i \in 1..(k - 1) : s[i] \in S
    BY <1>2, <1>3
  <2>2. /\ SubSeq(s, 1, k - 1) \in Seq(S)
        /\ Len(SubSeq(s, 1, k - 1)) = IF 1 <= k - 1 THEN k - 1 - 1 + 1 ELSE 0
    BY <2>1, SubSeqProperties
  <2> QED
    BY <1>3, <2>2
<1>5. SubSeq(s, k + 1, n) \in Seq(S) /\ Len(SubSeq(s, k + 1, n)) = n - k
  <2>1. k + 1 \in Int /\ \A i \in (k + 1)..n : s[i] \in S
    BY <1>2, <1>3
  <2>2. /\ SubSeq(s, k + 1, n) \in Seq(S)
        /\ Len(SubSeq(s, k + 1, n)) = IF k + 1 <= n THEN n - (k + 1) + 1 ELSE 0
    BY <2>1, SubSeqProperties
  <2> QED
    BY <1>3, <2>2
<1>6. PICK a \in Seq(S) : a = SubSeq(s, 1, k - 1) /\ Len(a) = k - 1
  BY <1>4
<1>7. PICK b \in Seq(S) : b = SubSeq(s, k + 1, n) /\ Len(b) = n - k
  BY <1>5
<1>8. a \o b \in Seq(S) /\ Len(a \o b) = Len(a) + Len(b)
  BY ConcatProperties
<1>9. RemoveAt(s, k) = a \o b
  BY <1>1, <1>6, <1>7, Zenon DEF RemoveAt
<1>10. Len(a \o b) = n - 1
  BY <1>3, <1>6, <1>7, <1>8
<1> QED
  BY <1>1, <1>8, <1>9, <1>10, Zenon

Rarest(f, i) == \A j \in DOMAIN f : f[i] < f[j] \/ (f[i] = f[j] /\ i <= j)

LEMMA RarestExists ==
  ASSUME NEW n \in Nat \ {0}, NEW f \in [1..n -> Nat]
  PROVE  \E i \in 1..n : Rarest(f, i)
<1> DEFINE V == {f[i] : i \in 1..n}
<1>1. V \in SUBSET Nat /\ V # {}
  <2>1. f[1] \in V
    OBVIOUS
  <2> QED
    BY <2>1
<1>2. PICK v \in V : \A w \in V : v <= w
  BY <1>1, LeastNatural
<1> DEFINE I == {i \in 1..n : f[i] = v}
<1>3. I \in SUBSET Nat /\ I # {}
  BY <1>2
<1>4. PICK k \in I : \A i \in I : k <= i
  BY <1>3, LeastNatural
<1>5. k \in 1..n /\ f[k] = v
  BY <1>4
<1>6. ASSUME NEW j \in 1..n PROVE f[k] < f[j] \/ (f[k] = f[j] /\ k <= j)
  <2>1. v <= f[j] /\ v \in Nat /\ f[j] \in Nat
    BY <1>1, <1>2
  <2>2. CASE f[j] = v
    BY <1>4, <1>5, <2>2
  <2>3. CASE f[j] # v
    BY <1>5, <2>1, <2>3
  <2> QED
    BY <2>2, <2>3
<1> QED
  BY <1>5, <1>6 DEF Rarest

\* One more refresh for a label.
LEMMA OneMoreNoted ==
  ASSUME NEW of \in [Labels -> Nat], NEW counts \in Seq(Backed(of)), Len(counts) <= ServicesKept,
         NEW label \in Labels, NEW now \in [Labels -> Nat],
         \A h \in Labels : of[h] <= now[h], of[label] + 1 <= now[label]
  PROVE  NoteService(counts, label) \in Seq(Backed(now)) /\ Len(NoteService(counts, label)) <= ServicesKept
<1>1. PICK E : E = Backed(now)
  OBVIOUS
<1>2. PICK n \in Nat : n = Len(counts)
  BY LenProperties
<1>3. DOMAIN counts = 1..n /\ \A i \in 1..n : counts[i] \in Backed(of)
  BY <1>2, LenProperties
<1>4. \A e \in Backed(of) : e \in Remembers /\ e.who \in Labels /\ e.n \in Nat /\ e.n <= of[e.who]
  BY DEF Backed, Remembers
<1>5. \A e \in Backed(of) : e \in E
  <2>1. ASSUME NEW e \in Backed(of) PROVE e \in E
    <3>1. of[e.who] <= now[e.who] /\ of[e.who] \in Nat /\ now[e.who] \in Nat
      BY <1>4
    <3>2. e.n <= now[e.who]
      BY <1>4, <3>1
    <3> QED
      BY <1>1, <1>4, <3>2 DEF Backed
  <2> QED
    BY <2>1
<1> DEFINE more == IF \E i \in DOMAIN counts : counts[i].who = label
                   THEN [i \in DOMAIN counts |->
                           [counts[i] EXCEPT !.n = IF counts[i].who = label THEN @ + 1 ELSE @]]
                   ELSE Append(counts, [who |-> label, n |-> 1])
           rarest == CHOOSE i \in DOMAIN more : \A j \in DOMAIN more :
                       more[i].n < more[j].n \/ (more[i].n = more[j].n /\ i <= j)
<1>6. NoteService(counts, label) = IF Len(more) <= ServicesKept THEN more ELSE RemoveAt(more, rarest)
  BY Zenon DEF NoteService
<1>7. more \in Seq(E) /\ Len(more) \in {n, n + 1}
  <2>1. CASE \E i \in DOMAIN counts : counts[i].who = label
    <3>1. more = [i \in 1..n |-> [counts[i] EXCEPT !.n = IF counts[i].who = label THEN @ + 1 ELSE @]]
      BY <1>3, <2>1, Zenon
    <3>2. ASSUME NEW i \in 1..n PROVE [counts[i] EXCEPT !.n = IF counts[i].who = label THEN @ + 1 ELSE @] \in E
      <4>1. PICK e \in Backed(of) : e = counts[i]
        BY <1>3
      <4>2. e \in Remembers /\ e \in E /\ e.who \in Labels /\ e.n \in Nat /\ e.n <= of[e.who]
        BY <1>4, <1>5
      <4>3. CASE e.who # label
        <5>1. [e EXCEPT !.n = IF e.who = label THEN @ + 1 ELSE @] = e
          BY <4>2, <4>3 DEF Remembers
        <5> QED
          BY <4>1, <4>2, <5>1
      <4>4. CASE e.who = label
        <5>1. PICK g : g = [e EXCEPT !.n = IF e.who = label THEN @ + 1 ELSE @]
          OBVIOUS
        <5>2. g \in Remembers /\ g.who = label /\ g.n = e.n + 1
          BY <4>2, <4>4, <5>1 DEF Remembers
        <5>3. of[label] \in Nat /\ now[label] \in Nat
          OBVIOUS
        <5>4. g.n <= now[label]
          BY <4>2, <4>4, <5>2, <5>3
        <5>5. g \in E
          BY <1>1, <5>2, <5>4 DEF Backed
        <5> QED
          BY <4>1, <5>1, <5>5
      <4> QED
        BY <4>3, <4>4
    <3>3. PICK m : m = [i \in 1..n |-> [counts[i] EXCEPT !.n = IF counts[i].who = label THEN @ + 1 ELSE @]]
      OBVIOUS
    <3>4. m \in [1..n -> E]
      BY <3>2, <3>3, Zenon
    <3>5. m \in Seq(E) /\ Len(m) = n
      BY <3>4
    <3> QED
      BY <3>1, <3>3, <3>5
  <2>2. CASE ~\E i \in DOMAIN counts : counts[i].who = label
    <3>1. more = Append(counts, [who |-> label, n |-> 1])
      BY <2>2, Zenon
    <3>2. PICK e : e = [who |-> label, n |-> 1]
      OBVIOUS
    <3>3. e \in E
      <4>1. of[label] \in Nat /\ now[label] \in Nat
        OBVIOUS
      <4>2. 1 <= now[label]
        BY <4>1
      <4> QED
        BY <1>1, <3>2, <4>2 DEF Backed, Remembers
    <3>4. counts \in Seq(E)
      BY <1>2, <1>3, <1>5, LenProperties
    <3>5. Append(counts, e) \in Seq(E) /\ Len(Append(counts, e)) = n + 1
      BY <1>2, <3>3, <3>4, AppendProperties
    <3> QED
      BY <3>1, <3>2, <3>5
  <2> QED
    BY <2>1, <2>2
<1> HIDE DEF more
<1>8. CASE Len(more) <= ServicesKept
  BY <1>1, <1>6, <1>7, <1>8
<1>9. CASE ~(Len(more) <= ServicesKept)
  <2>1. Len(more) = ServicesKept + 1 /\ ServicesKept \in Nat
    BY <1>2, <1>7, <1>9, MemoryAssumption
  <2>2. PICK m \in Nat \ {0} : m = Len(more)
    BY <2>1
  <2>3. DOMAIN more = 1..m /\ \A i \in 1..m : more[i] \in E
    BY <1>7, <2>2, LenProperties
  <2>4. \A i \in 1..m : more[i].n \in Nat
    BY <1>1, <2>3 DEF Backed, Remembers
  <2>5. PICK f : f = [i \in 1..m |-> more[i].n]
    OBVIOUS
  <2>6. f \in [1..m -> Nat] /\ DOMAIN f = 1..m /\ \A i \in 1..m : f[i] = more[i].n
    BY <2>4, <2>5
  <2>7. PICK k \in 1..m : Rarest(f, k)
    BY <2>6, RarestExists
  <2>8. \A j \in DOMAIN more : more[k].n < more[j].n \/ (more[k].n = more[j].n /\ k <= j)
    BY <2>3, <2>6, <2>7 DEF Rarest
  <2>9. rarest \in DOMAIN more
    BY <2>3, <2>7, <2>8, Zenon
  <2> HIDE DEF rarest
  <2>10. rarest \in 1..Len(more)
    BY <2>2, <2>3, <2>9
  <2>11. RemoveAt(more, rarest) \in Seq(E) /\ Len(RemoveAt(more, rarest)) = Len(more) - 1
    BY <1>7, <2>10, OneRemoved
  <2>12. NoteService(counts, label) = RemoveAt(more, rarest)
    BY <1>6, <1>9, Zenon
  <2> QED
    BY <1>1, <2>1, <2>11, <2>12
<1> QED
  BY <1>8, <1>9

LEMMA BackedGrows ==
  ASSUME NEW of \in [Labels -> Nat], NEW now \in [Labels -> Nat], \A h \in Labels : of[h] <= now[h]
  PROVE  Backed(of) \subseteq Backed(now)
<1>1. ASSUME NEW e \in Backed(of) PROVE e \in Backed(now)
  <2>1. e \in Remembers /\ e.who \in Labels /\ e.n \in Nat /\ e.n <= of[e.who]
    BY DEF Backed, Remembers
  <2>2. of[e.who] <= now[e.who] /\ of[e.who] \in Nat /\ now[e.who] \in Nat
    BY <2>1
  <2>3. e.n <= now[e.who]
    BY <2>1, <2>2
  <2> QED
    BY <2>1, <2>3 DEF Backed
<1> QED
  BY <1>1

LEMMA MemoryStart == MemoryInit => MemoryInv
<1> SUFFICES ASSUME MemoryInit PROVE MemoryInv
  OBVIOUS
<1>1. /\ holds = [p \in MemoryPorts |-> NoHolder] /\ memoryDay = 1 /\ refreshes = 0
      /\ seenOn = [p \in MemoryPorts |-> <<>>] /\ stars = <<>> /\ warnings = {}
      /\ held = [p \in MemoryPorts |-> [h \in Labels |-> 0]]
  BY DEF MemoryInit
<1>2. HoldsFit
  BY <1>1, MemoryAssumption DEF HoldsFit
<1>3. CountsFit
  <2>1. Len(<<>>) = 0 /\ \A S : <<>> \in Seq(S)
    BY EmptySeq
  <2> QED
    BY <1>1, <2>1, MemoryAssumption DEF CountsFit
<1>4. StarsFit
  BY <1>1 DEF StarsFit
<1>5. WarningsFit
  BY <1>1 DEF WarningsFit, UsualIsKnown
<1> QED
  BY <1>2, <1>3, <1>4, <1>5 DEF MemoryInv

\* Whom an insight names is usual on its port.
LEMMA NamedIsUsual ==
  ASSUME NEW p, NEW young, NEW found \in Insights(p, young), NEW w \in found
  PROVE  w.port = p /\ w.on = memoryDay /\ IsUsual(p, w.usual, young)
<1>1. PICK top \in Usual(p, young) : w \in Squatter(p, top) \cup SharedProjects(p, top, young)
  BY DEF Insights
<1>2. IsUsual(p, top, young)
  BY DEF Usual
<1>3. CASE w \in Squatter(p, top)
  BY <1>2, <1>3 DEF Squatter
<1>4. CASE w \in SharedProjects(p, top, young)
  <2>1. PICK h \in AlsoUsedBy(p, top, young) :
          w = [code |-> "port-shared-projects", port |-> p, usual |-> h, on |-> memoryDay]
    BY <1>4 DEF SharedProjects
  <2>2. IsUsual(p, h, young)
    BY DEF AlsoUsedBy
  <2> QED
    BY <2>1, <2>2
<1> QED
  BY <1>1, <1>3, <1>4

LEMMA MemoryRefreshed ==
  ASSUME MemoryInv, RefreshMemory
  PROVE  MemoryInv'
<1>1. /\ refreshes < LastRefresh /\ refreshes' = refreshes + 1
      /\ seenOn' = [p \in MemoryPorts |->
                      IF holds[p] = NoHolder THEN seenOn[p] ELSE NoteService(seenOn[p], SplitLabel(holds[p]))]
      /\ held' = [p \in MemoryPorts |-> [h \in Labels |-> held[p][h] + IF SplitLabel(holds[p]) = h THEN 1 ELSE 0]]
      /\ stars' = Observed /\ holds' = holds /\ memoryDay' = memoryDay
  BY DEF RefreshMemory
<1>2. PICK young \in Young :
        \E found \in [MemoryPorts -> UNION {Insights(p, young) : p \in MemoryPorts}] :
          /\ \A p \in MemoryPorts : found[p] \in Insights(p, young)
          /\ warnings' = UNION {found[p] : p \in MemoryPorts}
  BY DEF RefreshMemory
<1>12. PICK found \in [MemoryPorts -> UNION {Insights(p, young) : p \in MemoryPorts}] :
         /\ \A p \in MemoryPorts : found[p] \in Insights(p, young)
         /\ warnings' = UNION {found[p] : p \in MemoryPorts}
  BY <1>2
<1>3. HoldsFit /\ CountsFit /\ StarsFit
  BY Zenon DEF MemoryInv
<1>4. ASSUME NEW p \in MemoryPorts
      PROVE  /\ held[p] \in [Labels -> Nat] /\ held'[p] \in [Labels -> Nat]
             /\ \A h \in Labels : held[p][h] <= held'[p][h]
             /\ \A h \in Labels : SplitLabel(holds[p]) = h => held[p][h] + 1 <= held'[p][h]
  <2>1. held[p] \in [Labels -> Nat]
    BY <1>3 DEF HoldsFit
  <2>2. held'[p] = [h \in Labels |-> held[p][h] + IF SplitLabel(holds[p]) = h THEN 1 ELSE 0]
    BY <1>1
  <2>3. PICK now : now = held'[p]
    OBVIOUS
  <2>4. ASSUME NEW h \in Labels
        PROVE  /\ now[h] \in Nat /\ held[p][h] <= now[h]
               /\ SplitLabel(holds[p]) = h => held[p][h] + 1 <= now[h]
    <3>1. now[h] = held[p][h] + IF SplitLabel(holds[p]) = h THEN 1 ELSE 0
      BY <2>2, <2>3
    <3>2. held[p][h] \in Nat
      BY <2>1
    <3>3. CASE SplitLabel(holds[p]) = h
      BY <3>1, <3>2, <3>3
    <3>4. CASE SplitLabel(holds[p]) # h
      BY <3>1, <3>2, <3>4
    <3> QED
      BY <3>3, <3>4
  <2>5. now \in [Labels -> Nat]
    BY <2>2, <2>3, <2>4
  <2> QED
    BY <2>1, <2>3, <2>4, <2>5
<1>5. HoldsFit'
  <2>1. held' \in [MemoryPorts -> [Labels -> Nat]]
    <3>1. DOMAIN held' = MemoryPorts /\ held' = [p \in MemoryPorts |-> held'[p]]
      BY <1>1
    <3> QED
      BY <1>4, <3>1
  <2>2. refreshes' \in 0..LastRefresh
    BY <1>1, <1>3, MemoryAssumption DEF HoldsFit
  <2> QED
    BY <1>1, <1>3, <2>1, <2>2 DEF HoldsFit
<1>6. CountsFit'
  <2>1. ASSUME NEW p \in MemoryPorts PROVE seenOn'[p] \in Seq(Backed(held'[p])) /\ Len(seenOn'[p]) <= ServicesKept
    <3>1. /\ seenOn[p] \in Seq(Backed(held[p])) /\ Len(seenOn[p]) <= ServicesKept
          /\ seenOn'[p] = IF holds[p] = NoHolder THEN seenOn[p] ELSE NoteService(seenOn[p], SplitLabel(holds[p]))
      BY <1>1, <1>3 DEF CountsFit
    <3>2. CASE holds[p] = NoHolder
      <4>1. PICK A : A = Backed(held[p])
        OBVIOUS
      <4>2. PICK B : B = Backed(held'[p])
        OBVIOUS
      <4>3. A \subseteq B
        BY <1>4, <4>1, <4>2, BackedGrows
      <4>4. seenOn[p] \in Seq(B)
        BY <3>1, <4>1, <4>3
      <4> QED
        BY <3>1, <3>2, <4>2, <4>4
    <3>3. CASE holds[p] # NoHolder
      <4>1. holds[p] \in Holders
        BY <1>3, <3>3 DEF HoldsFit
      <4>2. SplitLabel(holds[p]) \in Labels
        BY <4>1 DEF Labels
      <4>3. PICK now \in [Labels -> Nat] : now = held'[p]
        BY <1>4
      <4>4. (\A h \in Labels : held[p][h] <= now[h]) /\ held[p][SplitLabel(holds[p])] + 1 <= now[SplitLabel(holds[p])]
        BY <1>4, <4>2, <4>3
      <4>5. held[p] \in [Labels -> Nat]
        BY <1>4
      <4>6. /\ NoteService(seenOn[p], SplitLabel(holds[p])) \in Seq(Backed(now))
            /\ Len(NoteService(seenOn[p], SplitLabel(holds[p]))) <= ServicesKept
        BY <3>1, <4>2, <4>4, <4>5, OneMoreNoted
      <4> QED
        BY <3>1, <3>3, <4>3, <4>6
    <3> QED
      BY <3>2, <3>3
  <2> QED
    BY <2>1 DEF CountsFit
<1> DEFINE here == {h \in Holders : \E p \in MemoryPorts : holds[p] = h}
           days(h) == IF h \in DOMAIN stars THEN stars[h].days ELSE {}
<1>7. stars' = [h \in here \cup DOMAIN stars |->
                  IF h \in here THEN [days |-> days(h) \cup {memoryDay}, ports |-> {p \in MemoryPorts : holds[p] = h}]
                  ELSE stars[h]]
  BY <1>1, Zenon DEF Observed
<1>8. /\ DOMAIN stars' \subseteq Holders
      /\ \A h \in DOMAIN stars' : stars'[h].days \in SUBSET (1..memoryDay) /\ stars'[h].ports \in SUBSET MemoryPorts
      /\ \A h \in DOMAIN stars : h \in DOMAIN stars' /\ stars[h].days \subseteq stars'[h].days
  <2>1. DOMAIN stars' = here \cup DOMAIN stars /\ here \subseteq Holders
    BY <1>7
  <2>2. memoryDay \in 1..memoryDay
    BY <1>3, MemoryAssumption DEF HoldsFit
  <2>3. ASSUME NEW h \in DOMAIN stars'
        PROVE  /\ stars'[h].days \in SUBSET (1..memoryDay) /\ stars'[h].ports \in SUBSET MemoryPorts
               /\ h \in DOMAIN stars => stars[h].days \subseteq stars'[h].days
    <3>1. days(h) \in SUBSET (1..memoryDay) /\ (h \in DOMAIN stars => days(h) = stars[h].days)
      BY <1>3 DEF StarsFit
    <3>2. CASE h \in here
      <4>1. stars'[h] = [days |-> days(h) \cup {memoryDay}, ports |-> {p \in MemoryPorts : holds[p] = h}]
        BY <1>7, <2>1, <3>2
      <4> HIDE DEF days
      <4>2. stars'[h].days = days(h) \cup {memoryDay} /\ stars'[h].ports = {p \in MemoryPorts : holds[p] = h}
        BY <4>1
      <4> QED
        BY <2>2, <3>1, <4>2
    <3>3. CASE h \notin here
      <4>1. stars'[h] = stars[h] /\ h \in DOMAIN stars
        BY <1>7, <2>1, <3>3
      <4> QED
        BY <1>3, <4>1 DEF StarsFit
    <3> QED
      BY <3>2, <3>3
  <2> QED
    BY <1>3, <2>1, <2>3 DEF StarsFit
<1>9. StarsFit'
  BY <1>1, <1>8 DEF StarsFit
<1>10. ASSUME NEW w \in warnings'
       PROVE  /\ w.port \in MemoryPorts
              /\ \/ w.usual \in DOMAIN stars' /\ Cardinality(stars'[w.usual].days) >= PortUsualDays
                 \/ w.usual \in Labels /\ held'[w.port][w.usual] > UsualRefreshes /\ w.on <= 2
  <2>1. PICK p \in MemoryPorts : w \in found[p] /\ found[p] \in Insights(p, young)
    BY <1>12
  <2>2. w.port = p /\ w.on = memoryDay /\ IsUsual(p, w.usual, young)
    BY <2>1, NamedIsUsual
  <2>3. PICK h : h = w.usual
    OBVIOUS
  <2>4. CASE Days(p, h) >= PortUsualDays
    <3>1. h \in DOMAIN stars /\ Cardinality(stars[h].days) >= PortUsualDays
      BY <2>4, MemoryAssumption DEF Days
    <3>2. PICK d : d = stars[h].days
      OBVIOUS
    <3>3. PICK now : now = stars'[h].days
      OBVIOUS
    <3>4. h \in DOMAIN stars' /\ d \in SUBSET now /\ now \in SUBSET (1..memoryDay)
      BY <1>8, <3>1, <3>2, <3>3
    <3>5. IsFiniteSet(1..memoryDay)
      BY <1>3, FS_Interval, MemoryAssumption DEF HoldsFit
    <3>6. IsFiniteSet(now)
      BY <3>4, <3>5, SomeOf
    <3>7. Cardinality(d) \in Nat /\ Cardinality(now) \in Nat /\ Cardinality(d) <= Cardinality(now)
      BY <3>4, <3>6, SomeOf
    <3>8. Cardinality(now) >= PortUsualDays
      BY <3>1, <3>2, <3>7, MemoryAssumption
    <3> QED
      BY <2>1, <2>2, <2>3, <3>3, <3>4, <3>8
  <2>5. CASE young /\ Refreshes(p, h) > UsualRefreshes
    <3> DEFINE counts == {i \in DOMAIN seenOn[p] : seenOn[p][i].who = h}
               i == CHOOSE i \in counts : TRUE
    <3>1. Refreshes(p, h) = IF counts = {} THEN 0 ELSE seenOn[p][i].n
      BY Zenon DEF Refreshes
    <3>2. counts # {}
      BY <2>5, <3>1, MemoryAssumption
    <3>3. i \in counts
      BY <3>2, Zenon
    <3>4. i \in DOMAIN seenOn[p] /\ seenOn[p][i].who = h
      BY <3>3
    <3>5. seenOn[p][i] \in Backed(held[p])
      BY <1>3, <3>4, LenProperties DEF CountsFit
    <3>6. seenOn[p][i].n > UsualRefreshes
      BY <2>5, <3>1, <3>2
    <3> HIDE DEF i, counts
    <3>7. h \in Labels /\ seenOn[p][i].n <= held[p][h] /\ seenOn[p][i].n \in Nat
      BY <3>4, <3>5 DEF Backed, Remembers
    <3>8. held[p][h] <= held'[p][h] /\ held[p][h] \in Nat /\ held'[p][h] \in Nat
      BY <1>4, <3>7
    <3>9. held'[p][h] > UsualRefreshes
      BY <3>6, <3>7, <3>8, MemoryAssumption
    <3>10. memoryDay <= 2
      <4>1. memoryDay = 1 \/ memoryDay = 2
        <5>1. Young = {FALSE} => ~young
          BY Zenon
        <5>2. memoryDay = 1 \/ memoryDay = 2 \/ Young = {FALSE}
          BY Zenon DEF Young
        <5> QED
          BY <2>5, <5>1, <5>2, Zenon
      <4> QED
        BY <4>1
    <3> QED
      BY <2>1, <2>2, <2>3, <3>7, <3>9, <3>10
  <2> QED
    BY <2>2, <2>3, <2>4, <2>5 DEF IsUsual
<1>11. WarningsFit'
  BY <1>10 DEF WarningsFit, UsualIsKnown
<1> QED
  BY <1>5, <1>6, <1>9, <1>11 DEF MemoryInv

LEMMA MemoryStep == MemoryInv /\ [MemoryNext]_memoryVars => MemoryInv'
<1> SUFFICES ASSUME MemoryInv, [MemoryNext]_memoryVars PROVE MemoryInv'
  OBVIOUS
<1>1. CASE RefreshMemory
  BY <1>1, MemoryRefreshed
<1>2. CASE MemoryDayPasses
  <2>1. /\ memoryDay < LastMemoryDay /\ memoryDay' = memoryDay + 1
        /\ UNCHANGED <<holds, refreshes, seenOn, stars, warnings, held>>
    BY <1>2 DEF MemoryDayPasses
  <2>2. HoldsFit' /\ 1..memoryDay \subseteq 1..memoryDay'
    BY <2>1, MemoryAssumption DEF MemoryInv, HoldsFit
  <2>3. StarsFit'
    BY <2>1, <2>2 DEF MemoryInv, StarsFit
  <2> QED
    BY <2>1, <2>2, <2>3, Zenon DEF MemoryInv, CountsFit, WarningsFit, UsualIsKnown
<1>3. ASSUME NEW p \in MemoryPorts, NEW h \in Holders \cup {NoHolder}, TakesPort(p, h) PROVE MemoryInv'
  <2>1. holds' = [holds EXCEPT ![p] = h] /\ UNCHANGED <<memoryDay, refreshes, seenOn, stars, warnings, held>>
    BY <1>3 DEF TakesPort
  <2>2. HoldsFit'
    BY <2>1 DEF MemoryInv, HoldsFit
  <2> QED
    BY <2>1, <2>2, Zenon DEF MemoryInv, CountsFit, StarsFit, WarningsFit, UsualIsKnown
<1>4. CASE UNCHANGED memoryVars
  BY <1>4, Zenon DEF memoryVars, MemoryInv, HoldsFit, CountsFit, StarsFit, WarningsFit, UsualIsKnown
<1> QED
  BY <1>1, <1>2, <1>3, <1>4, Zenon DEF MemoryNext

THEOREM MemoryInductive == MemorySpec => []MemoryInv
  BY MemoryStart, MemoryStep, PTL DEF MemorySpec

\* The port memory keeps its types; an entry never counts more labels than are kept (ports.py).
THEOREM MemoryTypeCorrect == MemorySpec => []MemoryTypeOK
<1>1. MemoryInv => MemoryTypeOK
  BY DEF MemoryInv, HoldsFit, CountsFit, StarsFit, MemoryTypeOK
<1> QED
  BY MemoryInductive, <1>1, PTL

\* A service is called the usual one of a port when it was seen on enough days or was counted
\* there in enough refreshes of a young machine, whatever counts were dropped (ports.py).
THEOREM UsualAreKnown == MemorySpec => []UsualIsKnown
<1>1. MemoryInv => UsualIsKnown
  BY Zenon DEF MemoryInv, WarningsFit
<1> QED
  BY MemoryInductive, <1>1, PTL

-----------------------------------------------------------------------------
(* Containers: every published port has its row, and what is shown of a     *)
(* container is listed as soon as the SDK answers again and no older than   *)
(* an inspection may be.                                                    *)

\* The first of those in a list is one of them, if there is one.
LEMMA FirstIs ==
  ASSUME NEW cs, NEW n \in Nat, DOMAIN cs = 1..n, NEW those, NEW c \in those, NEW i \in 1..n, cs[i] = c
  PROVE  FirstContainer(cs, those) \in those /\ \E j \in 1..n : FirstContainer(cs, those) = cs[j]
<1> DEFINE I == {j \in DOMAIN cs : cs[j] \in those}
<1>1. I \in SUBSET Nat /\ I # {}
  OBVIOUS
<1>2. \E j \in I : \A k \in I : j <= k
  <2> HIDE DEF I
  <2> QED
    BY <1>1, LeastNatural
<1>3. PICK m : m = CHOOSE j \in I : \A k \in I : j <= k
  OBVIOUS
<1>4. m \in I
  <2> HIDE DEF I
  <2> QED
    BY <1>2, <1>3
<1>5. FirstContainer(cs, those) = cs[m]
  BY <1>1, <1>3, Zenon DEF FirstContainer
<1> QED
  BY <1>4, <1>5

\* A port that a container publishes is mapped to one of the two protocols.
LEMMA MappedIs ==
  ASSUME NEW c \in DOMAIN Published, NEW p \in HostPorts(c)
  PROVE  MappedTo(c, p) \in {"TCP", "UDP"}
<1> DEFINE L == Published[c]
           I == {i \in DOMAIN L : L[i][1] = p}
           isFinal(i) == L[i][1] = p /\ \A j \in DOMAIN L : L[j][1] = p => j <= i
           final == CHOOSE i \in DOMAIN L : isFinal(i)
<1>1. L \in Seq(Nat \X {"TCP", "UDP"})
  BY DockerAssumption
<1>2. Len(L) \in Nat /\ DOMAIN L = 1..Len(L) /\ \A i \in DOMAIN L : L[i][2] \in {"TCP", "UDP"}
  <2> HIDE DEF L
  <2> QED
    BY <1>1
<1>3. I # {} /\ I \subseteq DOMAIN L
  BY Zenon DEF HostPorts
<1>4. \E i \in DOMAIN L : isFinal(i)
  <2> DEFINE J == {Len(L) - i : i \in I}
  <2>1. J \in SUBSET Nat /\ J # {}
    <3> HIDE DEF L, I
    <3> QED
      BY <1>2, <1>3
  <2>2. \E m \in J : \A k \in J : m <= k
    <3> HIDE DEF J
    <3> QED
      BY <2>1, LeastNatural
  <2>3. PICK i \in I : \A j \in I : Len(L) - i <= Len(L) - j
    <3> HIDE DEF I
    <3> QED
      BY <2>2
  <2>4. \A j \in I : j <= i
    <3> HIDE DEF L, I
    <3> QED
      BY <1>2, <1>3, <2>3
  <2> QED
    BY <2>3, <2>4, Zenon
<1>5. final \in DOMAIN L
  <2> HIDE DEF isFinal
  <2> QED
    BY <1>4, Zenon
<1>6. MappedTo(c, p) = L[final][2]
  BY Zenon DEF MappedTo
<1> HIDE DEF L, final
<1> QED
  BY <1>2, <1>5, <1>6

\* A published port has one row of the protocol it was mentioned under last, whatever psutil
\* sees of it.
LEMMA RowsComplete == RowsAreComplete
<1> SUFFICES ASSUME NEW C \in SUBSET DOMAIN Published, NEW udp \in BOOLEAN,
                    NEW order \in SetToSeqs(C), NEW socks \in SUBSET PublishedBy(C),
                    NEW c \in C, NEW p \in HostPorts(c),
                    MappedTo(c, p) = "TCP" \/ udp
             PROVE  Cardinality({r \in ContainerRows(order, socks, udp) :
                                   r.port = p /\ r.proto = MappedTo(c, p)}) = 1
  BY Zenon DEF RowsAreComplete
<1> SUFFICES ASSUME NEW how, how = MappedTo(c, p)
             PROVE  Cardinality({r \in ContainerRows(order, socks, udp) : r.port = p /\ r.proto = how}) = 1
  BY Zenon
<1> DEFINE s == <<p, how>>
           owner(q) == FirstContainer(order, {d \in Range(order) : q \in HostPorts(d)})
           runs(q, proto) == owner(q) # "none" /\ MappedTo(owner(q), q) = proto
           publisher(t) == FirstContainer(order, {d \in Range(order) : t[1] \in HostPorts(d) /\ MappedTo(d, t[1]) = t[2]})
           all == (UNION {HostPorts(d) : d \in Range(order)}) \X (IF udp THEN {"TCP", "UDP"} ELSE {"TCP"})
           tag(t) == [port |-> t[1], proto |-> t[2], container |-> IF runs(t[1], t[2]) THEN owner(t[1]) ELSE "none"]
           new(t) == [port |-> t[1], proto |-> t[2], container |-> publisher(t)]
           mine == {r \in ContainerRows(order, socks, udp) : r.port = p /\ r.proto = how}
<1>1. PICK n \in Nat : DOMAIN order = 1..n /\ \E i \in 1..n : order[i] = c
  <2>1. IsFiniteSet(C)
    BY DockerAssumption, FS_Subset
  <2>2. PICK n \in Nat : n = Cardinality(C)
    BY <2>1, FS_CardinalityType
  <2>3. order \in [1..n -> C] /\ \A i, j \in 1..n : i # j => order[i] # order[j]
    BY <2>2 DEF SetToSeqs
  <2>4. order \in Injection(1..n, C)
    BY <2>3 DEF Injection, IsInjective
  <2>5. IsFiniteSet(1..n) /\ Cardinality(1..n) = n
    BY FS_Interval
  <2>6. order \in Surjection(1..n, C)
    BY <2>1, <2>2, <2>4, <2>5, FS_Injection
  <2> QED
    BY <2>3, <2>6 DEF Surjection
<1>2. PICK i \in 1..n : order[i] = c
  BY <1>1
<1>3. c \in Range(order)
  BY <1>1, <1>2 DEF Range
<1>4. publisher(s) # "none"
  <2> DEFINE those == {d \in Range(order) : p \in HostPorts(d) /\ MappedTo(d, p) = how}
  <2>1. c \in those
    BY <1>3
  <2>2. publisher(s) = FirstContainer(order, those)
    BY s[1] = p, s[2] = how, Zenon
  <2>3. those \subseteq DOMAIN Published
    <3>1. order \in [1..Cardinality(C) -> C]
      BY DEF SetToSeqs
    <3> QED
      BY <3>1 DEF Range
  <2> HIDE DEF those
  <2>4. FirstContainer(order, those) \in those
    BY <1>1, <1>2, <2>1, FirstIs
  <2> QED
    BY <2>2, <2>3, <2>4, DockerAssumption
<1>5. s \in all
  <2>1. p \in UNION {HostPorts(d) : d \in Range(order)}
    BY <1>3
  <2>2. how \in (IF udp THEN {"TCP", "UDP"} ELSE {"TCP"})
    BY MappedIs
  <2> QED
    BY <2>1, <2>2, Zenon
<1>6. \A t \in socks \cup all : t = <<t[1], t[2]>>
  <2>1. ASSUME NEW t \in socks PROVE t = <<t[1], t[2]>>
    <3>1. PICK d \in C : t \in Range(Published[d])
      BY DEF PublishedBy
    <3>2. Published[d] \in Seq(Nat \X {"TCP", "UDP"})
      BY DockerAssumption
    <3>3. t \in Nat \X {"TCP", "UDP"}
      BY <3>1, <3>2 DEF Range
    <3> QED
      BY <3>3
  <2>2. ASSUME NEW t \in all PROVE t = <<t[1], t[2]>>
    BY <2>2
  <2> QED
    BY <2>1, <2>2, Zenon
<1>7. /\ Tagged(order, socks) = {tag(t) : t \in socks}
      /\ Unseen(order, socks, udp) = {new(t) : t \in {t \in all \ socks : publisher(t) # "none"}}
  BY Zenon DEF Tagged, Unseen
<1>8. \A t : tag(t).port = t[1] /\ tag(t).proto = t[2] /\ new(t).port = t[1] /\ new(t).proto = t[2]
  OBVIOUS
<1>9. ContainerRows(order, socks, udp) = Tagged(order, socks) \cup Unseen(order, socks, udp)
  BY Zenon DEF ContainerRows
<1>10. s[1] = p /\ s[2] = how
  OBVIOUS
<1> HIDE DEF tag, new, publisher, all, owner, runs
<1>11. \A t \in socks \cup all : t[1] = p /\ t[2] = how => t = s
  BY <1>6
<1> HIDE DEF s
<1>12. ASSUME NEW r \in mine
       PROVE  \/ s \in socks /\ r = tag(s)
              \/ s \notin socks /\ r = new(s)
  <2>1. r.port = p /\ r.proto = how
    BY <1>12, Zenon
  <2>2. CASE r \in Tagged(order, socks)
    <3>1. PICK t \in socks : r = tag(t)
      BY <1>7, <2>2, Zenon
    <3> QED
      BY <1>8, <1>11, <2>1, <3>1, Zenon
  <2>3. CASE r \in Unseen(order, socks, udp)
    <3>1. PICK t \in all \ socks : r = new(t)
      BY <1>7, <2>3, Zenon
    <3> QED
      BY <1>8, <1>11, <2>1, <3>1, Zenon
  <2> QED
    BY <1>9, <1>12, <2>2, <2>3, Zenon
<1>13. CASE s \in socks
  <2>1. tag(s) \in mine
    BY <1>7, <1>8, <1>9, <1>10, <1>13, Zenon
  <2>2. mine = {tag(s)}
    BY <1>12, <1>13, <2>1, Zenon
  <2> QED
    BY <2>2, FS_Singleton, Zenon
<1>14. CASE s \notin socks
  <2>1. new(s) \in mine
    BY <1>4, <1>5, <1>7, <1>8, <1>9, <1>10, <1>14, Zenon
  <2>2. mine = {new(s)}
    BY <1>12, <1>14, <2>1, Zenon
  <2> QED
    BY <2>2, FS_Singleton, Zenon
<1> QED
  BY <1>13, <1>14, Zenon

\* What is kept of a container was true when it was kept, and a connection failed no
\* later than the SDK began to answer.
DockerHas ==
  /\ dockerClock \in RetryAfter..LastDockerTime
  /\ up \subseteq ContainerIds /\ condition \in [ContainerIds -> Conditions]
  /\ failedAt \in Nat /\ failedAt <= dockerClock /\ answersSince \in 0..LastDockerTime + 1
  /\ samples \in [ContainerIds -> 0..2]
  /\ DOMAIN listed.is \subseteq ContainerIds

Turns == socketUp \in BOOLEAN /\ client \in BOOLEAN /\ listed.there \in BOOLEAN /\ justListed \in BOOLEAN

TimesFit ==
  /\ trueAt \in [ContainerIds \X Conditions -> Nat]
  /\ \A c \in ContainerIds : trueAt[<<c, condition[c]>>] = dockerClock

InspectedFit ==
  /\ DOMAIN inspected \subseteq ContainerIds
  /\ \A c \in DOMAIN inspected :
       /\ inspected[c].at \in Nat /\ inspected[c].at <= dockerClock /\ inspected[c].is \in Conditions
       /\ inspected[c].at <= trueAt[<<c, inspected[c].is>>]

BacksOff == socketUp => failedAt <= answersSince

IsShown ==
  justListed =>
    /\ socketUp /\ dockerClock - answersSince >= RetryAfter => listed.there
    /\ listed.there =>
         /\ DOMAIN listed.is = up
         /\ \A c \in up : trueAt[<<c, listed.is[c]>>] > dockerClock - InspectInterval

DockerInv == DockerHas /\ Turns /\ TimesFit /\ InspectedFit /\ BacksOff /\ IsShown

LEMMA DockerStarts == DockerInit => DockerInv
<1> SUFFICES ASSUME DockerInit PROVE DockerInv
  OBVIOUS
<1>1. RetryAfter \in Nat /\ LastDockerTime \in Nat /\ RetryAfter <= LastDockerTime
  BY DockerAssumption
<1>2. DOMAIN listed.is = {} /\ listed.there = FALSE /\ DOMAIN inspected = {}
  BY DEF DockerInit
<1>3. DockerHas
  <2>1. /\ dockerClock = RetryAfter /\ failedAt = 0 /\ answersSince = RetryAfter /\ up = {}
        /\ condition = [c \in ContainerIds |-> "healthy"] /\ samples = [c \in ContainerIds |-> 0]
    BY Zenon DEF DockerInit
  <2> QED
    BY <1>1, <1>2, <2>1 DEF DockerHas, Conditions
<1>4. Turns
  BY <1>2, Zenon DEF DockerInit, Turns
<1>5. TimesFit
  <2>1. /\ trueAt = [k \in ContainerIds \X Conditions |-> IF k[2] = "healthy" THEN RetryAfter ELSE 0]
        /\ condition = [c \in ContainerIds |-> "healthy"] /\ dockerClock = RetryAfter
    BY Zenon DEF DockerInit
  <2>2. trueAt \in [ContainerIds \X Conditions -> Nat]
    BY <1>1, <2>1
  <2>3. ASSUME NEW c \in ContainerIds PROVE trueAt[<<c, condition[c]>>] = dockerClock
    <3>1. <<c, "healthy">> \in ContainerIds \X Conditions /\ condition[c] = "healthy"
      BY <2>1 DEF Conditions
    <3> QED
      BY <2>1, <3>1
  <2> QED
    BY <2>2, <2>3 DEF TimesFit
<1>6. InspectedFit
  BY <1>2 DEF InspectedFit
<1>7. BacksOff
  BY <1>1 DEF DockerInit, BacksOff
<1>8. IsShown
  BY Zenon DEF DockerInit, IsShown
<1> QED
  BY <1>3, <1>4, <1>5, <1>6, <1>7, <1>8, Zenon DEF DockerInv

\* A connection, and what it is after it was asked for.
ALink(l) ==
  l = [open |-> l.open, failed |-> l.failed] /\ l.open \in BOOLEAN /\ l.failed \in Nat /\ l.failed <= dockerClock

LEMMA OpenedIs ==
  ASSUME dockerClock \in Nat, NEW works, works \in BOOLEAN, NEW l, ALink(l), NEW k, k = OpenedLink(l, works)
  PROVE  /\ ALink(k)
         /\ works => k.failed = l.failed
         /\ works /\ ~(dockerClock - l.failed < RetryAfter) => k.open
         /\ l.open => k.open
<1>1. l.open \in BOOLEAN /\ l.failed \in Nat /\ l.failed <= dockerClock
  BY Zenon DEF ALink
<1>2. CASE l.open \/ dockerClock - l.failed < RetryAfter
  <2>1. k = l
    BY <1>2, Zenon DEF OpenedLink
  <2> QED
    BY <1>2, <2>1, Zenon
<1>3. CASE ~(l.open \/ dockerClock - l.failed < RetryAfter)
  <2>1. k = [open |-> works, failed |-> IF works THEN l.failed ELSE dockerClock]
    BY <1>3, Zenon DEF OpenedLink
  <2>2. PICK failed : failed = IF works THEN l.failed ELSE dockerClock
    OBVIOUS
  <2>3. failed \in Nat /\ failed <= dockerClock
    BY <1>1, <2>2
  <2>4. ALink(k) /\ k.open = works /\ k.failed = failed
    <3>1. k = [open |-> works, failed |-> failed]
      BY <2>1, <2>2, Zenon
    <3>2. k.open = works /\ k.failed = failed
      BY <3>1
    <3> QED
      BY <2>3, <3>1, <3>2, Zenon DEF ALink
  <2> QED
    BY <1>3, <2>2, <2>4, Zenon
<1> QED
  BY <1>2, <1>3

\* Between two refreshes: containers start, stop and turn, the socket fails and recovers.
LEMMA MachineKeepsDocker ==
  ASSUME DockerInv,
         \/ \E c \in ContainerIds : StartContainer(c) \/ \E how \in Conditions : ConditionTurns(c, how)
         \/ SocketTurns \/ TickDocker
  PROVE  DockerInv'
<1>1. DockerHas /\ Turns /\ TimesFit /\ InspectedFit /\ BacksOff
  BY Zenon DEF DockerInv
<1>2. /\ dockerClock \in Nat /\ failedAt \in Nat /\ answersSince \in Nat /\ LastDockerTime \in Nat /\ RetryAfter \in Nat
      /\ failedAt <= dockerClock /\ dockerClock <= LastDockerTime /\ RetryAfter <= dockerClock
  BY <1>1, DockerAssumption DEF DockerHas
<1>3. CASE \E c \in ContainerIds : StartContainer(c)
  <2>1. PICK c \in ContainerIds : StartContainer(c)
    BY <1>3
  <2>2. /\ up' = up \cup {c} /\ UNCHANGED <<dockerClock, condition, socketUp, client, failedAt, inspected>>
        /\ UNCHANGED <<samples, answersSince, trueAt, listed>> /\ justListed' = FALSE
    BY <2>1, Zenon DEF StartContainer, Unlisted, provider
  <2>3. DockerHas'
    <3>1. up' \subseteq ContainerIds
      BY <1>1, <2>2 DEF DockerHas
    <3> QED
      BY <1>1, <2>2, <3>1, Zenon DEF DockerHas
  <2>4. Turns' /\ TimesFit' /\ InspectedFit' /\ BacksOff' /\ IsShown'
    BY <1>1, <2>2, Zenon DEF Turns, TimesFit, InspectedFit, BacksOff, IsShown
  <2> QED
    BY <2>3, <2>4, Zenon DEF DockerInv
<1>4. CASE \E c \in ContainerIds, how \in Conditions : ConditionTurns(c, how)
  <2>1. PICK c \in ContainerIds, how \in Conditions : ConditionTurns(c, how)
    BY <1>4
  <2>2. /\ condition' = [condition EXCEPT ![c] = how] /\ trueAt' = [trueAt EXCEPT ![<<c, how>>] = dockerClock]
        /\ UNCHANGED <<dockerClock, up, socketUp, client, failedAt, inspected, samples, answersSince, listed>>
        /\ justListed' = FALSE
    BY <2>1, Zenon DEF ConditionTurns, Unlisted, provider
  <2>3. /\ trueAt \in [ContainerIds \X Conditions -> Nat] /\ condition \in [ContainerIds -> Conditions]
        /\ \A d \in ContainerIds : trueAt[<<d, condition[d]>>] = dockerClock
    BY <1>1 DEF DockerHas, TimesFit
  <2>4. condition' \in [ContainerIds -> Conditions]
    BY <2>2, <2>3
  <2>5. DockerHas'
    BY <1>1, <2>2, <2>4, Zenon DEF DockerHas
  <2>6. trueAt' \in [ContainerIds \X Conditions -> Nat]
    BY <1>2, <2>2, <2>3
  <2>7. ASSUME NEW d \in ContainerIds, NEW k \in Conditions
        PROVE  trueAt'[<<d, k>>] = IF d = c /\ k = how THEN dockerClock ELSE trueAt[<<d, k>>]
    BY <2>2, <2>3
  <2>8. ASSUME NEW d \in ContainerIds PROVE trueAt'[<<d, condition'[d]>>] = dockerClock
    <3>1. condition'[d] = IF d = c THEN how ELSE condition[d]
      BY <2>2, <2>3
    <3>2. condition[d] \in Conditions
      BY <2>3
    <3> QED
      BY <2>3, <2>7, <3>1, <3>2
  <2>9. TimesFit'
    BY <2>2, <2>6, <2>8, Zenon DEF TimesFit
  <2>10. InspectedFit'
    <3> SUFFICES ASSUME NEW d \in DOMAIN inspected
                 PROVE  inspected[d].at <= trueAt'[<<d, inspected[d].is>>]
      BY <1>1, <2>2, Zenon DEF InspectedFit
    <3>1. /\ d \in ContainerIds /\ inspected[d].is \in Conditions /\ inspected[d].at <= dockerClock
          /\ inspected[d].at <= trueAt[<<d, inspected[d].is>>]
      BY <1>1, Zenon DEF InspectedFit
    <3>2. PICK k \in Conditions : k = inspected[d].is
      BY <3>1
    <3>3. trueAt'[<<d, k>>] = dockerClock \/ trueAt'[<<d, k>>] = trueAt[<<d, k>>]
      BY <2>7, <3>1, Zenon
    <3> QED
      BY <3>1, <3>2, <3>3, Zenon
  <2>11. Turns' /\ BacksOff' /\ IsShown'
    BY <1>1, <2>2, Zenon DEF Turns, BacksOff, IsShown
  <2> QED
    BY <2>5, <2>9, <2>10, <2>11, Zenon DEF DockerInv
<1>5. CASE SocketTurns
  <2>1. /\ answersSince' = dockerClock + 1 /\ socketUp' = ~socketUp
        /\ UNCHANGED <<dockerClock, up, condition, client, failedAt, inspected, samples, trueAt, listed>>
        /\ justListed' = FALSE
    BY <1>5, Zenon DEF SocketTurns, Unlisted, provider
  <2>2. answersSince' \in 0..LastDockerTime + 1 /\ failedAt <= answersSince'
    BY <1>2, <2>1
  <2>3. DockerHas'
    BY <1>1, <2>1, <2>2, Zenon DEF DockerHas
  <2>4. Turns' /\ TimesFit' /\ InspectedFit' /\ BacksOff' /\ IsShown'
    BY <1>1, <2>1, <2>2, Zenon DEF Turns, TimesFit, InspectedFit, BacksOff, IsShown
  <2> QED
    BY <2>3, <2>4, Zenon DEF DockerInv
<1>6. CASE TickDocker
  <2>1. /\ dockerClock < LastDockerTime /\ dockerClock' = dockerClock + 1
        /\ trueAt' = [k \in DOMAIN trueAt |-> IF condition[k[1]] = k[2] THEN dockerClock' ELSE trueAt[k]]
        /\ UNCHANGED <<up, condition, socketUp, client, failedAt, inspected, samples, answersSince, listed>>
        /\ justListed' = FALSE
    BY <1>6, Zenon DEF TickDocker, Unlisted, provider, dockerWorld
  <2>2. /\ dockerClock' \in Nat /\ dockerClock' \in RetryAfter..LastDockerTime
        /\ dockerClock <= dockerClock' /\ failedAt <= dockerClock'
    BY <1>2, <2>1
  <2>3. DockerHas'
    BY <1>1, <2>1, <2>2, Zenon DEF DockerHas
  <2>4. /\ trueAt \in [ContainerIds \X Conditions -> Nat] /\ condition \in [ContainerIds -> Conditions]
        /\ \A d \in ContainerIds : trueAt[<<d, condition[d]>>] = dockerClock
    BY <1>1 DEF DockerHas, TimesFit
  <2>5. trueAt' \in [ContainerIds \X Conditions -> Nat]
    BY <2>1, <2>2, <2>4
  <2>6. ASSUME NEW d \in ContainerIds, NEW k \in Conditions
        PROVE  trueAt'[<<d, k>>] = IF condition[d] = k THEN dockerClock' ELSE trueAt[<<d, k>>]
    BY <2>1, <2>4
  <2>7. TimesFit'
    <3>1. \A d \in ContainerIds : trueAt'[<<d, condition[d]>>] = dockerClock'
      BY <2>4, <2>6
    <3> QED
      BY <2>1, <2>5, <3>1, Zenon DEF TimesFit
  <2>8. InspectedFit'
    <3> SUFFICES ASSUME NEW d \in DOMAIN inspected
                 PROVE  inspected[d].at <= dockerClock' /\ inspected[d].at <= trueAt'[<<d, inspected[d].is>>]
      BY <1>1, <2>1, Zenon DEF InspectedFit
    <3>1. /\ d \in ContainerIds /\ inspected[d].is \in Conditions
          /\ inspected[d].at \in Nat /\ inspected[d].at <= dockerClock
          /\ inspected[d].at <= trueAt[<<d, inspected[d].is>>]
      BY <1>1, Zenon DEF InspectedFit
    <3>2. inspected[d].at <= dockerClock'
      BY <1>2, <2>2, <3>1
    <3>3. PICK k \in Conditions : k = inspected[d].is
      BY <3>1
    <3>4. trueAt'[<<d, k>>] = dockerClock' \/ trueAt'[<<d, k>>] = trueAt[<<d, k>>]
      BY <2>6, <3>1, Zenon
    <3> QED
      BY <3>1, <3>2, <3>3, <3>4, Zenon
  <2>9. Turns' /\ BacksOff' /\ IsShown'
    BY <1>1, <2>1, Zenon DEF Turns, BacksOff, IsShown
  <2> QED
    BY <2>3, <2>7, <2>8, <2>9, Zenon DEF DockerInv
<1> QED
  BY <1>3, <1>4, <1>5, <1>6, Zenon

\* An action on a container; it may find the socket gone.
LEMMA ControlKeeps ==
  ASSUME DockerInv, NEW c \in ContainerIds, NEW stops \in BOOLEAN, Control(c, stops)
  PROVE  DockerInv'
<1>1. DockerHas /\ Turns /\ TimesFit /\ InspectedFit /\ BacksOff
  BY Zenon DEF DockerInv
<1>2. /\ dockerClock \in Nat /\ failedAt \in Nat /\ failedAt <= dockerClock
      /\ LastDockerTime \in Nat /\ dockerClock <= LastDockerTime
  BY <1>1, DockerAssumption DEF DockerHas
<1>3. PICK l : l = OpenedLink(Link, socketUp)
  OBVIOUS
<1>4. /\ client' = l.open /\ failedAt' = l.failed
      /\ \E done \in BOOLEAN : up' = IF done /\ stops THEN up \ {c} ELSE up
      /\ UNCHANGED <<dockerClock, condition, socketUp, inspected, samples, answersSince, trueAt, listed>>
      /\ justListed' = FALSE
  BY <1>3, Zenon DEF Control, Unlisted
<1>5. l.open \in BOOLEAN /\ l.failed \in Nat /\ l.failed <= dockerClock /\ (socketUp => l.failed = failedAt)
  <2>1. socketUp \in BOOLEAN /\ client \in BOOLEAN
    BY <1>1, Zenon DEF Turns
  <2>2. ALink(Link) /\ Link.failed = failedAt
    <3>1. PICK q : q = Link
      OBVIOUS
    <3>2. q = [open |-> client, failed |-> failedAt]
      BY <3>1, Zenon DEF Link
    <3>3. q.open = client /\ q.failed = failedAt
      BY <3>2
    <3> QED
      BY <1>2, <2>1, <3>1, <3>2, <3>3, Zenon DEF ALink
  <2>3. ALink(l) /\ (socketUp => l.failed = Link.failed)
    BY <1>2, <1>3, <2>1, <2>2, OpenedIs, Zenon
  <2> QED
    BY <2>2, <2>3, Zenon DEF ALink
<1>6. DockerHas'
  <2>1. up' \subseteq ContainerIds
    <3>1. PICK done \in BOOLEAN : up' = IF done /\ stops THEN up \ {c} ELSE up
      BY <1>4, Zenon
    <3>2. up' = up \/ up' = up \ {c}
      BY <3>1, Zenon
    <3> QED
      BY <1>1, <3>2 DEF DockerHas
  <2>2. failedAt' \in Nat /\ failedAt' <= dockerClock'
    BY <1>2, <1>4, <1>5
  <2> QED
    BY <1>1, <1>4, <2>1, <2>2, Zenon DEF DockerHas
<1>7. Turns' /\ TimesFit' /\ InspectedFit' /\ BacksOff' /\ IsShown'
  BY <1>1, <1>4, <1>5, Zenon DEF Turns, TimesFit, InspectedFit, BacksOff, IsShown
<1> QED
  BY <1>6, <1>7, Zenon DEF DockerInv

\* What is described of a running container was true within the interval.
LEMMA DescribedIs ==
  ASSUME DockerInv, NEW c \in up
  PROVE  c \in ContainerIds /\ Described(c) \in Conditions /\ trueAt[<<c, Described(c)>>] > dockerClock - InspectInterval
<1>1. DockerHas /\ TimesFit /\ InspectedFit
  BY Zenon DEF DockerInv
<1>2. c \in ContainerIds /\ dockerClock \in Nat /\ InspectInterval \in Nat \ {0} /\ condition[c] \in Conditions
  BY <1>1, DockerAssumption DEF DockerHas
<1>3. CASE FreshlyInspected(c)
  <2>1. c \in DOMAIN inspected /\ dockerClock - inspected[c].at < InspectInterval /\ Described(c) = inspected[c].is
    BY <1>3, Zenon DEF FreshlyInspected, Described
  <2>2. /\ inspected[c].at \in Nat /\ inspected[c].is \in Conditions
        /\ inspected[c].at <= trueAt[<<c, inspected[c].is>>]
    BY <1>1, <2>1, Zenon DEF InspectedFit
  <2>3. trueAt[<<c, inspected[c].is>>] \in Nat
    BY <1>1, <1>2, <2>2 DEF TimesFit
  <2>4. trueAt[<<c, inspected[c].is>>] > dockerClock - InspectInterval
    BY <1>2, <2>1, <2>2, <2>3
  <2> QED
    BY <1>2, <2>1, <2>2, <2>4, Zenon
<1>4. CASE ~FreshlyInspected(c)
  <2>1. Described(c) = condition[c]
    BY <1>4, Zenon DEF Described
  <2>2. trueAt[<<c, condition[c]>>] = dockerClock
    BY <1>1, <1>2, Zenon DEF TimesFit
  <2>3. dockerClock > dockerClock - InspectInterval
    BY <1>2
  <2> QED
    BY <1>2, <2>1, <2>2, <2>3, Zenon
<1> QED
  BY <1>3, <1>4

\* What an inspection keeps was true when it was kept.
LEMMA InspectionsFit ==
  ASSUME DockerInv, NEW l, NEW fails, NEW cli, NEW kept, kept = Inspections(l, fails, cli)
  PROVE  /\ DOMAIN kept \subseteq ContainerIds
         /\ \A c \in DOMAIN kept :
              /\ kept[c].at \in Nat /\ kept[c].at <= dockerClock /\ kept[c].is \in Conditions
              /\ kept[c].at <= trueAt[<<c, kept[c].is>>]
<1>1. DockerHas /\ TimesFit /\ InspectedFit
  BY Zenon DEF DockerInv
<1>2. up \subseteq ContainerIds /\ dockerClock \in Nat /\ \A c \in up : condition[c] \in Conditions
  BY <1>1, DockerAssumption DEF DockerHas
<1> DEFINE S == {d \in up : FreshlyInspected(d) \/ (l.open /\ "inspect" \notin fails) \/ cli}
<1>3. kept = [c \in S |-> IF FreshlyInspected(c) THEN inspected[c] ELSE [at |-> dockerClock, is |-> condition[c]]]
  BY Zenon DEF Inspections
<1>4. DOMAIN kept = S /\ S \subseteq up
  BY <1>3
<1>5. ASSUME NEW c \in DOMAIN kept
      PROVE  /\ kept[c].at \in Nat /\ kept[c].at <= dockerClock /\ kept[c].is \in Conditions
             /\ kept[c].at <= trueAt[<<c, kept[c].is>>]
  <2>1. c \in up /\ c \in ContainerIds
    BY <1>2, <1>4
  <2>2. CASE FreshlyInspected(c)
    <3>1. kept[c] = inspected[c] /\ c \in DOMAIN inspected
      BY <1>3, <1>4, <2>2, Zenon DEF FreshlyInspected
    <3> QED
      BY <1>1, <3>1, Zenon DEF InspectedFit
  <2>3. CASE ~FreshlyInspected(c)
    <3>1. PICK k : k = [at |-> dockerClock, is |-> condition[c]]
      OBVIOUS
    <3>2. k.at = dockerClock /\ k.is = condition[c]
      BY <3>1
    <3>3. kept[c] = k
      BY <1>3, <1>4, <2>3, <3>1, Zenon
    <3>4. trueAt[<<c, condition[c]>>] = dockerClock
      BY <1>1, <2>1, Zenon DEF TimesFit
    <3>5. dockerClock <= dockerClock
      BY <1>2
    <3> QED
      BY <1>2, <2>1, <3>2, <3>3, <3>4, <3>5, Zenon
  <2> QED
    BY <2>2, <2>3
<1> QED
  BY <1>2, <1>4, <1>5

\* A refresh: the failures there may be are the back-off's only after the SDK's own.
LEMMA RefreshKeepsDocker ==
  ASSUME DockerInv, NEW fails, NEW cli, ListContainers(socketUp, fails, cli)
  PROVE  DockerInv'
<1>1. DockerHas /\ Turns /\ TimesFit /\ InspectedFit /\ BacksOff
  BY Zenon DEF DockerInv
<1>2. /\ dockerClock \in Nat /\ failedAt \in Nat /\ failedAt <= dockerClock /\ answersSince \in Nat
      /\ answersSince <= LastDockerTime + 1 /\ LastDockerTime \in Nat /\ dockerClock <= LastDockerTime
      /\ RetryAfter \in Nat \ {0}
  BY <1>1, DockerAssumption DEF DockerHas
<1>3. PICK l : l = OpenedLink(Link, socketUp)
  OBVIOUS
<1>4. PICK first : first = BySdk(l, fails)
  OBVIOUS
<1>5. PICK ok : ok = (first.open \/ cli)
  OBVIOUS
<1>6. PICK later : later = IF ok /\ \E c \in up : ~FreshlyInspected(c) THEN OpenedLink(first, socketUp) ELSE first
  OBVIOUS
<1>7. /\ client' = later.open /\ failedAt' = later.failed
      /\ inspected' = IF ok THEN Inspections(later, fails, cli) ELSE inspected
      /\ samples' = IF ok THEN Sampled(later, fails) ELSE samples
      /\ listed' = [there |-> ok, is |-> IF ok THEN [c \in up |-> Described(c)] ELSE <<>>]
      /\ justListed' = TRUE
      /\ answersSince' = IF fails # {} \/ ~socketUp THEN dockerClock + 1 ELSE answersSince
      /\ UNCHANGED <<dockerClock, up, condition, socketUp, trueAt>>
  BY <1>3, <1>4, <1>5, <1>6, Zenon DEF ListContainers, dockerWorld
<1>8. socketUp \in BOOLEAN /\ ok \in BOOLEAN
  BY <1>1, <1>5, Zenon DEF Turns
<1>9. ALink(Link) /\ Link.failed = failedAt
  <2>1. PICK q : q = Link
    OBVIOUS
  <2>2. q = [open |-> client, failed |-> failedAt]
    BY <2>1, Zenon DEF Link
  <2>3. q.open = client /\ q.failed = failedAt
    BY <2>2
  <2> QED
    BY <1>1, <1>2, <2>1, <2>2, <2>3, Zenon DEF ALink, Turns
<1>10. /\ ALink(l) /\ (socketUp => l.failed = failedAt)
       /\ socketUp /\ ~(dockerClock - failedAt < RetryAfter) => l.open
  <2>1. PICK q : q = Link
    OBVIOUS
  <2>2. /\ ALink(l) /\ (socketUp => l.failed = q.failed)
        /\ socketUp /\ ~(dockerClock - q.failed < RetryAfter) => l.open
    BY <1>2, <1>3, <1>8, <1>9, <2>1, OpenedIs, Zenon
  <2> QED
    BY <1>9, <2>1, <2>2, Zenon
<1>11. ALink(first) /\ first.failed = l.failed /\ first.open = (l.open /\ "list" \notin fails)
  <2>1. l = [open |-> l.open, failed |-> l.failed]
    BY <1>10, Zenon DEF ALink
  <2>2. PICK open : open = (l.open /\ "list" \notin fails)
    OBVIOUS
  <2>3. first = [l EXCEPT !.open = open]
    BY <1>4, <2>2, Zenon DEF BySdk
  <2>4. first = [open |-> open, failed |-> l.failed]
    BY <2>1, <2>3
  <2>5. first.open = open /\ first.failed = l.failed
    BY <2>4
  <2>6. open \in BOOLEAN
    BY <2>2, Zenon
  <2> QED
    BY <1>10, <2>2, <2>4, <2>5, <2>6, Zenon DEF ALink
<1>12. ALink(later) /\ (socketUp => later.failed = failedAt)
  <2>1. PICK k : k = OpenedLink(first, socketUp)
    OBVIOUS
  <2>2. ALink(k) /\ (socketUp => k.failed = first.failed)
    BY <1>2, <1>8, <1>11, <2>1, OpenedIs, Zenon
  <2>3. later = k \/ later = first
    BY <1>6, <2>1, Zenon
  <2> QED
    BY <1>10, <1>11, <2>2, <2>3, Zenon
<1>13. listed'.there = ok /\ listed'.is = IF ok THEN [c \in up |-> Described(c)] ELSE <<>>
  BY <1>7
<1>14. answersSince' \in 0..LastDockerTime + 1 /\ (socketUp => failedAt' <= answersSince')
  <2>1. answersSince' = dockerClock + 1 \/ answersSince' = answersSince
    BY <1>7, Zenon
  <2>2. socketUp => failedAt' = failedAt /\ failedAt <= answersSince
    BY <1>1, <1>7, <1>12, Zenon DEF BacksOff
  <2> QED
    BY <1>2, <2>1, <2>2
<1>15. samples' \in [ContainerIds -> 0..2]
  <2>1. samples \in [ContainerIds -> 0..2]
    BY <1>1 DEF DockerHas
  <2>2. Sampled(later, fails) \in [ContainerIds -> 0..2]
    BY <2>1 DEF Sampled
  <2> QED
    BY <1>7, <2>1, <2>2, Zenon
<1>16. DockerHas'
  <2>1. DOMAIN listed'.is \subseteq ContainerIds
    <3>1. CASE ok
      BY <1>1, <1>13, <3>1 DEF DockerHas
    <3>2. CASE ~ok
      BY <1>13, <3>2
    <3> QED
      BY <3>1, <3>2
  <2>2. failedAt' \in Nat /\ failedAt' <= dockerClock'
    BY <1>7, <1>12, Zenon DEF ALink
  <2> QED
    BY <1>1, <1>7, <1>14, <1>15, <2>1, <2>2, Zenon DEF DockerHas
<1>17. Turns' /\ TimesFit' /\ BacksOff'
  BY <1>1, <1>7, <1>8, <1>12, <1>13, <1>14, Zenon DEF Turns, TimesFit, BacksOff, ALink
<1>18. InspectedFit'
  <2>1. CASE ok
    <3>1. inspected' = Inspections(later, fails, cli)
      BY <1>7, <2>1, Zenon
    <3>2. PICK kept : kept = Inspections(later, fails, cli)
      OBVIOUS
    <3>3. /\ DOMAIN kept \subseteq ContainerIds
          /\ \A c \in DOMAIN kept :
               /\ kept[c].at \in Nat /\ kept[c].at <= dockerClock /\ kept[c].is \in Conditions
               /\ kept[c].at <= trueAt[<<c, kept[c].is>>]
      BY <3>2, InspectionsFit, Zenon
    <3> QED
      BY <1>7, <3>1, <3>2, <3>3, Zenon DEF InspectedFit
  <2>2. CASE ~ok
    BY <1>1, <1>7, <2>2, Zenon DEF InspectedFit
  <2> QED
    BY <2>1, <2>2, Zenon
<1>19. ASSUME socketUp, dockerClock - answersSince' >= RetryAfter PROVE ok
  <2>1. answersSince' = answersSince /\ fails = {}
    <3>1. answersSince' # dockerClock + 1
      BY <1>2, <1>19
    <3> QED
      BY <1>7, <3>1, Zenon
  <2>2. failedAt <= answersSince
    BY <1>1, <1>19, Zenon DEF BacksOff
  <2>3. ~(dockerClock - failedAt < RetryAfter)
    BY <1>2, <1>19, <2>1, <2>2
  <2>4. l.open
    BY <1>10, <1>19, <2>3, Zenon
  <2>5. "list" \notin fails
    BY <2>1
  <2> QED
    BY <1>5, <1>11, <2>4, <2>5, Zenon
<1>20. ASSUME ok
       PROVE  DOMAIN listed'.is = up /\ \A c \in up : trueAt[<<c, listed'.is[c]>>] > dockerClock - InspectInterval
  <2>1. PICK m : m = [c \in up |-> Described(c)]
    OBVIOUS
  <2>2. DOMAIN m = up /\ \A c \in up : m[c] = Described(c)
    BY <2>1, Zenon
  <2>3. listed'.is = m
    BY <1>13, <1>20, <2>1, Zenon
  <2>4. \A c \in up : trueAt[<<c, m[c]>>] > dockerClock - InspectInterval
    BY <2>2, DescribedIs, Zenon
  <2> QED
    BY <2>2, <2>3, <2>4, Zenon
<1>21. IsShown'
  BY <1>7, <1>8, <1>13, <1>19, <1>20, Zenon DEF IsShown
<1> QED
  BY <1>16, <1>17, <1>18, <1>21, Zenon DEF DockerInv

LEMMA DockerStep == DockerInv /\ [DockerNext]_dockerVars => DockerInv'
<1> SUFFICES ASSUME DockerInv, [DockerNext]_dockerVars PROVE DockerInv'
  OBVIOUS
<1>1. CASE \E c \in ContainerIds : StartContainer(c) \/ \E how \in Conditions : ConditionTurns(c, how)
  BY <1>1, MachineKeepsDocker, Zenon
<1>2. CASE SocketTurns \/ TickDocker
  BY <1>2, MachineKeepsDocker, Zenon
<1>3. CASE \E c \in ContainerIds : \E stops \in BOOLEAN : Control(c, stops)
  BY <1>3, ControlKeeps, Zenon
<1>4. CASE RefreshContainers
  BY <1>4, RefreshKeepsDocker, Zenon DEF RefreshContainers
<1>5. CASE UNCHANGED dockerVars
  BY <1>5, Zenon DEF dockerVars, dockerWorld, provider, shownContainers, DockerInv, DockerHas, Turns, TimesFit,
     InspectedFit, BacksOff, IsShown
<1> QED
  BY <1>1, <1>2, <1>3, <1>4, <1>5, Zenon DEF DockerNext

THEOREM DockerInductive == DockerSpec => []DockerInv
  BY DockerStarts, DockerStep, PTL DEF DockerSpec

\* What the provider keeps has its type (collectors/docker.py).
THEOREM DockerTypeCorrect == DockerSpec => []DockerTypeOK
<1>1. DockerInv => DockerTypeOK
  <2> SUFFICES ASSUME DockerInv PROVE DockerTypeOK
    OBVIOUS
  <2>1. DockerHas /\ Turns /\ InspectedFit
    BY Zenon DEF DockerInv
  <2>2. failedAt \in 0..LastDockerTime
    BY <2>1, DockerAssumption DEF DockerHas
  <2>3. {socketUp, client, listed.there} \subseteq BOOLEAN
    BY <2>1, Zenon DEF Turns
  <2> QED
    BY <2>1, <2>2, <2>3, Zenon DEF DockerTypeOK, DockerHas, InspectedFit
<1> QED
  BY DockerInductive, <1>1, PTL

\* A published port has one row of the protocol it was mentioned under last; containers are
\* listed as soon as the SDK has answered for as long as the provider backs off, and shown as they were within inspect_interval
\* (collectors/docker.py, engine/enrichment.py).
THEOREM ContainersAlwaysShow == DockerSpec => []ContainersAreShown
<1>1. DockerInv => ContainersAreShown
  BY RowsComplete, Zenon DEF DockerInv, IsShown, ContainersAreShown
<1> QED
  BY DockerInductive, <1>1, PTL

-----------------------------------------------------------------------------
(* All of them, as the run checks them. *)

\* A step of the instance is a step of each component, or leaves it alone.
LEMMA FindsStepIs ==
  [FindsNext]_findsVars =>
    /\ [CollectorNext]_collectorVars /\ [DockerNext]_dockerVars /\ [ProberNext]_proberVars
    /\ [HealthNext]_healthVars /\ [RouteNext]_routeVars /\ [ThroughputNext]_throughputVars
    /\ [IdentityNext]_identityVars /\ [PatternNext]_patternVars /\ [MapNext]_mapVars
    /\ [MemoryNext]_memoryVars /\ [OriginNext]_originVars
<1> SUFFICES ASSUME [FindsNext]_findsVars
             PROVE  /\ [CollectorNext]_collectorVars /\ [DockerNext]_dockerVars /\ [ProberNext]_proberVars
                    /\ [HealthNext]_healthVars /\ [RouteNext]_routeVars /\ [ThroughputNext]_throughputVars
                    /\ [IdentityNext]_identityVars /\ [PatternNext]_patternVars /\ [MapNext]_mapVars
                    /\ [MemoryNext]_memoryVars /\ [OriginNext]_originVars
  OBVIOUS
<1>1. CASE CollectorNext /\ Resting("ports")
  BY <1>1, Zenon DEF Resting
<1>2. CASE DockerNext /\ Resting("docker")
  BY <1>2, Zenon DEF Resting
<1>3. CASE ProberNext /\ Resting("http")
  BY <1>3, Zenon DEF Resting
<1>4. CASE HealthNext /\ Resting("health")
  BY <1>4, Zenon DEF Resting
<1>5. CASE RouteNext /\ Resting("routes")
  BY <1>5, Zenon DEF Resting
<1>6. CASE ThroughputNext /\ Resting("bytes")
  BY <1>6, Zenon DEF Resting
<1>7. CASE IdentityNext /\ Resting("identity")
  BY <1>7, Zenon DEF Resting
<1>8. CASE PatternNext /\ Resting("patterns")
  BY <1>8, Zenon DEF Resting
<1>9. CASE MapNext /\ Resting("map")
  BY <1>9, Zenon DEF Resting
<1>10. CASE MemoryNext /\ Resting("memory")
  BY <1>10, Zenon DEF Resting
<1>11. CASE OriginNext /\ Resting("origin")
  BY <1>11, Zenon DEF Resting
<1>12. CASE UNCHANGED findsVars
  BY <1>12, Zenon DEF findsVars
<1> QED
  BY <1>1, <1>2, <1>3, <1>4, <1>5, <1>6, <1>7, <1>8, <1>9, <1>10, <1>11, <1>12, Zenon DEF FindsNext

\* So a behaviour of the instance is one of each component.
LEMMA FindsAreEach ==
  FindsSpec => /\ CollectorSpec /\ DockerSpec /\ ProberSpec /\ HealthSpec /\ RouteSpec
               /\ ThroughputSpec /\ IdentitySpec /\ PatternSpec /\ MapSpec /\ MemorySpec
               /\ OriginSpec
<1>1. FindsInit => /\ CollectorInit /\ DockerInit /\ ProberInit /\ HealthInit /\ RouteInit
                   /\ ThroughputInit /\ IdentityInit /\ PatternInit /\ MapInit /\ MemoryInit
                   /\ OriginInit
  BY Zenon DEF FindsInit
<1> QED
  BY <1>1, FindsStepIs, PTL DEF FindsSpec, CollectorSpec, DockerSpec, ProberSpec, HealthSpec,
     RouteSpec, ThroughputSpec, IdentitySpec, PatternSpec, MapSpec, MemorySpec, OriginSpec

\* A figure is of the process it is shown for: its bytes (collectors/bandwidth.py), its CPU time
\* (collectors/system.py), its answer on HTTP (collectors/http.py), however numbers and ports are
\* taken over between two samples.
THEOREM FiguresAreOfTheirProcess == FindsSpec => []FiguresAreOwn
<1>1. NeverTooMuch /\ OwnMeasure /\ FreshProbe => FiguresAreOwn
  BY Zenon DEF FiguresAreOwn
<1> QED
  BY <1>1, FindsAreEach, NeverMoreThanMoved, MeasuresAreOwn, ProbesAreFresh, PTL

\* A health result that a row shows is of the row's own process (health.py, engine/enrichment.py).
THEOREM ShownResultsAreOwn == FindsSpec => OwnResult
  BY FindsAreEach, ResultsAreOwn, Zenon

\* What a row is called is of one moment: its names from proxies and the hosts file
\* (collectors/routes.py), the alias of the configuration (identity.py), its branch
\* (collectors/origin.py), whatever changes while a refresh runs.
THEOREM NamesAreOfTheirRow == FindsSpec => []NamesAreOfTheRow
<1>1. RowsAreOfOnePiece /\ AliasesName /\ BranchIsRecent => NamesAreOfTheRow
  BY Zenon DEF NamesAreOfTheRow
<1> QED
  BY <1>1, FindsAreEach, RowsOfOnePiece, AliasesAlwaysName, BranchesAreRecent, PTL

\* What is counted over days was earned: patterns (patterns.py), the learned map
\* (topology_store.py), what usually holds a port (ports.py), over saves, crashes, restarts
\* and what is let go.
THEOREM CountsAreEarnedOnce == FindsSpec => []CountsAreEarned
<1>1. CountedOnce /\ UsualIsEarned /\ UsualIsKnown => CountsAreEarned
  BY Zenon DEF CountsAreEarned
<1> QED
  BY <1>1, FindsAreEach, PatternsCountOnce, SightingsEarn, UsualAreKnown, PTL

\* The variables of every component have their types.
THEOREM FindsTypeCorrect == FindsSpec => []FindsTypeOK
<1>1. /\ CollectorTypeOK /\ DockerTypeOK /\ ProberTypeOK /\ HealthTypeOK /\ RouteTypeOK /\ ThroughputTypeOK
      /\ IdentityTypeOK /\ PatternTypeOK /\ MapTypeOK /\ MemoryTypeOK /\ OriginTypeOK
      => FindsTypeOK
  BY Zenon DEF FindsTypeOK
<1> QED
  BY <1>1, FindsAreEach, CollectorTypeCorrect, DockerTypeCorrect, ProberTypeCorrect, ChecksTypeCorrect,
     RouteTypeCorrect, BytesTypeCorrect, IdentityTypeCorrect, PatternTypeCorrect, MapTypeCorrect,
     MemoryTypeCorrect, OriginTypeCorrect, PTL
=============================================================================
