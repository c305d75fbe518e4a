---------------------------- MODULE HealthChecks ----------------------------
(***************************************************************************)
(* Health checks on demand: the checker's caches (collectors/health.py),   *)
(* the engine and the daemon that start a check (engine/health.py,         *)
(* daemon.py), the results screen (tui/screens/health.py).                 *)
(*                                                                         *)
(* Checks of several clients run next to each other and next to refreshes. *)
(* A process number is never used twice; those of other users' processes   *)
(* lirts does not see.  Abstracted: latencies, the list of paths (one      *)
(* endpoint, which answers well, badly or not at all), the limit of        *)
(* connections; a port has one row.                                        *)
(***************************************************************************)
EXTENDS Lists

CONSTANTS
  HealthPorts,   \* the TCP ports of the machine, all of them HTTP
  CheckClients,       \* who may start a check: dashboards, agents
  LastProcess    \* bound: the processes of a behaviour

\* _key: `listener.pid or 0`, so 0 for every process lirts does not know.
Key == HealthPorts \X (0..LastProcess)
NotChecked == [checked |-> FALSE, by |-> 0, tcp |-> FALSE, http |-> "none"]

NoRow == [here |-> FALSE, pid |-> 0, health |-> NotChecked]

ASSUME HealthAssumption == LastProcess \in Nat

VARIABLES
  holder,    \* the process on each port, 0 when it is closed
  secret,    \* whether lirts cannot see the number of the process of each port
  born,
  shownHealth,     \* the snapshot: whether there is a row, its process and its health
  results,   \* HealthChecker._cache
  paths,     \* HealthChecker._learned: "path", or "" when there is none
  check      \* the check of each client: what is left, what is asked

\* How a health endpoint may answer: below 400, above, or not at all.
Endpoints == {"well", "badly", "not"}

healthWorld == <<holder, secret, born>>
healthVars == <<healthWorld, shownHealth, results, paths, check>>

NoCheck == [targets |-> {}, left |-> {}, asked |-> <<>>, running |-> FALSE, fresh |-> FALSE]

-----------------------------------------------------------------------------
(* The machine. *)

Replace(p, unseen) ==
  /\ born < LastProcess
  /\ born' = born + 1
  /\ holder' = [holder EXCEPT ![p] = born']
  /\ secret' = [secret EXCEPT ![p] = unseen]
  /\ UNCHANGED <<shownHealth, results, paths, check>>

Exit(p) ==
  /\ holder[p] # 0
  /\ holder' = [holder EXCEPT ![p] = 0]
  /\ UNCHANGED <<secret, born, shownHealth, results, paths, check>>

-----------------------------------------------------------------------------
(* The checker. *)

KnownHolder(p) == IF secret[p] THEN 0 ELSE holder[p]

\* Mutant: results are kept per port.
CachedByPort(p) ==
  LET ks == {k \in DOMAIN results : k[1] = p}
  IN IF ks = {} THEN NotChecked ELSE results[CHOOSE k \in ks : \A j \in ks : j[2] <= k[2]]

\* attach_cached: the last result of this port and process.
Cached(p) == IF <<p, KnownHolder(p)>> \in DOMAIN results THEN results[<<p, KnownHolder(p)>>] ELSE NotChecked

\* A refresh shows the ports there are, with their last results; a check under
\* way goes on with the rows of an older snapshot.
RefreshHealth ==
  /\ shownHealth' = [p \in HealthPorts |->
                      IF holder[p] = 0 THEN NoRow
                      ELSE [here |-> TRUE, pid |-> KnownHolder(p), health |-> Cached(p)]]
  /\ check' = [c \in CheckClients |-> [check[c] EXCEPT !.fresh = FALSE]]
  /\ UNCHANGED <<healthWorld, results, paths>>

Rows == {<<p, shownHealth[p].pid>> : p \in {q \in HealthPorts : shownHealth[q].here}}

BeginCheck(c, T, fresh) ==
  /\ ~check[c].running
  /\ T # {}
  /\ check' = [check EXCEPT ![c] = [targets |-> T, left |-> T, asked |-> <<>>,
                                    running |-> TRUE, fresh |-> fresh]]
  /\ UNCHANGED <<healthWorld, shownHealth, results, paths>>

\* check_health_now: a client names some rows, none is all of them.
StartCheck(c) == \E T \in SUBSET Rows : BeginCheck(c, T, TRUE)

\* `r` on the results screen: the same rows again, however old they are.
Rerun(c) == BeginCheck(c, check[c].targets, check[c].fresh)

\* The result goes to the row, to the cache and, once all are there, on screen.
Found(c, k, r) ==
  /\ results' = Noted(results, k, r)
  /\ shownHealth' = IF check[c].fresh THEN [shownHealth EXCEPT ![k[1]].health = r] ELSE shownHealth

\* _tcp: a port that refuses has its result; one that answers is asked for its
\* health, on the paths that are known now.
Connect(c, k) ==
  LET d == check[c]
      learned == IF k \in DOMAIN paths THEN paths[k] ELSE "unknown"
  IN /\ k \in d.left
     /\ IF holder[k[1]] = 0
        THEN /\ Found(c, k, [NotChecked EXCEPT !.checked = TRUE])
             /\ check' = [check EXCEPT ![c] = [d EXCEPT !.left = @ \ {k}]]
        ELSE /\ check' = [check EXCEPT ![c] = [d EXCEPT !.left = @ \ {k},
                                                        !.asked = Noted(@, k, learned)]]
             /\ UNCHANGED <<shownHealth, results>>
     /\ UNCHANGED <<healthWorld, paths>>

\* _http with the paths read before it asked, and the answer: without any nothing is asked; an answer
\* below 400 is the path from now on; a known path that answers badly is reported, and one
\* that does not answer leaves a note only; unknown paths are tried once.
Ask(c, k, how) ==
  LET p == k[1]
      known == check[c].asked[k]
      answer == IF known = "" \/ holder[p] = 0 THEN "not" ELSE how
      http == IF answer = "well" THEN "ok"
              ELSE IF answer = "badly" /\ known = "path" THEN "failing" ELSE "none"
  IN /\ Found(c, k, [checked |-> TRUE, by |-> holder[p], tcp |-> TRUE, http |-> http])
     /\ paths' = IF answer = "well" THEN Noted(paths, k, "path")
                 ELSE IF known = "unknown" THEN Noted(paths, k, "") ELSE paths

AnswerCheck(c, k, how) ==
  /\ k \in DOMAIN check[c].asked
  /\ Ask(c, k, how)
  /\ check' = [check EXCEPT ![c].asked = Restrict(@, DOMAIN @ \ {k})]
  /\ UNCHANGED healthWorld

\* The end of check: only the rows it checked keep their results and paths.
EndCheck(c) ==
  /\ check[c].running /\ check[c].left = {} /\ check[c].asked = <<>>
  /\ check' = [check EXCEPT ![c].running = FALSE]
  /\ results' = Restrict(results, DOMAIN results \cap check[c].targets)
  /\ paths' = Restrict(paths, DOMAIN paths \ (DOMAIN results \ check[c].targets))
  /\ UNCHANGED <<healthWorld, shownHealth>>

HealthInit ==
  /\ holder = [p \in HealthPorts |-> 0]
  /\ secret = [p \in HealthPorts |-> FALSE]
  /\ born = 0
  /\ shownHealth = [p \in HealthPorts |-> NoRow]
  /\ results = <<>> /\ paths = <<>>
  /\ check = [c \in CheckClients |-> NoCheck]

HealthNext ==
  \/ \E p \in HealthPorts : (\E unseen \in BOOLEAN : Replace(p, unseen)) \/ Exit(p)
  \/ RefreshHealth
  \/ \E c \in CheckClients :
       \/ StartCheck(c) \/ Rerun(c) \/ EndCheck(c)
       \/ \E k \in Key : Connect(c, k) \/ \E how \in Endpoints : AnswerCheck(c, k, how)

HealthSpec == HealthInit /\ [][HealthNext]_healthVars

-----------------------------------------------------------------------------
Results == [checked: BOOLEAN, by: 0..LastProcess, tcp: BOOLEAN, http: {"none", "ok", "failing"}]

\* The type of every variable; a check only asks rows it was given.
HealthTypeOK ==
  /\ holder \in [HealthPorts -> 0..born] /\ secret \in [HealthPorts -> BOOLEAN]
  /\ born \in 0..LastProcess
  /\ shownHealth \in [HealthPorts -> [here: BOOLEAN, pid: 0..LastProcess, health: Results]]
  /\ DOMAIN results \subseteq Key /\ Range(results) \subseteq Results
  /\ DOMAIN paths \subseteq Key /\ Range(paths) \subseteq {"path", ""}
  /\ \A c \in CheckClients : check[c].left \cup DOMAIN check[c].asked \subseteq check[c].targets

\* A row that shows a new process whose number lirts knows never shows a result
\* that was measured on another one, however late a check ends and however old
\* its rows are (attach_cached, the key of the cache).  Processes that lirts does
\* not know share a key, and so their results.
OwnResult ==
  [][\A p \in HealthPorts :
       shownHealth'[p].pid \notin {0, shownHealth[p].pid}
         => shownHealth'[p].health.by \in {0, shownHealth'[p].pid}]_healthVars

\* "The results stay attached to later frames" (daemon.py:258): a refresh that
\* shows the same process keeps the result of its last check.
\* TLC refutes this; it has no run of its own (README, section 5).
ResultsStay ==
  [][\A p \in HealthPorts :
       (shownHealth[p].health.checked /\ shownHealth'[p].pid = shownHealth[p].pid)
         => shownHealth'[p].health.checked]_healthVars

=============================================================================
