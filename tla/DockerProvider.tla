--------------------------- MODULE DockerProvider ---------------------------
(***************************************************************************)
(* The containers of a refresh: the provider with its client, its back-off *)
(* and its caches (collectors/docker.py, docker_parse.py), and how they    *)
(* become rows (engine/enrichment.py).  The rows of containers that publish *)
(* nothing (docker.show_unpublished) are rows of HistoryStore's updates.   *)
(*                                                                         *)
(* The SDK's socket and the docker command fail and recover on their own;  *)
(* any single call may fail too.  Abstracted: what an inspection tells (a  *)
(* condition stands for it), the numbers of the statistics (how many       *)
(* samples were taken, up to two, stands for them).                        *)
(***************************************************************************)
EXTENDS Integers, FiniteSets, SequencesExt, TLC

CONSTANTS
  ContainerIds,     \* the containers that run now and then
  Published,        \* per container, these and others, the sequence of <<host port, protocol>> it publishes
  InspectInterval,  \* docker.inspect_interval
  RetryAfter,       \* DOCKER_CLIENT_RETRY_SECONDS
  LastDockerTime    \* bound: the last clock reading

Conditions == {"healthy", "unhealthy"}

ASSUME DockerAssumption ==
  /\ ContainerIds \subseteq DOMAIN Published
  /\ {InspectInterval, RetryAfter, LastDockerTime} \subseteq Nat \ {0}
  /\ RetryAfter <= LastDockerTime
  /\ IsFiniteSet(DOMAIN Published) /\ "none" \notin DOMAIN Published
  /\ \A c \in DOMAIN Published : /\ Published[c] \in Seq(Nat \X {"TCP", "UDP"})
                                /\ IsInjective(Published[c])

VARIABLES
  dockerClock,
  up,           \* the containers that run
  condition,    \* what an inspection of each would say now
  socketUp,     \* the SDK's socket answers
  client,       \* DockerProvider._client is open
  failedAt,     \* _client_failed_at
  inspected,    \* _inspect_cache
  samples,      \* _stats_prev, _stats_last
  listed,       \* the condition the last refresh shows of each container; whether Docker was available
  justListed,   \* history: the step before was a refresh
  answersSince, \* history: since when every call of the SDK went through
  trueAt        \* history: when each container last was in each condition

dockerWorld == <<up, condition, socketUp>>
provider == <<client, failedAt, inspected, samples>>
shownContainers == <<listed, justListed>>
dockerVars == <<dockerClock, dockerWorld, provider, shownContainers, answersSince, trueAt>>

-----------------------------------------------------------------------------
(* The rows: _attach_containers. *)

HostPorts(c) == {Published[c][i][1] : i \in DOMAIN Published[c]}

\* port_map: a port published under two protocols keeps the last.
MappedTo(c, p) ==
  LET final == CHOOSE i \in DOMAIN Published[c] :
                /\ Published[c][i][1] = p
                /\ \A j \in DOMAIN Published[c] : Published[c][j][1] = p => j <= i
  IN Published[c][final][2]

\* The first container of a list that is one of those; "none" if there is none.
FirstContainer(cs, those) ==
  LET I == {i \in DOMAIN cs : cs[i] \in those}
  IN IF I = {} THEN "none" ELSE cs[CHOOSE i \in I : \A j \in I : i <= j]

\* A socket that psutil sees is the container's that publishes its port first,
\* under that protocol.
Tagged(cs, socks) ==
  LET owner(p) == FirstContainer(cs, {c \in Range(cs) : p \in HostPorts(c)})
      runs(p, proto) == owner(p) # "none" /\ MappedTo(owner(p), p) = proto
  IN {[port |-> s[1], proto |-> s[2], container |-> IF runs(s[1], s[2]) THEN owner(s[1]) ELSE "none"]
      : s \in socks}

\* A published port that psutil does not see has a row of its own; the order of
\* the containers decides whose it is.
Unseen(cs, socks, udp) ==
  LET publisher(s) == FirstContainer(cs, {c \in Range(cs) : s[1] \in HostPorts(c) /\ MappedTo(c, s[1]) = s[2]})
      all == (UNION {HostPorts(c) : c \in Range(cs)}) \X (IF udp THEN {"TCP", "UDP"} ELSE {"TCP"})
  IN {[port |-> s[1], proto |-> s[2], container |-> publisher(s)]
      : s \in {t \in all \ socks : publisher(t) # "none"}}

PublishedBy(C) == UNION {Range(Published[c]) : c \in C}

ContainerRows(cs, socks, udp) == Tagged(cs, socks) \cup Unseen(cs, socks, udp)

-----------------------------------------------------------------------------
(* The client: _get_client, _reset_client. *)

Link == [open |-> client, failed |-> failedAt]

\* Mutant: a call during the back-off starts it anew.
OpenedLinkLate(l, works) ==
  IF l.open THEN l
  ELSE IF dockerClock - l.failed < RetryAfter THEN [open |-> FALSE, failed |-> dockerClock]
  ELSE [open |-> works, failed |-> IF works THEN l.failed ELSE dockerClock]

\* A connection that failed is not tried again for RetryAfter.
OpenedLink(l, works) ==
  IF l.open \/ dockerClock - l.failed < RetryAfter THEN l
  ELSE [open |-> works, failed |-> IF works THEN l.failed ELSE dockerClock]

FreshlyInspected(c) == c \in DOMAIN inspected /\ dockerClock - inspected[c].at < InspectInterval

\* _list_raw: the SDK lists; a client that fails is reset.
BySdk(l, fails) == [l EXCEPT !.open = l.open /\ "list" \notin fails]

\* _inspect: cached for inspect_interval, else asked of the SDK or the command.
Inspections(l, fails, cli) ==
  LET says == (l.open /\ "inspect" \notin fails) \/ cli
  IN [c \in {d \in up : FreshlyInspected(d) \/ says} |->
        IF FreshlyInspected(c) THEN inspected[c] ELSE [at |-> dockerClock, is |-> condition[c]]]

\* apply_inspect: what was inspected overrides what the list says.
Described(c) == IF FreshlyInspected(c) THEN inspected[c].is ELSE condition[c]

\* sample_stats: the figures of the last sample stay when none is taken.
Sampled(l, fails) ==
  [c \in ContainerIds |->
     IF c \notin up THEN 0
     ELSE IF l.open /\ "stats" \notin fails /\ samples[c] < 2 THEN samples[c] + 1 ELSE samples[c]]

\* list_containers: works tells whether the SDK is reached when it is tried,
\* fails which of its calls do not go through (one kind or all), cli whether
\* the docker command does.
ListContainers(works, fails, cli) ==
  LET first == BySdk(OpenedLink(Link, works), fails)
      ok    == first.open \/ cli
      later == IF ok /\ \E c \in up : ~FreshlyInspected(c) THEN OpenedLink(first, works) ELSE first
  IN /\ client' = later.open /\ failedAt' = later.failed
     /\ inspected' = IF ok THEN Inspections(later, fails, cli) ELSE inspected
     /\ samples' = IF ok THEN Sampled(later, fails) ELSE samples
     /\ listed' = [there |-> ok, is |-> IF ok THEN [c \in up |-> Described(c)] ELSE <<>>]
     /\ justListed' = TRUE
     /\ answersSince' = IF fails # {} \/ ~works THEN dockerClock + 1 ELSE answersSince
     /\ UNCHANGED <<dockerClock, dockerWorld, trueAt>>

\* A closed socket answers nothing.
RefreshContainers ==
  \E fails \in {{}, {"list"}, {"inspect"}, {"stats"}, {"list", "inspect", "stats"}}, cli \in BOOLEAN :
    /\ ~socketUp => Cardinality(fails) = 3
    /\ ListContainers(socketUp, fails, cli)

\* What the last refresh showed remains until the next one.
Unlisted == justListed' = FALSE /\ UNCHANGED listed

\* stop and restart: by the SDK, else by the command; a call that times out may
\* have had its effect.
Control(c, stops) ==
  /\ c \in up
  /\ LET l == OpenedLink(Link, socketUp)
     IN /\ client' = l.open /\ failedAt' = l.failed
        /\ \E done \in BOOLEAN : up' = IF done /\ stops THEN up \ {c} ELSE up
  /\ UNCHANGED <<dockerClock, condition, socketUp, inspected, samples, answersSince, trueAt>>
  /\ Unlisted

-----------------------------------------------------------------------------
StartContainer(c) ==
  /\ c \notin up
  /\ up' = up \cup {c}
  /\ UNCHANGED <<dockerClock, condition, socketUp, provider, answersSince, trueAt>>
  /\ Unlisted

ConditionTurns(c, how) ==
  /\ condition[c] # how
  /\ condition' = [condition EXCEPT ![c] = how]
  /\ trueAt' = [trueAt EXCEPT ![<<c, how>>] = dockerClock]
  /\ UNCHANGED <<dockerClock, up, socketUp, provider, answersSince>>
  /\ Unlisted

SocketTurns ==
  /\ socketUp' = ~socketUp
  /\ answersSince' = dockerClock + 1
  /\ UNCHANGED <<dockerClock, up, condition, provider, trueAt>>
  /\ Unlisted

TickDocker ==
  /\ dockerClock < LastDockerTime
  /\ dockerClock' = dockerClock + 1
  /\ trueAt' = [k \in DOMAIN trueAt |-> IF condition[k[1]] = k[2] THEN dockerClock' ELSE trueAt[k]]
  /\ UNCHANGED <<dockerWorld, provider, answersSince>>
  /\ Unlisted

DockerInit ==
  /\ dockerClock = RetryAfter /\ up = {} /\ socketUp = TRUE
  /\ condition = [c \in ContainerIds |-> "healthy"]
  /\ client = FALSE /\ failedAt = 0 /\ inspected = <<>>
  /\ samples = [c \in ContainerIds |-> 0]
  /\ listed = [there |-> FALSE, is |-> <<>>] /\ justListed = FALSE
  /\ answersSince = RetryAfter
  /\ trueAt = [k \in ContainerIds \X Conditions |-> IF k[2] = "healthy" THEN RetryAfter ELSE 0]

DockerNext ==
  \/ \E c \in ContainerIds :
       \/ StartContainer(c)
       \/ \E how \in Conditions : ConditionTurns(c, how)
       \/ \E stops \in BOOLEAN : Control(c, stops)
  \/ RefreshContainers
  \/ SocketTurns
  \/ TickDocker

DockerSpec == DockerInit /\ [][DockerNext]_dockerVars

-----------------------------------------------------------------------------
\* The type of every variable; statistics and inspections are kept of running
\* containers only, until one stops between two refreshes.
DockerTypeOK ==
  /\ dockerClock \in RetryAfter..LastDockerTime
  /\ up \subseteq ContainerIds /\ condition \in [ContainerIds -> Conditions]
  /\ {socketUp, client, listed.there} \subseteq BOOLEAN
  /\ failedAt \in 0..LastDockerTime /\ answersSince \in 0..LastDockerTime + 1
  /\ DOMAIN inspected \subseteq ContainerIds
  /\ \A c \in DOMAIN inspected : inspected[c].at <= dockerClock /\ inspected[c].is \in Conditions
  /\ samples \in [ContainerIds -> 0..2]
  /\ DOMAIN listed.is \subseteq ContainerIds

\* Whatever containers run, in whatever order they are listed, and whatever
\* sockets psutil sees: a published port has one row of the protocol it was
\* mentioned under last.  A port published over TCP and UDP has only that one
\* for sure: PublishedHasRow asks for the other too.
RowsAreComplete ==
  \A C \in SUBSET DOMAIN Published, udp \in BOOLEAN :
    \A order \in SetToSeqs(C), socks \in SUBSET PublishedBy(C) :
      LET drawn == ContainerRows(order, socks, udp)
      IN \A c \in C : \A p \in HostPorts(c) :
           MappedTo(c, p) = "TCP" \/ udp =>
             Cardinality({r \in drawn : r.port = p /\ r.proto = MappedTo(c, p)}) = 1

\* The README's claim: what Docker publishes is shown "including ports Docker
\* publishes through NAT that psutil cannot see".  A port_map has one protocol
\* for a port, so that a port published over TCP and UDP loses its row.
\* TLC refutes this; it has no run of its own (README, section 5).
PublishedHasRow ==
  \A C \in SUBSET DOMAIN Published, udp \in BOOLEAN : \A order \in SetToSeqs(C), c \in C :
    \A s \in Range(Published[c]) :
      s[2] = "TCP" => \E r \in ContainerRows(order, {}, udp) : r.port = s[1] /\ r.proto = "TCP"

\* What a refresh shows of the containers.  Once the SDK has answered for as
\* long as the provider backs off, they are listed, with or without a docker
\* command: no sequence of failures and refreshes puts the next attempt off.
\* The condition shownContainers was true within the last inspect_interval.
ContainersAreShown ==
  /\ RowsAreComplete
  /\ justListed =>
       /\ socketUp /\ dockerClock - answersSince >= RetryAfter => listed.there
       /\ listed.there =>
            /\ DOMAIN listed.is = up
            /\ \A c \in up : trueAt[<<c, listed.is[c]>>] > dockerClock - InspectInterval

=============================================================================
