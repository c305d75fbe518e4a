------------------------------ MODULE KubeWatch ------------------------------
(***************************************************************************)
(* What lirts knows of the cluster: KubeProvider (collectors/kube.py), its *)
(* background thread, the Kubernetes screen's own fetches and its choice   *)
(* of a namespace (tui/screens/kube.py), and the warning about a forward   *)
(* whose target is gone (engine/enrichment.py).                            *)
(*                                                                         *)
(* Every kubectl call may fail.  A fetch is a step per call.  Abstracted:  *)
(* deployments, which are listed as pods and services are, and what is     *)
(* listed: the namespace that a call listed stands for it.                 *)
(***************************************************************************)
EXTENDS Integers, Sequences, FiniteSets, TLC

CONSTANTS
  Namespaces,   \* the namespaces the user picks from
  Workers,      \* the screen's worker threads: an exclusive one does not stop the one before
  LastPick      \* bound: how often the user picks a namespace

Threads == Workers \cup {"loop"}
NoState == [ok |-> FALSE, ns |-> "none", scopes |-> <<>>]
NoFetch == [at |-> "idle", ns |-> "none", scopes |-> <<>>]

ASSUME KubeAssumption ==
  /\ LastPick \in Nat
  /\ Namespaces \cap {"none", "unset", "all", "default"} = {}

VARIABLES
  wanted,    \* namespace and all_namespaces: "unset", "all" or a namespace
  picks,
  thread,    \* per thread the fetch under way: where it is, KubeState.namespace, the scopes listed
  snap,      \* KubeProvider.state
  wake,      \* the _wake event
  stopping   \* the _stop event

kubeVars == <<wanted, picks, thread, snap, wake, stopping>>

-----------------------------------------------------------------------------
(* fetch *)

\* current_namespace: the configured one, else what kubectl says if it answers.
CurrentNamespace == IF wanted = "all" THEN {"none"}
                    ELSE IF wanted = "unset" THEN {"default", "none"}
                    ELSE {wanted}

\* _run: --all-namespaces is read at each call, -n is the state's namespace.
ScopeOf(ns) == IF wanted = "all" THEN "all" ELSE IF ns = "none" THEN "default" ELSE ns

\* What a thread does when its fetch is over: the loop clears the event and waits.
FetchOver(t) == IF t = "loop" THEN [NoFetch EXCEPT !.at = "clear"] ELSE NoFetch

\* _store
StoreState(t, state) ==
  /\ snap' = state
  /\ thread' = [thread EXCEPT ![t] = FetchOver(t)]

\* The context and the namespace, then the server.
BeginFetch(t) ==
  /\ thread[t].at = "begin"
  /\ \/ StoreState(t, NoState)  \* no current context
     \/ /\ \E ns \in CurrentNamespace : thread' = [thread EXCEPT ![t] = [at |-> "get", ns |-> ns, scopes |-> <<>>]]
        /\ UNCHANGED snap
  /\ UNCHANGED <<wanted, picks, wake, stopping>>

GetKind(t) ==
  /\ thread[t].at = "get"
  /\ LET scopes == Append(thread[t].scopes, ScopeOf(thread[t].ns))
     IN \/ StoreState(t, [ok |-> FALSE, ns |-> thread[t].ns, scopes |-> thread[t].scopes])
        \/ IF Len(scopes) = 2
             THEN StoreState(t, [ok |-> TRUE, ns |-> thread[t].ns, scopes |-> scopes])
             ELSE thread' = [thread EXCEPT ![t].scopes = scopes] /\ UNCHANGED snap
  /\ UNCHANGED <<wanted, picks, wake, stopping>>

-----------------------------------------------------------------------------
(* The background thread: _loop. *)

ClearWake ==
  /\ thread["loop"].at = "clear"
  /\ wake' = FALSE
  /\ thread' = [thread EXCEPT !["loop"].at = "wait"]
  /\ UNCHANGED <<wanted, picks, snap, stopping>>

\* Mutant: the thread waits for the event only.
WaitOverWhenWoken == wake

\* The event, or the interval.
WaitOver == TRUE

LoopAgain ==
  /\ thread["loop"].at = "wait" /\ WaitOver
  /\ thread' = [thread EXCEPT !["loop"].at = IF stopping THEN "ended" ELSE "begin"]
  /\ UNCHANGED <<wanted, picks, snap, wake, stopping>>

\* set_sources: start, when kubectl has a context and no thread was started before.
StartWatching ==
  /\ thread["loop"].at = "off"
  /\ thread' = [thread EXCEPT !["loop"].at = IF stopping THEN "ended" ELSE "begin"]
  /\ UNCHANGED <<wanted, picks, snap, wake, stopping>>

StopWatching ==
  /\ stopping' = TRUE /\ wake' = TRUE
  /\ UNCHANGED <<wanted, picks, thread, snap>>

-----------------------------------------------------------------------------
(* The Kubernetes screen. *)

\* reload_in_background: a worker of its own each time.
ReloadInBackground(t) ==
  /\ thread[t].at = "idle"
  /\ thread' = [thread EXCEPT ![t].at = "begin"]

ActionReload(t) == ReloadInBackground(t) /\ UNCHANGED <<wanted, picks, snap, wake, stopping>>

\* action_namespace: the provider's settings change under the fetches.
ActionNamespace(t, choice) ==
  /\ picks < LastPick
  /\ picks' = picks + 1
  /\ wanted' = choice
  /\ ReloadInBackground(t)
  /\ UNCHANGED <<snap, wake, stopping>>

\* run_kube_action: after a pod action that succeeds.
RunKubeAction(t) ==
  /\ wake' = TRUE
  /\ ReloadInBackground(t)
  /\ UNCHANGED <<wanted, picks, snap, stopping>>

\* start: no thread when kubectl has no context yet; the screen opens as soon as it has.
KubeInit ==
  /\ wanted = "unset" /\ picks = 0
  /\ \E at \in {"begin", "off"} :
       thread = [t \in Threads |-> IF t = "loop" THEN [NoFetch EXCEPT !.at = at] ELSE NoFetch]
  /\ snap = NoState /\ wake = FALSE /\ stopping = FALSE

KubeNext ==
  \/ \E t \in Threads : BeginFetch(t) \/ GetKind(t)
  \/ ClearWake \/ LoopAgain \/ StartWatching \/ StopWatching
  \/ \E t \in Workers :
       \/ ActionReload(t) \/ RunKubeAction(t)
       \/ \E choice \in Namespaces \cup {"all"} : ActionNamespace(t, choice)

\* The threads go on; the user need not do anything.
KubeSteps(t) == BeginFetch(t) \/ GetKind(t) \/ (t = "loop" /\ (ClearWake \/ LoopAgain))

KubeSpec == KubeInit /\ [][KubeNext]_kubeVars /\ \A t \in Threads : WF_kubeVars(KubeSteps(t))

-----------------------------------------------------------------------------
\* _check_tunnels: a forward whose target is in none of the listings of its
\* namespace is warned about; a namespace that is not watched is not judged.
JudgesTunnelIn(ns) == snap.ok /\ (snap.ns \in {"none", ns} \/ wanted = "all")
TunnelMissing(ns) == JudgesTunnelIn(ns) /\ \E i \in 1..2 : snap.scopes[i] \notin {"all", ns}

\* The type of every variable.  A state that is available has both listings; as
\* long as nobody picks a namespace, they are of one scope and no warning is false.
KubeTypeOK ==
  /\ wanted \in Namespaces \cup {"unset", "all"} /\ picks \in 0..LastPick
  /\ \A t \in Threads : thread[t].at \in {"idle", "begin", "get", "clear", "wait", "ended", "off"}
  /\ {wake, stopping} \subseteq BOOLEAN
  /\ snap.ok => Len(snap.scopes) = 2
  /\ picks = 0 => (\A i \in DOMAIN snap.scopes : snap.scopes[i] = "default") /\ ~TunnelMissing("default")

\* However slow the fetches of an earlier choice are, and whatever kubectl
\* fails at: in the end lirts does not show an earlier namespace, as long as it has a
\* background thread.  The workers of the screen store their answers in any order
\* (kube.py:255); only the loop sets it right.
ShowsTheChoice == picks > 0 => snap.ns \in {"none", wanted}

EarlierNamespaceGoes ==
  []<>(stopping \/ thread["loop"].at = "off") \/ <>[]ShowsTheChoice

\* "switch namespace for the session" (CHANGELOG.md:283): whatever was picked last is
\* shown in the end.  Without the background thread, which is not started when kubectl
\* has no context at launch, a worker that was overtaken has the last word.
\* TLC refutes this; it has no run of its own (README, section 5).
PickedNamespaceStays == []<>stopping \/ <>[]ShowsTheChoice

=============================================================================
