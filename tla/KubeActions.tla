------------------------------ MODULE KubeActions -----------------------------
(***************************************************************************)
(* What lirts asks kubectl to do: the Kubernetes screen (tui/screens/      *)
(* kube.py) and the commands of `lirts kube` (cli/kube.py), both through   *)
(* the provider (collectors/kube.py).                                      *)
(*                                                                         *)
(* The screen shows the pods of the last fetch it drew.  A key opens a box *)
(* that names the pod under the cursor; the kubectl of a box that was      *)
(* answered runs in a thread.  Meanwhile the rows are drawn again, and the *)
(* user may choose another context in a terminal.                          *)
(*                                                                         *)
(* Pods come and go, by themselves and by what kubectl does: a fetch lists *)
(* any of them.  It is one step here, and there is one namespace (module   *)
(* KubeWatch has the calls of a fetch and the namespaces).  Services are   *)
(* listed and forwarded to as pods are; the Forwards tab is KubeForwards.  *)
(***************************************************************************)
EXTENDS Integers, Sequences, FiniteSetsExt, Lists

CONSTANTS
  Clusters,    \* the contexts of the kubeconfig
  PodIds,      \* the pods, in the order they are listed
  OwnedPods,   \* those of a Deployment, StatefulSet or DaemonSet
  TypedNames   \* what is typed for a pod in a command: the one it is, those it begins

ASSUME KubeActionsAssumption ==
  /\ PodIds \subseteq Nat \ {0} /\ IsFiniteSet(PodIds) /\ OwnedPods \subseteq PodIds
  /\ "none" \notin Clusters
  /\ \A t \in TypedNames : t.exact \in PodIds \cup {0} /\ t.prefix \subseteq PodIds

VARIABLES
  chosen,      \* KubeProvider.context: the one of the configuration, or "none"
  current,     \* the kubeconfig's current context
  screenOpen,  \* the screen is open
  listing,     \* KubeProvider.state, and the rows of the open screen
  podCursor,   \* the row under the cursor
  box,         \* the box that asks or prompts
  reloading,   \* the screen's fetch is under way
  inHand,      \* the kubectl that runs, of the screen or of a command
  elsewhere    \* history: a kubectl ran in another context than the one its pod was shown in

kubeActionVars == <<chosen, current, screenOpen, listing, podCursor, box, reloading, inHand,
                    elsewhere>>

NoListing == [of |-> "none", pods |-> {}, available |-> FALSE]
NoDeed == [deed |-> "none", pod |-> 0, shown |-> 0, of |-> "none", by |-> "none"]

KubeActionsTypeOK ==
  LET contexts == Clusters \cup {"none"}
      deeds == [deed : {"none", "delete", "rollout", "forward", "look"}, pod : PodIds \cup {0},
                shown : PodIds \cup {0}, of : contexts, by : {"none", "screen", "command"}]
  IN /\ chosen \in contexts /\ current \in Clusters
     /\ listing.of \in contexts /\ listing.pods \subseteq PodIds /\ listing.available \in BOOLEAN
     /\ podCursor \in 0 .. Cardinality(listing.pods)
     /\ {box, inHand} \subseteq deeds
     /\ {screenOpen, reloading, elsewhere} \subseteq BOOLEAN

-----------------------------------------------------------------------------
(* kubectl *)

\* _run: --context only when the configuration has one.
Context == IF chosen # "none" THEN chosen ELSE current

\* fetch: what the cluster lists; no pods when kubectl has no context or cannot list them, and
\* the pods alone when a later call fails, of a state that is not available then.
Listings ==
  {NoListing} \cup [of : {Context}, pods : SUBSET PodIds, available : BOOLEAN]

\* A kubectl of a deed runs.
Kubectl(d) == elsewhere' = (elsewhere \/ Context # d.of)

-----------------------------------------------------------------------------
(* The screen. *)

AtRows == screenOpen /\ box = NoDeed

\* Mutant: the cursor stays where it is.
RenderInPlace(state) == listing' = state /\ UNCHANGED podCursor

\* render_state: the table is filled again, and its cursor is at the top.
Render(state) ==
  /\ listing' = state
  /\ podCursor' = IF state.pods = {} THEN 0 ELSE 1

\* on_mount: draw what is known, and ask unless all of it is.
OpenScreen ==
  /\ ~screenOpen /\ screenOpen' = TRUE
  /\ Render(listing)
  /\ reloading' = ~listing.available
  /\ UNCHANGED <<chosen, current, box, inHand, elsewhere>>

CloseScreen ==
  /\ AtRows /\ screenOpen' = FALSE /\ reloading' = FALSE /\ podCursor' = 0
  /\ UNCHANGED <<chosen, current, listing, box, inHand, elsewhere>>

MovePodCursor ==
  /\ AtRows /\ podCursor' \in 1 .. Cardinality(listing.pods)
  /\ UNCHANGED <<chosen, current, screenOpen, listing, box, reloading, inHand, elsewhere>>

\* action_reload
ReloadKey ==
  /\ AtRows /\ reloading' = TRUE
  /\ UNCHANGED <<chosen, current, screenOpen, listing, podCursor, box, inHand, elsewhere>>

\* reload_in_background: draw when the answer is there, with a box on top or not.
ReloadEnds ==
  /\ reloading /\ reloading' = FALSE
  /\ \E state \in Listings : Render(state)
  /\ UNCHANGED <<chosen, current, screenOpen, box, inHand, elsewhere>>

\* The provider's own thread fetches: an open screen does not draw that.
LoopFetch ==
  /\ ~screenOpen /\ listing' \in Listings
  /\ UNCHANGED <<chosen, current, screenOpen, podCursor, box, reloading, inHand, elsewhere>>

\* _row_index, current_pod: 0 when there is none.
CurrentPod == IF podCursor = 0 THEN 0 ELSE InOrder(listing.pods)[podCursor]

DeedOn(deed, pod, of, by) ==
  [deed |-> deed, pod |-> pod, shown |-> pod, of |-> of, by |-> by]

\* _need_pod, action_rollout_restart, action_delete_pod, action_forward: the box names the pod.
AskFor(deed) ==
  /\ AtRows /\ CurrentPod # 0
  /\ deed = "rollout" => CurrentPod \in OwnedPods
  /\ box' = DeedOn(deed, CurrentPod, listing.of, "screen")
  /\ UNCHANGED <<chosen, current, screenOpen, listing, podCursor, reloading, inHand, elsewhere>>

\* Mutant: the pod is the one under the cursor when the box is answered.
ConfirmedAtCursor(d) == [d EXCEPT !.pod = CurrentPod]

\* done: the pod was taken when the box opened.
Confirmed(d) == d

\* The box is answered.  One kubectl is followed at a time.
AnswerBox(yes) ==
  /\ box # NoDeed /\ box' = NoDeed
  /\ inHand' = IF yes /\ inHand = NoDeed THEN Confirmed(box) ELSE inHand
  /\ UNCHANGED <<chosen, current, screenOpen, listing, podCursor, reloading, elsewhere>>

\* run_kube_action: once it worked, the screen fetches again.
RunKubectl(well) ==
  /\ inHand.by = "screen" /\ inHand' = NoDeed
  /\ Kubectl(inHand)
  /\ reloading' = (reloading \/ (well /\ screenOpen))
  /\ UNCHANGED <<chosen, current, screenOpen, listing, podCursor, box>>

\* action_logs, action_previous_logs, action_exec: no box, at once.
LookAtOnce ==
  /\ AtRows /\ CurrentPod # 0
  /\ Kubectl(DeedOn("look", CurrentPod, listing.of, "screen"))
  /\ UNCHANGED <<chosen, current, screenOpen, listing, podCursor, box, reloading, inHand>>

-----------------------------------------------------------------------------
(* The commands. *)

\* _match_pod: the pod of that name, else the only one that begins with it.
MatchPod(ps, typed) ==
  IF typed.exact \in ps THEN {typed.exact}
  ELSE {p \in typed.prefix \cap ps : Cardinality(typed.prefix \cap ps) = 1}

\* kube_logs, kube_exec: _kube_state first, exit 1 without a cluster or without a match.
LookCommand(typed) ==
  /\ inHand = NoDeed
  /\ \E state \in Listings : \E p \in MatchPod(state.pods, typed) :
       state.available /\ inHand' = DeedOn("look", p, state.of, "command")
  /\ UNCHANGED <<chosen, current, screenOpen, listing, podCursor, box, reloading, elsewhere>>

\* kube_restart: what is typed is not looked up; the question names it and the namespace that
\* the context of the moment has.
AskRestart(p) ==
  /\ inHand = NoDeed /\ inHand' = DeedOn("rollout", p, Context, "command")
  /\ UNCHANGED <<chosen, current, screenOpen, listing, podCursor, box, reloading, elsewhere>>

\* The command goes on, or the question is answered with no.
CommandEnds ==
  /\ inHand.by = "command" /\ inHand' = NoDeed
  /\ Kubectl(inHand) \/ (inHand.deed = "rollout" /\ UNCHANGED elsewhere)
  /\ UNCHANGED <<chosen, current, screenOpen, listing, podCursor, box, reloading>>

\* kubectl config use-context, in another terminal.
UseContext ==
  /\ current' \in Clusters \ {current}
  /\ UNCHANGED <<chosen, screenOpen, listing, podCursor, box, reloading, inHand, elsewhere>>

-----------------------------------------------------------------------------
\* _kube, KubeProvider: the context of the configuration or of the command line, if any.
KubeActionsInit ==
  /\ chosen \in Clusters \cup {"none"} /\ current \in Clusters
  /\ listing = NoListing /\ podCursor = 0
  /\ screenOpen = FALSE /\ reloading = FALSE
  /\ box = NoDeed /\ inHand = NoDeed /\ elsewhere = FALSE

KubeActionsNext ==
  \/ OpenScreen \/ CloseScreen \/ MovePodCursor \/ ReloadKey \/ ReloadEnds \/ LoopFetch
  \/ \E deed \in {"delete", "rollout", "forward"} : AskFor(deed)
  \/ \E yes \in BOOLEAN : AnswerBox(yes) \/ RunKubectl(yes)
  \/ LookAtOnce \/ CommandEnds
  \/ \E typed \in TypedNames : LookCommand(typed)
  \/ \E p \in OwnedPods : AskRestart(p)
  \/ UseContext

KubeActionsSpec == KubeActionsInit /\ [][KubeActionsNext]_kubeActionVars

-----------------------------------------------------------------------------
\* What kubectl is run on is the pod that the box named, whatever was drawn under the box since
\* (tui/screens/kube.py, action_delete_pod, action_rollout_restart, action_forward).
NamedPodIsTouched == inHand.pod = inHand.shown

\* "context and namespace are passed as flags" (collectors/kube.py, module docstring): what is
\* asked for a pod of one context is not done in another.
ShownClusterIsTouched == ~elsewhere
===============================================================================
