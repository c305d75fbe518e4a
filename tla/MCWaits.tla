------------------------------- MODULE MCWaits -------------------------------
(* A small instance of the components in which somebody waits: an attached  *)
(* dashboard for the events of the daemon (RemoteHistory), the Kubernetes   *)
(* screen for the namespace that was picked (KubeWatch), the user for the   *)
(* daemon that is installed (DaemonService), an agent for the answer to its *)
(* call (McpServer).  They share no variable: each behaviour is one of one  *)
(* component, `part`, and the others stay in one of their initial states.   *)
EXTENDS RemoteHistory, KubeWatch, DaemonService, McpServer

CONSTANTS d1, c1,
  Parts  \* the components of this run

VARIABLE part

-----------------------------------------------------------------------------
WaitsInit ==
  /\ part \in Parts
  /\ RemoteInit
  /\ KubeInit
  /\ ServiceInit
  /\ \/ part = "manager"
     \/ manager = (CHOOSE m \in Managers : TRUE) /\ ~homebrew /\ ~file /\ ~enabled
  /\ McpInit /\ (part = "mcp" \/ (engineKind = "daemon" /\ ~allowed))

\* Every component but one stays as it is.
Resting(x) ==
  /\ UNCHANGED part
  /\ IF x = "mirror" THEN TRUE ELSE UNCHANGED remoteVars
  /\ IF x = "kube" THEN TRUE ELSE UNCHANGED kubeVars
  /\ IF x = "manager" THEN TRUE ELSE UNCHANGED serviceVars
  /\ IF x = "mcp" THEN TRUE ELSE UNCHANGED mcpVars

WaitsNext ==
  \/ part = "mirror" /\ RemoteNext /\ Resting("mirror")
  \/ part = "kube" /\ KubeNext /\ Resting("kube")
  \/ part = "manager" /\ ServiceNext /\ Resting("manager")
  \/ part = "mcp" /\ McpNext /\ Resting("mcp")

waitsVars == <<part, remoteVars, kubeVars, serviceVars, mcpVars>>

\* The fairness that the component's own specification states (RemoteFairSpec, KubeSpec,
\* FairServiceSpec, FairMcpSpec), in the behaviours of the component: in others it rests.
WaitsFairness ==
  /\ WF_remoteVars(part = "mirror" /\ RefreshLog(0))
  /\ \A d \in Dashboards :
       /\ WF_remoteVars(part = "mirror" /\ AskFrame(d))
       /\ SF_remoteVars(part = "mirror" /\ AnswerFrame(d))
       /\ SF_remoteVars(part = "mirror" /\ ApplyFrame(d))
  /\ \A t \in Threads : WF_kubeVars(part = "kube" /\ KubeSteps(t))
  /\ WF_serviceVars(part = "manager" /\ ManagerStarts)
  /\ WF_mcpVars(part = "mcp" /\ LoopRefresh)
  /\ \A a \in Actors : WF_mcpVars(part = "mcp" /\ EndOf(a))
  /\ \A c \in Callers :
       WF_mcpVars(part = "mcp" /\ (Pull(c) \/ Answer(c)))

WaitsSpec == WaitsInit /\ [][WaitsNext]_waitsVars /\ WaitsFairness

-----------------------------------------------------------------------------
\* Every variable of the component has its type; the daemon's log, read back from its
\* file after a restart, has lost its oldest events only (history_store.py, load).
WaitsInvariant ==
  /\ part = "mirror" => RemoteTypeOK /\ OldestLostFirst
  /\ part = "kube" => KubeTypeOK
  /\ part = "manager" => ServiceTypeOK
  /\ part = "mcp" => McpTypeOK
=============================================================================
