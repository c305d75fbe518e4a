----------------------------- MODULE StackActions -----------------------------
(***************************************************************************)
(* Stopping and restarting a compose project: the stacks screen (tui/      *)
(* screens/stack.py), `lirts stack` (cli/stack.py) and what both run       *)
(* (engine/actions.py, collectors/docker.py).                              *)
(*                                                                         *)
(* The screen draws the containers the engine knew when it was opened or   *)
(* reloaded; refreshes go on under it and under the box that asks.  The    *)
(* action takes what the engine knows when it starts and goes through it   *)
(* one container at a time, in a thread.                                   *)
(***************************************************************************)
EXTENDS FiniteSets

CONSTANTS
  Containers,  \* the containers of this machine
  StackLabel   \* the compose project of each, "" for none

ASSUME StackAssumption == Containers \subseteq DOMAIN StackLabel

VARIABLES
  upBoxes,     \* the containers that run
  knownBoxes,  \* Engine.containers
  stacksOpen, shownBoxes,  \* the screen and what it draws
  asked,       \* the question: the action, the stack and the containers it names
  job          \* the action that runs: what it has to do and has done

stackVars == <<upBoxes, knownBoxes, stacksOpen, shownBoxes, asked, job>>

NotAsked == [action |-> "none", stack |-> "", named |-> {}]
NoJob == [action |-> "none", stack |-> "", named |-> {}, todo |-> {}, reached |-> {}]

\* stacks: the project of a container, "-" when it has none.
Shelf(c) == IF StackLabel[c] = "" THEN "-" ELSE StackLabel[c]
Shelves == {Shelf(c) : c \in Containers}
OnShelf(these, stack) == {c \in these : Shelf(c) = stack}

StackTypeOK ==
  /\ {upBoxes, knownBoxes, shownBoxes} \subseteq SUBSET Containers /\ stacksOpen \in BOOLEAN
  /\ asked \in [action : {"none", "stop", "restart"}, stack : Shelves \cup {""},
                named : SUBSET Containers]
  /\ DOMAIN job = DOMAIN NoJob /\ job.todo \subseteq Containers

-----------------------------------------------------------------------------
\* stack_containers
StackContainers(these, stack) == {c \in these : StackLabel[c] = stack}

\* A refresh of the engine.
KnowBoxes ==
  /\ knownBoxes' = upBoxes
  /\ UNCHANGED <<upBoxes, stacksOpen, shownBoxes, asked, job>>

\* on_mount, action_reload
DrawStacks ==
  /\ asked = NotAsked /\ stacksOpen' = TRUE /\ shownBoxes' = knownBoxes
  /\ UNCHANGED <<upBoxes, knownBoxes, asked, job>>

\* action_close, action_filter_by
CloseStacks ==
  /\ stacksOpen /\ asked = NotAsked /\ stacksOpen' = FALSE /\ shownBoxes' = {}
  /\ UNCHANGED <<upBoxes, knownBoxes, asked, job>>

\* _confirm_and_run: the box names the containers that are drawn.
AskStack(action, stack) ==
  /\ stacksOpen /\ asked = NotAsked /\ OnShelf(shownBoxes, stack) # {}
  /\ asked' = [action |-> action, stack |-> stack, named |-> OnShelf(shownBoxes, stack)]
  /\ UNCHANGED <<upBoxes, knownBoxes, stacksOpen, shownBoxes, job>>

\* done, run_stack_action: what the engine knows of the stack now.  One action is followed.
AnswerStack(yes) ==
  /\ asked # NotAsked /\ asked' = NotAsked
  /\ IF yes /\ job = NoJob
     THEN job' = [action |-> asked.action, stack |-> asked.stack,
                  named |-> asked.named \cap knownBoxes,
                  todo |-> StackContainers(knownBoxes, asked.stack), reached |-> {}]
     ELSE UNCHANGED job
  /\ UNCHANGED <<upBoxes, knownBoxes, stacksOpen, shownBoxes>>

\* stack_stop, stack_restart of the command: an engine that just collected, and a question.
StackCommand(action, stack) ==
  /\ job = NoJob /\ OnShelf(upBoxes, stack) # {}
  /\ job' = [action |-> action, stack |-> stack, named |-> OnShelf(upBoxes, stack),
             todo |-> StackContainers(upBoxes, stack), reached |-> {}]
  /\ UNCHANGED <<upBoxes, knownBoxes, stacksOpen, shownBoxes, asked>>

\* stack_action: the next container; Docker may refuse.
ActOnNext(c, ok) ==
  /\ c \in job.todo
  /\ job' = [job EXCEPT !.todo = @ \ {c}, !.reached = @ \cup {c}]
  /\ upBoxes' = IF ~ok THEN upBoxes
                ELSE IF job.action = "stop" THEN upBoxes \ {c} ELSE upBoxes \cup {c}
  /\ UNCHANGED <<knownBoxes, stacksOpen, shownBoxes, asked>>

\* run_stack_action: report, and draw again.
ReportStack ==
  /\ job # NoJob /\ job.todo = {} /\ job' = NoJob
  /\ shownBoxes' = IF stacksOpen THEN knownBoxes ELSE shownBoxes
  /\ UNCHANGED <<upBoxes, knownBoxes, stacksOpen, asked>>

\* A container is started or ends.
BoxChanges(c) ==
  /\ upBoxes' = IF c \in upBoxes THEN upBoxes \ {c} ELSE upBoxes \cup {c}
  /\ UNCHANGED <<knownBoxes, stacksOpen, shownBoxes, asked, job>>

-----------------------------------------------------------------------------
StackInit ==
  /\ upBoxes \in SUBSET Containers
  /\ knownBoxes = {} /\ stacksOpen = FALSE /\ shownBoxes = {}
  /\ asked = NotAsked /\ job = NoJob

StackNext ==
  \/ KnowBoxes \/ DrawStacks \/ CloseStacks \/ ReportStack
  \/ \E action \in {"stop", "restart"}, stack \in Shelves :
       AskStack(action, stack) \/ StackCommand(action, stack)
  \/ \E yes \in BOOLEAN : AnswerStack(yes)
  \/ \E c \in Containers : BoxChanges(c) \/ \E ok \in BOOLEAN : ActOnNext(c, ok)

StackSpec == StackInit /\ [][StackNext]_stackVars

-----------------------------------------------------------------------------
\* An action on a compose project has reached, when it reports, every container that its box
\* named and the engine still knew when it started, and none of another project
\* (engine/actions.py, stack_action).
StackIsReached ==
  job.todo = {} /\ job.stack # "-" =>
    /\ job.named \subseteq job.reached
    /\ \A c \in job.reached : Shelf(c) = job.stack

\* "Stop or restart every container of a compose project" (engine/actions.py, stack_action),
\* where "unlabelled ones" are a project too, "-" (stacks): what the box named is reached.
\* TLC refutes this; it has no run of its own (README, section 5).
EveryStackIsReached == job.todo = {} => job.named \subseteq job.reached
===============================================================================
