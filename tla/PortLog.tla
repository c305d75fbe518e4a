------------------------------ MODULE PortLog ------------------------------
(***************************************************************************)
(* What the event stream of a history store promises to its reader: a      *)
(* session opens with the ports that are up, every port that goes down     *)
(* later is reported, and nothing is reported up that is not.  A port that *)
(* comes up may stay unreported (it was away for the retention or longer). *)
(***************************************************************************)
CONSTANT Keys

VARIABLES
  up,    \* the ports that are up
  told,  \* the ports the reader of the events believes to be up
  open   \* the session has its first picture

logVars == <<up, told, open>>

Init == up = {} /\ told = {} /\ open = FALSE

\* A new process of lirts: nothing is known and nothing was told.
NewSession ==
  /\ up' = {}
  /\ told' = {}
  /\ open' = FALSE

\* The first refresh shows the ports without events.
FirstPicture ==
  /\ ~open
  /\ up' \in SUBSET Keys
  /\ told' = up'
  /\ open' = TRUE

\* A later refresh reports every port that went down and some that came up.
Observe ==
  /\ open
  /\ up' \in SUBSET Keys
  /\ told' \subseteq up'
  /\ told \cap up' \subseteq told'
  /\ told' \ told \subseteq up' \ up
  /\ UNCHANGED open

Next == NewSession \/ FirstPicture \/ Observe

Spec == Init /\ [][Next]_logVars

=============================================================================
