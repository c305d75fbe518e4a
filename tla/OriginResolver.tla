---------------------------- MODULE OriginResolver ----------------------------
(***************************************************************************)
(* Where a process was started from: the shell, terminal, tmux window and  *)
(* branch shown of a row (collectors/origin.py, and the step of a refresh  *)
(* that asks for them, engine/enrichment.py).                              *)
(*                                                                         *)
(* Processes end while a refresh walks them, and their numbers are taken   *)
(* by others.  A process is its chain of ancestors and its terminal        *)
(* device.  The name of a shell, terminal or supervisor stands for all     *)
(* that are matched alike; a branch is the number of the last checkout.    *)
(***************************************************************************)
EXTENDS Lists, SequencesExt

CONSTANTS
  OriginPids,
  Chains,          \* what a process may descend from: sequences of names, nearest first
  ShellNames, TerminalNames, SupervisorNames,
  LongestChain,    \* how many ancestors are looked at
  BranchSeconds,   \* ORIGIN_BRANCH_CACHE_SECONDS
  TmuxSeconds,
  LastCheckout,    \* bound: the checkouts of a behaviour
  LastOriginTime   \* bound: the time of a behaviour

ASSUME OriginAssumption ==
  /\ {BranchSeconds, TmuxSeconds} \subseteq Nat
  /\ {LongestChain, LastOriginTime} \subseteq Nat \ {0}
  /\ SupervisorNames \subseteq TerminalNames

Nowhere == "none"
SshSession == "ssh session"
NoProcess == [chain |-> <<>>, tty |-> Nowhere, there |-> FALSE]

VARIABLES
  originTime,
  tree,        \* per number the process that has it
  head,        \* the folder's branch, and since when
  window,      \* the tmux window of the one terminal device; tmux may not answer
  walked,      \* OriginResolver._cache
  branch,      \* OriginResolver._branches
  tmux,        \* OriginResolver._tmux and _tmux_at
  rowsLeft,      \* numbers the refresh under way found, in the order of its rows
  rowOrigin    \* the origins this refresh has attached

originVars == <<originTime, tree, head, window, walked, branch, tmux, rowsLeft, rowOrigin>>

-----------------------------------------------------------------------------
(* _walk. *)

\* The walk ends at the first terminal, or at an ssh session; a supervisor on the way is
\* remembered and passed.
Stops(c) == {i \in DOMAIN c : c[i] \in TerminalNames \ SupervisorNames \/ c[i] = SshSession}

Nearest(chain) ==
  LET c == SubSeq(chain, 1, Min({Len(chain), LongestChain}))
  IN IF Stops(c) = {} THEN c ELSE SubSeq(c, 1, Min(Stops(c)))

FirstIn(c, names) ==
  LET I == {i \in DOMAIN c : c[i] \in names} IN IF I = {} THEN Nowhere ELSE c[Min(I)]

Ancestry(chain) ==
  LET c == Nearest(chain)
  IN [shell      |-> FirstIn(c, ShellNames),
      terminal   |-> FirstIn(c, (TerminalNames \ SupervisorNames) \cup {SshSession}),
      supervisor |-> FirstIn(c, SupervisorNames)]

\* _tmux_map: what tmux answers, nothing when it fails, for TmuxSeconds.
TmuxMap == IF originTime - tmux.at > TmuxSeconds THEN [at |-> originTime, map |-> window] ELSE tmux

\* A process that is gone has no origin, and keeps none: that is cached as well.
Walk(pid) ==
  IF ~tree[pid].there
  THEN [shell |-> Nowhere, terminal |-> Nowhere, supervisor |-> Nowhere, tmux |-> Nowhere]
  ELSE Merged(Ancestry(tree[pid].chain),
              [tmux |-> IF tree[pid].tty = Nowhere THEN Nowhere ELSE TmuxMap.map])

-----------------------------------------------------------------------------
\* git_branch: HEAD of the folder, read again after BranchSeconds.
GitBranch == IF branch.at > 0 /\ originTime - branch.at < BranchSeconds THEN branch
             ELSE [at |-> originTime, head |-> head.branch]

\* A refresh lists the sockets of processes that run.
ListRows(s) ==
  /\ rowsLeft = <<>>
  /\ Range(s) \subseteq {p \in OriginPids : tree[p].there}
  /\ rowsLeft' = s /\ rowOrigin' = <<>>
  /\ UNCHANGED <<originTime, tree, head, window, walked, branch, tmux>>

\* resolve: one row; then forget, when it was the last.
Resolve ==
  /\ rowsLeft # <<>>
  /\ LET pid   == Head(rowsLeft)
         known == pid \in DOMAIN walked
         mine  == IF known THEN walked[pid] ELSE Walk(pid)
         all   == Noted(walked, pid, mine)
     IN /\ tmux' = IF ~known /\ tree[pid].there /\ tree[pid].tty # Nowhere THEN TmuxMap ELSE tmux
        /\ branch' = GitBranch
        /\ rowOrigin' = Noted(rowOrigin, pid, Merged([branch |-> branch'.head, at |-> originTime], mine))
        /\ walked' = IF Len(rowsLeft) = 1 THEN Restrict(all, DOMAIN rowOrigin') ELSE all
        /\ rowsLeft' = Tail(rowsLeft)
  /\ UNCHANGED <<originTime, tree, head, window>>

-----------------------------------------------------------------------------
(* The machine. *)

OriginTick ==
  /\ originTime < LastOriginTime
  /\ originTime' = originTime + 1
  /\ UNCHANGED <<tree, head, window, walked, branch, tmux, rowsLeft, rowOrigin>>

Launch(p, c, t) ==
  /\ ~tree[p].there
  /\ tree' = [tree EXCEPT ![p] = [chain |-> c, tty |-> t, there |-> TRUE]]
  /\ UNCHANGED <<originTime, head, window, walked, branch, tmux, rowsLeft, rowOrigin>>

Leaves(p) ==
  /\ tree[p].there
  /\ tree' = [tree EXCEPT ![p] = NoProcess]
  /\ UNCHANGED <<originTime, head, window, walked, branch, tmux, rowsLeft, rowOrigin>>

Checkout ==
  /\ head.branch < LastCheckout
  /\ head' = [branch |-> head.branch + 1, since |-> originTime]
  /\ UNCHANGED <<originTime, tree, window, walked, branch, tmux, rowsLeft, rowOrigin>>

RenameWindow(w) ==
  /\ w # window
  /\ window' = w
  /\ UNCHANGED <<originTime, tree, head, walked, branch, tmux, rowsLeft, rowOrigin>>

OriginInit ==
  /\ originTime = 1 /\ tree = [p \in OriginPids |-> NoProcess]
  /\ head = [branch |-> 0, since |-> 0] /\ window = "w1"
  /\ walked = <<>> /\ branch = [at |-> 0, head |-> 0] /\ tmux = [at |-> -TmuxSeconds, map |-> Nowhere]
  /\ rowsLeft = <<>> /\ rowOrigin = <<>>

OriginNext ==
  \/ OriginTick \/ Resolve \/ Checkout
  \/ \E p \in OriginPids :
       Leaves(p) \/ \E c \in Chains, t \in {Nowhere, "tty"} : Launch(p, c, t)
  \/ \E w \in {"w1", Nowhere} : RenameWindow(w)
  \/ \E s \in UNION {[1..n -> OriginPids] : n \in 1..2} : ListRows(s)

OriginSpec == OriginInit /\ [][OriginNext]_originVars

-----------------------------------------------------------------------------
\* The type of every variable; between refreshes the cache holds the rows of the last one.
OriginTypeOK ==
  /\ originTime \in 1..LastOriginTime
  /\ DOMAIN walked \cup DOMAIN rowOrigin \subseteq OriginPids
  /\ rowsLeft = <<>> => DOMAIN walked \subseteq DOMAIN rowOrigin
  /\ branch.head <= head.branch

\* The branch a row shows is not older than the cache allows: if the last checkout was
\* before that, the row has it, although it is kept per folder and the rest of the origin
\* per process, until its number is listed no more (origin.py:1, "branches are re-read every
\* 30 s at most").
BranchIsRecent ==
  \A p \in DOMAIN rowOrigin :
    LET o == rowOrigin[p]
    IN head.since < o.at - BranchSeconds => o.branch = head.branch

\* A refresh attaches to a row the origin of the process that runs there.  TLC refutes
\* this: a number that another process took between two refreshes keeps the origin of the
\* first one, as forget() only asks whether the number is listed (origin.py:201,
\* "a process's ancestry does not change").  It has no run of its own (README, section 5).
OriginIsOwn ==
  [][rowsLeft # <<>> /\ rowsLeft' # rowsLeft /\ tree[Head(rowsLeft)].there =>
       rowOrigin'[Head(rowsLeft)].shell = Ancestry(tree[Head(rowsLeft)].chain).shell]_originVars

=============================================================================
