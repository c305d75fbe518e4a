----------------------------- MODULE DaemonService ----------------------------
(***************************************************************************)
(* The daemon as a login service: the commands of `lirts daemon`           *)
(* (cli/daemon.py, daemon_install.py) and what the service manager of the  *)
(* platform, launchd or systemd, does with the file they write.  One       *)
(* daemon at most serves (module DaemonLifecycle): a second one says so    *)
(* and exits with an error.                                                *)
(*                                                                         *)
(* Outside the repository, and modelled by what the file asks for: launchd *)
(* starts a KeepAlive job whenever it ended, systemd a Restart=on-failure  *)
(* unit when it ended with an error, until it failed too often in a row.   *)
(***************************************************************************)
EXTENDS Naturals

CONSTANTS
  Managers,    \* the service managers, out of "launchd" and "systemd"
  StartLimit   \* starts in a row after which systemd gives a unit up

ASSUME ServiceAssumption ==
  Managers \subseteq {"launchd", "systemd"} /\ StartLimit \in Nat \ {0}

VARIABLES
  manager,   \* that of this machine
  homebrew,  \* this lirts comes from Homebrew, whose service is brew's business
  session,   \* the user is logged in
  file,      \* the service file is there
  enabled,   \* the manager reads it at a login: launchd unless told not to, systemd when told to
  unit,      \* what the manager holds of it: "unknown", "loaded", "failed"
  startDue,    \* the manager is about to start it
  failures,  \* its starts that failed in a row
  daemon,    \* who serves: "none", "service", "foreground"
  stopped    \* `lirts daemon stop` stopped the service, which nobody started again

serviceVars == <<manager, homebrew, session, file, enabled, unit, startDue, failures, daemon,
                 stopped>>

ServiceTypeOK ==
  /\ manager \in Managers /\ homebrew \in BOOLEAN /\ session \in BOOLEAN
  /\ file \in BOOLEAN /\ enabled \in BOOLEAN
  /\ unit \in {"unknown", "loaded", "failed"} /\ startDue \in BOOLEAN
  /\ failures \in 0 .. StartLimit
  /\ daemon \in {"none", "service", "foreground"} /\ stopped \in BOOLEAN

\* Mutant: the unit file does not ask for a restart.
NeverOnSystemd(clean) == manager = "launchd"

\* render: KeepAlive for launchd, Restart=on-failure for systemd.
RestartsAfter(clean) == manager = "launchd" \/ ~clean

-----------------------------------------------------------------------------
(* The commands. *)

\* What Homebrew installed is a brew service: the commands only say so, except that what an
\* earlier install left may be removed.
MayInstall == session /\ ~homebrew
MayUninstall == session /\ file
MayStartNow == session /\ ~homebrew /\ file

\* install: write the file, load it (`load -w`, `enable --now`); the manager may refuse, before
\* it enabled the service or after.
Install(accepted) ==
  /\ MayInstall
  /\ file' = TRUE
  /\ IF accepted
     THEN /\ unit' = "loaded" /\ failures' = 0 /\ stopped' = FALSE /\ enabled' = TRUE
          /\ startDue' = (daemon # "service")
     ELSE enabled' \in {enabled, TRUE} /\ UNCHANGED <<unit, failures, stopped, startDue>>
  /\ UNCHANGED <<manager, homebrew, session, daemon>>

\* uninstall: unload and disable, which ends the service, and remove the file, each if it works;
\* what the manager says to it is not looked at.
Uninstall(heeded, removed) ==
  /\ MayUninstall
  /\ file' = ~removed
  /\ IF heeded
     THEN /\ unit' = "unknown" /\ startDue' = FALSE /\ failures' = 0 /\ enabled' = FALSE
          /\ daemon' = IF daemon = "service" THEN "none" ELSE daemon
     ELSE UNCHANGED <<unit, startDue, failures, enabled, daemon>>
  /\ UNCHANGED <<manager, homebrew, session, stopped>>

StartCommand ==
  /\ MayStartNow
  /\ unit # "unknown" \/ manager = "systemd"
  /\ unit' = "loaded" /\ failures' = 0 /\ stopped' = FALSE
  /\ startDue' = (daemon # "service")
  /\ UNCHANGED <<manager, homebrew, session, file, enabled, daemon>>

\* daemon_stop: the daemon that answers is asked to stop, and ends without an error.
StopCommand ==
  /\ session /\ daemon # "none"
  /\ daemon' = "none"
  /\ IF daemon = "service"
     THEN stopped' = TRUE /\ startDue' = (unit = "loaded" /\ RestartsAfter(TRUE))
     ELSE UNCHANGED <<stopped, startDue>>
  /\ UNCHANGED <<manager, homebrew, session, file, enabled, unit, failures>>

\* `lirts daemon` without a sub-command, until Ctrl-C.
Foreground ==
  /\ session /\ daemon = "none"
  /\ daemon' = "foreground"
  /\ UNCHANGED <<manager, homebrew, session, file, enabled, unit, startDue, failures, stopped>>

EndForeground ==
  /\ daemon = "foreground"
  /\ daemon' = "none"
  /\ UNCHANGED <<manager, homebrew, session, file, enabled, unit, startDue, failures, stopped>>

-----------------------------------------------------------------------------
(* The machine. *)

\* The manager starts the service: serve() refuses to be the second daemon.
ManagerStarts ==
  /\ session /\ startDue
  /\ IF daemon = "none"
     THEN /\ daemon' = "service" /\ startDue' = FALSE /\ failures' = 0
          /\ UNCHANGED unit
     ELSE /\ failures' = IF failures < StartLimit THEN failures + 1 ELSE failures
          /\ unit' = IF manager = "systemd" /\ failures' = StartLimit THEN "failed" ELSE unit
          /\ startDue' = (unit' = "loaded" /\ RestartsAfter(FALSE))
          /\ UNCHANGED daemon
  /\ UNCHANGED <<manager, homebrew, session, file, enabled, stopped>>

\* The service dies.
Dies ==
  /\ daemon = "service"
  /\ daemon' = "none"
  /\ startDue' = (unit = "loaded" /\ RestartsAfter(FALSE))
  /\ UNCHANGED <<manager, homebrew, session, file, enabled, unit, failures, stopped>>

\* A file a refused install or an uninstall left behind is not enabled.
Login ==
  /\ ~session
  /\ session' = TRUE
  /\ unit' = IF file /\ enabled THEN "loaded" ELSE "unknown"
  /\ startDue' = (file /\ enabled) /\ failures' = 0 /\ stopped' = FALSE
  /\ UNCHANGED <<manager, homebrew, file, enabled, daemon>>

Logout ==
  /\ session
  /\ session' = FALSE
  /\ daemon' = "none" /\ startDue' = FALSE /\ unit' = "unknown"
  /\ UNCHANGED <<manager, homebrew, file, enabled, failures, stopped>>

-----------------------------------------------------------------------------
\* A lirts from Homebrew may find the file of an install before it.
ServiceInit ==
  /\ manager \in Managers /\ homebrew \in BOOLEAN
  /\ session = FALSE /\ file \in BOOLEAN /\ enabled \in BOOLEAN
  /\ unit = "unknown" /\ startDue = FALSE /\ failures = 0 /\ daemon = "none" /\ stopped = FALSE

ServiceNext ==
  \/ \E ok \in BOOLEAN : Install(ok) \/ \E heeded \in BOOLEAN : Uninstall(heeded, ok)
  \/ StartCommand \/ StopCommand \/ Foreground \/ EndForeground
  \/ ManagerStarts \/ Dies \/ Login \/ Logout

ServiceSpec == ServiceInit /\ [][ServiceNext]_serviceVars

\* The manager does what the file asks for.
FairServiceSpec == ServiceSpec /\ WF_serviceVars(ManagerStarts)

-----------------------------------------------------------------------------
(* A daemon that is installed keeps running: after a crash, a login or a   *)
(* start against a daemon in the foreground the manager brings it back,    *)
(* unless the user stopped it, it was given up, or it is not loaded        *)
(* (render, install).                                                      *)
InstalledRuns ==
  (session /\ unit = "loaded" /\ ~stopped) ~>
    (daemon # "none" \/ unit # "loaded" \/ stopped \/ ~session)

(* "an installed one comes back at the next login" (daemon_stop,           *)
(* cli/daemon.py): a service that `lirts daemon stop` stopped does not     *)
(* run again before a login, an install or a start.                        *)
(* TLC refutes this; it has no run of its own (README, section 5).         *)
StopLasts == stopped => daemon # "service"
=============================================================================
