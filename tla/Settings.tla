------------------------------- MODULE Settings -------------------------------
(***************************************************************************)
(* The configuration of a dashboard: the file (config.py), the dict that   *)
(* the app and its engine share, what both run with, the Settings screen   *)
(* and the wizard that edit it, the view preferences that are remembered   *)
(* in it and the watcher that reads the file again (tui/app_settings.py).  *)
(* Other processes write the file meanwhile: an editor, `lirts config`.    *)
(*                                                                         *)
(* Abstracted: every value is a BOOLEAN (a theme is one of two, "sources"  *)
(* says whether Docker and Kubernetes are in the list); the keys are one   *)
(* of each sort: previewed, live, in the file only, view preference.       *)
(***************************************************************************)
EXTENDS Integers

CONSTANTS
  Defaults,          \* DEFAULT_CONFIG
  LastWrite, LastEdit \* bounds: versions of the file, edits made

ConfigKeys == {"theme", "sources", "kubernetes.enabled", "docker.enabled", "group_by_stack"}

\* SETTINGS: docker.enabled is a key of the file, and not one of the settings.
SettingKeys == ConfigKeys \ {"docker.enabled"}

\* The keys the wizard asks for (SETUP_STEPS).
StepKeys == SettingKeys

Values == [ConfigKeys -> BOOLEAN]

ASSUME SettingsAssumption == Defaults \in Values /\ {LastWrite, LastEdit} \subseteq Nat

VARIABLES
  file,      \* on disk: is it there, its values, is it of an older schema
  written,   \* its modification time
  config,    \* the dict in memory
  loaded,    \* _exists and outdated_reason, as they were when it was loaded
  seen,      \* _config_mtime
  ran,       \* what app and engine run with: apply_setting
  screen,    \* [on, dirty, theme, chosen, answers]: the screen that is open; "remembering" is the
             \* dashboard between the two calls of _remember
  picking,   \* the picker that is open: its theme_before
  welcomed,  \* the marker of the first start
  edited,    \* history: keys of config that differ since it was last read or written whole, because
             \* they were changed in memory or by a write that _remember stamped unread
  edits      \* how many edits there were

settingsVars == <<file, written, config, loaded, seen, ran, screen, picking, welcomed, edited, edits>>

NoScreen == [on |-> "none", dirty |-> FALSE, theme |-> FALSE, chosen |-> FALSE, answers |-> Defaults]
Off == [NoScreen EXCEPT !.on = "off"]

SettingsTypeOK ==
  /\ file \in [there : BOOLEAN, values : Values, old : BOOLEAN]
  /\ written \in 0 .. LastWrite + 1 /\ seen \in 0 .. LastWrite + 1
  /\ config \in Values /\ ran \in Values
  /\ loaded \in [exists : BOOLEAN, old : BOOLEAN]
  /\ screen \in [on : {"off", "none", "remembering", "settings", "setup"}, dirty : BOOLEAN, theme : BOOLEAN,
                 chosen : BOOLEAN, answers : Values]
  /\ picking \subseteq BOOLEAN
  /\ welcomed \in BOOLEAN /\ edited \subseteq ConfigKeys /\ edits \in 0 .. LastEdit

-----------------------------------------------------------------------------
(* config.py *)

\* load_config: the file's known keys over the defaults.
LoadConfig == IF file.there THEN file.values ELSE Defaults

Loaded == [exists |-> file.there, old |-> file.there /\ file.old]

\* save_config: the whole dict, under the current schema.
Saved(values) ==
  /\ written <= LastWrite
  /\ file' = [there |-> TRUE, values |-> values, old |-> FALSE]
  /\ written' = written + 1

NotSaved == UNCHANGED <<file, written>>

-----------------------------------------------------------------------------
(* What a changed setting does to the running app. *)

\* apply_setting for the settings that changed, and set_sources: the sources
\* take Docker and Kubernetes with them, kubernetes.enabled asks no source.
ApplySettings(changed, values) ==
  [k \in ConfigKeys |->
     CASE k = "docker.enabled" /\ "sources" \in changed -> values[k] /\ values["sources"]
       [] k = "kubernetes.enabled" /\ k \notin changed /\ "sources" \in changed ->
            values[k] /\ values["sources"]
       [] k # "docker.enabled" /\ k \in changed -> values[k]
       [] OTHER -> ran[k]]

Edit(k, v) ==
  /\ edits < LastEdit
  /\ edits' = edits + 1
  /\ config' = [config EXCEPT ![k] = v]
  /\ ran' = ApplySettings({k}, config')

\* EngineBase.__init__ and on_mount: all of it out of the dict.
RunWith(values) ==
  [values EXCEPT !["docker.enabled"] = @ /\ values["sources"],
                 !["kubernetes.enabled"] = @ /\ values["sources"]]

-----------------------------------------------------------------------------
(* The app starts and quits. *)

\* The wizard opens on the first start on a machine that has no config file.
OpenSetup(values) == [NoScreen EXCEPT !.on = "setup", !.answers = values]

Start ==
  /\ screen.on = "off"
  /\ config' = LoadConfig
  /\ loaded' = Loaded
  /\ ran' = RunWith(LoadConfig)
  /\ screen' = IF file.there \/ welcomed THEN NoScreen ELSE OpenSetup(LoadConfig)
  /\ welcomed' = TRUE
  /\ seen' = written
  /\ edited' = {}
  /\ UNCHANGED <<file, written, picking, edits>>

Quit ==
  /\ screen.on = "none"
  /\ screen' = Off
  /\ UNCHANGED <<file, written, config, loaded, seen, ran, picking, welcomed, edited, edits>>

-----------------------------------------------------------------------------
(* The Settings screen. *)

InSettings == screen.on = "settings" /\ picking = {}

OpenSettings ==
  /\ screen.on = "none"
  /\ screen' = [NoScreen EXCEPT !.on = "settings", !.theme = ran["theme"], !.chosen = config["theme"]]
  /\ UNCHANGED <<file, written, config, loaded, seen, ran, picking, welcomed, edited, edits>>

\* _apply of a value the screen's toggle, list or prompt has accepted.
Apply(k, v) ==
  /\ Edit(k, v)
  /\ edited' = edited \cup {k}
  /\ screen' = [screen EXCEPT !.dirty = TRUE]
  /\ UNCHANGED <<file, written, loaded, seen, welcomed>>

ChangeSetting(k) ==
  /\ InSettings
  /\ k \in SettingKeys \ {"theme"}
  /\ Apply(k, ~config[k])
  /\ UNCHANGED picking

OpenPicker ==
  /\ InSettings
  /\ picking' = {ran["theme"]}
  /\ UNCHANGED <<file, written, config, loaded, seen, ran, screen, welcomed, edited, edits>>

Preview(theme) ==
  /\ picking # {}
  /\ ran' = [ran EXCEPT !["theme"] = theme]
  /\ UNCHANGED <<file, written, config, loaded, seen, screen, picking, welcomed, edited, edits>>

Pick ==
  /\ picking # {}
  /\ Apply("theme", ran["theme"])
  /\ picking' = {}

CancelPicker ==
  /\ \E before \in picking : ran' = [ran EXCEPT !["theme"] = before]
  /\ picking' = {}
  /\ UNCHANGED <<file, written, config, loaded, seen, screen, welcomed, edited, edits>>

\* action_save; without the watcher's stamp, so that the watcher reads it again.
Save ==
  /\ InSettings
  /\ Saved(config)
  /\ screen' = [screen EXCEPT !.dirty = FALSE, !.theme = ran["theme"], !.chosen = config["theme"]]
  /\ loaded' = [exists |-> TRUE, old |-> FALSE]
  /\ edited' = {}
  /\ UNCHANGED <<config, seen, ran, picking, welcomed, edits>>

\* action_reset, confirmed: keys that are no settings are kept.
Reset ==
  /\ InSettings
  /\ edits < LastEdit
  /\ edits' = edits + 1
  /\ config' = [k \in ConfigKeys |-> IF k \in SettingKeys THEN Defaults[k] ELSE config[k]]
  /\ ran' = ApplySettings(SettingKeys, config')
  /\ screen' = [screen EXCEPT !.dirty = TRUE]
  /\ edited' = edited \cup SettingKeys
  /\ UNCHANGED <<file, written, loaded, seen, picking, welcomed>>

\* action_close with _restore_theme: a theme that was not saved is not chosen.
Close ==
  /\ InSettings
  /\ IF ran["theme"] = screen.theme THEN UNCHANGED <<config, ran, edited>>
     ELSE /\ config' = [config EXCEPT !["theme"] = screen.chosen]
          /\ ran' = [ran EXCEPT !["theme"] = screen.theme]
          /\ edited' = edited \cup {"theme"}
  /\ screen' = NoScreen
  /\ UNCHANGED <<file, written, loaded, seen, picking, welcomed, edits>>

-----------------------------------------------------------------------------
(* The wizard: its answers take effect on the summary. *)

\* action_setup, and action_wizard that leaves the Settings screen for it.
Wizard ==
  /\ screen.on = "none" \/ InSettings
  /\ screen' = OpenSetup(config)
  /\ UNCHANGED <<file, written, config, loaded, seen, ran, picking, welcomed, edited, edits>>

Answer(k) ==
  /\ screen.on = "setup"
  /\ k \in StepKeys
  /\ edits < LastEdit
  /\ edits' = edits + 1
  /\ screen' = [screen EXCEPT !.answers[k] = ~@]
  /\ UNCHANGED <<file, written, config, loaded, seen, ran, picking, welcomed, edited>>

\* _save: the answers that differ are applied, then the whole dict is written.
SaveSetup(saves) ==
  /\ screen.on = "setup"
  /\ LET changed == {k \in StepKeys : config[k] # screen.answers[k]} IN
     /\ config' = [k \in ConfigKeys |-> IF k \in changed THEN screen.answers[k] ELSE config[k]]
     /\ ran' = ApplySettings(changed, config')
     /\ edited' = IF saves THEN {} ELSE edited \cup changed
  /\ IF saves THEN Saved(config') /\ loaded' = [exists |-> TRUE, old |-> FALSE] /\ screen' = NoScreen
     ELSE NotSaved /\ UNCHANGED <<loaded, screen>>
  /\ UNCHANGED <<seen, picking, welcomed, edits>>

CancelSetup ==
  /\ screen.on = "setup"
  /\ screen' = NoScreen
  /\ UNCHANGED <<file, written, config, loaded, seen, ran, picking, welcomed, edited, edits>>

-----------------------------------------------------------------------------
(* View preferences, which the keys of the dashboard remember. *)

\* action_toggle_grouping and the first half of _remember: into the file if one
\* was loaded.
Remember(saves) ==
  /\ screen.on = "none"
  /\ Edit("group_by_stack", ~ran["group_by_stack"])
  /\ IF loaded.exists
     THEN /\ IF saves THEN Saved(config') ELSE NotSaved
          /\ screen' = [NoScreen EXCEPT !.on = "remembering"]
     ELSE NotSaved /\ UNCHANGED screen
  /\ edited' = IF loaded.exists /\ saves THEN {} ELSE edited \cup {"group_by_stack"}
  /\ UNCHANGED <<loaded, seen, picking, welcomed>>

\* Its second half: the event loop does nothing else before it, another process may.
Stamp ==
  /\ screen.on = "remembering"
  /\ seen' = written
  /\ screen' = NoScreen
  /\ UNCHANGED <<file, written, config, loaded, ran, picking, welcomed, edited, edits>>

\* action_cycle_theme: saved, whether there was a file or not, and not stamped.
CycleTheme(saves) ==
  /\ screen.on = "none"
  /\ Edit("theme", ~ran["theme"])
  /\ IF saves THEN Saved(config') ELSE NotSaved
  /\ edited' = IF saves THEN {} ELSE edited \cup {"theme"}
  /\ UNCHANGED <<loaded, seen, screen, picking, welcomed>>

-----------------------------------------------------------------------------
(* The watcher. *)

\* What the reload finds different, among the settings.
Changed(fresh) == {k \in SettingKeys : fresh[k] # config[k]}

\* The dict after the reload: it is cleared, and filled with all that was read.
ReloadedSettings(fresh) == [k \in ConfigKeys |-> IF k \in SettingKeys THEN fresh[k] ELSE config[k]]
Reloaded(fresh) == fresh

CheckConfigFile ==
  /\ screen.on \notin {"off", "remembering"}
  /\ seen # written
  /\ seen' = written
  /\ IF ~file.there THEN UNCHANGED <<config, loaded, ran, edited>>
     ELSE /\ config' = Reloaded(LoadConfig)
          /\ loaded' = Loaded
          /\ ran' = ApplySettings(Changed(LoadConfig), config')
          /\ edited' = {}
  /\ UNCHANGED <<file, written, screen, picking, welcomed, edits>>

-----------------------------------------------------------------------------
(* Other processes. *)

\* A write between the two calls of _remember is stamped as if it had been read.
StampedUnread == edited' = IF screen.on = "remembering" THEN ConfigKeys ELSE edited

\* An editor changes one key of the file, and nothing else.
EditFile(k) ==
  /\ file.there
  /\ edits < LastEdit
  /\ written <= LastWrite
  /\ file' = [file EXCEPT !.values[k] = ~@]
  /\ written' = written + 1
  /\ edits' = edits + 1
  /\ StampedUnread
  /\ UNCHANGED <<config, loaded, seen, ran, screen, picking, welcomed>>

\* `lirts config set`: the file is loaded, changed and written whole.
ConfigSet(k) ==
  /\ edits < LastEdit
  /\ Saved([LoadConfig EXCEPT ![k] = ~@])
  /\ edits' = edits + 1
  /\ StampedUnread
  /\ UNCHANGED <<config, loaded, seen, ran, screen, picking, welcomed>>

\* `lirts config init --force`, and `lirts config upgrade` of a file that needs it.
ConfigInit ==
  /\ Saved(Defaults)
  /\ StampedUnread
  /\ UNCHANGED <<config, loaded, seen, ran, screen, picking, welcomed, edits>>

ConfigUpgrade ==
  /\ file.there /\ file.old
  /\ Saved(LoadConfig)
  /\ StampedUnread
  /\ UNCHANGED <<config, loaded, seen, ran, screen, picking, welcomed, edits>>

RemoveFile ==
  /\ file.there
  /\ written <= LastWrite
  /\ file' = [file EXCEPT !.there = FALSE, !.old = FALSE]
  /\ written' = written + 1
  /\ StampedUnread
  /\ UNCHANGED <<config, loaded, seen, ran, screen, picking, welcomed, edits>>

-----------------------------------------------------------------------------
SettingsInit ==
  /\ \E there, old \in BOOLEAN :
        file = [there |-> there, values |-> Defaults, old |-> there /\ old]
  /\ written = 0 /\ seen = 0
  /\ config = Defaults /\ loaded = [exists |-> FALSE, old |-> FALSE]
  /\ ran = RunWith(Defaults)
  /\ screen = Off /\ picking = {}
  /\ welcomed \in BOOLEAN
  /\ edited = {} /\ edits = 0

SettingsNext ==
  \/ Start \/ Quit
  \/ OpenSettings \/ OpenPicker \/ Pick \/ CancelPicker \/ Save \/ Reset \/ Close
  \/ \E k \in ConfigKeys : ChangeSetting(k) \/ Answer(k) \/ EditFile(k) \/ ConfigSet(k)
  \/ \E v \in BOOLEAN : Preview(v) \/ SaveSetup(v) \/ Remember(v) \/ CycleTheme(v)
  \/ Stamp
  \/ Wizard \/ CancelSetup
  \/ CheckConfigFile
  \/ ConfigInit \/ ConfigUpgrade \/ RemoveFile

SettingsSpec == SettingsInit /\ [][SettingsNext]_settingsVars

-----------------------------------------------------------------------------
(* When the watcher has nothing new to read and nothing was changed in     *)
(* memory since, the dict is the file: no write of the wizard, the         *)
(* Settings screen, the theme key or another process is taken as read      *)
(* without being read (_config_mtime of _remember and _check_config_file), *)
(* but for those that come while a view preference is remembered: they,    *)
(* and a preference that could not be saved, are in `edited` until the     *)
(* file is read again.                                                     *)
ConfigFollowsFile ==
  screen.on # "off" /\ file.there /\ seen = written /\ edited = {} => config = file.values

\* "Reload the config file when it changed on disk and apply the differences"
\* (_check_config_file): a key that lirts changes nowhere, and no other write of
\* the app is outstanding, is what the file has once the watcher is content.
\* _remember takes the time of the file after it wrote it, or failed to, for the
\* time of what it knows.
\* TLC refutes this; it has no run of its own (README, section 5).
NoWriteIsMissed ==
  screen.on = "none" /\ file.there /\ seen = written =>
    config["docker.enabled"] = file.values["docker.enabled"]

\* "lirts never rewrites the file by itself: a file written for an older schema
\* still loads ... Upgrading is a manual step" (README.md, Configuration): of
\* the app only the Settings screen's save, the wizard and the theme key write over one.
\* TLC refutes this; it has no run of its own (README, section 5).
OutdatedFileIsKept ==
  [][file.old /\ ~file'.old =>
       \/ Save \/ SaveSetup(TRUE) \/ CycleTheme(TRUE)
       \/ ConfigInit \/ ConfigUpgrade \/ RemoveFile \/ \E k \in ConfigKeys : ConfigSet(k)]_settingsVars
=============================================================================
