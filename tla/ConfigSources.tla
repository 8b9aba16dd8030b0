--------------------------- MODULE ConfigSources ---------------------------
(***************************************************************************)
(* Where the values of a configuration come from: the built-in DEFAULTS,   *)
(* the configuration file and the options of tc-limit daemon, at its start *)
(* and at the reloads that follow.                                         *)
(*                                                                         *)
(* The value of a setting is the layer it was taken from.  DEFAULTS is a   *)
(* dictionary of dictionaries: dict(DEFAULTS) copies the outer one only,   *)
(* so that a section that the file does not have, not even empty, is the   *)
(* one of DEFAULTS itself, and an option written into it stays for the     *)
(* life of the process.                                                    *)
(***************************************************************************)
EXTENDS Naturals

\* Every setting of Config, with its section; "top" has no dictionary of its own.
SectionOf ==
    [higher |-> "limits", lower |-> "limits", threshold |-> "limits",
     duration |-> "window", interval |-> "window",
     burst_enabled |-> "burst", burst_window |-> "burst", burst_threshold_mb |-> "burst",
     cooldown |-> "top", recovery_steps |-> "top",
     interface |-> "network", burst_kbit |-> "network",
     dry_run |-> "runtime", log_level |-> "runtime",
     state_file |-> "runtime", pid_file |-> "runtime",
     enabled |-> "storage", path |-> "storage",
     commit_interval |-> "storage", retention_days |-> "storage"]

\* reload_config carries these over from the previous configuration.
Frozen == {"duration", "interval", "burst_enabled", "burst_window", "burst_threshold_mb",
           "recovery_steps"}

\* The arguments of tc-limit daemon.
LimitArguments == {"higher", "lower", "threshold", "duration", "interval", "cooldown"}
Arguments ==
    LimitArguments \cup {"interface", "dry_run", "log_level", "state_file", "pid_file"}

CONSTANT Settings   \* the settings looked at

ASSUME SettingsAssumption == Settings \subseteq DOMAIN SectionOf

SectionsOf(settings) == {SectionOf[s] : s \in settings} \ {"top"}

\* A file by the settings it has a value for and the sections it has; a section may hold
\* none of the settings looked at.
Contents ==
    {c \in [values : SUBSET Settings, sections : SUBSET SectionsOf(Settings)] :
        SectionsOf(c.values) \subseteq c.sections}
Missing == [found |-> FALSE, values |-> {}, sections |-> {}]
Files == {[found |-> TRUE, values |-> c.values, sections |-> c.sections] : c \in Contents}

Layers == {"default", "file", "option"}

VARIABLES file,       \* what is at the path of the configuration file
          up,         \* the daemon runs
          args,       \* the options it was started with
          defaults,   \* DEFAULTS of its process
          config, source

vars == << file, up, args, defaults, config, source >>

BuiltIn == [s \in Settings |-> "default"]

Init ==
    /\ file \in Files \cup {Missing}
    /\ up = FALSE /\ args = {}
    /\ defaults = BuiltIn /\ config = BuiltIn /\ source = "<defaults>"

-----------------------------------------------------------------------------

\* _deep_merge(DEFAULTS, file); a missing file merges nothing.
DeepMerge(base, f) == [s \in Settings |-> IF s \in f.values THEN "file" ELSE base[s]]

\* Slip: what the file has is not overridden.
FileFirst(given, raw) == {s \in given : raw[s] # "file"}

\* Every option but None is applied.
Overriding(given, raw) == given

\* _build_config hands dry_run over even when --dry-run was not given: store_true
\* makes it False, the value it has by default.
Given(options) == options \cup ({"dry_run"} \cap Settings)

\* Slip: what --dry-run was not given for counts as given.
AlwaysGiven(options, s) == "option"

OptionValue(options, s) == IF s \in options THEN "option" ELSE "default"

\* _apply_cli_overrides on the merged dictionary,
Apply(options, raw) ==
    [s \in Settings |-> IF s \in Overriding(Given(options), raw) THEN OptionValue(options, s)
                                                                 ELSE raw[s]]

\* and on DEFAULTS, where the section is shared with it.
Shared(f, s) == SectionOf[s] # "top" /\ SectionOf[s] \notin f.sections

\* Slip: the file is merged into DEFAULTS in place.
AppliedInPlace(options, f) == Apply(options, DeepMerge(defaults, f))

AppliedToDefaults(options, f) ==
    [s \in Settings |-> IF s \in Given(options) /\ Shared(f, s) THEN OptionValue(options, s)
                                                                ELSE defaults[s]]

\* The path that the next reload reads: a missing file is not looked for again.
SourceOf(f) == IF f.found THEN "path" ELSE "<defaults>"

\* tc-limit daemon: load_config, and the daemon runs if the result is valid.
Start ==
    /\ ~up /\ up' = TRUE
    /\ \E options \in SUBSET (Settings \cap Arguments) :
          /\ args' = options
          /\ config' = Apply(options, DeepMerge(defaults, file))
          /\ defaults' = AppliedToDefaults(options, file)
    /\ source' = SourceOf(file)
    /\ UNCHANGED file

\* What load_config(previous._source_path) finds.
Reread == IF source = "path" THEN file ELSE Missing

CarryOver(new) == [s \in Settings |-> IF s \in Frozen THEN config[s] ELSE new[s]]

\* SIGHUP: load_config without options.
Reload ==
    /\ up
    /\ config' = CarryOver(DeepMerge(defaults, Reread))
    /\ source' = SourceOf(Reread)
    /\ UNCHANGED << file, up, args, defaults >>

\* The result is not valid, ValueError: the daemon keeps what it has, which is no step.
\* A section that is no dictionary raises another exception, which ends the daemon, as
\* SIGTERM does; the next one is a new process.
Stop ==
    /\ up /\ up' = FALSE
    /\ args' = {} /\ defaults' = BuiltIn /\ config' = BuiltIn /\ source' = "<defaults>"
    /\ UNCHANGED file

\* The file is edited, created or removed.
Edit ==
    /\ file' \in (Files \cup {Missing}) \ {file}
    /\ UNCHANGED << up, args, defaults, config, source >>

Next == Start \/ Reload \/ Stop \/ Edit

Spec == Init /\ [][Next]_vars

-----------------------------------------------------------------------------

\* Types; only the values of options are left in DEFAULTS, and only of the process's own.
TypeOK ==
    /\ file \in Files \cup {Missing}
    /\ up \in BOOLEAN /\ args \subseteq Settings \cap Arguments
    /\ defaults \in [Settings -> {"default", "option"}]
    /\ config \in [Settings -> Layers]
    /\ source \in {"path", "<defaults>"}
    /\ \A s \in Settings : "option" \in {defaults[s], config[s]} => s \in args

\* What load_config says of the priority: options, then the file, then the defaults.
Prioritised(s) ==
    config'[s] = IF s \in args' THEN "option" ELSE IF s \in file.values THEN "file" ELSE "default"

\* A daemon starts with what the priority gives it, but for dry_run.
StartFollowsPriority ==
    [][~up /\ up' => \A s \in Settings \ {"dry_run"} : Prioritised(s)]_vars

\* A reload of a file that was there at every load before shows the file as it is now: a
\* hot setting that was given as no option has the file's value, and the built-in default
\* once the file has none, whatever the loads and the edits before.  [network] needs a
\* restart for the documentation, and is left out.
ReloadFollowsFile ==
    [][Reload /\ source = "path" =>
          \A s \in Settings \ (Frozen \cup args) :
              SectionOf[s] # "network" =>
                  config'[s] = IF s \in file.values THEN "file" ELSE "default"]_vars

=============================================================================
