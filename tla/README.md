# Verification of tc-limit (bandwidth-limiter)

tc-limit is a Python daemon that samples the byte counters of a network
interface, limits both directions with `tc` when a sliding window of traffic
exceeds a threshold, and gives the bandwidth back after a cooldown, at once or in
steps. This directory holds TLA+ modules translated from its source, TLC runs
that check them on small instances, and TLAPS proofs for every instance.

All paths are relative to the repository; `daemon.py` stands for
`src/tc_limit/daemon.py` and so on.

## 1. Inventory

| Component | State | Operations | Interacts through | What makes it correct |
|---|---|---|---|---|
| Ring buffer (`sampler.py` `RingBuffer`) | slots, write index, count of filled slots | push, clear, is_full, sum | owned by the daemon, two instances | it is the window of the last N samples, after any wrap and any clear |
| Counter reading (`sampler.py`) | none (kernel counters) | read_counters, read_counters_split | raises when the interface is gone | a failed or wrapped read is not taken for traffic |
| Executor (`executor.py`) | none of its own; the kernel's qdiscs, classes, redirect and ifb0 | tc_init, tc_change_rate, tc_cleanup, tc_show | subprocesses; critical commands raise, others are logged | what it reports set up is set up, in both directions, from any leftover state |
| Configuration (`config.py`) | a `Config` object per load, the file, the module-level `DEFAULTS` | load_config, reload_config, validation, derived values | called at start and on SIGHUP | limits ordered; each value from the right layer; what cannot be reloaded is carried over |
| Daemon (`daemon.py` `Daemon`) | configuration, state machine, windows, counters, flags | run, the state machine, signal handlers, reload, shutdown | everything above, storage, state file | see section 4 |
| State persistence (`daemon.py` `save_state`, `load_state`) | the state file | save by write and rename, load, unlink | outlives the process; read by `tc-limit status` | a limit survives a crash for exactly its cooldown |
| Lock and PID file (`daemon.py` `acquire_lock`, `release_lock`) | the PID file and its flock | acquire, release | `tc-limit stop`, `reload` read it | one instance at a time; signals reach that instance |
| Command line (`cli.py`) | none | daemon, stop, status, reload, report | signals to the PID in the file | a stop is a clean stop |
| Storage (`storage/`) | pending rows, SQLite tables | insert, flush, rotate, aggregate, query | called by the daemon, off by default | rows neither lost nor duplicated; a failure never stops the daemon |
| Templates, analyzer | none | text; a placeholder | | |
| Installer and unit (`setup.sh`) | files | install, unit with `Restart=always` | systemd starts, stops, reloads | |
| Legacy daemon (`old_scripts/tc_limit.sh`) | replaced by the Python one | | | |

The hard behaviours are the crash of the daemon between two of its effects
(kernel, state file), tc commands that fail one at a time, signals at any moment,
configurations that change under a running daemon, wake-ups that come late, the
rounding of the recovery steps, several processes around one PID file, and database
statements that fail half way. `PROJECT.json` lists each as a hazard, with
its line and the properties aimed at it.

## 2. Modules

| Module | Models | Kind |
|---|---|---|
| `RingBuffer` | `RingBuffer` as operators on a record | operators |
| `SlidingWindow` | the last N samples as a sequence | abstract specification |
| `Sampler` | one buffer under any pushes and clears | state machine, refines `SlidingWindow` |
| `Config` | validation, derived values, `reload_config` | operators |
| `TrafficControl` | the commands of the three executor calls; the kernel's answer to each | operators |
| `Executor` | executor calls in any order on any kernel, with faults | state machine |
| `Limiter` | what a recorded limit promises | abstract specification |
| `Daemon` | the daemon, its files, the kernel, signals, crash and restart | state machine, composes the operators above |
| `DaemonProperties` | invariants, action properties, liveness, refinement of `Limiter` | properties |
| `MCDaemon` | small configurations and files for TLC | instances |
| `OperatorLemmas` | lemmas about the operators of `RingBuffer` and `TrafficControl` | proofs |
| `SamplerProofs` | the buffer as a window, and its sum | proofs |
| `ExecutorProofs` | the executor's promises from an invariant of its calls | proofs |
| `DaemonProofs` | types, durability, the refinement of `Limiter` | proofs |
| `EnforcementProofs` | what the kernel holds, the ramp, the triggers | proofs |
| `Lifecycle` | processes, the PID file, flock, stop and reload, the unit's runtime directory | state machine |
| `LifecycleProperties` | what lock, PID file and commands promise | properties |
| `MCLifecycle` | symmetry for TLC | instances |
| `LifecycleProofs` | the lock's invariant, the pursuit of `tc-limit stop` | proofs |
| `Storage` | the database, its connection, the daemon's calls | state machine |
| `StorageProperties` | what the database promises; the queries | properties |
| `StorageProofs` | rows: once, kept, in time, for the retention | proofs |
| `ConfigSources` | defaults, file and options, over starts and reloads | state machine with its properties |
| `ConfigSourcesProofs` | its properties; what the templates are good for | proofs |
| `Templates` | both templates of `generate_yaml` and the example file, as configurations of `Config` | operators |

`Daemon` composes `RingBuffer`, `Config` and `TrafficControl`. `Lifecycle` sees a daemon
only from outside: tc rules are there or not, the state file belongs to a process.
`Storage` repeats the part of the loop that feeds the database, and
`ConfigSources` the part of `load_config` and `reload_config` that `Config` takes
for granted. They share no variables with `Daemon` and are not composed with it.

Definitions preceded by "Slip:" are not part of the model. Each is a plausible bug of
the definition after it; with the slip in its place the run named under
"mutants" in `PROJECT.json` must fail.

### How `Daemon` corresponds to the code

One step is a stretch of code with one effect that the outside can see: one tc
command (`CommandWorks`, `CommandIgnored`, `CommandRaises`), one rename of the
state file (`FinishStartup`, `SaveSwitch`, `SaveReload`, `FinishIteration`), one
change of the state machine. `pc` says where the daemon is, `tc` holds the
commands left of the current executor call, so that a signal, a crash or a failure
can come between any two commands.

| `pc` | in the code |
|---|---|
| `down` | no process |
| `init` | `run`, lines 208-248: lock, load_state, tc_init, the seeding read |
| `head` | the `while` test, line 259 |
| `asleep` | `time.sleep(interval)` |
| `awake`, `reloading`, `reloaded` | lines 263-269 and `_do_reload` |
| `sampling` | lines 272-299 |
| `evaluate`, `switching`, `recovered` | `_evaluate_state_machine`, `_enter_normal` |
| `summary` | lines 326-335 |
| `stopping` | `_shutdown_handler` |

Clocks are ages. The code compares `now` with a saved time; the model keeps the
time since (`cooldown_age`, `summary_age`, the age in the state file), advanced by
`Wake` and `Start`. A saved age of `None` is the `null` of the file.
Bytes are counted in units of 125000 (one second at 1 Mbps): a megabyte of the
burst threshold is 8 of them. `unread` is the difference between the kernel's
counter and `prev_bytes`, so that a failed read carries its bytes over.

`recreated` is a history variable: since the start of the daemon the interface was
removed and created again (`InterfaceRecreated`, a step of the environment), which takes its
qdiscs away. The daemon may see it as a failed read, as a counter that went back
(`CounterReset`), or not at all.

`state_file` removed is `NoFile`; `load_state` treats an unreadable file like it.
The file and the directory survive the process. That is not so under the shipped
unit, whose `RuntimeDirectory=` makes systemd remove `/run/tc-limit` when the
service stops (a hazard of its own); the model describes a daemon whose state
file is kept, as the documents assume.

A configuration file is readable YAML, missing, or malformed (a shape that makes
`load_config` raise something other than `ValueError`); a YAML syntax error is a
`ValueError`, like a refused value. A file whose windows are shorter than the interval is
valid but not `Bootable`.

### How `Lifecycle` corresponds to the code

A PID file is an inode (`Inodes`), the path leads to one or none (`path`). A
process keeps the inode it opened (`fd`), and a flock belongs to the inode
(`lock`), so that `release_lock` is three steps: unlock and close (`Release`), unlink
(`UnlinkPidFile`), then the state file (`RemoveRecord`). `acquire_lock` is `Open`,
`Lock` or `Refused`, `Truncate`, `WritePid`; a signal before `InstallHandlers` ends
the process. `tc-limit stop` and `reload` read the number, test it with signal 0,
signal it, and `stop` polls and kills: `cli` is one such command. A number is free,
a daemon's or another program's (`Recycle`); the unit's main process keeps its
number until systemd has seen it end.

Time passes in `Tick`: in the daemon's sleep, in its work and in the patience of `stop`
(`Patience`, 50 polls of 0.1 s). Work is what the code does with subprocesses and the
database: `tc_init` with the first save, the rest of an iteration (a reload's tc commands
included), `storage.close()` with `tc_cleanup`. Each takes any time up to `Work` (`Works`, chosen at
its beginning). `subprocess.run` has no timeout in `executor.py`, so `Work` is a constant of
the machine that the code does not bound. System calls take no time.

`orphaned`, `killed` and `cli.same` are history variables: a PID file was removed
while a daemon had it open, processes that ended without their shutdown, the
command is still after the daemon whose number it read.

### How `Storage` corresponds to the code

`view` is the database as the daemon's connection sees it, its open transaction
included; `disk` is what is committed. `Flush`, `Rotate` and `Aggregate` are
sequences of statements (`Then`), each with its outcomes: done, failed with the
transaction kept as it is, failed and rolled back. SQLite has both, depending on the
error. `executemany` may fail at any row, and Python's `sqlite3` leaves the rows before
it in the transaction; the queue is cleared only after it. `_next_commit` is set only by a
flush that succeeded, `_last_rotation_ts` only by a rotation that did.
Rows are their table and time; copies are numbered, so that a row stored twice
shows. `torn` and `rolled` record that a batch stayed half inserted, and that a
rollback took rows that were no longer queued. Integer volumes are abstracted to numbers of
samples; what rows hold is left out. A failed `open` is a daemon without storage.

### How `ConfigSources` corresponds to the code

The value of a setting is the layer it came from: `"default"`, `"file"`, `"option"`.
`dict(DEFAULTS)` copies the outer dictionary only, so an option written
into a section that the file does not have is written into `DEFAULTS` (`Shared`,
`AppliedToDefaults`) and the next load starts from it. A section that the file has, be it
empty or with other keys only, is copied by `_deep_merge`; a file is therefore the settings
it has a value for and the sections it has. A validation that fails at a reload is
a stutter; one that raises something else ends the process, like `Stop`.

### The kernel

The kernel is external: `Works` and `Effect` say when a command of ours is
accepted and what it changes, as far as the code relies on it. `modprobe ifb
numifbs=1` creates `ifb0`, so the following `ip link add` may fail: this is why
the code ignores that failure.

## 3. Runs

| Run | Expectation | Question |
|---|---|---|
| `sampler` | pass | Is the buffer the window of the last three samples? |
| `executor` | pass | From every possible kernel, with up to two faults in a call, a missing binary among them: does a call that returns leave what it promises? |
| `daemon_steps` | pass | Stepped recovery with bandwidth and burst triggers, late wake-ups, kills |
| `daemon_durable` | pass | Everything that can fail, at once, with a configuration that changes |
| `daemon_reload` | pass | Reloads of good, refused, unbootable, malformed and missing files, with kills and signals |
| `daemon_live` | pass | Liveness, with one recovery step and with two, and files of every kind |
| `lifecycle` | pass | Two processes, one command, the unit, with work that takes time: what holds of lock, PID file, rules and state file? |
| `storage` | pass | Are rows stored once, in time, for the retention, whatever fails? |
| `options` | pass | Does a start follow the priority of the layers, and does a reload show the file as it is now? |
| `lost_hup` | violation | A SIGHUP during a reload is forgotten |
| `lock_race` | violation | Two daemons run, because the PID file is unlinked after its lock is released |
| `daily_volume` | violation | The totals of a day are those before its first summary |

Each violation is a finding in `PROJECT.json`, with the sentence of the repository
that it contradicts.

### Known disagreements without a run

Met while modelling; the models contain the behaviour, and the properties
are stated so that they hold of it.

- `daemon.py:288-293`: an interface that is recreated has lost its rules, and the daemon takes the
  counter that went back for a wrap: it never sets tc up again before its next start, changes of
  rate fail and are ignored (`executor.py:140`), and `tc-limit status` goes on showing a rate.
  `LimitsInPlace` excludes it (`recreated`); no document says what should happen.
- `config.py:333`: a file that is missing at one load turns the source into `<defaults>`, and
  no later SIGHUP reads the file again; the daemon runs on defaults until it is restarted.
  `ReloadFollowsFile` is about files that no load has missed.
- `config.py:349`: a reload calls `load_config` without the options of the command line. `config.py:317`
  says "Priority: CLI overrides > config file > built-in defaults.", and so does the design document
  (line 130). After a reload an option has given way to the file or to the default; only
  where its section was shared with `DEFAULTS` at the start does it survive, and then behind the
  file. `ReloadFollowsFile` leaves the settings of `args` out.
- `config.py:352-366`: `network.*` is taken over by a reload (`burst_kbit` by the next change of
  the rate, `interface` in the configuration only); the design document (line 145) says that it
  requires a restart. `ReloadFollowsFile` says nothing of `[network]`.
- `setup.sh:93-101`: for the template `default` the installer copies `config.example.yaml`, with the
  burst limit disabled and an interval of 5; `generate_yaml('default')` has the burst limit
  enabled and an interval of 10. Both are in `Templates` (`Example`, `Default`).
- `executor.py:71`: bringing `ifb0` up is an ignored command. When it fails, `tc_init`
  redirects ingress into a device that is down and logs success (`executor.py:121`).
- `daemon.py:519`: `tc_cleanup` has no `dry_run`: a dry run that ends deletes the root and
  ingress qdiscs of the interface; `cli.py:297` says "Monitor only, no tc changes".
- `daemon.py:508`: a reload in LIMITED writes the new lower limit to the state file
  but not to the kernel; the design document lists `limits.lower` as hot-reloadable.
- `daemon.py:523`: the shutdown removes the state file, so only a killed daemon resumes
  its limit; the design document (line 224) says every restart does.
- `daemon.py:282`: after failed reads one slot holds the bytes of several
  intervals, and calm traffic may be limited; `sampler.py:22` says one interval per slot.
- `cli.py:64`: `store_true` makes `dry_run` False and not None, so a start without
  `--dry-run` overrides `dry_run: true` of the file; `config.py:316` puts options over the
  file over the defaults, and here no option was given. `StartFollowsPriority` excludes it.
- `storage/__init__.py:138`: samples are pruned once a day of uptime; the design document
  (line 378) says on each commit.
- `daemon.py:320` logs "will retry": a rollback at the commit loses rows that are no longer
  queued (`rolled`), and a batch that failed half way is inserted again with its first
  half (`torn`).
- `cli.py:353-358`: the help of `-W` and `-C` says minutes, the code takes seconds.
- `storage/__init__.py:212`: `limited_minutes` counts a sample for a minute per 60, whatever
  the sampling interval.
- With `generate_yaml('default')` the limited rate alone reaches the burst
  threshold (`LightCalmsBursts`): 110 Mbps for 180 s are 2475 MB, more than 2000.
- `daemon.py:503`: a file of the wrong shape (an empty section, a list) raises something else
  than `ValueError`, and the daemon ends at the reload without a cleanup; systemd restarts it, and
  it cannot start with that file.

### Properties

- `InitLimitsBothDirections`, `FaultFreeCallsComplete`, `ChangeKeepsRules`: the
  executor's promises, over all leftovers.
- `LimitedHasCooldown`: the assertion of `daemon.py:379`, and nothing of a limit
  left over in NORMAL.
- `Resumes`: a kill between two transitions loses neither the limit nor its age.
- `LimitIsDurable`: refinement of `Limiter`, kills in the middle of transitions
  included.
- `RampOnTime`: the recovery never runs ahead of the straight line from lower to
  higher, in the kernel and not only in memory.
- `RateInRange`: the asked rate stays between the limits.
- `NoOverloadIgnored`: no iteration ends unlimited with a window that asks for the
  limit.
- `RateEnforced`: the kernel holds the decided rate in both directions, and the state file shows
  it. `LimitsInPlace`: with failing commands too both directions stay limited, at rates
  that may differ, unless the interface was recreated.
- `NothingLeftBehind`: the state file is removed only when the kernel is bare.
- `ReloadServed`: a SIGHUP that was noted is followed by a reload: `_do_reload` reads the source
  again, whatever the file holds, unless the daemon ends first, by a SIGTERM or by a file
  on which it raises. It does not say that this reading comes after the last edit:
  that is `HupIsServed`, which `lost_hup` refutes.
- `ShutdownCompletes`, `LimitLifted`, `CalmIsUnlimited`: the other liveness properties.
- `ExclusiveUnlessOrphaned`: two daemons run only after a PID file was unlinked while a
  daemon had it open, by `release_lock` or by systemd. `OneDaemon`, without
  the condition, is what `lock_race` refutes.
- `PidFileNamesDaemon`, `StaleOnlyIfKilled`: whom `stop` and `reload` reach.
- `KillOnlyIfSlow`: `stop` kills the daemon it signalled only if the longest of a sleep and a
  piece of work, and the work of the shutdown after it, may last as long as `stop` waits. So a
  stop is a clean stop where the interval and the time that tc and the database take stay
  below five seconds together; with the default interval of 5 they never do.
- `RulesStay`, `RecordStays`: what a shutdown may take away from the next instance:
  never the rules, the state file only in the gap after the lock is released.
- `AtMostOnce`, `NothingLost`: rows, short of `torn` and `rolled`.
- `LossBounded`: after one good iteration nothing older than the commit interval is
  only in memory.
- `RetentionBound`, `LastSampleStays`: the rotation deletes enough, and never the newest (not
  with every setting: section 4, Hypotheses).
- `DailyIsBacked`: a daily row is never committed without its samples.
- `StartFollowsPriority`: options over the file over the defaults, at every start.
- `ReloadFollowsFile`: a reload shows the file as it is now, where no option was given: nothing of
  an earlier file or load is left, though all loads of a process share `DEFAULTS`. It speaks of files
  that no load has missed. What a reload makes of options is no property: the code
  contradicts its documents there (above).

`RateEnforced` and `NothingLeftBehind` are stated of runs in which tc does not fail
(`CanFail` FALSE), because ignored failures do break them: nothing retries a rate that
was not applied. `LimitsInPlace` is what remains with failures. `RampOnTime` needs a
cooldown that no reload changes, because the line depends on it.

### Bounds, and why they are enough

- An interval of one second and windows of one to three samples: a window must
  fill, overflow once and be cleared, which three samples do; `Sampler` covers
  the indices separately.
- `Horizon` (3 or 4): an age saturates at a value no comparison can tell from a
  larger one; `HorizonAssumption` requires it to be at least every cooldown and
  the summary interval.
- `SummaryInterval` 2 or 3 instead of 60: it must be possible to reach it before and after
  the cooldown ends.
- `Loads`: nothing, a load that fires the bandwidth trigger only when sustained, and one
  that fires the burst trigger at once.
- `Lags`: a sleep of one interval or twice as long: a step is skipped, a cooldown
  passes during one sleep.
- `Downtimes` 0 and 2: a restart within the cooldown and after it.
- `MaxFaults` 2 in `executor`: two faults in one call, for each pair of commands.
- `lifecycle`: two numbers and two inodes, interchangeable (`SYMMETRY`): an instance that
  leaves, one that enters, and a number that is used again. Two inodes are enough for
  two instances, one of which has lost its path. `Patience` 3, `Work` 1 and intervals of 1 and 3: a stop that is always clean
  (1 + 1 < 3), and one that may come too late. `lock_race` needs no time (`Work` 0). The theorems cover any numbers.
- `storage`: days of two units, six units of time: three days, a retention that ends
  within the run, a downtime longer than it. One failing statement at any place
  (`MaxFaults`), one state change (`MaxChanges`), which is a batch of both tables. Two
  faults and steps of different length (9.4 million states) were checked once, too
  long for a regular run. Time ends at `Horizon`; the daemon can always crash or be
  started there.
- `options`: one setting of each kind is enough, since the code treats the settings of
  a kind alike: two of one section, a frozen one, one of the top level, and `dry_run`.
  Each section of the file is absent, empty or holds any of its settings.
- `daemon_live` has four files: two recovery steps, refused, malformed and missing (the defaults,
  with one step).
- `CanCrash`, `CanFail`, `CanSignal` switch whole classes of events off, where a
  property does not hold with them (above) or the state space requires it.
- Consecutive failures are bounded by the code (3).

There is no deadlock in any run, since a daemon that is down can be started or its
file edited.

### Fairness

`FairSpec` asks that a process that lives goes on (`WF_vars(Run)`): its steps are
sequential code whose sleeps and subprocesses end. `ServiceSpec` adds that a process
that ended is started again (`WF_vars(Restart)`): `Restart=always` of the unit
file (`setup.sh:51`). Nothing is asked of signals, crashes, failures or edits.
The liveness run has `CanFail` FALSE: with failing reads the third in a row ends the
daemon, and it may never get to a transition. It also has no storage: an exception of
`storage.close()` ends the shutdown early. `Lifecycle`, `Storage` and `ConfigSources`
state no fairness; their properties are safety.

## 4. Proofs

Every safety property that a run checks is also a theorem, for every value of the
constants that the modules assume.

| Theorem | Module | Says |
|---|---|---|
| `SlotsStayInside` | `SamplerProofs` | `Spec => []TypeOK` |
| `SumIsOfWindow` | `SamplerProofs` | `Spec => []TotalIsWindowSum` |
| `BufferIsWindow` | `SamplerProofs` | `Spec => ImplementsWindow` |
| `ExecutorTypes` | `ExecutorProofs` | `Spec => []TypeOK` |
| `InitIsComplete` | `ExecutorProofs` | `Spec => []InitLimitsBothDirections` |
| `NoStateStopsACall` | `ExecutorProofs` | `Spec => []FaultFreeCallsComplete` |
| `ChangesKeepRules` | `ExecutorProofs` | `Spec => []ChangeKeepsRules` |
| `TypeCorrect` | `DaemonProofs` | `Spec => []TypeOK` |
| `AssertionHolds` | `DaemonProofs` | `Spec => []LimitedHasCooldown` |
| `RatesInRange` | `DaemonProofs` | `Spec => []RateInRange` |
| `RecordInvariant` | `DaemonProofs` | `Spec => [](TypeInv /\ RecordInv)` |
| `DaemonResumes` | `DaemonProofs` | `Spec => []Resumes` |
| `DaemonImplementsLimiter` | `DaemonProofs` | `Spec => LimitIsDurable` |
| `RulesStayInPlace` | `EnforcementProofs` | `Spec => []LimitsInPlace` |
| `KernelFollows` | `EnforcementProofs` | `Spec => []RateEnforced` |
| `LeavesNothing` | `EnforcementProofs` | `Spec => NothingLeftBehind` |
| `RampFollowsClock` | `EnforcementProofs` | `Spec => []RampOnTime` |
| `OverloadIsNoticed` | `EnforcementProofs` | `Spec => []NoOverloadIgnored` |
| `LifecycleTyped` | `LifecycleProofs` | `Spec => []TypeOK` |
| `LockIsExclusive` | `LifecycleProofs` | `Spec => []ExclusiveUnlessOrphaned` |
| `DaemonIsFound` | `LifecycleProofs` | `Spec => []PidFileNamesDaemon` |
| `StaleIsKilled` | `LifecycleProofs` | `Spec => []StaleOnlyIfKilled` |
| `RulesAreKept` | `LifecycleProofs` | `Spec => []RulesStay` |
| `RecordsStay` | `LifecycleProofs` | `Spec => RecordStays` |
| `StopIsPatient` | `LifecycleProofs` | `Spec => []KillOnlyIfSlow` |
| `StorageTyped` | `StorageProofs` | `Spec => []TypeOK` |
| `RowsAreStoredOnce` | `StorageProofs` | `Spec => []AtMostOnce` |
| `RowsAreKept` | `StorageProofs` | `Spec => []NothingLost` |
| `LossIsBounded` | `StorageProofs` | `Spec => []LossBounded` |
| `DailyStaysBacked` | `StorageProofs` | `Spec => []DailyIsBacked` |
| `RetentionIsBounded` | `StorageProofs` | `Spec => []RetentionBound` |
| `NewestSampleStays` | `StorageProofs` | `Spec => LastSampleStays` |
| `SourcesTyped` | `ConfigSourcesProofs` | `Spec => []TypeOK` |
| `StartsByPriority` | `ConfigSourcesProofs` | `Spec => StartFollowsPriority` |
| `ReloadsFollowFile` | `ConfigSourcesProofs` | `Spec => ReloadFollowsFile` |
| `TemplatesBoot`, `LightCalmsBursts` | `ConfigSourcesProofs` | the shipped configurations are valid and bootable, and one calms bursts |

### Hypotheses

Beyond the assumptions on the constants (`DaemonAssumption`: their types, and valid,
bootable defaults; `HorizonAssumption` where ages matter: they saturate beyond every
comparison), some theorems have hypotheses, because without them the
property is false of the code:

| Theorem | Hypotheses | Why |
|---|---|---|
| `RulesStayInPlace` | `DryRunStays` | a reload that takes `dry_run` back finds no rules set up |
| `KernelFollows` | `~CanFail`, `DryRunStays`, `LowerStays`, `RampStays` | nothing retries an ignored failure; a reload in LIMITED does not apply the new lower rate or ramp |
| `LeavesNothing` | `~CanFail` | a cleanup whose commands fail is not repeated |
| `RampFollowsClock` | those of `KernelFollows`, `CooldownStays` | a reload changes the line |
| `OverloadIsNoticed` | `CanFail => ThresholdStays` | a reload that lowers the threshold while a read fails leaves an iteration unevaluated |
| `RetentionIsBounded`, `NewestSampleStays` | `OrdinaryTimes`: `commit_interval` at most a day, `retention_days` at least one | below |

Each `...Stays` says only `CanSignal => ...`: without reloads it holds of itself. With
reloads it is about the configurations of the files, and everything else in them may
differ. The runs that check a property satisfy its hypotheses: `daemon_steps` has
neither failures nor signals, `daemon_reload` no failures and files with one lower limit and
one recovery step, `daemon_durable` files that agree about `dry_run`.

The code accepts any `commit_interval` and `retention_days`. With
`retention_days: 0`, or an interval of more than a day, a rotation can delete the last sample
on disk while the newer ones are still queued, and it can spare samples in the queue that
are then stored too late to be rotated in time. TLC finds both
counterexamples when `storage.cfg` is given such values. With the shipped values
(60 s, 90 days) the hypothesis holds.

### Arguments

*The window.* `WindowInv`: a buffer with room writes next to its samples. The slot
of the i-th sample is then known without a remainder (`SlotOf`), and a push appends to
the window, or appends and drops the oldest. The sum needs `ZeroInv`, unwritten slots are
zero, and that `SumFunction` does not depend on its order. It is a recursion over sets, with an
element chosen at each step; `SumExists` shows that it has a solution, `AnyOrder`
that the solution is the sum in any order, `SumRearranged` that positions may
be permuted and zeros added. All three are inductions on the size of a set, which
`Induction` takes from the well-foundedness of `<`.

*Executor.* `CallInv` relates the commands left of a call to the kernel: what the
commands already run have set up, and that what is left finishes the job from there. The lemmas
about single commands and suffixes of calls are in `OperatorLemmas`, for the daemon as well.

*Types of the daemon.* `TypeOK` alone is not inductive: `consecutive_failures` stays at most 3 only
because the third failure leaves the loop (`ThirdFailureStops`), and the age to
persist is an age only because a limited daemon has one (`LimitedHasCooldown`).
Their conjunction `TypeInv` is inductive; one lemma per group of variables and one
step per action. That the buffer keeps the size `BufSize(cfg)` is the part that
would fail if a reload took over the window.

*Rates.* Between the limits for every number of steps: `n * ((h - l) \div n) <= h - l`.

*Durability.* Memory is ahead of the file only at `switching` (by one transition),
`reloading` (the file has the old cooldown) and `init` (the file may record an
expired limit). `Limiter` lets a limit be forgotten only by a stop that
was asked for (`asked`, the flag `_shutdown`); `StopIsAsked` shows that nothing else leads to the
shutdown. `RecordInv` says by how much at each place; everywhere else in the
loop the file is what a save would write now (`Synced`). It includes
`RecoveredOnTime`, by which the last recovery step comes only when the whole cooldown
is over: `(age * n) \div d >= n` implies `age >= d`. From it, a save maps to `Limit`,
`Lift`, `TurnOn`, `Reconfigure` or a stutter of `Limiter`, the passing of time to
`Elapse`, the unlink of the shutdown to `TurnOff`, and everything else, a crash
included, to a stutter. TLC checks `RecordInv` in `daemon_steps`.

*Enforcement.* `RulesInv`: at each place, the kernel has the rules or the commands
that set them up are still to run. `RatesInv` adds the rate: what the commands left
will apply is the current rate, and with none left it is applied. `StoppingInv`
does the same for the shutdown, whose last command leaves the kernel bare. The ramp
follows from `RatesInv` and `StepOnTime` (a step is taken only when its share of the cooldown is
over); the share is a division that rounds down, so the line is never crossed. `OverloadInv`
follows the windows from the push to the decision. TLC checked each of these
invariants on the instances of the runs before it was proved.

*The lock.* `LockInv` ties the four things that `acquire_lock` and `release_lock` change
one after another: a daemon has a descriptor exactly between open and close, the lock from
flock to unlock, and its number in the file from the write on; as long as nothing is
orphaned every descriptor is the inode of the path, so all compete for one lock.
From it follow exclusion, the PID file, the rules (removed only under the lock) and the state
file. For any numbers of processes and inodes.

*The pursuit.* `KillOnlyIfSlow` needs an invariant of its own (`Pursuit`): while `stop`
waits for a daemon, the daemon has noted the signal, and what is left of its sleep or work plus
the `Work` of the shutdown fits into the patience that is left, if it did at the signal. A tick
takes one from both; every other step of the daemon goes on towards its end without taking time.

*Rows.* Each statement maps a sound store to sound stores and brings no row of its
own (`Sound`, a transitive relation), so the operations, sequences of statements, do
too. Insertion numbers copies by `Cardinality`, so the invariant also says that the
sets of rows are finite.

*Rows in time.* A statement moves rows in one of five ways (`Grows`, `Reverts`, `Commits`,
`Sums`, `Prunes`), and what has to last is shown for each. `TimeInv`: rows from before
`next_commit` are on disk and the queue holds none of them (`Filed`, `Queued`), which
bounds the loss; daily rows are backed in the transaction and on disk (`Backed`).
`SampleInv`: a sample of the last commit is on disk and in the transaction (`Anchored`),
so the rotation always spares one, and the transaction has one as new as any on disk
(`AsNew`), so no commit loses the newest; all samples, queued ones too, are young
enough at the last rotation (`Young`).

*Configuration.* `TypeOK` is nearly inductive: what is left of options in `DEFAULTS` is
never of the top level, and a configuration of a process that does not run is the built-in one.
`ReloadsFollowFile` follows from it: where no option was given `DEFAULTS` is as built in.

### Only model-checked

The four liveness properties (`ShutdownCompletes`, `ReloadServed`, `LimitLifted`,
`CalmIsUnlimited`): fairness and ENABLED are outside the prover's reach. The three runs
that expect a violation have a counterexample instead of a proof.

## 5. Not modelled

- Parsing of expressions and of YAML: pure functions of strings.
- The storage inside `Daemon`: its failures are caught in the loop and touch nothing else.
  Its `close()` may raise in the shutdown, which is a `Crash` there.
- The text of reports; the timeline and event queries, which only select rows.
- Several commands at once: one `cli` in `Lifecycle`. A second `stop` sends the same signals.
- Orders to systemd: only that its main process ended, and `Restart=always`.
- `state_file`, `pid_file`, `interface` and `burst_kbit` changing at a reload; a
  `dry_run` that changes at a reload is a hazard without a property.
- A wall clock that steps; floating-point rounding of `elapsed / step_cooldown` (the
  model divides exactly).
- Logging, status and report output, the installer, the legacy script.

## 6. Plan

1. Done: `RingBuffer`, `Config`, `TrafficControl`, then `Sampler` and `Executor`, then `Daemon` with
   `Limiter`, then the proofs of types and durability.
2. Done: `Lifecycle`, `ConfigSources`, `Storage` and `Templates`, with their proofs.
3. Done: every safety property as a theorem.
4. The storage as a refinement of a log to which every row is appended once.
5. Theorems about the hazards that no property covers: what a reload in LIMITED leaves in
   the kernel, and for how long.
