------------------------------- MODULE Daemon -------------------------------
(***************************************************************************)
(* The daemon of daemon.py with storage disabled (its default): one        *)
(* process that samples the interface's byte counters once per interval,   *)
(* drives the NORMAL / LIMITED state machine and its stepped recovery,     *)
(* runs tc commands, persists its state, reloads its configuration on      *)
(* SIGHUP and cleans up on SIGTERM.  It may die between any two steps and  *)
(* be started again by systemd.                                            *)
(*                                                                         *)
(* A step of the model is a stretch of code that changes one thing the     *)
(* outside can see: one tc command, one rename of the state file, one      *)
(* change of the state machine.  Signals arrive between steps, as Python   *)
(* runs its handlers between bytecodes.  Time passes only while the        *)
(* daemon sleeps and while it is down, in whole seconds; a clock is kept   *)
(* as the time since the event it measures from.                           *)
(***************************************************************************)
EXTENDS Config, RingBuffer, TrafficControl

CONSTANTS
    Files,            \* contents the configuration file may have
    Defaults,         \* the configuration made of config.py's DEFAULTS
    Kernels,          \* what the kernel may hold before the first start
    Loads,            \* bytes that may pass during one sleep, in 125000 B
    Lags,             \* seconds that may pass between two samples
    Downtimes,        \* seconds that may pass before a restart
    Horizon,          \* bound: ages are counted up to this many seconds
    SummaryInterval,  \* summary_interval, 60 in the code
    CanCrash,         \* the process may be killed or die of an exception
    CanFail,          \* a tc command or a counter read may fail
    CanSignal         \* SIGTERM and SIGHUP may arrive

\* A file is readable YAML, YAML of a wrong shape or unreadable (an exception
\* other than ValueError and FileNotFoundError), or missing.
FileKinds == {"yaml", "malformed", "missing"}

ASSUME DaemonAssumption ==
    /\ Files \subseteq [kind: FileKinds, config: RawConfigs]
    /\ Defaults \in RawConfigs /\ Valid(Defaults) /\ Bootable(Defaults)
    /\ Defaults.source = "<defaults>"
    /\ \A f \in Files : f.config.source = "file"
    /\ Kernels \subseteq KernelStates(Nat \ {0})
    /\ Loads \subseteq Nat
    /\ Lags \subseteq Positive /\ Downtimes \subseteq Nat
    /\ Horizon \in Positive /\ SummaryInterval \in Positive
    /\ {CanCrash, CanFail, CanSignal} \subseteq BOOLEAN

\* An age saturates at Horizon, which no comparison below can tell from more.
ASSUME HorizonAssumption ==
    /\ Defaults.cooldown <= Horizon /\ SummaryInterval <= Horizon
    /\ \A f \in Files : f.config.cooldown <= Horizon

VARIABLES
    config_file,           \* what the configuration file holds
    state_file,            \* what the state file holds
    kernel,                \* the kernel's tc rules and ifb0
    pc,                    \* where the daemon is in its code
    tc,                    \* the commands left of the current executor call
    cfg,                   \* self.cfg
    state,                 \* self.state
    cooldown_age,          \* now - self.cooldown_start
    recovery_step,         \* self.recovery_step
    buffer,                \* self.buffer
    burst_buffer,          \* self.burst_buffer
    unread,                \* bytes counted by the kernel since self.prev_bytes
    consecutive_failures,  \* self.consecutive_failures
    summary_age,           \* now - last_summary_time
    shutdown,              \* self._shutdown
    reload_requested,      \* self._reload_requested
    hup_pending,           \* history: a SIGHUP came after the last reading of the file
    recreated              \* history: the interface was recreated since the start

disk == << config_file, state_file >>
machine == << state, cooldown_age, recovery_step >>
samples == << buffer, burst_buffer, unread, consecutive_failures, summary_age >>
events == << shutdown, reload_requested, hup_pending, recreated >>
vars == << config_file, state_file, kernel, pc, tc, cfg, state, cooldown_age,
           recovery_step, buffer, burst_buffer, unread, consecutive_failures,
           summary_age, shutdown, reload_requested, hup_pending, recreated >>

-----------------------------------------------------------------------------
(* Clocks, files and the values derived from the memory of the daemon. *)

None == -1
Ages == 0 .. Horizon

Later(age, seconds) ==
    IF age = None THEN None
    ELSE IF age + seconds > Horizon THEN Horizon ELSE age + seconds

NoBuffer == NewBuffer(0)

BurstBuffer(c) == IF c.burst.enabled THEN NewBuffer(BurstBufSize(c)) ELSE NoBuffer

Lesser(a, b) == IF a <= b THEN a ELSE b

\* _current_rate_mbps.
StepSize(c) == (c.higher - c.lower) \div c.recovery_steps
\* Slip: the step is rounded up, and no cap keeps it in range.
RateOfRoundedUp(c, s, step) ==
    IF s # "LIMITED" THEN c.higher ELSE c.lower + step * (StepSize(c) + 1)
RateOf(c, s, step) ==
    IF s # "LIMITED" THEN c.higher
    ELSE IF c.recovery_steps <= 1 \/ step <= 0 THEN c.lower
    ELSE Lesser(c.lower + step * StepSize(c), c.higher)
CurrentRate == RateOf(cfg, state, recovery_step)

\* Slips: a step is due when it begins, or the last one is never due.
DueStepRoundedUp(c, age) ==
    Lesser((age * c.recovery_steps + c.cooldown - 1) \div c.cooldown, c.recovery_steps)
DueStepShort(c, age) ==
    Lesser((age * c.recovery_steps) \div c.cooldown, c.recovery_steps - 1)

\* The recovery step that is due after age seconds:
\* int(elapsed / (cooldown / steps)), at most steps.
DueStep(c, age) == Lesser((age * c.recovery_steps) \div c.cooldown, c.recovery_steps)

\* A state file; kind tells an absent or unreadable file from a saved state.
NoFile == [kind |-> "none", state |-> "NORMAL", rate |-> 0, cooldown |-> 0, age |-> None]
\* Slip: the time of the save is written for the start of the cooldown.
SavedAsNow(c, s, step, age) ==
    [kind |-> "saved", state |-> s, rate |-> RateOf(c, s, step),
     cooldown |-> c.cooldown, age |-> IF age = None THEN None ELSE 0]
SavedAs(c, s, step, age) ==
    [kind |-> "saved", state |-> s, rate |-> RateOf(c, s, step),
     cooldown |-> c.cooldown, age |-> age]
Save == state_file' = SavedAs(cfg, state, recovery_step, cooldown_age)

\* Slip: no limit survives a restart.
ResumableNever(file) == FALSE

\* load_state: LIMITED survives while some of the saved cooldown remains.
Resumable(file) == file.state = "LIMITED" /\ file.age # None /\ file.age < file.cooldown
\* Slip: the saved start of the cooldown is kept with an expired limit.
LoadStateKeepsStart(file) ==
    [state |-> IF Resumable(file) THEN "LIMITED" ELSE "NORMAL", age |-> file.age]
LoadState(file) ==
    IF Resumable(file) THEN [state |-> "LIMITED", age |-> file.age]
                       ELSE [state |-> "NORMAL", age |-> None]

\* load_config on a source: a missing file is replaced by the defaults.
SourceKind(source) == IF source = "file" THEN config_file.kind ELSE "missing"
LoadedConfig(source) ==
    IF SourceKind(source) = "missing" THEN Defaults ELSE config_file.config
Readable(source) == SourceKind(source) # "malformed"
Accepted(source) == Readable(source) /\ Valid(LoadedConfig(source))

Triggered ==
    \/ IsFull(buffer) /\ Total(buffer) > ThresholdBytes(cfg)
    \/ /\ burst_buffer # NoBuffer /\ IsFull(burst_buffer)
       /\ Total(burst_buffer) > BurstThresholdBytes(cfg)

-----------------------------------------------------------------------------
(* Start and death of the process. *)

\* The memory of a process that does not exist.
Forget ==
    /\ pc' = "down" /\ tc' = << >> /\ cfg' = Defaults
    /\ state' = "NORMAL" /\ cooldown_age' = None /\ recovery_step' = 0
    /\ buffer' = NewBuffer(BufSize(Defaults)) /\ burst_buffer' = BurstBuffer(Defaults)
    /\ unread' = 0 /\ consecutive_failures' = 0 /\ summary_age' = 0
    /\ shutdown' = FALSE /\ reload_requested' = FALSE /\ hup_pending' = FALSE
    /\ recreated' = FALSE

Init ==
    /\ config_file \in Files /\ state_file = NoFile /\ kernel \in Kernels
    /\ pc = "down" /\ tc = << >> /\ cfg = Defaults
    /\ state = "NORMAL" /\ cooldown_age = None /\ recovery_step = 0
    /\ buffer = NewBuffer(BufSize(Defaults)) /\ burst_buffer = BurstBuffer(Defaults)
    /\ unread = 0 /\ consecutive_failures = 0 /\ summary_age = 0
    /\ shutdown = FALSE /\ reload_requested = FALSE /\ hup_pending = FALSE
    /\ recreated = FALSE

\* cmd_start, Daemon.__init__ and run up to the call of tc_init, after a
\* downtime.  A configuration that raises leaves everything as it was.
Start(downtime) ==
    LET c == LoadedConfig("file")
        file == [state_file EXCEPT !.age = Later(@, downtime)]
    IN
    /\ pc = "down" /\ Accepted("file") /\ Bootable(c)
    /\ pc' = "init"
    /\ cfg' = c
    /\ buffer' = NewBuffer(BufSize(c)) /\ burst_buffer' = BurstBuffer(c)
    /\ state_file' = file
    /\ state' = LoadState(file).state
    /\ cooldown_age' = LoadState(file).age
    /\ recovery_step' = 0
    /\ tc' = TcInit(RateOf(c, state', 0), c.dry_run)
    /\ UNCHANGED << config_file, kernel, unread, consecutive_failures, summary_age,
                    events >>

\* tc_init has returned: seed prev_bytes, tell systemd, save, enter the loop.
FinishStartup ==
    /\ pc = "init" /\ tc = << >>
    /\ pc' = "head"
    /\ unread' = 0 /\ summary_age' = 0
    /\ Save
    /\ UNCHANGED << config_file, kernel, tc, cfg, machine, buffer, burst_buffer,
                    consecutive_failures, events >>

\* SIGKILL, an exception nobody catches, or a signal before the handlers are
\* installed: the file, the rules and ifb0 stay as they are.
Crash ==
    /\ CanCrash /\ pc # "down"
    /\ Forget
    /\ UNCHANGED << disk, kernel >>

\* The seeding read raises: run does not catch it.
StartupReadFails ==
    /\ CanFail /\ pc = "init" /\ tc = << >>
    /\ Forget
    /\ UNCHANGED << disk, kernel >>

-----------------------------------------------------------------------------
(* The tc commands of the current executor call. *)

CommandWorks ==
    /\ tc # << >> /\ Works(kernel, Head(tc))
    /\ kernel' = Effect(kernel, Head(tc))
    /\ tc' = Tail(tc)
    /\ UNCHANGED << disk, pc, cfg, machine, samples, events >>

CommandFails == tc # << >> /\ (CanFail \/ ~Works(kernel, Head(tc)))

\* _run_ok logs a warning and the call goes on.
CommandIgnored ==
    /\ CommandFails /\ ~Head(tc).critical
    /\ tc' = Tail(tc)
    /\ UNCHANGED << disk, kernel, pc, cfg, machine, samples, events >>

\* tc_init raises RuntimeError: it leaves run, and the process ends.
CommandRaises ==
    /\ CommandFails /\ Head(tc).critical
    /\ Forget
    /\ UNCHANGED << disk, kernel >>

-----------------------------------------------------------------------------
(* The main loop up to the sample. *)

\* Slip: a SIGTERM does not end the loop.
GoesOnAlways == TRUE

\* while not self._shutdown, and the check after the sleep.
GoesOn == ~shutdown

FallAsleep ==
    /\ pc = "head" /\ GoesOn
    /\ pc' = "asleep"
    /\ UNCHANGED << disk, kernel, tc, cfg, machine, samples, events >>

\* time.sleep(interval): seconds pass, the machine may be late, load bytes pass.
Wake(seconds, load) ==
    /\ pc = "asleep" /\ seconds >= cfg.interval
    /\ pc' = "awake"
    /\ cooldown_age' = Later(cooldown_age, seconds)
    /\ summary_age' = Lesser(summary_age + seconds, SummaryInterval)
    /\ state_file' = [state_file EXCEPT !.age = Later(@, seconds)]
    /\ unread' = unread + load
    /\ UNCHANGED << config_file, kernel, tc, cfg, state, recovery_step, buffer,
                    burst_buffer, consecutive_failures, events >>

\* _do_reload up to its tc_change_rate: only a daemon in NORMAL touches tc.
Reload ==
    /\ pc = "awake" /\ reload_requested /\ Accepted(cfg.source)
    /\ pc' = "reloading"
    /\ cfg' = ReloadConfig(cfg, LoadedConfig(cfg.source))
    /\ tc' = IF state = "NORMAL" THEN TcChangeRate(cfg'.higher, cfg'.dry_run) ELSE << >>
    /\ hup_pending' = FALSE
    /\ UNCHANGED << disk, kernel, machine, samples, shutdown, reload_requested, recreated >>

\* The rest of _do_reload.
SaveReload ==
    /\ pc = "reloading" /\ tc = << >>
    /\ pc' = "reloaded"
    /\ Save
    /\ UNCHANGED << config_file, kernel, tc, cfg, machine, samples, events >>

\* ValueError: the old configuration stays.
ReloadRefused ==
    /\ pc = "awake" /\ reload_requested
    /\ Readable(cfg.source) /\ ~Accepted(cfg.source)
    /\ pc' = "reloaded"
    /\ hup_pending' = FALSE
    /\ UNCHANGED << disk, kernel, tc, cfg, machine, samples, shutdown, reload_requested, recreated >>

\* Any other exception leaves the loop: no cleanup.
ReloadRaises ==
    /\ pc = "awake" /\ reload_requested /\ ~Readable(cfg.source)
    /\ Forget
    /\ UNCHANGED << disk, kernel >>

\* Slip: a limited daemon goes on without reloading.
ReloadOverWhenLimited ==
    (pc = "awake" /\ (~reload_requested \/ state = "LIMITED")) \/ pc = "reloaded"

\* The flag is cleared, whether or not a SIGHUP came during the reload; then
\* the second check of _shutdown.
ReloadOver == (pc = "awake" /\ ~reload_requested) \/ pc = "reloaded"
ClearRequest == reload_requested' = FALSE
Proceed ==
    /\ ReloadOver /\ GoesOn
    /\ pc' = "sampling"
    /\ ClearRequest
    /\ UNCHANGED << disk, kernel, tc, cfg, machine, samples, shutdown, hup_pending, recreated >>

\* _shutdown was seen at the head of the loop or after the sleep.
BeginShutdown ==
    /\ pc = "head" \/ ReloadOver
    /\ shutdown
    /\ pc' = "stopping"
    /\ tc' = TcCleanup
    /\ IF pc = "head" THEN UNCHANGED reload_requested ELSE ClearRequest
    /\ UNCHANGED << disk, kernel, cfg, machine, samples, shutdown, hup_pending, recreated >>

\* The rest of _shutdown_handler: the lock is released, the state file removed.
Exit ==
    /\ pc = "stopping" /\ tc = << >>
    /\ Forget
    /\ state_file' = NoFile
    /\ UNCHANGED << config_file, kernel >>

-----------------------------------------------------------------------------
(* The sample. *)

\* The read raises; the third in a row ends the loop.
ReadFails ==
    /\ CanFail /\ pc = "sampling"
    /\ pc' = "head"
    /\ consecutive_failures' = consecutive_failures + 1
    /\ shutdown' = (shutdown \/ consecutive_failures' >= 3)
    /\ UNCHANGED << disk, kernel, tc, cfg, machine, buffer, burst_buffer, unread,
                    summary_age, reload_requested, hup_pending, recreated >>

\* The counter is below prev_bytes: the driver has reset it, it has wrapped, or
\* the interface is a new one.  The window is cleared and tc is left alone.
CounterReset ==
    /\ CanFail /\ pc = "sampling"
    /\ pc' = "head"
    /\ consecutive_failures' = 0
    /\ buffer' = Clear(buffer)
    /\ unread' = 0
    /\ UNCHANGED << disk, kernel, tc, cfg, machine, burst_buffer, summary_age, events >>

Sample ==
    /\ pc = "sampling"
    /\ pc' = "evaluate"
    /\ consecutive_failures' = 0
    /\ buffer' = Push(buffer, unread)
    /\ burst_buffer' = IF burst_buffer = NoBuffer THEN NoBuffer ELSE Push(burst_buffer, unread)
    /\ unread' = 0
    /\ UNCHANGED << disk, kernel, tc, cfg, machine, summary_age, events >>

-----------------------------------------------------------------------------
(* _evaluate_state_machine: exactly one of these is taken at "evaluate". *)

\* Both ways into the lower limit set step 0 and start a new cooldown.
LimitNow ==
    /\ pc' = "switching"
    /\ state' = "LIMITED" /\ recovery_step' = 0 /\ cooldown_age' = 0
    /\ tc' = TcChangeRate(cfg.lower, cfg.dry_run)
    /\ UNCHANGED << disk, kernel, cfg, samples, events >>

EnterLimited ==
    /\ pc = "evaluate" /\ state = "NORMAL" /\ Triggered
    /\ LimitNow

\* Slip: any trigger sets the limit again.
RetriggeredAlways == Triggered

\* A trigger counts during recovery only once a step has been taken.
Retriggered == recovery_step > 0 /\ Triggered

Relimit ==
    /\ pc = "evaluate" /\ state = "LIMITED" /\ Retriggered
    /\ LimitNow

StepDue == cfg.recovery_steps > 1 /\ DueStep(cfg, cooldown_age) > recovery_step
CooldownOver == cfg.recovery_steps <= 1 /\ cooldown_age >= cfg.cooldown

StepUp ==
    /\ pc = "evaluate" /\ state = "LIMITED" /\ ~Retriggered /\ StepDue
    /\ pc' = "switching"
    /\ recovery_step' = DueStep(cfg, cooldown_age)
    /\ tc' = TcChangeRate(RateOf(cfg, state, recovery_step'), cfg.dry_run)
    /\ UNCHANGED << disk, kernel, cfg, state, cooldown_age, samples, events >>

NothingToDo ==
    /\ pc = "evaluate"
    /\ IF state = "NORMAL" THEN ~Triggered ELSE ~Retriggered /\ ~StepDue /\ ~CooldownOver
    /\ pc' = "summary"
    /\ UNCHANGED << disk, kernel, tc, cfg, machine, samples, events >>

\* The last step has been taken: _enter_normal follows the save.
Recovered == state = "LIMITED" /\ cfg.recovery_steps > 1 /\ recovery_step >= cfg.recovery_steps

SaveSwitch ==
    /\ pc = "switching" /\ tc = << >>
    /\ pc' = IF Recovered THEN "recovered" ELSE "summary"
    /\ Save
    /\ UNCHANGED << config_file, kernel, tc, cfg, machine, samples, events >>

\* _enter_normal: what was measured under the limit is forgotten.
EnterNormal ==
    /\ \/ pc = "evaluate" /\ state = "LIMITED" /\ ~Retriggered /\ CooldownOver
       \/ pc = "recovered"
    /\ pc' = "switching"
    /\ state' = "NORMAL" /\ cooldown_age' = None /\ recovery_step' = 0
    /\ buffer' = Clear(buffer)
    /\ burst_buffer' = IF burst_buffer = NoBuffer THEN NoBuffer ELSE Clear(burst_buffer)
    /\ tc' = TcChangeRate(cfg.higher, cfg.dry_run)
    /\ UNCHANGED << disk, kernel, cfg, unread, consecutive_failures, summary_age, events >>

\* The end of an iteration, with the periodic summary when it is due.
FinishIteration ==
    /\ pc = "summary"
    /\ pc' = "head"
    /\ IF summary_age >= SummaryInterval
       THEN Save /\ summary_age' = 0
       ELSE UNCHANGED << state_file, summary_age >>
    /\ UNCHANGED << config_file, kernel, tc, cfg, machine, buffer, burst_buffer, unread,
                    consecutive_failures, events >>

-----------------------------------------------------------------------------
(* The environment. *)

Handled == CanSignal /\ pc # "down"

OnTerminate ==
    /\ Handled /\ ~shutdown
    /\ shutdown' = TRUE
    /\ UNCHANGED << disk, kernel, pc, tc, cfg, machine, samples, reload_requested, hup_pending,
                    recreated >>

OnHup ==
    /\ Handled
    /\ reload_requested' = TRUE /\ hup_pending' = TRUE
    /\ UNCHANGED << disk, kernel, pc, tc, cfg, machine, samples, shutdown, recreated >>

EditConfig ==
    /\ config_file' \in Files \ {config_file}
    /\ UNCHANGED << state_file, kernel, pc, tc, cfg, machine, samples, events >>

\* The interface disappears and comes back (its driver is reloaded, the virtual
\* device is created again): its qdiscs are gone, ifb0 stays as it is, and the
\* code never sets tc up again.  The next sample is a CounterReset, or a Sample if
\* the new counter has already passed prev_bytes.
InterfaceRecreated ==
    /\ CanFail
    /\ kernel' = [kernel EXCEPT !.root["iface"] = NoQdisc, !.ingress = "none"]
    /\ recreated' = (pc # "down")
    /\ UNCHANGED << disk, pc, tc, cfg, machine, samples, shutdown, reload_requested,
                    hup_pending >>

-----------------------------------------------------------------------------

Command == CommandWorks \/ CommandIgnored \/ CommandRaises

Evaluate ==
    EnterLimited \/ Relimit \/ StepUp \/ NothingToDo \/ SaveSwitch \/ EnterNormal

Iterate ==
    \/ FallAsleep
    \/ \E seconds \in Lags, load \in Loads : Wake(seconds, load)
    \/ Reload \/ SaveReload \/ ReloadRefused \/ ReloadRaises \/ Proceed
    \/ ReadFails \/ CounterReset \/ Sample \/ Evaluate \/ FinishIteration

\* What the process does by itself.
Run == FinishStartup \/ StartupReadFails \/ Command \/ Iterate \/ BeginShutdown \/ Exit

Restart == \E downtime \in Downtimes : Start(downtime)

Next == Run \/ Restart \/ Crash \/ OnTerminate \/ OnHup \/ EditConfig \/ InterfaceRecreated

Spec == Init /\ [][Next]_vars

\* The process is scheduled: while it lives it goes on.
FairSpec == Spec /\ WF_vars(Run)

\* The unit file says Restart=always: a process that ended is started again.
ServiceSpec == FairSpec /\ WF_vars(Restart)

=============================================================================
