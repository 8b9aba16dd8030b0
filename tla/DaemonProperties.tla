-------------------------- MODULE DaemonProperties --------------------------
(***************************************************************************)
(* What must be true of the daemon: the properties the runs check and the  *)
(* proofs are about.                                                       *)
(***************************************************************************)
EXTENDS Daemon

PCs == {"down", "init", "head", "asleep", "awake", "reloading", "reloaded", "sampling",
        "evaluate", "switching", "recovered", "summary", "stopping"}

\* The daemon is in its loop and between two transitions: what it decided has
\* been applied and saved.
Settled ==
    pc \in {"head", "asleep", "awake", "reloaded", "sampling", "evaluate", "summary"}

StateFiles ==
    [kind: {"none", "saved"}, state: {"NORMAL", "LIMITED"}, rate: Nat, cooldown: Nat,
     age: Ages \cup {None}]

\* The types of the variables.  That buffer has the size the configuration
\* gives it, across reloads too, is what keeps _buf[_idx] in bounds.
TypeOK ==
    /\ config_file \in Files
    /\ state_file \in StateFiles
    /\ kernel \in KernelStates(Positive)
    /\ pc \in PCs
    /\ tc \in Seq(Commands(Positive))
    /\ cfg \in ValidConfigs
    /\ state \in {"NORMAL", "LIMITED"}
    /\ cooldown_age \in Ages \cup {None}
    /\ recovery_step \in 0 .. cfg.recovery_steps
    /\ buffer \in Buffers(BufSize(cfg), Nat)
    /\ burst_buffer = NoBuffer \/ burst_buffer \in Buffers(BurstBufSize(cfg), Nat)
    /\ unread \in Nat
    /\ consecutive_failures \in 0 .. 3
    /\ summary_age \in 0 .. SummaryInterval
    /\ shutdown \in BOOLEAN /\ reload_requested \in BOOLEAN /\ hup_pending \in BOOLEAN
    /\ recreated \in BOOLEAN

-----------------------------------------------------------------------------
(* Safety. *)

\* The assertion of daemon.py:379, "assert self.cooldown_start is not None",
\* for every way into LIMITED, the resumed state included; and a daemon that
\* is not limited has no cooldown and no recovery step left over.
LimitedHasCooldown ==
    IF state = "LIMITED" THEN cooldown_age # None
                         ELSE cooldown_age = None /\ recovery_step = 0

\* After the third failed read in a row no further sample is taken.
ThirdFailureStops ==
    consecutive_failures >= 3 => shutdown /\ pc \in {"head", "stopping"}

\* A process killed between two transitions is resumed where it was: the
\* state file gives back the limit and its age, and drops it only when its
\* cooldown is over.
Resumes ==
    Settled =>
        LoadState(state_file) =
            IF state = "LIMITED" /\ cooldown_age < cfg.cooldown
            THEN [state |-> "LIMITED", age |-> cooldown_age]
            ELSE [state |-> "NORMAL", age |-> None]

\* What the state machine decided is what the kernel enforces, in both
\* directions, and what tc-limit status shows (if no tc command failed).
RateEnforced ==
    Settled /\ ~cfg.dry_run =>
        Shaped(kernel, CurrentRate) /\ state_file.rate = CurrentRate

\* The recovery never runs ahead of the clock: while a limit lasts, no
\* direction has more than the straight line from lower to higher allows at
\* the limit's age (if the limits and the cooldown are not reconfigured).
RampOnTime ==
    Settled /\ ~cfg.dry_run /\ state = "LIMITED" /\ cooldown_age <= cfg.cooldown =>
        \A d \in Devices :
            (kernel.root[d] - cfg.lower) * cfg.cooldown
                <= (cfg.higher - cfg.lower) * cooldown_age

\* No failure of tc takes a limit away: from the end of the startup on, both
\* directions have a class and ingress traffic is redirected into it, though
\* perhaps at an older rate, and the directions perhaps at different ones.  (An
\* interface that is recreated loses its rules, and daemon.py has no step that
\* would set them up again before its next start.)
LimitsInPlace ==
    Settled /\ ~cfg.dry_run /\ ~recreated =>
        /\ \A d \in Devices : kernel.root[d] > NoClass
        /\ kernel.ingress = "redirect"

\* The rate the daemon asks for stays within the two limits of the
\* configuration, whatever the number of steps and its rounding.
RateInRange == CurrentRate \in cfg.lower .. cfg.higher

\* An iteration never ends unlimited with a window that asks for the limit:
\* neither by missing the overload nor by lifting the limit without
\* forgetting the samples that caused it.
NoOverloadIgnored ==
    pc \in {"summary", "asleep"} /\ state = "NORMAL" => ~Triggered

\* The state file goes last: when it is removed, nothing is left in the kernel.
\* A stop that was killed half way shows as a state file that is still there, and
\* a machine without one is not limited.
NothingLeftBehind == [][state_file' = NoFile => state_file = NoFile \/ Bare(kernel)]_vars

-----------------------------------------------------------------------------
(* Liveness. *)

\* A SIGTERM ends the daemon, whatever it is doing.
ShutdownCompletes == shutdown ~> pc = "down"

\* A SIGHUP that has been noted has the configuration read again from its source,
\* whatever the file holds: it never lies there, or is dropped, while the daemon goes
\* on.  Only the end of the daemon excuses it, by a SIGTERM or by a file on which
\* _do_reload raises.
Reloading == pc \in {"reloading", "reloaded"}
ReloadServed ==
    reload_requested /\ ~Reloading ~>
        Reloading \/ shutdown \/ config_file.kind = "malformed"

\* With a single recovery step no traffic can keep the limit on for ever.
LimitLifted == (state = "LIMITED" /\ cfg.recovery_steps = 1) ~> (state = "NORMAL")

\* With several steps the limit is lifted once the traffic stays calm.
CalmIsUnlimited == <>[]~Triggered => []<>(state = "NORMAL")

-----------------------------------------------------------------------------
(* What a document says and the code does not do. *)

\* A SIGHUP is answered by a reload that reads the file after the signal.
HupIsServed == hup_pending => reload_requested

-----------------------------------------------------------------------------
(* The daemon implements the limiter: the state file is its record. *)

Record == INSTANCE Limiter WITH
    NoAge <- None,
    Cooldowns <- Positive,
    mode <- IF state_file.kind = "none" THEN "OFF" ELSE state_file.state,
    age <- state_file.age,
    cooldown <- state_file.cooldown,
    asked <- shutdown

LimitIsDurable == Record!Spec

-----------------------------------------------------------------------------
(* Inductive invariants.  The types need the two facts that keep ages and  *)
(* failures in range.                                                      *)

TypeInv == TypeOK /\ LimitedHasCooldown /\ ThirdFailureStops

-----------------------------------------------------------------------------
(* The inductive invariant behind Resumes and LimitIsDurable: what the     *)
(* state file may hold at each place of the code, memory being ahead of it *)
(* only on the way to a save.                                              *)

\* A file holds an age exactly when it records a limit.
FileSound ==
    /\ state_file.kind = "none" => state_file = NoFile
    /\ state_file.state = "LIMITED" <=> state_file.age # None
    /\ state_file.kind = "saved" => state_file.cooldown \in Positive

\* Nothing has happened since the last save but the passing of time.
Synced == state_file = SavedAs(cfg, state, recovery_step, cooldown_age)

Records(s, age) ==
    state_file.kind = "saved" /\ state_file.state = s /\ state_file.age = age

FileExpired ==
    Records("LIMITED", state_file.age) /\ state_file.age >= state_file.cooldown

\* At "switching" memory is ahead by one transition.
SwitchPending ==
    /\ state_file.kind = "saved" /\ state_file.cooldown = cfg.cooldown
    /\ \/ state = "LIMITED" /\ cooldown_age = 0 /\ recovery_step = 0
       \/ state = "LIMITED" /\ Records("LIMITED", cooldown_age)
       \/ state = "NORMAL" /\ FileExpired

\* At "init" memory is what load_state made of the file.
StartPending ==
    IF state = "LIMITED" THEN Records("LIMITED", cooldown_age)
    ELSE state_file.state = "NORMAL" \/ FileExpired

\* The last recovery step is taken only when the whole cooldown is over.
RecoveredOnTime ==
    pc \in {"switching", "recovered"} /\ Recovered => cooldown_age >= cfg.cooldown

RecordInv ==
    /\ LimitedHasCooldown
    /\ FileSound
    /\ Settled \/ pc \in {"recovered", "stopping"} => Synced
    /\ pc = "recovered" => Recovered
    /\ pc = "switching" => SwitchPending
    /\ pc = "reloading" => Records(state, cooldown_age)
    /\ pc = "init" => StartPending
    /\ RecoveredOnTime

\* The way to Exit leads through a SIGTERM or a third failed read.
StopWasAsked == pc = "stopping" => shutdown

=============================================================================
