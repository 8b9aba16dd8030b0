---------------------------- MODULE DaemonProofs ----------------------------
(***************************************************************************)
(* Proofs about the daemon for every configuration file, load, lateness    *)
(* and kernel, whatever dies and fails: its types, the range of its rates, *)
(* the assertion of daemon.py:379, and that it implements the limiter.     *)
(* The state file is never behind by more than the transition being made,  *)
(* so that a save is the one moment at which a limit is recorded or        *)
(* lifted, and a crash at any other moment changes nothing.                *)
(***************************************************************************)
EXTENDS DaemonProperties, OperatorLemmas

-----------------------------------------------------------------------------
(* Buffers of byte counts. *)

LEMMA ClearedType ==
    ASSUME NEW n \in Int, NEW b \in Buffers(n, Nat)
    PROVE  Clear(b) \in Buffers(n, Nat)
BY ClearType, 0 \in Nat

-----------------------------------------------------------------------------
(* Rates, ages and configurations. *)

\* The fields of an accepted configuration.
LEMMA ConfigFields ==
    ASSUME NEW c \in ValidConfigs
    PROVE  /\ c.lower \in Positive /\ c.higher \in Positive /\ c.threshold \in Positive
           /\ c.lower < c.higher
           /\ c.recovery_steps \in Positive /\ c.cooldown \in Positive
           /\ c.duration \in Positive /\ c.interval \in Positive
           /\ c.dry_run \in BOOLEAN /\ c.burst \in Bursts
           /\ BufSize(c) \in Nat /\ BurstBufSize(c) \in Nat
BY DEF ValidConfigs, RawConfigs, Valid, Positive, Bursts, BufSize, BurstBufSize

\* The rounding of the step size never takes a rate out of the limits.
LEMMA RateOfRange ==
    ASSUME NEW c \in ValidConfigs, NEW s, NEW step \in 0 .. c.recovery_steps
    PROVE  /\ RateOf(c, s, step) \in c.lower .. c.higher
           /\ RateOf(c, s, step) \in Positive
<1>1. /\ c.lower \in Positive /\ c.higher \in Positive /\ c.lower < c.higher
      /\ c.recovery_steps \in Positive
  BY ConfigFields
<1>2. StepSize(c) \in Nat
  BY <1>1 DEF StepSize, Positive
<1>3. step * StepSize(c) \in Nat
  BY <1>1, <1>2 DEF Positive
<1> QED
  BY <1>1, <1>3 DEF RateOf, Lesser, Positive

\* The step that is due is a step.
LEMMA DueStepType ==
    ASSUME NEW c \in ValidConfigs, NEW age \in Nat
    PROVE  DueStep(c, age) \in 0 .. c.recovery_steps
<1>1. c.recovery_steps \in Positive /\ c.cooldown \in Positive
  BY ConfigFields
<1>2. age * c.recovery_steps \in Nat
  BY <1>1 DEF Positive
<1>3. (age * c.recovery_steps) \div c.cooldown \in Nat
  BY <1>1, <1>2 DEF Positive
<1> QED
  BY <1>1, <1>3 DEF DueStep, Lesser, Positive

LEMMA LaterType ==
    ASSUME NEW age \in Ages \cup {None}, NEW seconds \in Nat
    PROVE  Later(age, seconds) \in Ages \cup {None}
BY DaemonAssumption DEF Later, Ages, None, Positive

\* A reload keeps the configuration valid and the buffers' sizes.
LEMMA ReloadConfigType ==
    ASSUME NEW c \in ValidConfigs, NEW new \in ValidConfigs
    PROVE  LET r == ReloadConfig(c, new) IN
           /\ r \in ValidConfigs
           /\ r.recovery_steps = c.recovery_steps
           /\ BufSize(r) = BufSize(c) /\ BurstBufSize(r) = BurstBufSize(c)
           /\ r.cooldown \in Positive
BY DEF ReloadConfig, ValidConfigs, RawConfigs, Valid, BufSize, BurstBufSize

\* What a configuration file is read as.
LEMMA LoadedConfigType ==
    ASSUME config_file \in Files, NEW source, Accepted(source)
    PROVE  LoadedConfig(source) \in ValidConfigs
BY DaemonAssumption DEF Accepted, LoadedConfig, ValidConfigs

-----------------------------------------------------------------------------
(* tc commands. *)

LEMMA CallTypes ==
    ASSUME NEW rate \in Positive, NEW dry_run \in BOOLEAN
    PROVE  /\ TcInit(rate, dry_run) \in Seq(Commands(Positive))
           /\ TcChangeRate(rate, dry_run) \in Seq(Commands(Positive))
<1>1. << >> \in Seq(Commands(Positive))
  OBVIOUS
<1>2. Whole(rate) \in Seq(Commands(Positive)) /\ Change(rate) \in Seq(Commands(Positive))
  BY InitCommands, ChangeCommands
<1> QED
  BY <1>1, <1>2, CallCommands

-----------------------------------------------------------------------------
(* State files. *)

LEMMA SavedAsType ==
    ASSUME NEW c \in ValidConfigs, NEW s \in {"NORMAL", "LIMITED"},
           NEW step \in 0 .. c.recovery_steps, NEW age \in Ages \cup {None}
    PROVE  SavedAs(c, s, step, age) \in StateFiles
<1>1. RateOf(c, s, step) \in Positive /\ c.cooldown \in Positive
  BY RateOfRange, ConfigFields
<1> QED
  BY <1>1 DEF SavedAs, StateFiles, Positive

LEMMA AgedFileType ==
    ASSUME NEW file \in StateFiles, NEW seconds \in Nat
    PROVE  [file EXCEPT !.age = Later(@, seconds)] \in StateFiles
<1>1. Later(file.age, seconds) \in Ages \cup {None}
  BY LaterType DEF StateFiles
<1> QED
  BY <1>1 DEF StateFiles

LEMMA LoadStateType ==
    ASSUME NEW file \in StateFiles
    PROVE  /\ LoadState(file).state \in {"NORMAL", "LIMITED"}
           /\ LoadState(file).age \in Ages \cup {None}
BY DEF LoadState, StateFiles

LEMMA BurstBufferType ==
    ASSUME NEW c \in ValidConfigs, Bootable(c)
    PROVE  /\ NewBuffer(BufSize(c)) \in Buffers(BufSize(c), Nat)
           /\ \/ BurstBuffer(c) = NoBuffer
              \/ BurstBuffer(c) \in Buffers(BurstBufSize(c), Nat)
<1>1. BufSize(c) \in Nat /\ BurstBufSize(c) \in Nat
  BY ConfigFields
<1> QED
  BY <1>1, NewBufferType DEF Bootable, BurstBuffer, Positive

-----------------------------------------------------------------------------
(* Types. *)

LEMMA DefaultsType == Defaults \in ValidConfigs /\ Bootable(Defaults)
BY DaemonAssumption DEF ValidConfigs

\* A process that has ended leaves the types right.
LEMMA ForgetType ==
    ASSUME TypeOK, Forget, UNCHANGED << config_file, kernel >>, state_file' \in StateFiles
    PROVE  TypeOK'
<1>1. /\ Defaults \in ValidConfigs
      /\ NewBuffer(BufSize(Defaults)) \in Buffers(BufSize(Defaults), Nat)
      /\ \/ BurstBuffer(Defaults) = NoBuffer
         \/ BurstBuffer(Defaults) \in Buffers(BurstBufSize(Defaults), Nat)
      /\ 0 \in 0 .. Defaults.recovery_steps
  BY DefaultsType, BurstBufferType, ConfigFields DEF Positive
<1>2. SummaryInterval \in Positive
  BY DaemonAssumption
<1>3. tc' \in Seq(Commands(Positive))
  BY DEF Forget
<1>4. buffer' \in Buffers(BufSize(cfg'), Nat)
      /\ (burst_buffer' = NoBuffer \/ burst_buffer' \in Buffers(BurstBufSize(cfg'), Nat))
  BY <1>1 DEF Forget
<1>5. cfg' \in ValidConfigs /\ recovery_step' \in 0 .. cfg'.recovery_steps
  BY <1>1 DEF Forget
<1>6. summary_age' \in 0 .. SummaryInterval
  BY <1>2 DEF Forget, Positive
<1>7. config_file' \in Files /\ kernel' \in KernelStates(Positive)
  BY DEF TypeOK
<1>8. /\ pc' \in PCs /\ state' \in {"NORMAL", "LIMITED"}
      /\ cooldown_age' \in Ages \cup {None}
      /\ unread' \in Nat /\ consecutive_failures' \in 0 .. 3
  BY DEF Forget, PCs
<1>9. /\ shutdown' \in BOOLEAN /\ reload_requested' \in BOOLEAN /\ hup_pending' \in BOOLEAN
      /\ recreated' \in BOOLEAN
  BY DEF Forget
<1> QED
  BY <1>3, <1>4, <1>5, <1>6, <1>7, <1>8, <1>9 DEF TypeOK

LEMMA TypeInit ==
    ASSUME Init
    PROVE  TypeOK
<1>1. /\ Defaults \in ValidConfigs
      /\ NewBuffer(BufSize(Defaults)) \in Buffers(BufSize(Defaults), Nat)
      /\ \/ BurstBuffer(Defaults) = NoBuffer
         \/ BurstBuffer(Defaults) \in Buffers(BurstBufSize(Defaults), Nat)
      /\ 0 \in 0 .. Defaults.recovery_steps
  BY DefaultsType, BurstBufferType, ConfigFields DEF Positive
<1>2. kernel \in KernelStates(Positive) /\ SummaryInterval \in Positive
  BY DaemonAssumption DEF Init, Positive
<1>3. state_file \in StateFiles
  BY DEF Init, NoFile, StateFiles
<1>4. tc \in Seq(Commands(Positive))
  BY DEF Init
<1>5. /\ buffer \in Buffers(BufSize(cfg), Nat)
      /\ burst_buffer = NoBuffer \/ burst_buffer \in Buffers(BurstBufSize(cfg), Nat)
      /\ cfg \in ValidConfigs /\ recovery_step \in 0 .. cfg.recovery_steps
  BY <1>1 DEF Init
<1>6. /\ pc \in PCs /\ state \in {"NORMAL", "LIMITED"} /\ config_file \in Files
      /\ cooldown_age \in Ages \cup {None}
      /\ unread \in Nat /\ consecutive_failures \in 0 .. 3
      /\ summary_age \in 0 .. SummaryInterval
  BY <1>2 DEF Init, PCs, Positive
<1>7. /\ shutdown \in BOOLEAN /\ reload_requested \in BOOLEAN /\ hup_pending \in BOOLEAN
      /\ recreated \in BOOLEAN
  BY DEF Init
<1> QED
  BY <1>2, <1>3, <1>4, <1>5, <1>6, <1>7 DEF TypeOK

\* The types are kept by every step of the daemon.
LEMMA TypeStep ==
    ASSUME TypeInv, [Next]_vars
    PROVE  TypeOK'
<1> USE DEF TypeInv
<1> USE DEF disk, machine, samples, events
<1>0. /\ cfg \in ValidConfigs /\ state_file \in StateFiles
      /\ SavedAs(cfg, state, recovery_step, cooldown_age) \in StateFiles
      /\ cfg.lower \in Positive /\ cfg.higher \in Positive /\ cfg.dry_run \in BOOLEAN
      /\ cfg.recovery_steps \in Positive
      /\ SummaryInterval \in Positive
  BY SavedAsType, ConfigFields, DaemonAssumption DEF TypeOK
<1>1. CASE \E downtime \in Downtimes : Start(downtime)
  <2> PICK downtime \in Downtimes : Start(downtime)
    BY <1>1
  <2> DEFINE c == LoadedConfig("file")
             file == [state_file EXCEPT !.age = Later(@, downtime)]
  <2>1. c \in ValidConfigs /\ Bootable(c) /\ file \in StateFiles
    BY <1>0, LoadedConfigType, AgedFileType, DaemonAssumption DEF Start, TypeOK
  <2>2. /\ NewBuffer(BufSize(c)) \in Buffers(BufSize(c), Nat)
        /\ BurstBuffer(c) = NoBuffer \/ BurstBuffer(c) \in Buffers(BurstBufSize(c), Nat)
    BY <2>1, BurstBufferType
  <2>3. /\ LoadState(file).state \in {"NORMAL", "LIMITED"}
        /\ LoadState(file).age \in Ages \cup {None}
    BY <2>1, LoadStateType
  <2>4. 0 \in 0 .. c.recovery_steps /\ c.dry_run \in BOOLEAN
    BY <2>1, ConfigFields DEF Positive
  <2> HIDE DEF c, file
  <2>5. RateOf(c, state', 0) \in Positive
    BY <2>1, <2>4, RateOfRange
  <2>6. TcInit(RateOf(c, state', 0), c.dry_run) \in Seq(Commands(Positive))
    BY <2>4, <2>5, CallTypes
  <2> USE DEF c, file
  <2> QED
    BY <2>1, <2>2, <2>3, <2>4, <2>6 DEF Start, TypeOK, PCs
<1>2. CASE FinishStartup
  BY <1>0, <1>2 DEF FinishStartup, Save, TypeOK, PCs, Positive
<1>3. CASE StartupReadFails \/ Crash \/ CommandRaises \/ ReloadRaises
  BY <1>0, <1>3, ForgetType DEF StartupReadFails, Crash, CommandRaises, ReloadRaises
<1>4. CASE CommandWorks
  <2>1. Head(tc) \in Commands(Positive) /\ Tail(tc) \in Seq(Commands(Positive))
    BY <1>4 DEF CommandWorks, TypeOK
  <2>2. kernel' \in KernelStates(Positive)
    BY <1>4, <2>1, EffectType DEF CommandWorks, TypeOK
  <2> QED
    BY <1>4, <2>1, <2>2 DEF CommandWorks, TypeOK
<1>5. CASE CommandIgnored
  <2>1. Tail(tc) \in Seq(Commands(Positive))
    BY <1>5 DEF CommandIgnored, CommandFails, TypeOK
  <2> QED
    BY <1>5, <2>1 DEF CommandIgnored, TypeOK
<1>6. CASE FallAsleep
  BY <1>6 DEF FallAsleep, TypeOK, PCs
<1>7. CASE \E seconds \in Lags, load \in Loads : Wake(seconds, load)
  <2> PICK seconds \in Lags, load \in Loads : Wake(seconds, load)
    BY <1>7
  <2>1. seconds \in Nat /\ load \in Nat
    BY DaemonAssumption DEF Positive
  <2>2. Later(cooldown_age, seconds) \in Ages \cup {None}
    BY <2>1, LaterType DEF TypeOK
  <2>3. [state_file EXCEPT !.age = Later(@, seconds)] \in StateFiles
    BY <1>0, <2>1, AgedFileType
  <2>4. Lesser(summary_age + seconds, SummaryInterval) \in 0 .. SummaryInterval
    BY <1>0, <2>1 DEF Lesser, TypeOK, Positive
  <2>5. unread + load \in Nat
    BY <2>1 DEF TypeOK
  <2> QED
    BY <2>2, <2>3, <2>4, <2>5 DEF Wake, TypeOK, PCs
<1>8. CASE Reload
  <2> DEFINE r == ReloadConfig(cfg, LoadedConfig(cfg.source))
  <2>1. LoadedConfig(cfg.source) \in ValidConfigs
    BY <1>8, LoadedConfigType DEF Reload, TypeOK
  <2>2. /\ r \in ValidConfigs /\ r.recovery_steps = cfg.recovery_steps
        /\ BufSize(r) = BufSize(cfg) /\ BurstBufSize(r) = BurstBufSize(cfg)
    BY <1>0, <2>1, ReloadConfigType
  <2>3. TcChangeRate(r.higher, r.dry_run) \in Seq(Commands(Positive))
    BY <2>2, ConfigFields, CallTypes
  <2>4. << >> \in Seq(Commands(Positive))
    OBVIOUS
  <2> QED
    BY <1>8, <2>2, <2>3, <2>4 DEF Reload, TypeOK, PCs
<1>9. CASE SaveReload
  BY <1>0, <1>9 DEF SaveReload, Save, TypeOK, PCs
<1>10. CASE ReloadRefused
  BY <1>10 DEF ReloadRefused, TypeOK, PCs
<1>11. CASE Proceed
  BY <1>11 DEF Proceed, ClearRequest, TypeOK, PCs
<1>12. CASE BeginShutdown
  BY <1>12, CleanupCommands DEF BeginShutdown, ClearRequest, TypeOK, PCs
<1>13. CASE Exit
  <2>1. NoFile \in StateFiles
    BY DEF NoFile, StateFiles
  <2> QED
    BY <1>13, <2>1, ForgetType DEF Exit
<1>14. CASE ReadFails
  <2>1. pc' \in PCs /\ shutdown' \in BOOLEAN
    BY <1>14 DEF ReadFails, PCs
  <2>2. consecutive_failures' \in 0 .. 3
    BY <1>14 DEF ReadFails, TypeOK, ThirdFailureStops
  <2> QED
    BY <1>14, <2>1, <2>2 DEF ReadFails, TypeOK
<1>15. CASE CounterReset
  <2>1. buffer' \in Buffers(BufSize(cfg), Nat)
    BY <1>0, <1>15, ConfigFields, ClearedType DEF CounterReset, TypeOK
  <2> QED
    BY <1>15, <2>1 DEF CounterReset, TypeOK, PCs
<1>16. CASE Sample
  <2>1. /\ buffer' \in Buffers(BufSize(cfg), Nat)
        /\ burst_buffer' = NoBuffer \/ burst_buffer' \in Buffers(BurstBufSize(cfg), Nat)
    BY <1>0, <1>16, ConfigFields, PushType DEF Sample, TypeOK
  <2> QED
    BY <1>16, <2>1 DEF Sample, TypeOK, PCs
<1>17. CASE EnterLimited \/ Relimit
  <2>1. TcChangeRate(cfg.lower, cfg.dry_run) \in Seq(Commands(Positive))
    BY <1>0, CallTypes
  <2>2. 0 \in Ages \cup {None} /\ 0 \in 0 .. cfg.recovery_steps
    BY <1>0, DaemonAssumption DEF Ages, Positive
  <2> QED
    BY <1>17, <2>1, <2>2 DEF EnterLimited, Relimit, LimitNow, TypeOK, PCs
<1>18. CASE StepUp
  <2>1. recovery_step' \in 0 .. cfg.recovery_steps
    <3>1. cooldown_age \in Nat
      BY <1>18, DaemonAssumption DEF StepUp, LimitedHasCooldown, TypeOK, Ages, Positive
    <3> QED
      BY <1>0, <1>18, <3>1, DueStepType DEF StepUp
  <2>2. tc' \in Seq(Commands(Positive))
    BY <1>0, <1>18, <2>1, RateOfRange, CallTypes DEF StepUp
  <2> QED
    BY <1>18, <2>1, <2>2 DEF StepUp, TypeOK, PCs
<1>19. CASE NothingToDo
  BY <1>19 DEF NothingToDo, TypeOK, PCs
<1>20. CASE SaveSwitch
  BY <1>0, <1>20 DEF SaveSwitch, Save, TypeOK, PCs
<1>21. CASE EnterNormal
  <2>1. /\ buffer' \in Buffers(BufSize(cfg), Nat)
        /\ burst_buffer' = NoBuffer \/ burst_buffer' \in Buffers(BurstBufSize(cfg), Nat)
    BY <1>0, <1>21, ConfigFields, ClearedType DEF EnterNormal, TypeOK
  <2>2. TcChangeRate(cfg.higher, cfg.dry_run) \in Seq(Commands(Positive))
    BY <1>0, CallTypes
  <2>3. 0 \in 0 .. cfg.recovery_steps
    BY <1>0 DEF Positive
  <2> QED
    BY <1>21, <2>1, <2>2, <2>3 DEF EnterNormal, TypeOK, PCs
<1>22. CASE FinishIteration
  BY <1>0, <1>22 DEF FinishIteration, Save, TypeOK, PCs, Positive
<1>23. CASE OnTerminate \/ OnHup \/ EditConfig
  BY <1>23 DEF OnTerminate, OnHup, EditConfig, TypeOK
<1>24. CASE UNCHANGED vars
  BY <1>24 DEF vars, TypeOK
<1>25. CASE InterfaceRecreated
  <2>1. kernel' \in KernelStates(Positive)
    BY <1>25 DEF InterfaceRecreated, TypeOK, KernelStates, Devices
  <2> QED
    BY <1>25, <2>1 DEF InterfaceRecreated, TypeOK
<1> QED
  BY <1>1, <1>2, <1>3, <1>4, <1>5, <1>6, <1>7, <1>8, <1>9, <1>10, <1>11, <1>12, <1>13,
     <1>14, <1>15, <1>16, <1>17, <1>18, <1>19, <1>20, <1>21, <1>22, <1>23, <1>24, <1>25
     DEF Next, Run, Restart, Command, Iterate, Evaluate

\* So are the two facts the types need.
LEMMA CooldownStep ==
    ASSUME TypeInv, [Next]_vars
    PROVE  LimitedHasCooldown'
<1> USE DEF disk, machine, samples, events
<1>1. CASE \E downtime \in Downtimes : Start(downtime)
  BY <1>1 DEF Start, LoadState, Resumable, LimitedHasCooldown
<1>2. CASE StartupReadFails \/ Crash \/ CommandRaises \/ ReloadRaises \/ Exit
  BY <1>2 DEF StartupReadFails, Crash, CommandRaises, ReloadRaises, Exit, Forget,
              LimitedHasCooldown
<1>3. CASE \E seconds \in Lags, load \in Loads : Wake(seconds, load)
  <2> PICK seconds \in Lags, load \in Loads : Wake(seconds, load)
    BY <1>3
  <2>1. seconds \in Nat /\ cooldown_age \in Ages \cup {None} /\ Horizon \in Positive
    BY DaemonAssumption DEF TypeInv, TypeOK, Positive
  <2> QED
    BY <2>1 DEF Wake, Later, LimitedHasCooldown, TypeInv, None, Ages, Positive
<1>4. CASE EnterLimited \/ Relimit
  BY <1>4 DEF EnterLimited, Relimit, LimitNow, LimitedHasCooldown, None
<1>5. CASE StepUp
  BY <1>5 DEF StepUp, LimitedHasCooldown, TypeInv
<1>6. CASE EnterNormal
  BY <1>6 DEF EnterNormal, LimitedHasCooldown
<1>7. CASE UNCHANGED machine
  BY <1>7 DEF LimitedHasCooldown, TypeInv
<1>8. CASE \/ FinishStartup \/ CommandWorks \/ CommandIgnored \/ FallAsleep \/ Reload
            \/ SaveReload \/ ReloadRefused \/ Proceed \/ BeginShutdown \/ ReadFails
            \/ CounterReset \/ Sample \/ NothingToDo \/ SaveSwitch \/ FinishIteration
            \/ OnTerminate \/ OnHup \/ EditConfig \/ InterfaceRecreated
            \/ UNCHANGED vars
  <2>1. UNCHANGED machine
    BY <1>8 DEF FinishStartup, CommandWorks, CommandIgnored, FallAsleep, Reload, SaveReload,
        ReloadRefused, Proceed, BeginShutdown, ReadFails, CounterReset, Sample, NothingToDo,
        SaveSwitch, FinishIteration, OnTerminate, OnHup, EditConfig, InterfaceRecreated, vars
  <2> QED
    BY <1>7, <2>1
<1> QED
  BY <1>1, <1>2, <1>3, <1>4, <1>5, <1>6, <1>8
     DEF Next, Run, Restart, Command, Iterate, Evaluate

LEMMA FailuresStep ==
    ASSUME TypeInv, [Next]_vars
    PROVE  ThirdFailureStops'
<1> USE DEF disk, machine, samples, events
<1>1. CASE \E downtime \in Downtimes : Start(downtime)
  BY <1>1 DEF Start, ThirdFailureStops, TypeInv
<1>2. CASE StartupReadFails \/ Crash \/ CommandRaises \/ ReloadRaises \/ Exit
  BY <1>2 DEF StartupReadFails, Crash, CommandRaises, ReloadRaises, Exit, Forget,
              ThirdFailureStops
<1>3. CASE FinishStartup \/ FallAsleep \/ (\E s \in Lags, l \in Loads : Wake(s, l))
  BY <1>3 DEF FinishStartup, FallAsleep, Wake, GoesOn, ThirdFailureStops, TypeInv
<1>4. CASE CommandWorks \/ CommandIgnored
  BY <1>4 DEF CommandWorks, CommandIgnored, ThirdFailureStops, TypeInv
<1>5. CASE Reload \/ SaveReload \/ ReloadRefused \/ Proceed \/ BeginShutdown
  BY <1>5 DEF Reload, SaveReload, ReloadRefused, Proceed, BeginShutdown, ReloadOver,
              ThirdFailureStops, TypeInv
<1>6. CASE ReadFails
  <2>1. consecutive_failures' >= 3 => shutdown'
    BY <1>6 DEF ReadFails
  <2> QED
    BY <1>6, <2>1 DEF ReadFails, ThirdFailureStops
<1>9. CASE CounterReset \/ Sample
  BY <1>9 DEF CounterReset, Sample, ThirdFailureStops
<1>7. CASE Evaluate \/ FinishIteration
  BY <1>7 DEF Evaluate, EnterLimited, Relimit, LimitNow, StepUp, NothingToDo, SaveSwitch,
              EnterNormal, FinishIteration, ThirdFailureStops, TypeInv
<1>8. CASE OnTerminate \/ OnHup \/ EditConfig \/ InterfaceRecreated \/ UNCHANGED vars
  BY <1>8 DEF OnTerminate, OnHup, EditConfig, InterfaceRecreated, vars, ThirdFailureStops,
              TypeInv
<1> QED
  BY <1>1, <1>2, <1>3, <1>4, <1>5, <1>6, <1>7, <1>8, <1>9
     DEF Next, Run, Restart, Command, Iterate

-----------------------------------------------------------------------------
(* Theorems about types and ranges. *)

\* The daemon's memory, its state file and the kernel always hold values of
\* their types; with them, a limit always has a cooldown and the third
\* failed read is the last.
THEOREM TypeInvariant == Spec => []TypeInv
<1>1. Init => TypeInv
  <2> SUFFICES ASSUME Init PROVE TypeInv
    OBVIOUS
  <2>1. LimitedHasCooldown /\ ThirdFailureStops
    BY DEF Init, LimitedHasCooldown, ThirdFailureStops
  <2> QED
    BY <2>1, TypeInit DEF TypeInv
<1>2. TypeInv /\ [Next]_vars => TypeInv'
  BY TypeStep, CooldownStep, FailuresStep DEF TypeInv
<1> QED
  BY <1>1, <1>2, PTL DEF Spec

THEOREM TypeCorrect == Spec => []TypeOK
<1>1. TypeInv => TypeOK
  BY DEF TypeInv
<1> QED
  BY <1>1, TypeInvariant, PTL

\* The assertion of daemon.py:379 never fails.
THEOREM AssertionHolds == Spec => []LimitedHasCooldown
<1>1. TypeInv => LimitedHasCooldown
  BY DEF TypeInv
<1> QED
  BY <1>1, TypeInvariant, PTL

\* No rate outside the configured limits is ever asked for, at any step of
\* any ramp and after any reload.
THEOREM RatesInRange == Spec => []RateInRange
<1>1. TypeInv => RateInRange
  BY RateOfRange DEF TypeInv, TypeOK, RateInRange, CurrentRate
<1> QED
  BY <1>1, TypeInvariant, PTL

-----------------------------------------------------------------------------
(* The passing of time. *)

LEMMA LaterFacts ==
    ASSUME NEW age \in Ages \cup {None}, NEW seconds \in Nat
    PROVE  /\ Later(age, seconds) \in Ages \cup {None}
           /\ Later(age, seconds) = None <=> age = None
           /\ Later(age, seconds) >= age
BY DaemonAssumption DEF Later, Ages, None, Positive

\* Aging a file changes its age only, and never backwards.
LEMMA AgedFile ==
    ASSUME NEW file \in StateFiles, NEW seconds \in Nat
    PROVE  LET aged == [file EXCEPT !.age = Later(@, seconds)] IN
           /\ aged.kind = file.kind /\ aged.state = file.state
           /\ aged.rate = file.rate /\ aged.cooldown = file.cooldown
           /\ aged.age = Later(file.age, seconds)
           /\ aged.age >= file.age
           /\ aged.age = None <=> file.age = None
<1>1. file.age \in Ages \cup {None}
  BY DEF StateFiles
<1> QED
  BY <1>1, LaterFacts DEF StateFiles

\* A file of sound contents stays sound as it ages.
LEMMA AgedFileSound ==
    ASSUME TypeInv, FileSound, NEW seconds \in Nat,
           state_file' = [state_file EXCEPT !.age = Later(@, seconds)]
    PROVE  FileSound'
<1>1. state_file \in StateFiles
  BY DEF TypeInv, TypeOK
<1>2. /\ state_file'.kind = state_file.kind /\ state_file'.state = state_file.state
      /\ state_file'.cooldown = state_file.cooldown
      /\ state_file'.age = None <=> state_file.age = None
  BY <1>1, AgedFile
<1>3. ASSUME state_file'.kind = "none" PROVE state_file' = NoFile
  <2>1. state_file = NoFile
    BY <1>2, <1>3 DEF FileSound
  <2>2. Later(None, seconds) = None
    BY DEF Later
  <2> QED
    BY <2>1, <2>2 DEF NoFile
<1> QED
  BY <1>2, <1>3 DEF FileSound

\* A save leaves a sound file that is in step with the memory.
LEMMA SaveSynced ==
    ASSUME TypeInv, Save, UNCHANGED << cfg, machine >>
    PROVE  Synced' /\ FileSound'
<1>1. /\ state' = state /\ cooldown_age' = cooldown_age
      /\ recovery_step' = recovery_step /\ cfg' = cfg
  BY DEF machine
<1>2. state_file' = SavedAs(cfg, state, recovery_step, cooldown_age)
  BY DEF Save
<1>3. cfg.cooldown \in Positive
  BY ConfigFields DEF TypeInv, TypeOK
<1>4. state \in {"NORMAL", "LIMITED"}
      /\ (state = "LIMITED" <=> cooldown_age # None)
  BY DEF TypeInv, TypeOK, LimitedHasCooldown
<1>5. Synced'
  BY <1>1, <1>2 DEF Synced
<1>6. FileSound'
  BY <1>2, <1>3, <1>4 DEF FileSound, SavedAs
<1> QED
  BY <1>5, <1>6

-----------------------------------------------------------------------------
(* The state file and the memory: RecordInv is inductive. *)

LEMMA RecordInit ==
    ASSUME Init
    PROVE  RecordInv
BY DEF Init, RecordInv, LimitedHasCooldown, FileSound, NoFile, Settled, RecoveredOnTime

\* A dead process asks nothing of the file but that it be sound.
LEMMA RecordForget ==
    ASSUME Forget, FileSound'
    PROVE  RecordInv'
BY DEF Forget, RecordInv, LimitedHasCooldown, Settled, RecoveredOnTime

\* Right after a save in the loop everything asked of the file holds.
LEMMA RecordSaved ==
    ASSUME TypeInv, Save, UNCHANGED << cfg, machine >>,
           Settled' \/ (pc' = "recovered" /\ Recovered /\ RecoveredOnTime /\ pc = "switching"),
           LimitedHasCooldown'
    PROVE  RecordInv'
<1>1. Synced' /\ FileSound'
  BY SaveSynced
<1>2. CASE Settled'
  BY <1>1, <1>2 DEF RecordInv, Settled, RecoveredOnTime
<1>3. CASE pc' = "recovered" /\ Recovered /\ RecoveredOnTime /\ pc = "switching"
  <2>1. Recovered' /\ RecoveredOnTime'
    BY <1>3 DEF Recovered, RecoveredOnTime, machine
  <2> QED
    BY <1>1, <1>3, <2>1, LimitedHasCooldown' DEF RecordInv, Settled
<1> QED
  BY <1>2, <1>3

\* The last step falls due when the whole cooldown has passed.
LEMMA LastStepDue ==
    ASSUME NEW c \in ValidConfigs, NEW age \in Nat, DueStep(c, age) >= c.recovery_steps
    PROVE  age >= c.cooldown
<1>1. c.recovery_steps \in Positive /\ c.cooldown \in Positive
  BY ConfigFields
<1> DEFINE n == c.recovery_steps
           d == c.cooldown
           q == (age * n) \div d
<1>2. q \in Nat /\ d * q <= age * n
  BY <1>1 DEF Positive
<1>3. q >= n
  BY <1>1, <1>2 DEF DueStep, Lesser, Positive
<1>4. d * q >= d * n
  BY <1>1, <1>2, <1>3 DEF Positive
<1>5. d * n <= age * n
  BY <1>1, <1>2, <1>4 DEF Positive
<1> QED
  BY <1>1, <1>5 DEF Positive

\* load_state resumes a limit that is still recorded, and drops one only when
\* its recorded cooldown is over.
LEMMA RecordStart ==
    ASSUME TypeInv, RecordInv, NEW downtime \in Downtimes, Start(downtime),
           LimitedHasCooldown'
    PROVE  RecordInv'
<1>1. state_file \in StateFiles /\ downtime \in Nat
  BY DaemonAssumption DEF TypeInv, TypeOK
<1>2. state_file' = [state_file EXCEPT !.age = Later(@, downtime)]
  BY DEF Start
<1>3. FileSound'
  BY <1>1, <1>2, AgedFileSound DEF RecordInv
<1>4. state' = LoadState(state_file').state /\ cooldown_age' = LoadState(state_file').age
  BY <1>2 DEF Start
<1>5. /\ state_file' \in StateFiles
      /\ state_file'.cooldown \in Nat
      /\ state_file'.state \in {"NORMAL", "LIMITED"}
      /\ state_file'.age \in Ages \cup {None}
      /\ state_file'.kind \in {"none", "saved"}
  BY <1>1, <1>2, AgedFileType DEF StateFiles
<1>6. StartPending'
  <2>1. CASE Resumable(state_file')
    <3>1. state_file'.kind = "saved"
      BY <1>3, <1>5, <2>1 DEF FileSound, Resumable, NoFile
    <3> QED
      BY <1>4, <2>1, <3>1 DEF LoadState, Resumable, StartPending, Records
  <2>2. CASE ~Resumable(state_file') /\ state_file'.state = "LIMITED"
    <3>1. state_file'.kind = "saved" /\ state_file'.age # None
      BY <1>3, <1>5, <2>2 DEF FileSound, NoFile
    <3>2. state_file'.age >= state_file'.cooldown
      BY <1>5, <2>2, <3>1 DEF Resumable, Ages
    <3> QED
      BY <1>4, <2>2, <3>1, <3>2 DEF LoadState, StartPending, FileExpired, Records
  <2>3. CASE state_file'.state = "NORMAL"
    BY <1>4, <2>3 DEF LoadState, Resumable, StartPending
  <2> QED
    BY <1>5, <2>1, <2>2, <2>3
<1>7. pc' = "init"
  BY DEF Start
<1> QED
  BY <1>3, <1>6, <1>7, LimitedHasCooldown' DEF RecordInv, Settled, RecoveredOnTime

\* Time passes for the file as it does for the memory.
LEMMA RecordWake ==
    ASSUME TypeInv, RecordInv, NEW seconds \in Lags, NEW load \in Loads,
           Wake(seconds, load), LimitedHasCooldown'
    PROVE  RecordInv'
<1>1. state_file \in StateFiles /\ seconds \in Nat
  BY DaemonAssumption DEF TypeInv, TypeOK, Positive
<1>2. state_file' = [state_file EXCEPT !.age = Later(@, seconds)]
  BY DEF Wake
<1>3. FileSound'
  BY <1>1, <1>2, AgedFileSound DEF RecordInv
<1>4. Synced
  BY DEF RecordInv, Settled, Wake
<1>5. Synced'
  BY <1>2, <1>4 DEF Synced, SavedAs, Wake
<1> QED
  BY <1>3, <1>5, LimitedHasCooldown' DEF RecordInv, Settled, RecoveredOnTime, Wake

\* A new limit and a step of the ramp put memory one transition ahead.
LEMMA RecordSwitch ==
    ASSUME TypeInv, RecordInv, EnterLimited \/ Relimit \/ StepUp \/ EnterNormal,
           LimitedHasCooldown'
    PROVE  RecordInv'
<1>1. /\ pc' = "switching" /\ cfg' = cfg /\ state_file' = state_file
  BY DEF EnterLimited, Relimit, LimitNow, StepUp, EnterNormal, disk
<1>2. Synced /\ FileSound
  BY DEF RecordInv, Settled, EnterLimited, Relimit, StepUp, EnterNormal
<1>3. /\ state_file.kind = "saved" /\ state_file.cooldown = cfg.cooldown
      /\ state_file.state = state /\ state_file.age = cooldown_age
  BY <1>2 DEF Synced, SavedAs
<1>4. cfg \in ValidConfigs /\ cfg.cooldown \in Positive /\ cfg.recovery_steps \in Positive
  BY ConfigFields DEF TypeInv, TypeOK
<1>5. CASE EnterLimited \/ Relimit
  <2>1. state' = "LIMITED" /\ cooldown_age' = 0 /\ recovery_step' = 0
    BY <1>5 DEF EnterLimited, Relimit, LimitNow
  <2>2. ~Recovered'
    BY <1>1, <1>4, <2>1 DEF Recovered, Positive
  <2> QED
    BY <1>1, <1>2, <1>3, <2>1, <2>2, LimitedHasCooldown'
       DEF RecordInv, Settled, SwitchPending, RecoveredOnTime, FileSound
<1>6. CASE StepUp
  <2>1. state' = "LIMITED" /\ state = "LIMITED" /\ cooldown_age' = cooldown_age
        /\ recovery_step' = DueStep(cfg, cooldown_age)
    BY <1>6 DEF StepUp
  <2>2. cooldown_age \in Nat
    BY <2>1, DaemonAssumption DEF TypeInv, TypeOK, LimitedHasCooldown, Ages, Positive
  <2>3. Recovered' => cooldown_age' >= cfg'.cooldown
    BY <1>1, <1>4, <2>1, <2>2, LastStepDue DEF Recovered
  <2>4. SwitchPending'
    BY <1>1, <1>3, <2>1 DEF SwitchPending, Records
  <2> QED
    BY <1>1, <1>2, <2>3, <2>4, LimitedHasCooldown'
       DEF RecordInv, Settled, RecoveredOnTime, FileSound
<1>7. CASE EnterNormal
  <2>1. state = "LIMITED" /\ state' = "NORMAL"
    BY <1>7 DEF EnterNormal, RecordInv, Recovered
  <2>2. cooldown_age >= cfg.cooldown
    BY <1>7 DEF EnterNormal, CooldownOver, RecordInv, RecoveredOnTime
  <2>3. SwitchPending'
    BY <1>1, <1>3, <2>1, <2>2 DEF SwitchPending, FileExpired, Records
  <2> QED
    BY <1>1, <1>2, <2>1, <2>3, LimitedHasCooldown'
       DEF RecordInv, Settled, RecoveredOnTime, Recovered, FileSound
<1> QED
  BY <1>5, <1>6, <1>7

\* The invariant is kept by every step.
LEMMA RecordStep ==
    ASSUME TypeInv, RecordInv, [Next]_vars
    PROVE  RecordInv'
<1> USE DEF disk, machine, samples, events
<1>0. LimitedHasCooldown'
  BY CooldownStep
<1>1. CASE \E downtime \in Downtimes : Start(downtime)
  BY <1>0, <1>1, RecordStart
<1>2. CASE StartupReadFails \/ Crash \/ CommandRaises \/ ReloadRaises
  BY <1>2, RecordForget DEF StartupReadFails, Crash, CommandRaises, ReloadRaises,
                            RecordInv, FileSound
<1>3. CASE Exit
  <2>1. FileSound'
    BY <1>3 DEF Exit, FileSound, NoFile
  <2> QED
    BY <1>3, <2>1, RecordForget DEF Exit
<1>4. CASE \E seconds \in Lags, load \in Loads : Wake(seconds, load)
  BY <1>0, <1>4, RecordWake
<1>5. CASE FinishStartup \/ SaveReload
  <2>1. Save /\ UNCHANGED << cfg, machine >> /\ Settled'
    BY <1>5 DEF FinishStartup, SaveReload, Settled
  <2> QED
    BY <1>0, <2>1, RecordSaved
<1>6. CASE SaveSwitch
  <2>1. Save /\ UNCHANGED << cfg, machine >> /\ pc = "switching"
    BY <1>6 DEF SaveSwitch
  <2>2. Settled' \/ (pc' = "recovered" /\ Recovered)
    BY <1>6 DEF SaveSwitch, Settled
  <2>3. RecoveredOnTime
    BY DEF RecordInv
  <2> QED
    BY <1>0, <2>1, <2>2, <2>3, RecordSaved
<1>7. CASE FinishIteration
  <2>1. CASE summary_age >= SummaryInterval
    <3>1. Save /\ UNCHANGED << cfg, machine >> /\ Settled'
      BY <1>7, <2>1 DEF FinishIteration, Settled
    <3> QED
      BY <1>0, <3>1, RecordSaved
  <2>2. CASE ~(summary_age >= SummaryInterval)
    BY <1>0, <1>7, <2>2 DEF FinishIteration, RecordInv, Settled, Synced, FileSound,
                            RecoveredOnTime
  <2> QED
    BY <2>1, <2>2
<1>8. CASE EnterLimited \/ Relimit \/ StepUp \/ EnterNormal
  BY <1>0, <1>8, RecordSwitch
<1>9. CASE Reload
  <2>1. /\ pc' = "reloading" /\ UNCHANGED << state_file, machine >>
    BY <1>9 DEF Reload
  <2>2. Synced /\ FileSound
    BY <1>9 DEF Reload, RecordInv, Settled
  <2>3. Records(state, cooldown_age)
    BY <2>2 DEF Synced, SavedAs, Records
  <2> QED
    BY <1>0, <2>1, <2>2, <2>3 DEF RecordInv, Settled, RecoveredOnTime, Records, FileSound
<1>10. CASE FallAsleep \/ ReloadRefused \/ Proceed \/ BeginShutdown \/ ReadFails
            \/ CounterReset \/ Sample \/ NothingToDo
  <2>1. /\ UNCHANGED << state_file, cfg, machine >>
        /\ Settled /\ (Settled' \/ pc' = "stopping")
    BY <1>10 DEF FallAsleep, ReloadRefused, Proceed, BeginShutdown, ReadFails, CounterReset,
                 Sample, NothingToDo, ReloadOver, Settled
  <2> QED
    BY <1>0, <2>1 DEF RecordInv, Settled, Synced, FileSound, RecoveredOnTime
<1>11. CASE CommandWorks \/ CommandIgnored \/ OnTerminate \/ OnHup \/ EditConfig
            \/ InterfaceRecreated \/ UNCHANGED vars
  <2>1. UNCHANGED << state_file, cfg, machine, pc >>
    BY <1>11 DEF CommandWorks, CommandIgnored, OnTerminate, OnHup, EditConfig,
                 InterfaceRecreated, vars
  <2> QED
    BY <2>1 DEF RecordInv, LimitedHasCooldown, FileSound, Settled, Synced, Recovered,
                SwitchPending, Records, FileExpired, StartPending, RecoveredOnTime
<1> QED
  BY <1>1, <1>2, <1>3, <1>4, <1>5, <1>6, <1>7, <1>8, <1>9, <1>10, <1>11
     DEF Next, Run, Restart, Command, Iterate, Evaluate

\* The state file is in step with the daemon, in every reachable state.
THEOREM RecordInvariant == Spec => [](TypeInv /\ RecordInv)
<1>1. Init => RecordInv
  BY RecordInit
<1>2. TypeInv /\ RecordInv /\ [Next]_vars => RecordInv'
  BY RecordStep
<1> QED
  BY <1>1, <1>2, TypeInvariant, PTL DEF Spec

\* A daemon killed between two transitions is resumed where it was.
THEOREM DaemonResumes == Spec => []Resumes
<1>1. TypeInv /\ RecordInv => Resumes
  <2> SUFFICES ASSUME TypeInv, RecordInv, Settled PROVE
        LoadState(state_file) =
            IF state = "LIMITED" /\ cooldown_age < cfg.cooldown
            THEN [state |-> "LIMITED", age |-> cooldown_age]
            ELSE [state |-> "NORMAL", age |-> None]
    BY DEF Resumes
  <2>1. state_file.state = state /\ state_file.age = cooldown_age
        /\ state_file.cooldown = cfg.cooldown
    BY DEF RecordInv, Synced, SavedAs
  <2> QED
    BY <2>1 DEF LoadState, Resumable, TypeInv, LimitedHasCooldown
<1> QED
  BY <1>1, RecordInvariant, PTL

-----------------------------------------------------------------------------
(* Every step of the daemon is a step of the limiter, or none. *)

\* What a save does to the record.
LEMMA SavedRecord ==
    ASSUME TypeInv, Save
    PROVE  /\ state_file'.kind = "saved" /\ state_file'.state = state
           /\ state_file'.age = cooldown_age /\ state_file'.cooldown = cfg.cooldown
           /\ cfg.cooldown \in Positive
           /\ state \in {"NORMAL", "LIMITED"}
           /\ state = "NORMAL" => cooldown_age = None
BY ConfigFields DEF Save, SavedAs, TypeInv, TypeOK, LimitedHasCooldown

\* The record of a limit ages; nothing else does.
LEMMA AgingIsElapse ==
    ASSUME TypeInv, FileSound, NEW seconds \in Nat,
           state_file' = [state_file EXCEPT !.age = Later(@, seconds)]
    PROVE  Record!Elapse \/ UNCHANGED Record!vars
<1>1. state_file \in StateFiles
  BY DEF TypeInv, TypeOK
<1>2. /\ state_file'.kind = state_file.kind /\ state_file'.state = state_file.state
      /\ state_file'.cooldown = state_file.cooldown
      /\ state_file'.age = Later(state_file.age, seconds)
      /\ state_file'.age >= state_file.age
      /\ state_file'.age = None <=> state_file.age = None
  BY <1>1, AgedFile
<1>3. state_file.age \in Ages \cup {None} /\ state_file'.age \in Ages \cup {None}
  BY <1>1, <1>2, LaterFacts DEF StateFiles
<1>4. CASE state_file'.age = state_file.age
  BY <1>2, <1>4 DEF Record!vars
<1>5. CASE state_file'.age # state_file.age
  <2>1. state_file.age # None /\ state_file.state = "LIMITED" /\ state_file.kind # "none"
    BY <1>2, <1>5 DEF FileSound, NoFile
  <2>2. state_file'.age > state_file.age
    BY <1>2, <1>3, <1>5, <2>1 DEF Ages
  <2> QED
    BY <1>2, <2>1, <2>2 DEF Record!Elapse
<1> QED
  BY <1>4, <1>5

\* The first save after a start turns the limiter on, takes over a limit that
\* lasts, or lifts one whose cooldown is over.
LEMMA StartupIsRecord ==
    ASSUME TypeInv, RecordInv, FinishStartup
    PROVE  Record!Next
<1>1. Save /\ StartPending /\ FileSound
  BY DEF FinishStartup, RecordInv
<1>2. CASE state = "LIMITED"
  <2>1. Record!Reconfigure
    BY <1>1, <1>2, SavedRecord DEF StartPending, Records, Record!Reconfigure
  <2> QED
    BY <2>1 DEF Record!Next
<1>3. CASE state # "LIMITED" /\ state_file.state = "NORMAL"
  <2>1. state_file.age = None /\ state = "NORMAL"
    BY <1>1, <1>3, SavedRecord DEF FileSound
  <2>2. CASE state_file.kind = "none"
    BY <1>1, <2>1, <2>2, SavedRecord DEF Record!TurnOn, Record!Next
  <2>3. CASE state_file.kind # "none"
    BY <1>1, <1>3, <2>1, <2>3, SavedRecord DEF Record!Reconfigure, Record!Next
  <2> QED
    BY <2>2, <2>3
<1>4. CASE state # "LIMITED" /\ FileExpired
  <2>1. Record!Lift
    BY <1>1, <1>4, SavedRecord DEF FileExpired, Records, Record!Lift
  <2> QED
    BY <2>1 DEF Record!Next
<1> QED
  BY <1>1, <1>2, <1>3, <1>4 DEF StartPending

\* The save of a transition is the moment the limit is set or lifted.
LEMMA SwitchIsRecord ==
    ASSUME TypeInv, RecordInv, SaveSwitch
    PROVE  Record!Next \/ UNCHANGED Record!vars
<1>1. Save /\ SwitchPending
  BY DEF SaveSwitch, RecordInv
<1>2. state_file.kind = "saved" /\ state_file.cooldown = cfg.cooldown
  BY <1>1 DEF SwitchPending
<1>3. CASE state = "LIMITED" /\ cooldown_age = 0 /\ recovery_step = 0
  <2>1. state_file.state \in {"NORMAL", "LIMITED"}
    BY DEF TypeInv, TypeOK, StateFiles
  <2>2. Record!Limit
    BY <1>1, <1>2, <1>3, <2>1, SavedRecord DEF Record!Limit
  <2> QED
    BY <2>2 DEF Record!Next
<1>4. CASE state = "LIMITED" /\ Records("LIMITED", cooldown_age)
  BY <1>1, <1>2, <1>4, SavedRecord DEF Records, Record!vars
<1>5. CASE state = "NORMAL" /\ FileExpired
  <2>1. Record!Lift
    BY <1>1, <1>2, <1>5, SavedRecord DEF FileExpired, Records, Record!Lift
  <2> QED
    BY <2>1 DEF Record!Next
<1> QED
  BY <1>1, <1>3, <1>4, <1>5 DEF SwitchPending

\* Only six actions write the state file.
\* Nobody is in the shutdown who was not told to stop.
LEMMA StopIsAsked ==
    ASSUME StopWasAsked, [Next]_vars
    PROVE  StopWasAsked'
<1> USE DEF disk, machine, samples, events, StopWasAsked
<1>1. CASE BeginShutdown
  BY <1>1 DEF BeginShutdown
<1>2. CASE \/ StartupReadFails \/ Crash \/ CommandRaises \/ ReloadRaises \/ Exit
           \/ \E downtime \in Downtimes : Start(downtime)
  BY <1>2 DEF StartupReadFails, Crash, CommandRaises, ReloadRaises, Exit, Forget, Start
<1>3. CASE \/ FinishStartup \/ FallAsleep \/ Reload \/ SaveReload \/ ReloadRefused \/ Proceed
           \/ ReadFails \/ CounterReset \/ Sample \/ Evaluate \/ FinishIteration
           \/ \E seconds \in Lags, load \in Loads : Wake(seconds, load)
  BY <1>3 DEF FinishStartup, FallAsleep, Reload, SaveReload, ReloadRefused, Proceed,
      ReadFails, CounterReset, Sample, Evaluate, EnterLimited, Relimit, LimitNow, StepUp,
      NothingToDo, SaveSwitch, EnterNormal, FinishIteration, Wake
<1>4. CASE \/ CommandWorks \/ CommandIgnored \/ OnTerminate \/ OnHup \/ EditConfig
           \/ InterfaceRecreated \/ UNCHANGED vars
  BY <1>4 DEF CommandWorks, CommandIgnored, OnTerminate, OnHup, EditConfig,
      InterfaceRecreated, vars
<1> QED
  BY <1>1, <1>2, <1>3, <1>4 DEF Next, Run, Restart, Command, Iterate

LEMMA DaemonStepIsRecord ==
    ASSUME TypeInv, RecordInv, StopWasAsked, [Next]_vars
    PROVE  Record!Next \/ UNCHANGED Record!vars
<1> USE DEF disk
<1>1. CASE \E downtime \in Downtimes : Start(downtime)
  <2>1. PICK downtime \in Downtimes : Start(downtime)
    BY <1>1
  <2>2. downtime \in Nat
    BY DaemonAssumption
  <2> QED
    BY <2>1, <2>2, AgingIsElapse DEF Start, RecordInv, Record!Next
<1>2. CASE \E seconds \in Lags, load \in Loads : Wake(seconds, load)
  <2>1. PICK seconds \in Lags, load \in Loads : Wake(seconds, load)
    BY <1>2
  <2>2. seconds \in Nat
    BY DaemonAssumption DEF Positive
  <2> QED
    BY <2>1, <2>2, AgingIsElapse DEF Wake, RecordInv, Record!Next
<1>3. CASE FinishStartup
  BY <1>3, StartupIsRecord
<1>4. CASE SaveReload
  <2>1. Save /\ Records(state, cooldown_age)
    BY <1>4 DEF SaveReload, RecordInv
  <2>2. Record!Reconfigure
    BY <2>1, SavedRecord DEF Records, Record!Reconfigure
  <2> QED
    BY <2>2 DEF Record!Next
<1>5. CASE SaveSwitch
  BY <1>5, SwitchIsRecord
<1>6. CASE FinishIteration
  <2>1. Synced
    BY <1>6 DEF FinishIteration, RecordInv, Settled
  <2>2. state_file' = state_file
    BY <1>6, <2>1 DEF FinishIteration, Synced, Save
  <2> QED
    BY <2>2 DEF Record!vars
<1>7. CASE Exit
  <2>1. Record!TurnOff
    BY <1>7 DEF Exit, NoFile, StopWasAsked, Record!TurnOff, Record!Init
  <2> QED
    BY <2>1 DEF Record!Next
<1>8. CASE StartupReadFails \/ Crash \/ CommandWorks \/ CommandIgnored \/ CommandRaises
           \/ FallAsleep \/ Reload \/ ReloadRefused \/ ReloadRaises \/ Proceed
           \/ BeginShutdown \/ ReadFails \/ CounterReset \/ Sample \/ EnterLimited
           \/ Relimit \/ StepUp \/ NothingToDo \/ EnterNormal \/ OnTerminate \/ OnHup
           \/ EditConfig \/ InterfaceRecreated \/ UNCHANGED vars
  <2>1. state_file' = state_file
    BY <1>8 DEF StartupReadFails, Crash, CommandWorks, CommandIgnored, CommandRaises,
                FallAsleep, Reload, ReloadRefused, ReloadRaises, Proceed, BeginShutdown,
                ReadFails, CounterReset, Sample, EnterLimited, Relimit, LimitNow, StepUp,
                NothingToDo, EnterNormal, OnTerminate, OnHup, EditConfig, InterfaceRecreated,
                vars
  <2> QED
    BY <2>1 DEF Record!vars
<1> QED
  BY <1>1, <1>2, <1>3, <1>4, <1>5, <1>6, <1>7, <1>8
     DEF Next, Run, Restart, Command, Iterate, Evaluate

\* The state file is a limiter: a recorded limit is lifted only when its
\* cooldown is over or the daemon is stopped, whatever is killed, restarted,
\* reconfigured or fails.
THEOREM DaemonImplementsLimiter == Spec => LimitIsDurable
<1>1. Init => Record!Init
  BY DEF Init, NoFile, Record!Init
<1>2. TypeInv /\ RecordInv /\ StopWasAsked /\ [Next]_vars => [Record!Next]_(Record!vars)
  BY DaemonStepIsRecord
<1>3. Init => StopWasAsked
  BY DEF Init, StopWasAsked
<1>4. StopWasAsked /\ [Next]_vars => StopWasAsked'
  BY StopIsAsked
<1> QED
  BY <1>1, <1>2, <1>3, <1>4, RecordInvariant, PTL DEF Spec, LimitIsDurable, Record!Spec

=============================================================================
