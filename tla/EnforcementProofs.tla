-------------------------- MODULE EnforcementProofs --------------------------
(***************************************************************************)
(* Proofs about the daemon and the kernel: what the state machine decided  *)
(* is what the kernel enforces, no later than the clock allows, with every *)
(* overload noticed and nothing left behind.                               *)
(*                                                                         *)
(* A reload takes over limits, cooldown, threshold and dry_run without     *)
(* touching a limit that lasts.  Each theorem says which of these the      *)
(* configurations the daemon may meet must have in common; without         *)
(* signals there are no reloads and nothing is asked of them.              *)
(***************************************************************************)
EXTENDS DaemonProofs

\* What the daemon may read, or have built in.
Configs == {Defaults} \cup {f.config : f \in Files}

\* What reloads leave alone.
DryRunStays == CanSignal => \A c \in Configs : c.dry_run = Defaults.dry_run
CooldownStays == CanSignal => \A c \in Configs : c.cooldown = Defaults.cooldown
ThresholdStays == CanSignal => \A c \in Configs : c.threshold = Defaults.threshold
LowerStays == CanSignal => \A c \in Configs : c.lower = Defaults.lower
\* The normal rate may change where no step of a ramp depends on it.
RampStays ==
    CanSignal => \/ \A c \in Configs : c.higher = Defaults.higher
                 \/ \A c \in Configs : c.recovery_steps = 1

\* Then they are those of the daemon, too.
ConfigInv ==
    /\ reload_requested => CanSignal
    /\ CanSignal =>
          /\ DryRunStays => cfg.dry_run = Defaults.dry_run
          /\ CooldownStays => cfg.cooldown = Defaults.cooldown
          /\ ThresholdStays => cfg.threshold = Defaults.threshold
          /\ LowerStays => cfg.lower = Defaults.lower
          /\ (\A c \in Configs : c.higher = Defaults.higher) => cfg.higher = Defaults.higher
          /\ (\A c \in Configs : c.recovery_steps = 1) => cfg.recovery_steps = 1

\* Where the daemon is in a call of tc_change_rate.
Changing == pc \in {"reloading", "switching"}

\* tc commands run only inside a call, and a failing one takes no rule away: only
\* the loss of the interface does.
RulesInv ==
    /\ pc \notin {"init", "reloading", "switching", "stopping"} => tc = << >>
    /\ recreated => CanFail
    /\ ~cfg.dry_run /\ Changing => ChangeCall(tc, CurrentRate)
    /\ ~cfg.dry_run /\ ~recreated =>
          /\ pc = "init" => InitCall(kernel, tc, CurrentRate)
          /\ pc \notin {"down", "init", "stopping"} => InPlace(kernel)

\* While no command fails the kernel is at the rate of the state machine,
\* up to the commands of the call that is going on.
RatesInv ==
    ~cfg.dry_run =>
        /\ pc = "init" => InitUnharmed(kernel, tc, CurrentRate)
        /\ Settled \/ pc = "recovered" => Shaped(kernel, CurrentRate)
        /\ Changing => kernel.link = "up" /\ ChangeUnharmed(kernel, tc, CurrentRate)

\* tc_cleanup takes the rules away one by one.
StoppingInv == pc = "stopping" => CleanupCall(tc) /\ CleanupUnharmed(kernel, tc)

\* No step is taken before it is due.
StepOnTime ==
    state = "LIMITED" => recovery_step * cfg.cooldown <= cooldown_age * cfg.recovery_steps

\* Where the window of an unlimited daemon is known not to ask for the limit:
\* not after a sample, nor where a reload may have lowered the threshold.
Watched ==
    \/ pc \in {"init", "head", "asleep", "awake", "switching", "summary"}
    \/ CanFail /\ pc \in {"reloading", "reloaded", "sampling"}

OverloadInv == Watched /\ state = "NORMAL" => ~Triggered

-----------------------------------------------------------------------------
(* Configurations. *)

LEMMA LoadedIsConfig ==
    ASSUME config_file \in Files, NEW source
    PROVE  LoadedConfig(source) \in Configs
BY DEF LoadedConfig, Configs

LEMMA ConfigInit ==
    ASSUME Init
    PROVE  ConfigInv
BY DEF Init, ConfigInv, Configs

\* What a reload leaves as it was.
LEMMA ReloadKeeps ==
    ASSUME TypeInv, ConfigInv, Reload
    PROVE  /\ CanSignal
           /\ cfg'.recovery_steps = cfg.recovery_steps
           /\ DryRunStays => cfg'.dry_run = cfg.dry_run
           /\ CooldownStays => cfg'.cooldown = cfg.cooldown
           /\ ThresholdStays => cfg'.threshold = cfg.threshold
           /\ LowerStays => cfg'.lower = cfg.lower
           /\ (\A c \in Configs : c.higher = Defaults.higher) => cfg'.higher = cfg.higher
           /\ (\A c \in Configs : c.recovery_steps = 1) => cfg.recovery_steps = 1
<1> DEFINE new == LoadedConfig(cfg.source)
<1>1. CanSignal
  BY DEF Reload, ConfigInv
<1>2. new \in Configs /\ new \in ValidConfigs
  BY LoadedIsConfig, LoadedConfigType DEF Reload, TypeInv, TypeOK
<1>3. cfg' = ReloadConfig(cfg, new)
  BY DEF Reload
<1> HIDE DEF new
<1>4. /\ cfg'.recovery_steps = cfg.recovery_steps /\ cfg'.dry_run = new.dry_run
      /\ cfg'.cooldown = new.cooldown /\ cfg'.threshold = new.threshold
      /\ cfg'.lower = new.lower /\ cfg'.higher = new.higher
  BY <1>2, <1>3 DEF ReloadConfig, ValidConfigs, RawConfigs
<1> QED
  BY <1>1, <1>2, <1>4 DEF ConfigInv, DryRunStays, CooldownStays, ThresholdStays, LowerStays

LEMMA ConfigStep ==
    ASSUME TypeInv, ConfigInv, [Next]_vars
    PROVE  ConfigInv'
<1> USE DEF disk, machine, samples, events
<1>1. CASE cfg' \in Configs /\ (reload_requested' => CanSignal)
  BY <1>1 DEF ConfigInv, DryRunStays, CooldownStays, ThresholdStays, LowerStays
<1>2. CASE \E downtime \in Downtimes : Start(downtime)
  <2>1. cfg' \in Configs /\ UNCHANGED reload_requested
    BY <1>2, LoadedIsConfig DEF Start, TypeInv, TypeOK
  <2> QED
    BY <1>1, <2>1 DEF ConfigInv
<1>3. CASE StartupReadFails \/ Crash \/ CommandRaises \/ ReloadRaises \/ Exit
  <2>1. cfg' = Defaults /\ ~reload_requested'
    BY <1>3 DEF StartupReadFails, Crash, CommandRaises, ReloadRaises, Exit, Forget
  <2> QED
    BY <1>1, <2>1 DEF Configs
<1>4. CASE Reload
  <2>1. reload_requested' = reload_requested
    BY <1>4 DEF Reload
  <2> QED
    BY <1>4, <2>1, ReloadKeeps DEF ConfigInv
<1>5. CASE UNCHANGED cfg /\ (reload_requested' => CanSignal)
  BY <1>5 DEF ConfigInv, DryRunStays, CooldownStays, ThresholdStays, LowerStays
<1>6. CASE OnHup
  BY <1>5, <1>6 DEF OnHup, Handled
<1>7. CASE Proceed \/ BeginShutdown
  BY <1>5, <1>7 DEF Proceed, BeginShutdown, ClearRequest, ConfigInv
<1>8. CASE \/ FinishStartup \/ CommandWorks \/ CommandIgnored \/ FallAsleep \/ SaveReload
           \/ ReloadRefused \/ ReadFails \/ CounterReset \/ Sample \/ Evaluate
           \/ FinishIteration \/ OnTerminate \/ EditConfig \/ InterfaceRecreated
           \/ UNCHANGED vars
           \/ \E seconds \in Lags, load \in Loads : Wake(seconds, load)
  <2>1. UNCHANGED << cfg, reload_requested >>
    BY <1>8 DEF FinishStartup, CommandWorks, CommandIgnored, FallAsleep, SaveReload,
        ReloadRefused, ReadFails, CounterReset, Sample, Evaluate, EnterLimited, Relimit,
        LimitNow, StepUp, NothingToDo, SaveSwitch, EnterNormal, FinishIteration, OnTerminate,
        EditConfig, InterfaceRecreated, Wake, vars
  <2> QED
    BY <1>5, <2>1 DEF ConfigInv
<1> QED
  BY <1>2, <1>3, <1>4, <1>6, <1>7, <1>8 DEF Next, Run, Restart, Command, Iterate

-----------------------------------------------------------------------------
(* The rules in the kernel. *)

LEMMA RateFacts ==
    ASSUME TypeInv
    PROVE  /\ CurrentRate \in Positive /\ kernel \in KernelStates(Positive)
           /\ tc \in Seq(Commands(Positive))
           /\ cfg.dry_run \in BOOLEAN /\ cfg.lower \in Positive /\ cfg.higher \in Positive
           /\ state \in {"NORMAL", "LIMITED"}
BY RateOfRange, ConfigFields DEF TypeInv, TypeOK, CurrentRate

\* A call that has run nothing left to run has run everything.
LEMMA EmptyChange ==
    ASSUME NEW todo, todo = << >>, NEW rate \in Positive
    PROVE  /\ ChangeCall(todo, rate)
           /\ \A k : ChangeUnharmed(k, todo, rate) <=>
                        k.root["iface"] = rate /\ k.root["ifb0"] = rate
<1> DEFINE w == Change(rate)
<1>1. w \in Seq(Commands(Positive)) /\ Len(w) = 2
  BY ChangeCommands
<1> HIDE DEF w
<1>2. Rest(todo, w) /\ Done(todo, w) = 2
  <2>1. Rest(<< >>, w) /\ Done(<< >>, w) = Len(w)
    BY <1>1, EmptyIsRest
  <2> QED
    BY <1>1, <2>1
<1> QED
  BY <1>2 DEF ChangeCall, ChangeUnharmed, w

\* Commands run only inside a call.
LEMMA CallPlaces ==
    ASSUME RulesInv, tc # << >>
    PROVE  pc = "init" \/ Changing \/ pc = "stopping"
BY DEF RulesInv, Changing

LEMMA RulesInit ==
    ASSUME Init
    PROVE  RulesInv
BY DEF Init, RulesInv, Changing

\* A command that works takes the call one step on,
LEMMA RulesWorks ==
    ASSUME TypeInv, RulesInv, CommandWorks
    PROVE  RulesInv'
<1> DEFINE c == Head(tc)
           rate == CurrentRate
           k == kernel
           e == Effect(kernel, Head(tc))
<1>1. /\ kernel' = e /\ tc' = Tail(tc) /\ tc # << >>
      /\ pc' = pc /\ cfg' = cfg /\ CurrentRate' = rate /\ recreated' = recreated
  BY DEF CommandWorks, machine, events, CurrentRate
<1>2. /\ rate \in Positive /\ kernel \in KernelStates(Positive)
      /\ tc \in Seq(Commands(Positive)) /\ Positive \subseteq Nat \ {0}
  BY RateFacts DEF Positive
<1>3. pc = "init" \/ Changing \/ pc = "stopping"
  BY <1>1, CallPlaces
<1> HIDE DEF rate, e
<1>4. ASSUME ~cfg.dry_run, ~recreated, pc = "init"
      PROVE  InitCall(e, Tail(tc), rate)
  <2>1. InitCall(kernel, tc, rate)
    BY <1>4 DEF RulesInv, rate
  <2> QED
    BY <1>1, <1>2, <2>1, InitWorks DEF e
<1>5. ASSUME ~cfg.dry_run, Changing
      PROVE  ChangeCall(Tail(tc), rate) /\ (~recreated => InPlace(e))
  <2>1. ChangeCall(tc, rate) /\ (~recreated => InPlace(kernel))
    BY <1>5 DEF RulesInv, rate, Changing
  <2> QED
    BY <1>1, <1>2, <2>1, ChangeGoesOn DEF e
<1> QED
  BY <1>1, <1>3, <1>4, <1>5 DEF RulesInv, Changing

\* and one that fails leaves the kernel as it is.
LEMMA RulesIgnored ==
    ASSUME TypeInv, RulesInv, CommandIgnored
    PROVE  RulesInv'
<1> DEFINE rate == CurrentRate
<1>1. /\ kernel' = kernel /\ tc' = Tail(tc) /\ tc # << >> /\ ~Head(tc).critical
      /\ pc' = pc /\ cfg' = cfg /\ CurrentRate' = rate /\ recreated' = recreated
  BY DEF CommandIgnored, CommandFails, machine, events, CurrentRate
<1>2. /\ rate \in Positive /\ kernel \in KernelStates(Positive)
      /\ tc \in Seq(Commands(Positive)) /\ Positive \subseteq Nat \ {0}
  BY RateFacts DEF Positive
<1>3. pc = "init" \/ Changing \/ pc = "stopping"
  BY <1>1, CallPlaces
<1> HIDE DEF rate
<1>4. ASSUME ~cfg.dry_run, ~recreated, pc = "init"
      PROVE  InitCall(kernel, Tail(tc), rate)
  <2>1. InitCall(kernel, tc, rate)
    BY <1>4 DEF RulesInv, rate
  <2> QED
    BY <1>1, <1>2, <2>1, InitSkipped
<1>5. ASSUME ~cfg.dry_run, Changing
      PROVE  ChangeCall(Tail(tc), rate) /\ (~recreated => InPlace(kernel))
  <2>1. ChangeCall(tc, rate) /\ (~recreated => InPlace(kernel))
    BY <1>5 DEF RulesInv, rate, Changing
  <2> QED
    BY <1>1, <1>2, <2>1, ChangeGoesOn
<1> QED
  BY <1>1, <1>3, <1>4, <1>5 DEF RulesInv, Changing

\* A call of tc_init starts,
LEMMA RulesStart ==
    ASSUME TypeInv, TypeOK', RulesInv, NEW downtime \in Downtimes, Start(downtime)
    PROVE  RulesInv'
<1> DEFINE rate == RateOf(cfg', state', 0)
<1>1. /\ pc' = "init" /\ CurrentRate' = rate /\ tc' = TcInit(rate, cfg'.dry_run)
  BY DEF Start, CurrentRate
<1>2. rate \in Positive
  <2>1. cfg' \in ValidConfigs /\ recovery_step' \in 0 .. cfg'.recovery_steps /\ recovery_step' = 0
    BY DEF TypeOK, Start
  <2> QED
    BY <2>1, RateOfRange
<1> HIDE DEF rate
<1>3. ~cfg'.dry_run => InitCall(kernel', tc', rate)
  BY <1>1, <1>2, CallCommands, InitStarts
<1>4. recreated' = recreated /\ (recreated => CanFail)
  BY DEF Start, events, RulesInv
<1> QED
  BY <1>1, <1>3, <1>4 DEF RulesInv, Changing

\* and has set up the rules when it is over.
LEMMA RulesSetUp ==
    ASSUME TypeInv, RulesInv, pc = "init", tc = << >>, ~cfg.dry_run, ~recreated
    PROVE  /\ InPlace(kernel) /\ \A d \in Devices : kernel.root[d] = CurrentRate
           /\ kernel.ingress = "redirect"
           /\ InitUnharmed(kernel, tc, CurrentRate) => kernel.link = "up"
<1> DEFINE rate == CurrentRate
<1>1. rate \in Positive /\ kernel \in KernelStates(Positive) /\ rate > NoClass
  BY RateFacts DEF Positive, NoClass
<1>2. InitCall(kernel, tc, rate)
  BY DEF RulesInv
<1> HIDE DEF rate
<1>3. /\ \A d \in Devices : kernel.root[d] = rate
      /\ kernel.ingress = "redirect"
      /\ InitUnharmed(kernel, tc, rate) => kernel.link = "up"
  BY <1>1, <1>2, InitOver
<1> QED
  BY <1>1, <1>3 DEF InPlace, rate

\* A reload and every transition call tc_change_rate for the rate that is the
\* current one from then on.
LEMMA ChangeBegins ==
    ASSUME TypeInv, (Reload /\ state = "NORMAL") \/ EnterLimited \/ Relimit \/ StepUp \/ EnterNormal
    PROVE  /\ Changing' /\ tc' = TcChangeRate(CurrentRate', cfg'.dry_run)
           /\ kernel' = kernel /\ recreated' = recreated
<1> USE DEF disk, machine, samples, events
<1>1. CASE Reload /\ state = "NORMAL"
  BY <1>1 DEF Reload, Changing, CurrentRate, RateOf
<1>2. CASE EnterLimited \/ Relimit
  <2>1. /\ pc' = "switching" /\ state' = "LIMITED" /\ recovery_step' = 0 /\ cfg' = cfg
        /\ kernel' = kernel /\ tc' = TcChangeRate(cfg.lower, cfg.dry_run)
        /\ recreated' = recreated
    BY <1>2 DEF EnterLimited, Relimit, LimitNow
  <2>2. CurrentRate' = cfg.lower
    BY <2>1 DEF CurrentRate, RateOf
  <2> QED
    BY <2>1, <2>2 DEF Changing
<1>3. CASE StepUp
  BY <1>3 DEF StepUp, Changing, CurrentRate
<1>4. CASE EnterNormal
  BY <1>4 DEF EnterNormal, Changing, CurrentRate, RateOf
<1> QED
  BY <1>1, <1>2, <1>3, <1>4

\* Everything in the loop but a reload and a transition leaves rules and rate alone.
LEMMA QuietSteps ==
    ASSUME FallAsleep \/ SaveReload \/ ReloadRefused \/ Proceed \/ ReadFails \/ CounterReset
           \/ Sample \/ NothingToDo \/ SaveSwitch \/ FinishIteration
           \/ (\E seconds \in Lags, load \in Loads : Wake(seconds, load))
    PROVE  /\ UNCHANGED << kernel, tc, cfg, state, recovery_step, recreated, CurrentRate >>
           /\ Settled \/ Changing
           /\ Settled' \/ (pc' = "recovered" /\ Changing)
           /\ Changing => tc = << >>
BY DEF FallAsleep, SaveReload, ReloadRefused, Proceed, ReadFails, CounterReset, Sample,
       NothingToDo, SaveSwitch, FinishIteration, Wake, ReloadOver, Settled, Changing,
       CurrentRate, disk, machine, samples, events

LEMMA RulesStep ==
    ASSUME TypeInv, TypeOK', ConfigInv, RulesInv, DryRunStays, [Next]_vars
    PROVE  RulesInv'
<1> USE DEF disk, machine, samples, events
<1>1. CASE \E downtime \in Downtimes : Start(downtime)
  BY <1>1, RulesStart
<1>2. CASE StartupReadFails \/ Crash \/ CommandRaises \/ ReloadRaises \/ Exit
  BY <1>2 DEF StartupReadFails, Crash, CommandRaises, ReloadRaises, Exit, Forget, RulesInv,
              Changing
<1>3. CASE CommandWorks
  BY <1>3, RulesWorks
<1>4. CASE CommandIgnored
  BY <1>4, RulesIgnored
<1>5. CASE FinishStartup
  <2>1. /\ UNCHANGED << kernel, tc, cfg, recreated >>
        /\ pc' = "head" /\ pc = "init" /\ tc = << >>
    BY <1>5 DEF FinishStartup
  <2>2. ~cfg.dry_run /\ ~recreated => InPlace(kernel)
    BY <2>1, RulesSetUp
  <2> QED
    BY <2>1, <2>2 DEF RulesInv, Changing
<1>6. CASE FallAsleep \/ SaveReload \/ ReloadRefused \/ Proceed \/ ReadFails \/ CounterReset
           \/ Sample \/ NothingToDo \/ SaveSwitch \/ FinishIteration
           \/ (\E seconds \in Lags, load \in Loads : Wake(seconds, load))
  <2>1. /\ UNCHANGED << kernel, tc, cfg, recreated >> /\ (Settled \/ Changing)
        /\ Settled' \/ pc' = "recovered"
        /\ Changing => tc = << >>
    BY <1>6, QuietSteps
  <2>2. /\ ~Changing' /\ pc' \notin {"init", "stopping"}
        /\ pc \notin {"down", "init", "stopping"}
    BY <2>1 DEF Settled, Changing
  <2>3. tc = << >>
    BY <2>1, <2>2 DEF RulesInv, Changing
  <2>4. ~cfg.dry_run /\ ~recreated => InPlace(kernel)
    BY <2>2 DEF RulesInv
  <2> QED
    BY <2>1, <2>2, <2>3, <2>4 DEF RulesInv
<1>7. CASE BeginShutdown
  BY <1>7 DEF BeginShutdown, RulesInv, Changing
<1>8. CASE (Reload /\ state = "NORMAL") \/ EnterLimited \/ Relimit \/ StepUp \/ EnterNormal
  <2>1. /\ Changing' /\ tc' = TcChangeRate(CurrentRate', cfg'.dry_run)
        /\ kernel' = kernel /\ recreated' = recreated
    BY <1>8, ChangeBegins
  <2>2. cfg'.dry_run = cfg.dry_run /\ pc \in {"awake", "evaluate", "recovered"}
    <3>1. CASE Reload
      BY <3>1, ReloadKeeps DEF Reload
    <3>2. CASE EnterLimited \/ Relimit \/ StepUp \/ EnterNormal
      BY <3>2 DEF EnterLimited, Relimit, LimitNow, StepUp, EnterNormal
    <3> QED
      BY <1>8, <3>1, <3>2
  <2>3. CurrentRate' \in Positive
    BY RateOfRange DEF TypeOK, CurrentRate
  <2>4. ~cfg'.dry_run => ChangeCall(tc', CurrentRate')
    BY <2>1, <2>3, CallCommands, ChangeStarts
  <2> QED
    BY <2>1, <2>2, <2>4 DEF RulesInv, Changing
<1>9. CASE Reload /\ state # "NORMAL"
  <2>1. /\ pc = "awake" /\ pc' = "reloading" /\ kernel' = kernel /\ tc' = << >>
        /\ recreated' = recreated
    BY <1>9 DEF Reload
  <2>2. cfg'.dry_run = cfg.dry_run
    BY <1>9, ReloadKeeps
  <2>3. CurrentRate' \in Positive
    BY RateOfRange DEF TypeOK, CurrentRate
  <2>4. ChangeCall(tc', CurrentRate')
    BY <2>1, <2>3, EmptyChange
  <2> QED
    BY <2>1, <2>2, <2>4 DEF RulesInv, Changing
<1>10. CASE OnTerminate \/ OnHup \/ EditConfig \/ UNCHANGED vars
  BY <1>10 DEF OnTerminate, OnHup, EditConfig, vars, RulesInv, Changing, CurrentRate
<1>11. CASE InterfaceRecreated
  BY <1>11 DEF InterfaceRecreated, RulesInv, Changing, CurrentRate
<1> QED
  BY <1>1, <1>2, <1>3, <1>4, <1>5, <1>6, <1>7, <1>8, <1>9, <1>10, <1>11
     DEF Next, Run, Restart, Command, Iterate, Evaluate

LEMMA RulesInvariant ==
    ASSUME DryRunStays
    PROVE  Spec => [](TypeInv /\ ConfigInv /\ RulesInv)
<1>1. Init => ConfigInv /\ RulesInv
  BY ConfigInit, RulesInit
<1>2. TypeInv /\ TypeInv' /\ ConfigInv /\ RulesInv /\ [Next]_vars => ConfigInv' /\ RulesInv'
  BY ConfigStep, RulesStep DEF TypeInv
<1> QED
  BY <1>1, <1>2, TypeInvariant, PTL DEF Spec

\* Whatever fails or dies, from the end of a startup on both directions have a
\* class and ingress traffic is redirected into it, if no reload turns a dry
\* run into a real one.
THEOREM RulesStayInPlace ==
    ASSUME DryRunStays
    PROVE  Spec => []LimitsInPlace
<1>1. TypeInv /\ RulesInv => LimitsInPlace
  BY DEF TypeInv, RulesInv, LimitsInPlace, Settled, InPlace
<1> QED
  BY <1>1, RulesInvariant, PTL

-----------------------------------------------------------------------------
(* The rates in the kernel, while no command fails. *)

LEMMA ShapedFrom ==
    ASSUME NEW k \in KernelStates(Positive), NEW rate, \A d \in Devices : k.root[d] = rate,
           k.ingress = "redirect", k.link = "up"
    PROVE  Shaped(k, rate)
<1>1. k.root \in [Devices -> {NoQdisc, NoClass} \cup Positive]
  BY DEF KernelStates
<1> QED
  BY <1>1 DEF Shaped

LEMMA RatesInit ==
    ASSUME Init
    PROVE  RatesInv /\ StoppingInv
BY DEF Init, RatesInv, StoppingInv, Settled, Changing

LEMMA RatesWorks ==
    ASSUME ~CanFail, TypeInv, RulesInv, RatesInv, CommandWorks
    PROVE  RatesInv'
<1> DEFINE rate == CurrentRate
           e == Effect(kernel, Head(tc))
<1>1. /\ kernel' = e /\ tc' = Tail(tc) /\ tc # << >>
      /\ pc' = pc /\ cfg' = cfg /\ CurrentRate' = rate
  BY DEF CommandWorks, machine, CurrentRate
<1>2. /\ rate \in Positive /\ kernel \in KernelStates(Positive)
      /\ tc \in Seq(Commands(Positive)) /\ Positive \subseteq Nat \ {0}
  BY RateFacts DEF Positive
<1>3. pc = "init" \/ Changing \/ pc = "stopping"
  BY <1>1, CallPlaces
<1> HIDE DEF rate, e
<1>4. ASSUME ~cfg.dry_run, pc = "init"
      PROVE  InitUnharmed(e, Tail(tc), rate)
  <2>1. InitCall(kernel, tc, rate) /\ InitUnharmed(kernel, tc, rate)
    BY <1>4 DEF RulesInv, RatesInv, rate
  <2> QED
    BY <1>1, <1>2, <2>1, InitWorks DEF e
<1>5. ASSUME ~cfg.dry_run, Changing
      PROVE  e.link = "up" /\ ChangeUnharmed(e, Tail(tc), rate)
  <2>1. /\ ChangeCall(tc, rate) /\ ChangeUnharmed(kernel, tc, rate)
        /\ kernel.link = "up"
    BY <1>5 DEF RulesInv, RatesInv, rate, Changing
  <2> QED
    BY <1>1, <1>2, <2>1, ChangeGoesOn DEF e
<1> QED
  BY <1>1, <1>3, <1>4, <1>5 DEF RatesInv, Changing, Settled

\* No command that could work is skipped.
LEMMA RatesIgnored ==
    ASSUME ~CanFail, TypeInv, RulesInv, RatesInv, CommandIgnored
    PROVE  RatesInv'
<1> DEFINE rate == CurrentRate
<1>1. /\ kernel' = kernel /\ tc' = Tail(tc) /\ tc # << >> /\ ~Head(tc).critical
      /\ pc' = pc /\ cfg' = cfg /\ CurrentRate' = rate /\ ~Works(kernel, Head(tc))
  BY DEF CommandIgnored, CommandFails, machine, CurrentRate
<1>2. /\ rate \in Positive /\ kernel \in KernelStates(Positive)
      /\ tc \in Seq(Commands(Positive)) /\ Positive \subseteq Nat \ {0}
  BY RateFacts DEF Positive
<1>3. pc = "init" \/ Changing \/ pc = "stopping"
  BY <1>1, CallPlaces
<1> HIDE DEF rate
<1>4. ASSUME ~cfg.dry_run, pc = "init"
      PROVE  InitUnharmed(kernel, Tail(tc), rate)
  <2>1. InitCall(kernel, tc, rate) /\ InitUnharmed(kernel, tc, rate)
    BY <1>4 DEF RulesInv, RatesInv, rate
  <2> QED
    BY <1>1, <1>2, <2>1, InitSkipped
<1>5. ~(~cfg.dry_run /\ Changing)
  <2> SUFFICES ASSUME ~cfg.dry_run, Changing PROVE FALSE
    OBVIOUS
  <2>1. ChangeCall(tc, rate) /\ InPlace(kernel)
    BY DEF RulesInv, rate, Changing
  <2> QED
    BY <1>1, <1>2, <2>1, ChangeGoesOn
<1> QED
  BY <1>1, <1>3, <1>4, <1>5 DEF RatesInv, Changing, Settled

\* Where the kernel is shaped no change is left to make.
LEMMA ShapedRoots ==
    ASSUME NEW k, NEW rate, Shaped(k, rate)
    PROVE  /\ k.root["iface"] = rate /\ k.root["ifb0"] = rate
           /\ k.ingress = "redirect" /\ k.link = "up"
BY DEF Shaped, Devices

\* The rate of a lasting limit is not touched by a reload.
LEMMA LimitKept ==
    ASSUME TypeInv, ConfigInv, LowerStays, RampStays, Reload, state # "NORMAL"
    PROVE  CurrentRate' = CurrentRate
<1>1. state' = state /\ recovery_step' = recovery_step /\ state = "LIMITED"
  BY RateFacts DEF Reload, machine
<1>2. cfg'.lower = cfg.lower /\ cfg'.recovery_steps = cfg.recovery_steps
  BY ReloadKeeps
<1>3. cfg.recovery_steps = 1 \/ cfg'.higher = cfg.higher
  BY ReloadKeeps DEF RampStays
<1> QED
  BY <1>1, <1>2, <1>3 DEF CurrentRate, RateOf, StepSize

LEMMA RatesStep ==
    ASSUME ~CanFail, LowerStays, RampStays, DryRunStays,
           TypeInv, TypeOK', ConfigInv, RulesInv, RatesInv, [Next]_vars
    PROVE  RatesInv'
<1> USE DEF disk, machine, samples, events
<1>0. kernel \in KernelStates(Positive) /\ CurrentRate \in Positive
  BY RateFacts
<1>1. CASE \E downtime \in Downtimes : Start(downtime)
  <2> PICK downtime \in Downtimes : Start(downtime)
    BY <1>1
  <2> DEFINE rate == RateOf(cfg', state', 0)
  <2>1. /\ pc' = "init" /\ CurrentRate' = rate /\ tc' = TcInit(rate, cfg'.dry_run)
    BY DEF Start, CurrentRate
  <2>2. rate \in Positive
    <3>1. cfg' \in ValidConfigs /\ recovery_step' \in 0 .. cfg'.recovery_steps /\ recovery_step' = 0
      BY DEF TypeOK, Start
    <3> QED
      BY <3>1, RateOfRange
  <2> HIDE DEF rate
  <2>3. ~cfg'.dry_run => InitUnharmed(kernel', tc', rate)
    BY <2>1, <2>2, CallCommands, InitStarts
  <2> QED
    BY <2>1, <2>3 DEF RatesInv, Changing, Settled
<1>2. CASE StartupReadFails \/ Crash \/ CommandRaises \/ ReloadRaises \/ Exit
  BY <1>2 DEF StartupReadFails, Crash, CommandRaises, ReloadRaises, Exit, Forget, RatesInv,
              Changing, Settled
<1>3. CASE CommandWorks
  BY <1>3, RatesWorks
<1>4. CASE CommandIgnored
  BY <1>4, RatesIgnored
<1>5. CASE FinishStartup
  <2>1. UNCHANGED << kernel, tc, cfg, CurrentRate >> /\ pc' = "head" /\ pc = "init" /\ tc = << >>
    BY <1>5 DEF FinishStartup, CurrentRate
  <2>2. ASSUME ~cfg.dry_run PROVE Shaped(kernel, CurrentRate)
    <3>1. InitUnharmed(kernel, tc, CurrentRate)
      BY <2>1, <2>2 DEF RatesInv
    <3>2. /\ \A d \in Devices : kernel.root[d] = CurrentRate
          /\ kernel.ingress = "redirect" /\ kernel.link = "up"
      BY <2>1, <2>2, <3>1, RulesSetUp DEF RulesInv
    <3> QED
      BY <1>0, <3>2, ShapedFrom
  <2> QED
    BY <2>1, <2>2 DEF RatesInv, Changing, Settled
<1>6. CASE FallAsleep \/ SaveReload \/ ReloadRefused \/ Proceed \/ ReadFails \/ CounterReset
           \/ Sample \/ NothingToDo \/ SaveSwitch \/ FinishIteration
           \/ (\E seconds \in Lags, load \in Loads : Wake(seconds, load))
  <2>1. /\ UNCHANGED << kernel, tc, cfg, CurrentRate >> /\ (Settled \/ Changing)
        /\ Settled' \/ pc' = "recovered"
        /\ Changing => tc = << >>
    BY <1>6, QuietSteps
  <2>2. ~Changing' /\ pc' # "init" /\ pc \notin {"down", "init", "stopping"}
    BY <2>1 DEF Settled, Changing
  <2>3. ASSUME ~cfg.dry_run PROVE Shaped(kernel, CurrentRate)
    <3>1. CASE Settled
      BY <2>3, <3>1 DEF RatesInv
    <3>2. CASE Changing
      <4>1. /\ kernel.link = "up" /\ ChangeUnharmed(kernel, tc, CurrentRate)
            /\ InPlace(kernel)
        BY <2>2, <2>3, <3>2 DEF RatesInv, RulesInv
      <4>2. \A d \in Devices : kernel.root[d] = CurrentRate
        BY <1>0, <2>1, <3>2, <4>1, ChangeOver
      <4> QED
        BY <1>0, <4>1, <4>2, ShapedFrom DEF InPlace
    <3> QED
      BY <2>1, <3>1, <3>2
  <2> QED
    BY <2>1, <2>2, <2>3 DEF RatesInv
<1>7. CASE BeginShutdown
  BY <1>7 DEF BeginShutdown, RatesInv, Changing, Settled
<1>8. CASE (Reload /\ state = "NORMAL") \/ EnterLimited \/ Relimit \/ StepUp \/ EnterNormal
  <2>1. Changing' /\ tc' = TcChangeRate(CurrentRate', cfg'.dry_run) /\ kernel' = kernel
    BY <1>8, ChangeBegins
  <2>2. cfg'.dry_run = cfg.dry_run /\ (Settled \/ pc = "recovered")
    <3>1. CASE Reload
      BY <3>1, ReloadKeeps DEF Reload, Settled
    <3>2. CASE EnterLimited \/ Relimit \/ StepUp \/ EnterNormal
      BY <3>2 DEF EnterLimited, Relimit, LimitNow, StepUp, EnterNormal, Settled
    <3> QED
      BY <1>8, <3>1, <3>2
  <2>3. CurrentRate' \in Positive
    BY RateOfRange DEF TypeOK, CurrentRate
  <2>4. ~cfg'.dry_run => ChangeUnharmed(kernel', tc', CurrentRate')
    BY <2>1, <2>3, CallCommands, ChangeStarts
  <2>5. ~cfg'.dry_run => kernel'.link = "up"
    BY <2>1, <2>2, ShapedRoots DEF RatesInv
  <2>6. pc' # "init" /\ ~Settled' /\ pc' # "recovered"
    BY <2>1 DEF Changing, Settled
  <2> QED
    BY <2>4, <2>5, <2>6 DEF RatesInv
<1>9. CASE Reload /\ state # "NORMAL"
  <2>1. pc = "awake" /\ pc' = "reloading" /\ kernel' = kernel /\ tc' = << >>
    BY <1>9 DEF Reload
  <2>2. cfg'.dry_run = cfg.dry_run /\ CurrentRate' = CurrentRate
    BY <1>9, ReloadKeeps, LimitKept
  <2>3. ASSUME ~cfg.dry_run
        PROVE  ChangeUnharmed(kernel', tc', CurrentRate') /\ kernel'.link = "up"
    <3>1. Shaped(kernel, CurrentRate)
      BY <2>1, <2>3 DEF RatesInv, Settled
    <3>2. /\ kernel.root["iface"] = CurrentRate /\ kernel.root["ifb0"] = CurrentRate
          /\ kernel.link = "up"
      BY <3>1, ShapedRoots
    <3>3. ChangeUnharmed(kernel, tc', CurrentRate)
      BY <1>0, <2>1, <3>2, EmptyChange
    <3> QED
      BY <2>1, <2>2, <3>2, <3>3
  <2> QED
    BY <2>1, <2>2, <2>3 DEF RatesInv, Changing, Settled
<1>10. CASE OnTerminate \/ OnHup \/ EditConfig \/ InterfaceRecreated \/ UNCHANGED vars
  BY <1>10 DEF OnTerminate, OnHup, EditConfig, InterfaceRecreated, vars, RatesInv, Changing,
               Settled, CurrentRate
<1> QED
  BY <1>1, <1>2, <1>3, <1>4, <1>5, <1>6, <1>7, <1>8, <1>9, <1>10
     DEF Next, Run, Restart, Command, Iterate, Evaluate

LEMMA RatesInvariant ==
    ASSUME ~CanFail, DryRunStays, LowerStays, RampStays
    PROVE  Spec => [](RulesInv /\ RatesInv)
<1>1. Init => RatesInv
  BY RatesInit
<1>2. /\ TypeInv /\ TypeInv' /\ ConfigInv /\ RulesInv /\ RatesInv /\ [Next]_vars
      => RatesInv'
  BY RatesStep DEF TypeInv
<1> QED
  BY <1>1, <1>2, RulesInvariant, PTL DEF Spec

\* While no tc command and no read fails, the kernel enforces the rate that the
\* state machine decided on, in both directions, and the state file shows it,
\* through crashes, restarts and the reloads that leave a limit alone.
THEOREM KernelFollows ==
    ASSUME ~CanFail, DryRunStays, LowerStays, RampStays
    PROVE  Spec => []RateEnforced
<1>1. RatesInv /\ RecordInv => RateEnforced
  BY DEF RatesInv, RecordInv, Synced, SavedAs, RateEnforced, CurrentRate
<1> QED
  BY <1>1, RatesInvariant, RecordInvariant, PTL

-----------------------------------------------------------------------------
(* The shutdown. *)

LEMMA StoppingStep ==
    ASSUME ~CanFail, TypeInv, StoppingInv, [Next]_vars
    PROVE  StoppingInv'
<1> USE DEF disk, machine, samples, events
<1>0. kernel \in KernelStates(Positive) /\ tc \in Seq(Commands(Positive))
  BY RateFacts
<1>1. CASE BeginShutdown
  BY <1>1, CleanupStarts DEF BeginShutdown, StoppingInv
<1>2. CASE CommandWorks
  <2>1. kernel' = Effect(kernel, Head(tc)) /\ tc' = Tail(tc) /\ tc # << >> /\ pc' = pc
    BY <1>2 DEF CommandWorks
  <2> QED
    BY <1>0, <2>1, CleanupGoesOn DEF StoppingInv
<1>3. CASE CommandIgnored
  <2>1. /\ kernel' = kernel /\ tc' = Tail(tc) /\ tc # << >> /\ pc' = pc
        /\ ~Works(kernel, Head(tc))
    BY <1>3 DEF CommandIgnored, CommandFails
  <2> QED
    BY <1>0, <2>1, CleanupGoesOn DEF StoppingInv
<1>4. CASE OnTerminate \/ OnHup \/ EditConfig \/ InterfaceRecreated \/ UNCHANGED vars
  BY <1>4 DEF OnTerminate, OnHup, EditConfig, InterfaceRecreated, vars, StoppingInv
<1>5. CASE StartupReadFails \/ Crash \/ CommandRaises \/ ReloadRaises \/ Exit
  BY <1>5 DEF StartupReadFails, Crash, CommandRaises, ReloadRaises, Exit, Forget, StoppingInv
<1>6. CASE \/ FinishStartup \/ FallAsleep \/ Reload \/ SaveReload \/ ReloadRefused \/ Proceed
           \/ ReadFails \/ CounterReset \/ Sample \/ Evaluate \/ FinishIteration
           \/ (\E seconds \in Lags, load \in Loads : Wake(seconds, load))
           \/ (\E downtime \in Downtimes : Start(downtime))
  BY <1>6 DEF FinishStartup, FallAsleep, Reload, SaveReload, ReloadRefused, Proceed,
      ReadFails, CounterReset, Sample, Evaluate, EnterLimited, Relimit, LimitNow, StepUp,
      NothingToDo, SaveSwitch, EnterNormal, FinishIteration, Wake, Start, StoppingInv
<1> QED
  BY <1>1, <1>2, <1>3, <1>4, <1>5, <1>6 DEF Next, Run, Restart, Command, Iterate

\* Only a process that ends by itself removes the state file.
LEMMA FileStays ==
    ASSUME TypeInv, [Next]_vars, ~Exit, state_file' = NoFile
    PROVE  state_file = NoFile
<1> USE DEF disk
<1>0. ASSUME NEW seconds \in Nat, state_file' = [state_file EXCEPT !.age = Later(@, seconds)]
      PROVE  state_file = NoFile
  <2>1. state_file \in StateFiles
    BY DEF TypeInv, TypeOK
  <2>2. /\ state_file.kind = "none" /\ state_file.state = "NORMAL" /\ state_file.rate = 0
        /\ state_file.cooldown = 0 /\ state_file.age = None
    BY <1>0, <2>1, AgedFile DEF NoFile
  <2> QED
    BY <2>1, <2>2 DEF StateFiles, NoFile
<1>1. CASE \E downtime \in Downtimes : Start(downtime)
  <2> PICK downtime \in Downtimes : Start(downtime)
    BY <1>1
  <2> QED
    BY <1>0, DaemonAssumption DEF Start
<1>2. CASE \E seconds \in Lags, load \in Loads : Wake(seconds, load)
  <2> PICK seconds \in Lags, load \in Loads : Wake(seconds, load)
    BY <1>2
  <2> QED
    BY <1>0, DaemonAssumption DEF Wake, Positive
<1>3. CASE Save \/ UNCHANGED state_file
  BY <1>3 DEF Save, SavedAs, NoFile
<1> QED
  BY <1>1, <1>2, <1>3 DEF Next, Run, Restart, Command, Iterate, Evaluate, FinishStartup,
     StartupReadFails, Crash, CommandWorks, CommandIgnored, CommandRaises, FallAsleep, Reload,
     SaveReload, ReloadRefused, ReloadRaises, Proceed, BeginShutdown, ReadFails,
     CounterReset, Sample, EnterLimited, Relimit, LimitNow, StepUp, NothingToDo, SaveSwitch,
     EnterNormal, FinishIteration, OnTerminate, OnHup, EditConfig, InterfaceRecreated, vars

\* While no tc command fails the state file goes last: it is removed when the
\* kernel is bare.
THEOREM LeavesNothing ==
    ASSUME ~CanFail
    PROVE  Spec => NothingLeftBehind
<1> DEFINE Step == state_file' = NoFile => state_file = NoFile \/ Bare(kernel)
<1>1. Init => StoppingInv
  BY RatesInit
<1>2. TypeInv /\ StoppingInv /\ [Next]_vars => StoppingInv'
  BY StoppingStep
<1>3. TypeInv /\ StoppingInv /\ [Next]_vars => [Step]_vars
  <2> SUFFICES ASSUME TypeInv, StoppingInv, [Next]_vars, state_file' = NoFile
               PROVE  state_file = NoFile \/ Bare(kernel)
    OBVIOUS
  <2>1. CASE Exit
    <3>1. pc = "stopping" /\ tc = << >> /\ kernel \in KernelStates(Positive)
      BY <2>1, RateFacts DEF Exit
    <3> QED
      BY <3>1, CleanupOver DEF StoppingInv
  <2>2. CASE ~Exit
    BY <2>2, FileStays
  <2> QED
    BY <2>1, <2>2
<1> QED
  BY <1>1, <1>2, <1>3, TypeInvariant, PTL DEF Spec, NothingLeftBehind

-----------------------------------------------------------------------------
(* The ramp and the clock. *)

\* A step is not due before its share of the cooldown has passed.
LEMMA DueInTime ==
    ASSUME NEW c \in ValidConfigs, NEW age \in Nat
    PROVE  DueStep(c, age) * c.cooldown <= age * c.recovery_steps
<1>1. c.recovery_steps \in Positive /\ c.cooldown \in Positive
  BY ConfigFields
<1> DEFINE d == c.cooldown
           p == age * c.recovery_steps
           q == p \div d
<1>2. p \in Nat /\ d \in Nat \ {0}
  BY <1>1 DEF Positive
<1>3. DueStep(c, age) \in 0 .. c.recovery_steps /\ DueStep(c, age) <= q
  <2>1. q \in Nat
    BY <1>2
  <2> QED
    BY <1>1, <2>1, DueStepType DEF DueStep, Lesser, Positive
<1> DEFINE s == DueStep(c, age)
<1> HIDE DEF d, p, s
<1>4. q \in Nat /\ q * d <= p
  BY <1>2
<1>5. s \in Nat /\ s <= q
  BY <1>1, <1>3 DEF s, Positive
<1> HIDE DEF q
<1>6. s * d <= q * d
  BY <1>2, <1>4, <1>5
<1>7. s * d \in Nat /\ q * d \in Nat
  BY <1>2, <1>4, <1>5
<1>8. s * d <= p
  BY <1>2, <1>4, <1>6, <1>7
<1> QED
  BY <1>8 DEF s, d, p

\* Products of numbers, which the backends take in small pieces.
LEMMA Products ==
    ASSUME NEW a \in Nat, NEW b \in Nat, NEW n \in Nat, a <= b
    PROVE  a * n \in Nat /\ b * n \in Nat /\ a * n <= b * n /\ 0 * n = 0
OBVIOUS

LEMMA OnTimeStep ==
    ASSUME CooldownStays, TypeInv, TypeInv', ConfigInv, StepOnTime, [Next]_vars
    PROVE  StepOnTime'
<1> USE DEF disk, machine, samples, events
<1>0. /\ cfg.recovery_steps \in Nat /\ cfg.cooldown \in Nat /\ cfg'.cooldown \in Nat
      /\ cfg'.recovery_steps \in Nat /\ recovery_step \in Nat /\ cfg \in ValidConfigs
      /\ state = "LIMITED" => cooldown_age \in Nat
      /\ state' = "LIMITED" => cooldown_age' \in Nat
  <2>1. cfg \in ValidConfigs /\ cfg' \in ValidConfigs /\ recovery_step \in 0 .. cfg.recovery_steps
    BY DEF TypeInv, TypeOK
  <2>2. Ages \subseteq Nat
    BY DaemonAssumption DEF Ages, Positive
  <2>3. /\ state = "LIMITED" => cooldown_age \in Ages
        /\ state' = "LIMITED" => cooldown_age' \in Ages
    BY DEF TypeInv, TypeOK, LimitedHasCooldown
  <2>4. \A c \in ValidConfigs : c.recovery_steps \in Nat /\ c.cooldown \in Nat
    BY ConfigFields DEF Positive
  <2>5. recovery_step \in Nat
    BY <2>1, <2>4
  <2> QED
    BY <2>1, <2>2, <2>3, <2>4, <2>5
<1>1. CASE state' = "LIMITED" /\ recovery_step' = 0
  <2>1. 0 * cfg'.cooldown <= cooldown_age' * cfg'.recovery_steps
    BY <1>0, <1>1, Products
  <2> QED
    BY <1>1, <2>1 DEF StepOnTime
<1>2. CASE state' # "LIMITED"
  BY <1>2 DEF StepOnTime
<1>3. CASE UNCHANGED machine /\ cfg'.cooldown = cfg.cooldown
           /\ cfg'.recovery_steps = cfg.recovery_steps
  BY <1>3 DEF StepOnTime
<1>4. CASE StepUp
  BY <1>0, <1>4, DueInTime DEF StepUp, StepOnTime
<1>5. CASE \E seconds \in Lags, load \in Loads : Wake(seconds, load)
  <2> PICK seconds \in Lags, load \in Loads : Wake(seconds, load)
    BY <1>5
  <2>1. /\ cooldown_age' = Later(cooldown_age, seconds) /\ seconds \in Nat
        /\ UNCHANGED << cfg, state, recovery_step >>
    BY DaemonAssumption DEF Wake, Positive
  <2>2. CASE state = "LIMITED"
    <3>1. cooldown_age' >= cooldown_age
      BY <2>1, LaterFacts DEF TypeInv, TypeOK
    <3>2. /\ cooldown_age * cfg.recovery_steps <= cooldown_age' * cfg.recovery_steps
          /\ cooldown_age * cfg.recovery_steps \in Nat
          /\ cooldown_age' * cfg.recovery_steps \in Nat
      BY <1>0, <2>1, <2>2, <3>1, Products
    <3>3. recovery_step * cfg.cooldown \in Nat
      BY <1>0, Products
    <3>4. recovery_step * cfg.cooldown <= cooldown_age * cfg.recovery_steps
      BY <2>2 DEF StepOnTime
    <3>5. recovery_step * cfg.cooldown <= cooldown_age' * cfg.recovery_steps
      BY <3>2, <3>3, <3>4
    <3> QED
      BY <2>1, <3>5 DEF StepOnTime
  <2> QED
    BY <2>1, <2>2 DEF StepOnTime
<1>6. CASE Reload
  BY <1>3, <1>6, ReloadKeeps DEF Reload
<1>7. CASE \/ (\E downtime \in Downtimes : Start(downtime)) \/ EnterLimited \/ Relimit
           \/ EnterNormal \/ StartupReadFails \/ Crash \/ CommandRaises \/ ReloadRaises \/ Exit
  <2>1. recovery_step' = 0
    BY <1>7 DEF Start, EnterLimited, Relimit, LimitNow, EnterNormal, StartupReadFails, Crash,
        CommandRaises, ReloadRaises, Exit, Forget
  <2> QED
    BY <1>1, <1>2, <2>1
<1>8. CASE \/ FinishStartup \/ CommandWorks \/ CommandIgnored \/ FallAsleep \/ SaveReload
           \/ ReloadRefused \/ Proceed \/ BeginShutdown \/ ReadFails \/ CounterReset
           \/ Sample \/ NothingToDo \/ SaveSwitch \/ FinishIteration \/ OnTerminate \/ OnHup
           \/ EditConfig \/ InterfaceRecreated \/ UNCHANGED vars
  <2>1. UNCHANGED machine /\ UNCHANGED cfg
    BY <1>8 DEF FinishStartup, CommandWorks, CommandIgnored, FallAsleep, SaveReload,
        ReloadRefused, Proceed, BeginShutdown, ReadFails, CounterReset, Sample, NothingToDo,
        SaveSwitch, FinishIteration, OnTerminate, OnHup, EditConfig, InterfaceRecreated, vars
  <2> QED
    BY <1>3, <2>1
<1> QED
  BY <1>4, <1>5, <1>6, <1>7, <1>8 DEF Next, Run, Restart, Command, Iterate, Evaluate

\* The straight line from lower to higher, at the age of the limit.
LEMMA RateBelowLine ==
    ASSUME NEW c \in ValidConfigs, NEW step \in 0 .. c.recovery_steps, NEW age \in Nat,
           step * c.cooldown <= age * c.recovery_steps
    PROVE  (RateOf(c, "LIMITED", step) - c.lower) * c.cooldown <= (c.higher - c.lower) * age
<1> DEFINE n == c.recovery_steps
           d == c.cooldown
           h == c.higher - c.lower
           z == StepSize(c)
           r == RateOf(c, "LIMITED", step) - c.lower
<1>1. n \in Nat \ {0} /\ d \in Nat \ {0} /\ h \in Nat \ {0}
  BY ConfigFields DEF Positive
<1>2. z \in Nat /\ n * z <= h
  BY <1>1 DEF StepSize
<1>3. step \in Nat /\ step * z \in Nat
  BY <1>1, <1>2
<1>4. r \in Nat /\ r <= step * z
  BY <1>1, <1>3, ConfigFields DEF RateOf, Lesser, Positive
<1>5. step * d <= age * n
  OBVIOUS
<1> HIDE DEF n, d, h, z, r
<1>6. r * d <= (step * z) * d
  BY <1>1, <1>3, <1>4
<1>7. (step * z) * d = z * (step * d)
  BY <1>1, <1>2, <1>3
<1>8. z * (step * d) <= z * (age * n)
  BY <1>1, <1>2, <1>3, <1>5
<1>9. z * (age * n) = (n * z) * age
  BY <1>1, <1>2
<1>10. (n * z) * age <= h * age
  BY <1>1, <1>2
<1>11. r * d \in Nat /\ z * (step * d) \in Nat /\ (n * z) * age \in Nat /\ h * age \in Nat
  BY <1>1, <1>2, <1>3, <1>4
<1> QED
  BY <1>6, <1>7, <1>8, <1>9, <1>10, <1>11 DEF r, d, h

\* The recovery never runs ahead of the clock, if reloads leave limits and
\* cooldown alone and no tc command fails.
THEOREM RampFollowsClock ==
    ASSUME ~CanFail, DryRunStays, LowerStays, RampStays, CooldownStays
    PROVE  Spec => []RampOnTime
<1>1. Init => StepOnTime
  BY DEF Init, StepOnTime
<1>2. TypeInv /\ TypeInv' /\ ConfigInv /\ StepOnTime /\ [Next]_vars => StepOnTime'
  BY OnTimeStep
<1>3. TypeInv /\ RateEnforced /\ StepOnTime => RampOnTime
  <2> SUFFICES ASSUME TypeInv, RateEnforced, StepOnTime, Settled, ~cfg.dry_run,
                      state = "LIMITED", NEW dev \in Devices
               PROVE  (kernel.root[dev] - cfg.lower) * cfg.cooldown
                         <= (cfg.higher - cfg.lower) * cooldown_age
    BY DEF RampOnTime
  <2>1. kernel.root[dev] = RateOf(cfg, "LIMITED", recovery_step)
    BY DEF RateEnforced, Shaped, CurrentRate
  <2>2. cooldown_age \in Nat
    BY DaemonAssumption DEF TypeInv, TypeOK, LimitedHasCooldown, Ages, Positive
  <2>3. cfg \in ValidConfigs /\ recovery_step \in 0 .. cfg.recovery_steps
    BY DEF TypeInv, TypeOK
  <2>4. recovery_step * cfg.cooldown <= cooldown_age * cfg.recovery_steps
    BY DEF StepOnTime
  <2>5. (RateOf(cfg, "LIMITED", recovery_step) - cfg.lower) * cfg.cooldown
           <= (cfg.higher - cfg.lower) * cooldown_age
    BY <2>2, <2>3, <2>4, RateBelowLine
  <2> QED
    BY <2>1, <2>5
<1> QED
  BY <1>1, <1>2, <1>3, RulesInvariant, KernelFollows, PTL DEF Spec

-----------------------------------------------------------------------------
(* The overload. *)

\* A buffer without samples asks for nothing.
LEMMA EmptyNotFull ==
    ASSUME NEW n \in Int, NEW b \in Buffers(n, Nat), b.filled = 0
    PROVE  ~IsFull(b)
<1>1. n \in Nat \ {0} /\ b.size = n
  BY BufferSize
<1> QED
  BY <1>1 DEF IsFull

LEMMA NothingMeasured ==
    ASSUME TypeOK', buffer'.filled = 0, burst_buffer' = NoBuffer \/ burst_buffer'.filled = 0
    PROVE  ~Triggered'
<1>1. BufSize(cfg') \in Int /\ BurstBufSize(cfg') \in Int
  BY ConfigFields DEF TypeOK
<1>2. buffer' \in Buffers(BufSize(cfg'), Nat)
      /\ (burst_buffer' = NoBuffer \/ burst_buffer' \in Buffers(BurstBufSize(cfg'), Nat))
  BY DEF TypeOK
<1>3. ~IsFull(buffer') /\ (burst_buffer' = NoBuffer \/ ~IsFull(burst_buffer'))
  BY <1>1, <1>2, EmptyNotFull
<1> QED
  BY <1>3 DEF Triggered

\* What was measured is weighed as before,
LEMMA StillCalm ==
    ASSUME UNCHANGED << buffer, burst_buffer >>, ~Triggered,
           cfg'.threshold = cfg.threshold, cfg'.duration = cfg.duration, cfg'.burst = cfg.burst
    PROVE  ~Triggered'
BY DEF Triggered, ThresholdBytes, BurstThresholdBytes

\* and less of it after the window was cleared.
LEMMA CalmerAfterReset ==
    ASSUME TypeInv, TypeOK', CounterReset, ~Triggered
    PROVE  ~Triggered'
<1>1. BufSize(cfg') \in Int /\ buffer' \in Buffers(BufSize(cfg'), Nat)
  BY ConfigFields DEF TypeOK
<1>2. buffer'.filled = 0
  BY DEF CounterReset, Clear, NewBuffer
<1>3. ~IsFull(buffer')
  BY <1>1, <1>2, EmptyNotFull
<1>4. cfg' = cfg /\ burst_buffer' = burst_buffer
  BY DEF CounterReset
<1> QED
  BY <1>3, <1>4 DEF Triggered

LEMMA OverloadStep ==
    ASSUME CanFail => ThresholdStays, TypeInv, TypeOK', ConfigInv, OverloadInv, [Next]_vars
    PROVE  OverloadInv'
<1> USE DEF disk, machine, samples, events
<1>1. CASE \E downtime \in Downtimes : Start(downtime)
  <2>1. buffer' = NewBuffer(BufSize(cfg')) /\ burst_buffer' = BurstBuffer(cfg')
    BY <1>1 DEF Start
  <2>2. buffer'.filled = 0 /\ (burst_buffer' = NoBuffer \/ burst_buffer'.filled = 0)
    BY <2>1 DEF NewBuffer, BurstBuffer
  <2> QED
    BY <2>2, NothingMeasured DEF OverloadInv
<1>2. CASE StartupReadFails \/ Crash \/ CommandRaises \/ ReloadRaises \/ Exit
  BY <1>2 DEF StartupReadFails, Crash, CommandRaises, ReloadRaises, Exit, Forget, OverloadInv,
              Watched
<1>3. CASE EnterNormal
  <2>1. buffer'.filled = 0 /\ (burst_buffer' = NoBuffer \/ burst_buffer'.filled = 0)
    BY <1>3 DEF EnterNormal, Clear, NewBuffer
  <2> QED
    BY <2>1, NothingMeasured DEF OverloadInv
<1>4. CASE EnterLimited \/ Relimit \/ StepUp
  BY <1>4 DEF EnterLimited, Relimit, LimitNow, StepUp, OverloadInv
<1>5. CASE NothingToDo
  <2>1. UNCHANGED << cfg, buffer, burst_buffer, state >> /\ (state = "NORMAL" => ~Triggered)
    BY <1>5 DEF NothingToDo
  <2> QED
    BY <2>1, StillCalm DEF OverloadInv
<1>6. CASE SaveSwitch
  <2>1. UNCHANGED << cfg, buffer, burst_buffer, state >> /\ pc = "switching"
    BY <1>6 DEF SaveSwitch
  <2> QED
    BY <2>1, StillCalm DEF OverloadInv, Watched
<1>7. CASE Sample \/ BeginShutdown
  BY <1>7 DEF Sample, BeginShutdown, OverloadInv, Watched
<1>8. CASE CounterReset
  <2>1. CanFail /\ pc = "sampling" /\ state' = state
    BY <1>8 DEF CounterReset
  <2> QED
    BY <1>8, <2>1, CalmerAfterReset DEF OverloadInv, Watched
<1>9. CASE Reload
  <2>1. /\ UNCHANGED << buffer, burst_buffer, state >> /\ pc = "awake" /\ pc' = "reloading"
        /\ cfg'.duration = cfg.duration /\ cfg'.burst = cfg.burst
    <3>1. LoadedConfig(cfg.source) \in ValidConfigs
      BY <1>9, LoadedConfigType DEF Reload, TypeInv, TypeOK
    <3> QED
      BY <1>9, <3>1 DEF Reload, ReloadConfig, ValidConfigs, RawConfigs
  <2>2. CanFail => cfg'.threshold = cfg.threshold
    BY <1>9, ReloadKeeps
  <2> QED
    BY <2>1, <2>2, StillCalm DEF OverloadInv, Watched
<1>10. CASE UNCHANGED << cfg, buffer, burst_buffer, state >> /\ (Watched' => Watched)
  BY <1>10, StillCalm DEF OverloadInv
<1>11. CASE \/ FinishStartup \/ CommandWorks \/ CommandIgnored \/ FallAsleep \/ SaveReload
            \/ ReloadRefused \/ Proceed \/ ReadFails \/ FinishIteration
            \/ OnTerminate \/ OnHup \/ EditConfig \/ InterfaceRecreated \/ UNCHANGED vars
            \/ (\E seconds \in Lags, load \in Loads : Wake(seconds, load))
  BY <1>10, <1>11 DEF FinishStartup, CommandWorks, CommandIgnored, FallAsleep, SaveReload,
     ReloadRefused, Proceed, ReadFails, FinishIteration, OnTerminate, OnHup, EditConfig,
     InterfaceRecreated, Wake, ReloadOver, Watched, vars
<1> QED
  BY <1>1, <1>2, <1>3, <1>4, <1>5, <1>6, <1>7, <1>8, <1>9, <1>11
     DEF Next, Run, Restart, Command, Iterate, Evaluate

\* No overload is missed: an iteration ends without a limit only when no full
\* window asks for one, and the samples that caused a limit go with it.  A read
\* that fails right after a reload lowered the threshold is the exception.
THEOREM OverloadIsNoticed ==
    ASSUME CanFail => ThresholdStays
    PROVE  Spec => []NoOverloadIgnored
<1>1. Init => OverloadInv
  BY DEF Init, OverloadInv, Watched
<1>2. /\ TypeInv /\ TypeInv' /\ ConfigInv /\ OverloadInv /\ [Next]_vars
      => ConfigInv' /\ OverloadInv'
  BY ConfigStep, OverloadStep DEF TypeInv
<1>3. OverloadInv => NoOverloadIgnored
  BY DEF OverloadInv, Watched, NoOverloadIgnored
<1>4. Init => ConfigInv
  BY ConfigInit
<1> QED
  BY <1>1, <1>2, <1>3, <1>4, TypeInvariant, PTL DEF Spec

=============================================================================
