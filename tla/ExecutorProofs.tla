--------------------------- MODULE ExecutorProofs ---------------------------
(***************************************************************************)
(* Proofs about the calls of executor.py for every kernel they may find,   *)
(* every set of rates and any number of failing commands.                  *)
(***************************************************************************)
EXTENDS Executor, OperatorLemmas

-----------------------------------------------------------------------------
(* The inductive invariant: how far the current call has come, and what    *)
(* the kernel holds by then.                                               *)

Calls == [name: {"none", "tc_init", "tc_change_rate", "tc_cleanup"}, rate: Rates \cup {0},
          dry_run: BOOLEAN]

\* A call runs as long as commands are left, and one that raises runs no more.
ControlInv ==
    /\ call \in Calls
    /\ outcome = "running" <=> todo # << >>
    /\ call.name \in {"tc_init", "tc_change_rate"} => call.rate \in Rates
    /\ call.name \in {"tc_init", "tc_change_rate"} /\ call.dry_run =>
          outcome = "returned"
    /\ call.name = "none" => outcome = "returned"

InitInv ==
    call.name = "tc_init" /\ ~call.dry_run /\ outcome # "raised" =>
        /\ InitCall(kernel, todo, call.rate)
        /\ faults = 0 => InitUnharmed(kernel, todo, call.rate)

CleanupInv ==
    call.name = "tc_cleanup" /\ outcome # "raised" =>
        /\ CleanupCall(todo)
        /\ faults = 0 => CleanupUnharmed(kernel, todo)

ChangeInv ==
    call.name = "tc_change_rate" /\ ~call.dry_run =>
        /\ outcome # "raised" => ChangeCall(todo, call.rate)
        /\ InPlace(kernel)

\* Only a command that could have worked makes a call raise.
RaiseInv == faults = 0 => outcome # "raised"

CallInv == TypeOK /\ ControlInv /\ InitInv /\ CleanupInv /\ ChangeInv /\ RaiseInv

-----------------------------------------------------------------------------

LEMMA InitCallInv ==
    ASSUME Init
    PROVE  CallInv
<1>1. TypeOK
  BY ExecutorAssumption DEF Init, NoCall, TypeOK
<1>2. ControlInv
  BY DEF Init, NoCall, ControlInv, Calls
<1>3. InitInv /\ CleanupInv /\ ChangeInv /\ RaiseInv
  BY DEF Init, NoCall, InitInv, CleanupInv, ChangeInv, RaiseInv
<1> QED
  BY <1>1, <1>2, <1>3 DEF CallInv

\* A call starts with all of its commands.
LEMMA BeginInit ==
    ASSUME CallInv, NEW rate \in Rates, NEW dry_run \in BOOLEAN, tc_init(rate, dry_run)
    PROVE  CallInv'
<1>1. /\ call' = [name |-> "tc_init", rate |-> rate, dry_run |-> dry_run]
      /\ todo' = IF dry_run THEN << >> ELSE Whole(rate)
      /\ outcome' = IF todo' = << >> THEN "returned" ELSE "running"
      /\ faults' = 0 /\ kernel' = kernel
  BY CallCommands DEF tc_init, Begin, CommandsOf, OutcomeOf
<1>2. /\ call'.name = "tc_init" /\ call'.rate = rate /\ call'.dry_run = dry_run
      /\ call' \in Calls
  BY <1>1 DEF Calls
<1>3. /\ Whole(rate) \in Seq(Commands(Rates)) /\ Whole(rate) # << >>
      /\ InitCall(kernel, Whole(rate), rate) /\ InitUnharmed(kernel, Whole(rate), rate)
  BY InitStarts
<1>4. TypeOK'
  BY <1>1, <1>2, <1>3, ExecutorAssumption DEF CallInv, TypeOK
<1>5. ControlInv'
  BY <1>1, <1>2, <1>3 DEF ControlInv
<1>6. InitInv'
  BY <1>1, <1>2, <1>3 DEF InitInv
<1>7. CleanupInv' /\ ChangeInv'
  BY <1>2 DEF CleanupInv, ChangeInv
<1>8. RaiseInv'
  BY <1>1 DEF RaiseInv
<1> QED
  BY <1>4, <1>5, <1>6, <1>7, <1>8 DEF CallInv

LEMMA BeginCleanup ==
    ASSUME CallInv, tc_cleanup
    PROVE  CallInv'
<1>1. /\ call' = [name |-> "tc_cleanup", rate |-> 0, dry_run |-> FALSE]
      /\ todo' = TcCleanup
      /\ outcome' = IF todo' = << >> THEN "returned" ELSE "running"
      /\ faults' = 0 /\ kernel' = kernel
  BY DEF tc_cleanup, Begin, CommandsOf, OutcomeOf
<1>2. call'.name = "tc_cleanup" /\ call' \in Calls
  BY <1>1 DEF Calls
<1>3. /\ TcCleanup \in Seq(Commands(Rates)) /\ TcCleanup # << >>
      /\ CleanupCall(TcCleanup) /\ CleanupUnharmed(kernel, TcCleanup)
  BY CleanupStarts
<1>4. TypeOK'
  BY <1>1, <1>2, <1>3, ExecutorAssumption DEF CallInv, TypeOK
<1>5. ControlInv'
  BY <1>1, <1>2, <1>3 DEF ControlInv
<1>6. CleanupInv'
  BY <1>1, <1>3 DEF CleanupInv
<1>7. InitInv' /\ ChangeInv'
  BY <1>2 DEF InitInv, ChangeInv
<1>8. RaiseInv'
  BY <1>1 DEF RaiseInv
<1> QED
  BY <1>4, <1>5, <1>6, <1>7, <1>8 DEF CallInv

\* Rules that a call has set up are in place.
LEMMA ReturnedInPlace ==
    ASSUME CallInv, call.name \in {"tc_init", "tc_change_rate"}, outcome = "returned",
           ~call.dry_run
    PROVE  InPlace(kernel)
<1>1. kernel \in KernelStates(Rates)
  BY DEF CallInv, TypeOK
<1>2. CASE call.name = "tc_init"
  <2>1. todo = << >> /\ call.rate \in Rates
    BY <1>2 DEF CallInv, ControlInv
  <2>2. InitCall(kernel, todo, call.rate)
    BY <1>2, <2>1 DEF CallInv, InitInv
  <2>3. (\A d \in Devices : kernel.root[d] = call.rate) /\ kernel.ingress = "redirect"
    BY <1>1, <2>1, <2>2, InitOver
  <2>4. call.rate > NoClass
    <3>1. \A rate \in Rates : rate > NoClass
      BY ExecutorAssumption DEF NoClass
    <3> QED
      BY <2>1, <3>1
  <2> QED
    BY <2>3, <2>4 DEF InPlace
<1>3. CASE call.name = "tc_change_rate"
  BY <1>3 DEF CallInv, ChangeInv
<1> QED
  BY <1>2, <1>3

LEMMA BeginChange ==
    ASSUME CallInv, NEW rate \in Rates, NEW dry_run \in BOOLEAN, tc_change_rate(rate, dry_run)
    PROVE  CallInv'
<1>1. /\ call' = [name |-> "tc_change_rate", rate |-> rate, dry_run |-> dry_run]
      /\ todo' = IF dry_run THEN << >> ELSE Change(rate)
      /\ outcome' = IF todo' = << >> THEN "returned" ELSE "running"
      /\ faults' = 0 /\ kernel' = kernel
  BY CallCommands DEF tc_change_rate, Begin, CommandsOf, OutcomeOf
<1>2. /\ call'.name = "tc_change_rate" /\ call'.rate = rate /\ call'.dry_run = dry_run
      /\ call' \in Calls
  BY <1>1 DEF Calls
<1>3. /\ Change(rate) \in Seq(Commands(Rates)) /\ Change(rate) # << >>
      /\ ChangeCall(Change(rate), rate)
  BY ChangeStarts
<1>4. ~dry_run => InPlace(kernel)
  BY ReturnedInPlace DEF tc_change_rate
<1>5. TypeOK'
  BY <1>1, <1>2, <1>3, ExecutorAssumption DEF CallInv, TypeOK
<1>6. ControlInv'
  BY <1>1, <1>2, <1>3 DEF ControlInv
<1>7. ChangeInv'
  BY <1>1, <1>2, <1>3, <1>4 DEF ChangeInv
<1>8. InitInv' /\ CleanupInv'
  BY <1>2 DEF InitInv, CleanupInv
<1>9. RaiseInv'
  BY <1>1 DEF RaiseInv
<1> QED
  BY <1>5, <1>6, <1>7, <1>8, <1>9 DEF CallInv

\* A command that works.
LEMMA SucceedsStep ==
    ASSUME CallInv, RunSucceeds
    PROVE  CallInv'
<1> DEFINE c == Head(todo)
<1>1. /\ todo # << >> /\ todo \in Seq(Commands(Rates)) /\ kernel \in KernelStates(Rates)
      /\ Works(kernel, c) /\ Possible(kernel)
  BY DEF RunSucceeds, CallInv, TypeOK
<1>2. /\ kernel' = Effect(kernel, c) /\ todo' = Tail(todo)
      /\ outcome' = IF todo' = << >> THEN "returned" ELSE "running"
      /\ call' = call /\ faults' = faults
  BY DEF RunSucceeds, OutcomeOf
<1>3. c \in Commands(Rates) /\ todo' \in Seq(Commands(Rates))
  BY <1>1, <1>2
<1>4. kernel' \in KernelStates(Rates) /\ Possible(kernel')
  BY <1>1, <1>2, <1>3, EffectType, EffectPossible
<1>5. TypeOK'
  BY <1>2, <1>3, <1>4 DEF CallInv, TypeOK
<1>6. outcome = "running" /\ outcome' # "raised"
  BY <1>1, <1>2 DEF CallInv, ControlInv
<1>7. ControlInv'
  BY <1>2, <1>6 DEF CallInv, ControlInv
<1>8. InitInv'
  <2> SUFFICES ASSUME call.name = "tc_init", ~call.dry_run
               PROVE  /\ InitCall(kernel', todo', call.rate)
                      /\ faults = 0 => InitUnharmed(kernel', todo', call.rate)
    BY <1>2 DEF InitInv
  <2>1. /\ call.rate \in Rates /\ InitCall(kernel, todo, call.rate)
        /\ faults = 0 => InitUnharmed(kernel, todo, call.rate)
    BY <1>6 DEF CallInv, ControlInv, InitInv
  <2> QED
    BY <1>1, <1>2, <2>1, InitWorks
<1>9. CleanupInv'
  <2> SUFFICES ASSUME call.name = "tc_cleanup"
               PROVE  /\ CleanupCall(todo')
                      /\ faults = 0 => CleanupUnharmed(kernel', todo')
    BY <1>2, <1>6 DEF CleanupInv
  <2>1. CleanupCall(todo) /\ (faults = 0 => CleanupUnharmed(kernel, todo))
    BY <1>6 DEF CallInv, CleanupInv
  <2> QED
    BY <1>1, <1>2, <2>1, CleanupGoesOn
<1>10. ChangeInv'
  <2> SUFFICES ASSUME call.name = "tc_change_rate", ~call.dry_run
               PROVE  ChangeCall(todo', call.rate) /\ InPlace(kernel')
    BY <1>2, <1>6 DEF ChangeInv
  <2>1. call.rate \in Rates /\ ChangeCall(todo, call.rate) /\ InPlace(kernel)
    BY <1>6 DEF CallInv, ControlInv, ChangeInv
  <2> QED
    BY <1>1, <1>2, <2>1, ChangeGoesOn, ExecutorAssumption
<1>11. RaiseInv'
  BY <1>6 DEF RaiseInv
<1> QED
  BY <1>5, <1>7, <1>8, <1>9, <1>10, <1>11 DEF CallInv

\* A command that fails: with no fault so far and now, it could not have worked.
LEMMA FailsFacts ==
    ASSUME CallInv, Fails
    PROVE  /\ todo # << >> /\ todo \in Seq(Commands(Rates)) /\ kernel \in KernelStates(Rates)
           /\ Head(todo) \in Commands(Rates) /\ Tail(todo) \in Seq(Commands(Rates))
           /\ outcome = "running" /\ faults' \in 0 .. MaxFaults
           /\ faults' = 0 => faults = 0 /\ ~Works(kernel, Head(todo))
<1>1. todo # << >> /\ todo \in Seq(Commands(Rates)) /\ kernel \in KernelStates(Rates)
  BY DEF Fails, CallInv, TypeOK
<1>2. Head(todo) \in Commands(Rates) /\ Tail(todo) \in Seq(Commands(Rates))
  BY <1>1
<1>3. faults \in 0 .. MaxFaults
  BY DEF CallInv, TypeOK
<1>4. faults' \in 0 .. MaxFaults
  BY <1>3, ExecutorAssumption DEF Fails
<1>5. faults' = 0 => faults = 0 /\ ~Works(kernel, Head(todo))
  BY <1>3 DEF Fails
<1>6. outcome = "running"
  BY <1>1 DEF CallInv, ControlInv
<1> QED
  BY <1>1, <1>2, <1>4, <1>5, <1>6

LEMMA IgnoredStep ==
    ASSUME CallInv, RunIgnored
    PROVE  CallInv'
<1>1. /\ todo # << >> /\ todo \in Seq(Commands(Rates)) /\ kernel \in KernelStates(Rates)
      /\ Tail(todo) \in Seq(Commands(Rates))
      /\ outcome = "running" /\ faults' \in 0 .. MaxFaults
      /\ faults' = 0 => faults = 0 /\ ~Works(kernel, Head(todo))
  BY FailsFacts DEF RunIgnored
<1>2. /\ ~Head(todo).critical /\ todo' = Tail(todo)
      /\ outcome' = IF todo' = << >> THEN "returned" ELSE "running"
      /\ call' = call /\ kernel' = kernel
  BY DEF RunIgnored, OutcomeOf
<1>3. TypeOK'
  BY <1>1, <1>2 DEF CallInv, TypeOK
<1>4. ControlInv'
  BY <1>1, <1>2 DEF CallInv, ControlInv
<1>5. InitInv'
  <2> SUFFICES ASSUME call.name = "tc_init", ~call.dry_run
               PROVE  /\ InitCall(kernel, todo', call.rate)
                      /\ faults' = 0 => InitUnharmed(kernel, todo', call.rate)
    BY <1>2 DEF InitInv
  <2>1. /\ call.rate \in Rates /\ InitCall(kernel, todo, call.rate)
        /\ faults = 0 => InitUnharmed(kernel, todo, call.rate)
    BY <1>1 DEF CallInv, ControlInv, InitInv
  <2> QED
    BY <1>1, <1>2, <2>1, InitSkipped
<1>6. CleanupInv'
  <2> SUFFICES ASSUME call.name = "tc_cleanup"
               PROVE  /\ CleanupCall(todo')
                      /\ faults' = 0 => CleanupUnharmed(kernel, todo')
    BY <1>2 DEF CleanupInv
  <2>1. CleanupCall(todo) /\ (faults = 0 => CleanupUnharmed(kernel, todo))
    BY <1>1 DEF CallInv, CleanupInv
  <2> QED
    BY <1>1, <1>2, <2>1, CleanupGoesOn
<1>7. ChangeInv'
  <2> SUFFICES ASSUME call.name = "tc_change_rate", ~call.dry_run
               PROVE  ChangeCall(todo', call.rate) /\ InPlace(kernel)
    BY <1>2 DEF ChangeInv
  <2>1. call.rate \in Rates /\ ChangeCall(todo, call.rate) /\ InPlace(kernel)
    BY <1>1 DEF CallInv, ControlInv, ChangeInv
  <2> QED
    BY <1>1, <1>2, <2>1, ChangeGoesOn, ExecutorAssumption
<1>8. RaiseInv'
  BY <1>2 DEF RaiseInv
<1> QED
  BY <1>3, <1>4, <1>5, <1>6, <1>7, <1>8 DEF CallInv

\* A critical command that fails: only tc_init has any, and only a fault makes one fail.
LEMMA RaisesStep ==
    ASSUME CallInv, RunRaises
    PROVE  CallInv'
<1>1. /\ todo # << >> /\ todo \in Seq(Commands(Rates)) /\ kernel \in KernelStates(Rates)
      /\ outcome = "running" /\ faults' \in 0 .. MaxFaults
      /\ faults' = 0 => faults = 0 /\ ~Works(kernel, Head(todo))
  BY FailsFacts DEF RunRaises
<1>2. /\ Head(todo).critical /\ todo' = << >> /\ outcome' = "raised"
      /\ call' = call /\ kernel' = kernel
  BY DEF RunRaises
<1>3. call.name # "tc_cleanup"
  BY <1>1, <1>2, CleanupGoesOn DEF CallInv, CleanupInv
<1>4. ~call.dry_run /\ call.name # "none"
  BY <1>1, <1>3 DEF CallInv, ControlInv, Calls
<1>5. call.name # "tc_change_rate"
  <2> SUFFICES ASSUME call.name = "tc_change_rate"
               PROVE  FALSE
    OBVIOUS
  <2>1. call.rate \in Rates /\ ChangeCall(todo, call.rate)
    BY <1>1, <1>4 DEF CallInv, ControlInv, ChangeInv
  <2> QED
    BY <1>1, <1>2, <2>1, ChangeGoesOn, ExecutorAssumption
<1>6. call.name = "tc_init"
  BY <1>3, <1>4, <1>5 DEF CallInv, ControlInv, Calls
<1>7. faults' # 0
  <2> SUFFICES ASSUME faults' = 0
               PROVE  FALSE
    OBVIOUS
  <2>1. /\ call.rate \in Rates /\ InitCall(kernel, todo, call.rate)
        /\ InitUnharmed(kernel, todo, call.rate)
    BY <1>1, <1>4, <1>6 DEF CallInv, ControlInv, InitInv
  <2> QED
    BY <1>1, <1>2, <2>1, InitNeverRaises
<1>8. TypeOK'
  BY <1>1, <1>2 DEF CallInv, TypeOK
<1>9. ControlInv'
  BY <1>2, <1>4, <1>6 DEF CallInv, ControlInv
<1>10. InitInv' /\ CleanupInv' /\ ChangeInv'
  BY <1>2, <1>6 DEF InitInv, CleanupInv, ChangeInv
<1>11. RaiseInv'
  BY <1>7 DEF RaiseInv
<1> QED
  BY <1>8, <1>9, <1>10, <1>11 DEF CallInv

\* A command that cannot even be started: a fault, and the call is over.
LEMMA CannotRunStep ==
    ASSUME CallInv, CannotRun
    PROVE  CallInv'
<1>1. /\ todo # << >> /\ faults < MaxFaults /\ faults' = faults + 1
      /\ todo' = << >> /\ outcome' = "raised" /\ call' = call /\ kernel' = kernel
  BY DEF CannotRun
<1>2. faults \in 0 .. MaxFaults /\ faults' \in 0 .. MaxFaults /\ faults' # 0
  BY <1>1, ExecutorAssumption DEF CallInv, TypeOK
<1>3. outcome = "running"
  BY <1>1 DEF CallInv, ControlInv
<1>4. TypeOK'
  BY <1>1, <1>2 DEF CallInv, TypeOK
<1>5. ControlInv'
  BY <1>1, <1>3 DEF CallInv, ControlInv
<1>6. InitInv' /\ CleanupInv'
  BY <1>1 DEF InitInv, CleanupInv
<1>7. ChangeInv'
  BY <1>1 DEF CallInv, ChangeInv
<1>8. RaiseInv'
  BY <1>2 DEF RaiseInv
<1> QED
  BY <1>4, <1>5, <1>6, <1>7, <1>8 DEF CallInv

THEOREM ExecutorInvariant == Spec => []CallInv
<1>1. Init => CallInv
  BY InitCallInv
<1>2. CallInv /\ [Next]_vars => CallInv'
  <2> SUFFICES ASSUME CallInv, [Next]_vars
               PROVE  CallInv'
    OBVIOUS
  <2>1. CASE \E rate \in Rates, dry_run \in BOOLEAN :
                tc_init(rate, dry_run) \/ tc_change_rate(rate, dry_run)
    BY <2>1, BeginInit, BeginChange
  <2>2. CASE tc_cleanup
    BY <2>2, BeginCleanup
  <2>3. CASE RunSucceeds
    BY <2>3, SucceedsStep
  <2>4. CASE RunIgnored
    BY <2>4, IgnoredStep
  <2>5. CASE RunRaises
    BY <2>5, RaisesStep
  <2>6. CASE CannotRun
    BY <2>6, CannotRunStep
  <2>7. CASE UNCHANGED vars
    BY <2>7 DEF vars, CallInv, TypeOK, ControlInv, InitInv, CleanupInv, ChangeInv, RaiseInv
  <2> QED
    BY <2>1, <2>2, <2>3, <2>4, <2>5, <2>6, <2>7 DEF Next
<1> QED
  BY <1>1, <1>2, PTL DEF Spec

-----------------------------------------------------------------------------
(* What the calls promise. *)

\* A returned call to rate has set up both directions.
LEMMA InitPromise ==
    ASSUME CallInv, Returned("tc_init")
    PROVE  /\ kernel.root = [d \in Devices |-> call.rate]
           /\ kernel.ingress = "redirect"
           /\ faults = 0 => kernel.link = "up"
<1>1. kernel \in KernelStates(Rates) /\ todo = << >> /\ call.rate \in Rates
  BY DEF CallInv, TypeOK, ControlInv, Returned
<1>2. /\ InitCall(kernel, todo, call.rate)
      /\ faults = 0 => InitUnharmed(kernel, todo, call.rate)
  BY DEF CallInv, InitInv, Returned
<1>3. /\ \A d \in Devices : kernel.root[d] = call.rate
      /\ kernel.ingress = "redirect"
      /\ faults = 0 => kernel.link = "up"
  BY <1>1, <1>2, InitOver
<1> QED
  BY <1>1, <1>3 DEF KernelStates

\* The variables of the executor have their types, and no call ever leaves rules on
\* a device that does not exist.
THEOREM ExecutorTypes == Spec => []TypeOK
<1>1. CallInv => TypeOK
  BY DEF CallInv
<1> QED
  BY <1>1, ExecutorInvariant, PTL

\* For every kernel, set of rates and number of faults: a tc_init that returns has
\* limited both directions, because every command it does not check is one that a
\* checked command would miss.
THEOREM InitIsComplete == Spec => []InitLimitsBothDirections
<1>1. CallInv => InitLimitsBothDirections
  BY InitPromise DEF InitLimitsBothDirections
<1> QED
  BY <1>1, ExecutorInvariant, PTL

\* Whatever the kernel held, a call in which no command failed that could have worked
\* does not raise, and tc_init and tc_cleanup leave exactly what they are for.
THEOREM NoStateStopsACall == Spec => []FaultFreeCallsComplete
<1>1. ASSUME CallInv
      PROVE  FaultFreeCallsComplete
  <2> SUFFICES ASSUME faults = 0
               PROVE  /\ outcome # "raised"
                      /\ Returned("tc_init") => Shaped(kernel, call.rate)
                      /\ Returned("tc_cleanup") => Bare(kernel)
    BY DEF FaultFreeCallsComplete
  <2>1. outcome # "raised"
    BY <1>1 DEF CallInv, RaiseInv
  <2>2. Returned("tc_init") => Shaped(kernel, call.rate)
    BY <1>1, InitPromise DEF Shaped
  <2>3. ASSUME Returned("tc_cleanup")
        PROVE  Bare(kernel)
    <3>1. kernel \in KernelStates(Rates) /\ todo = << >> /\ CleanupUnharmed(kernel, todo)
      BY <1>1, <2>3 DEF CallInv, TypeOK, ControlInv, CleanupInv, Returned
    <3> QED
      BY <3>1, CleanupOver
  <2> QED
    BY <2>1, <2>2, <2>3
<1> QED
  BY <1>1, ExecutorInvariant, PTL

\* No change of rate, whatever fails in it, takes away a class or the redirect.
THEOREM ChangesKeepRules == Spec => []ChangeKeepsRules
<1>1. CallInv => ChangeKeepsRules
  BY DEF CallInv, ChangeInv, InPlace, ChangeKeepsRules
<1> QED
  BY <1>1, ExecutorInvariant, PTL

=============================================================================
