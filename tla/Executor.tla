------------------------------ MODULE Executor ------------------------------
(***************************************************************************)
(* The three calls of executor.py on a kernel in any state it can be in,   *)
(* one command at a time, in any order, while other commands of the system *)
(* may fail.  The daemon runs the same commands; here they start from      *)
(* everything a foreign configuration, a killed daemon or a call that      *)
(* raised half way may have left.                                          *)
(***************************************************************************)
EXTENDS TrafficControl

CONSTANTS Rates,      \* the rates asked for, in Mbps
          MaxFaults   \* bound: faults of a call, commands that could work and do not

ASSUME ExecutorAssumption == Rates \subseteq Nat \ {0} /\ MaxFaults \in Nat

VARIABLES kernel,   \* what the kernel holds
          todo,     \* the commands left of the current call
          call,     \* the last call: its name, its rate and its dry_run
          outcome,  \* running, returned or raised
          faults    \* faults of this call: commands that could work and failed or never ran

vars == << kernel, todo, call, outcome, faults >>

NoCall == [name |-> "none", rate |-> 0, dry_run |-> FALSE]

Init ==
    /\ kernel \in {k \in KernelStates(Rates) : Possible(k)}
    /\ todo = << >> /\ call = NoCall /\ outcome = "returned" /\ faults = 0

\* The commands of a call.
CommandsOf(c) ==
    CASE c.name = "tc_init"        -> TcInit(c.rate, c.dry_run)
      [] c.name = "tc_change_rate" -> TcChangeRate(c.rate, c.dry_run)
      [] c.name = "tc_cleanup"     -> TcCleanup

\* A call ends when its commands are used up: outcome says so at once.
OutcomeOf(commands) == IF commands = << >> THEN "returned" ELSE "running"

Begin(name, rate, dry_run) ==
    /\ outcome # "running"
    /\ call' = [name |-> name, rate |-> rate, dry_run |-> dry_run]
    /\ todo' = CommandsOf(call')
    /\ outcome' = OutcomeOf(todo')
    /\ faults' = 0
    /\ UNCHANGED kernel

tc_init(rate, dry_run) == Begin("tc_init", rate, dry_run)

\* The daemon changes the rate of rules it has set up.
tc_change_rate(rate, dry_run) ==
    /\ call.name \in {"tc_init", "tc_change_rate"} /\ outcome = "returned"
    /\ call.dry_run = dry_run
    /\ Begin("tc_change_rate", rate, dry_run)

tc_cleanup == Begin("tc_cleanup", 0, FALSE)

\* _run or _run_ok, and the command works.
RunSucceeds ==
    /\ todo # << >> /\ Works(kernel, Head(todo))
    /\ kernel' = Effect(kernel, Head(todo))
    /\ todo' = Tail(todo)
    /\ outcome' = OutcomeOf(todo')
    /\ UNCHANGED << call, faults >>

\* The command fails: it cannot work, or something else is wrong.
Fails ==
    /\ todo # << >>
    /\ IF Works(kernel, Head(todo)) THEN faults < MaxFaults /\ faults' = faults + 1
                                    ELSE UNCHANGED faults

\* _run_ok: a warning, and the call goes on.
RunIgnored ==
    /\ Fails /\ ~Head(todo).critical
    /\ todo' = Tail(todo)
    /\ outcome' = OutcomeOf(todo')
    /\ UNCHANGED << kernel, call >>

\* A critical command: tc_init raises RuntimeError and undoes nothing.
RunRaises ==
    /\ Fails /\ Head(todo).critical
    /\ todo' = << >>
    /\ outcome' = "raised"
    /\ UNCHANGED << kernel, call >>

\* A binary that is missing or a process that cannot be forked is an OSError, which
\* not even _run_ok catches: it leaves any of the calls.
CannotRun ==
    /\ todo # << >> /\ faults < MaxFaults
    /\ faults' = faults + 1
    /\ todo' = << >>
    /\ outcome' = "raised"
    /\ UNCHANGED << kernel, call >>

Next ==
    \/ \E rate \in Rates, dry_run \in BOOLEAN :
          tc_init(rate, dry_run) \/ tc_change_rate(rate, dry_run)
    \/ tc_cleanup
    \/ RunSucceeds \/ RunIgnored \/ RunRaises \/ CannotRun

Spec == Init /\ [][Next]_vars

-----------------------------------------------------------------------------
(* Properties. *)

TypeOK ==
    /\ kernel \in KernelStates(Rates) /\ Possible(kernel)
    /\ todo \in Seq(Commands(Rates))
    /\ call.name \in {"none", "tc_init", "tc_change_rate", "tc_cleanup"}
    /\ outcome \in {"running", "returned", "raised"}
    /\ faults \in 0 .. MaxFaults

Returned(name) == call.name = name /\ outcome = "returned" /\ ~call.dry_run

\* Whatever the kernel held before, and whatever fails on the way, a tc_init
\* that returns has a class with the rate in both directions and ingress
\* traffic redirected into it: what it ignores cannot leave half a limit.
InitLimitsBothDirections ==
    Returned("tc_init") =>
        kernel.root = [d \in Devices |-> call.rate] /\ kernel.ingress = "redirect"

\* What was left in the kernel never makes tc_init raise, nor stops any call
\* from doing its whole job: only a fault does.
FaultFreeCallsComplete ==
    faults = 0 =>
        /\ outcome # "raised"
        /\ Returned("tc_init") => Shaped(kernel, call.rate)
        /\ Returned("tc_cleanup") => Bare(kernel)

\* Rules that were set up stay set up: no change of rate, failing or not,
\* takes a class or the redirect away.
ChangeKeepsRules ==
    call.name = "tc_change_rate" /\ ~call.dry_run =>
        /\ \A d \in Devices : kernel.root[d] > NoClass
        /\ kernel.ingress = "redirect"

=============================================================================
