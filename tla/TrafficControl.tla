--------------------------- MODULE TrafficControl ---------------------------
(***************************************************************************)
(* The commands executor.py runs and what they do to the kernel.           *)
(*                                                                         *)
(* The kernel (external code) is a record: root[d] says what device d's    *)
(* root is (no qdisc of ours, an HTB qdisc without its class, or the rate  *)
(* in Mbps of its class), ingress whether the interface has an ingress     *)
(* qdisc and whether its traffic is redirected to ifb0, link the state of  *)
(* ifb0.  A command is a record with the device it names, the rate it      *)
(* carries and whether executor.py raises when it fails (critical) or      *)
(* logs a warning and goes on (_run_ok).                                   *)
(***************************************************************************)
EXTENDS Integers, Sequences

Devices == {"iface", "ifb0"}

NoQdisc == -1
NoClass == 0

KernelStates(Rates) ==
    [root: [Devices -> {NoQdisc, NoClass} \cup Rates],
     ingress: {"none", "qdisc", "redirect"},
     link: {"missing", "down", "up"}]

\* What the kernel can hold: a device that does not exist has no root qdisc.
Possible(kernel) == kernel.link = "missing" => kernel.root["ifb0"] = NoQdisc

Verbs == {"del_root", "del_ingress", "link_down", "modprobe", "link_add", "link_up",
          "add_root", "add_class", "add_ingress", "add_redirect", "change_class"}

Commands(Rates) == [verb: Verbs, dev: Devices, rate: Rates \cup {0}, critical: BOOLEAN]

Ignored(verb, dev) == [verb |-> verb, dev |-> dev, rate |-> 0, critical |-> FALSE]
Critical(verb, dev) == [verb |-> verb, dev |-> dev, rate |-> 0, critical |-> TRUE]
\* Slip: a class that could not be added is only a warning.
AddClassIgnored(dev, rate) == [verb |-> "add_class", dev |-> dev, rate |-> rate, critical |-> FALSE]
AddClass(dev, rate) == [verb |-> "add_class", dev |-> dev, rate |-> rate, critical |-> TRUE]
\* Slip: the rate is written in kbit.
ChangeClassInKbit(dev, rate) ==
    [verb |-> "change_class", dev |-> dev, rate |-> 1000 * rate, critical |-> FALSE]
ChangeClass(dev, rate) ==
    [verb |-> "change_class", dev |-> dev, rate |-> rate, critical |-> FALSE]

-----------------------------------------------------------------------------
(* The calls of executor.py as the commands they run, in order. *)

\* Slip: ifb0 keeps its root qdisc.
TcCleanupEgressOnly ==
    << Ignored("del_root", "iface"), Ignored("del_ingress", "iface"),
       Ignored("link_down", "ifb0") >>

\* tc_cleanup; tc_init starts with the same four commands.
TcCleanup ==
    << Ignored("del_root", "iface"), Ignored("del_ingress", "iface"),
       Ignored("del_root", "ifb0"), Ignored("link_down", "ifb0") >>

TcInit(rate, dry_run) ==
    IF dry_run THEN << >>
    ELSE TcCleanup \o
         << Ignored("modprobe", "ifb0"), Ignored("link_add", "ifb0"),
            Ignored("link_up", "ifb0"),
            Critical("add_root", "iface"), AddClass("iface", rate),
            Ignored("add_ingress", "iface"), Critical("add_redirect", "iface"),
            Critical("add_root", "ifb0"), AddClass("ifb0", rate) >>

\* Slips: the rules are set up again, or only one direction is changed.
TcChangeRateByInit(rate, dry_run) == TcInit(rate, dry_run)
TcChangeRateEgressOnly(rate, dry_run) ==
    IF dry_run THEN << >> ELSE << ChangeClass("iface", rate) >>

TcChangeRate(rate, dry_run) ==
    IF dry_run THEN << >>
    ELSE << ChangeClass("iface", rate), ChangeClass("ifb0", rate) >>

-----------------------------------------------------------------------------
(* The kernel's side of a command. *)

Exists(kernel, dev) == dev = "iface" \/ kernel.link # "missing"

\* The kernel accepts the command; otherwise the command exits with an error.
Works(kernel, c) ==
    CASE c.verb = "del_root"     -> kernel.root[c.dev] # NoQdisc
      [] c.verb = "del_ingress"  -> kernel.ingress # "none"
      [] c.verb = "modprobe"     -> TRUE
      [] c.verb = "link_add"     -> ~Exists(kernel, c.dev)
      [] c.verb \in {"link_up", "link_down"} -> Exists(kernel, c.dev)
      [] c.verb = "add_root"     -> Exists(kernel, c.dev) /\ kernel.root[c.dev] = NoQdisc
      [] c.verb = "add_class"    -> kernel.root[c.dev] = NoClass
      [] c.verb = "change_class" -> kernel.root[c.dev] > NoClass
      [] c.verb = "add_ingress"  -> kernel.ingress = "none"
      [] c.verb = "add_redirect" -> kernel.ingress # "none" /\ Exists(kernel, "ifb0")

\* The kernel after a command that works.
Effect(kernel, c) ==
    CASE c.verb = "del_root"     -> [kernel EXCEPT !.root[c.dev] = NoQdisc]
      [] c.verb = "del_ingress"  -> [kernel EXCEPT !.ingress = "none"]
      [] c.verb = "modprobe"     ->
            [kernel EXCEPT !.link = IF @ = "missing" THEN "down" ELSE @]
      [] c.verb \in {"link_add", "link_down"} -> [kernel EXCEPT !.link = "down"]
      [] c.verb = "link_up"      -> [kernel EXCEPT !.link = "up"]
      [] c.verb = "add_root"     -> [kernel EXCEPT !.root[c.dev] = NoClass]
      [] c.verb \in {"add_class", "change_class"} ->
            [kernel EXCEPT !.root[c.dev] = c.rate]
      [] c.verb = "add_ingress"  -> [kernel EXCEPT !.ingress = "qdisc"]
      [] c.verb = "add_redirect" -> [kernel EXCEPT !.ingress = "redirect"]

-----------------------------------------------------------------------------
(* What the calls are for. *)

\* Both directions are limited to rate.
Shaped(kernel, rate) ==
    /\ kernel.root = [d \in Devices |-> rate]
    /\ kernel.ingress = "redirect"
    /\ kernel.link = "up"

\* No limit, no redirect and no device left in the path.
Bare(kernel) ==
    /\ kernel.root = [d \in Devices |-> NoQdisc]
    /\ kernel.ingress = "none"
    /\ kernel.link # "up"

=============================================================================
