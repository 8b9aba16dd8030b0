------------------------------ MODULE MCDaemon ------------------------------
(***************************************************************************)
(* Small instances of the daemon for TLC: an interval of one second,       *)
(* windows of one to three samples, limits of 1 to 6 Mbps.                 *)
(***************************************************************************)
EXTENDS DaemonProperties

MCBurst == [enabled |-> TRUE, window |-> 1, threshold_mb |-> 1]
MCNoBurst == [enabled |-> FALSE, window |-> 1, threshold_mb |-> 1]

\* Two recovery steps, of which the first is rounded down (1, 3, 6), and a
\* burst limit.
MCStepped ==
    [higher |-> 6, lower |-> 1, threshold |-> 2, duration |-> 3, interval |-> 1,
     burst |-> MCBurst, cooldown |-> 3, recovery_steps |-> 2,
     dry_run |-> FALSE, source |-> "file"]

\* One step, a window of two samples, no burst limit.
MCPlain ==
    [MCStepped EXCEPT !.duration = 2, !.burst = MCNoBurst, !.cooldown = 2,
                      !.recovery_steps = 1]

Yaml(c) == [kind |-> "yaml", config |-> c]
Malformed == [kind |-> "malformed", config |-> MCPlain]
Missing == [kind |-> "missing", config |-> MCPlain]
Refused == Yaml([MCPlain EXCEPT !.threshold = 1])
Unbootable == Yaml([MCPlain EXCEPT !.interval = 4])

MCDefaults == [MCPlain EXCEPT !.threshold = 3, !.higher = 5, !.source = "<defaults>"]

BareKernel ==
    [root |-> [d \in Devices |-> NoQdisc], ingress |-> "none", link |-> "missing"]
\* What a killed daemon leaves.
UsedKernel == [root |-> [d \in Devices |-> 1], ingress |-> "redirect", link |-> "up"]

MCKernels == {BareKernel, UsedKernel}
MCBareKernels == {BareKernel}

MCSteppedFiles == {Yaml(MCStepped), Yaml([MCStepped EXCEPT !.dry_run = TRUE])}
\* The same limits with a longer cooldown and other thresholds.
MCLonger == Yaml([MCPlain EXCEPT !.cooldown = 3, !.threshold = 3, !.higher = 5])
\* Every kind of file; a daemon started without one runs on MCDefaults.
MCAnyFiles == {Yaml(MCStepped), Refused, Malformed, Missing}
MCTwoFiles == {Yaml(MCPlain), MCLonger}
\* The same with windows of a single sample, for the run with everything that
\* can fail.
MCQuickFiles ==
    {Yaml([MCPlain EXCEPT !.duration = 1]), Yaml([MCLonger.config EXCEPT !.duration = 1])}
\* Edits that leave the lower limit and dry_run alone, good and bad.
\* One of them changes the window too, which a reload must not take over.
MCWider == Yaml([MCLonger.config EXCEPT !.duration = 3, !.burst = MCBurst])
MCReloadFiles == {Yaml(MCPlain), MCWider, Refused, Unbootable, Malformed, Missing}

=============================================================================
