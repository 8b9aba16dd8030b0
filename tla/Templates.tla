----------------------------- MODULE Templates -----------------------------
(***************************************************************************)
(* The configurations a host starts with: generate_yaml writes light for   *)
(* setup.sh --template light, while for the template default setup.sh      *)
(* copies config.example.yaml.  The default of generate_yaml is another    *)
(* one, with a burst limit that the example does not enable.               *)
(***************************************************************************)
EXTENDS Config

\* What the files have in common: the defaults of [runtime] and [storage].
Template(limits, interval, steps, burst) ==
    [higher |-> limits[1], lower |-> limits[2], threshold |-> limits[3],
     duration |-> 5 * 60, interval |-> interval, burst |-> burst,
     cooldown |-> 3 * 60, recovery_steps |-> steps, dry_run |-> FALSE, source |-> "file"]

Burst(enabled, window, megabytes) ==
    [enabled |-> enabled, window |-> window, threshold_mb |-> megabytes]

\* config.example.yaml
Example == Template(<< 150, 110, 120 >>, 5, 1, Burst(FALSE, 180, 1024))

Default == Template(<< 150, 110, 120 >>, 10, 1, Burst(TRUE, 3 * 60, 2 * 1000))
Light == Template(<< 75, 20, 30 >>, 5, 2, Burst(TRUE, 2 * 60, 700))

\* Both windows hold a whole number of intervals, so that the buffers span them exactly.
Spanned(c) == BufSize(c) * c.interval = c.duration /\ BurstBufSize(c) * c.interval = c.burst.window

\* Traffic at a rate fills the burst window to its threshold.
SetsOffBurst(c, rate) == rate * c.burst.window > BurstThresholdBytes(c)

=============================================================================
