------------------------------- MODULE Config -------------------------------
(***************************************************************************)
(* The configuration of config.py, as far as the daemon's behaviour        *)
(* depends on it: limits and threshold in Mbps, times in seconds, byte     *)
(* counts in units of MBIT_TO_BPS = 125000 bytes (one second at 1 Mbps),   *)
(* in which MB_TO_BYTES is 8.  Parsing, merging with the defaults and the  *)
(* command line's overrides are left out: a configuration here is what     *)
(* they produce, with the place it was read from in source.                *)
(***************************************************************************)
EXTENDS Integers

Positive == Nat \ {0}

Sources == {"file", "<defaults>"}

\* Burst settings: frozen by a reload as one value.
Bursts == [enabled: BOOLEAN, window: Positive, threshold_mb: Positive]

RawConfigs ==
    [higher: Positive, lower: Positive, threshold: Positive,
     duration: Positive, interval: Positive, burst: Bursts,
     cooldown: Positive, recovery_steps: Positive, dry_run: BOOLEAN, source: Sources]

\* What _validate_and_derive requires beyond positive numbers.  It does not
\* require a window to hold an interval: see Bootable.
Valid(c) == c.higher > c.threshold /\ c.threshold > c.lower

ValidConfigs == {c \in RawConfigs : Valid(c)}

BufSize(c) == c.duration \div c.interval
BurstBufSize(c) == c.burst.window \div c.interval
ThresholdBytes(c) == c.threshold * c.duration
BurstThresholdBytes(c) == 8 * c.burst.threshold_mb

\* Daemon.__init__ builds its buffers, and a RingBuffer refuses size 0.
Bootable(c) == BufSize(c) >= 1 /\ (c.burst.enabled => BurstBufSize(c) >= 1)

\* Slip: every setting is taken over.
ReloadEverything(previous, new) == new

\* reload_config: what is not hot-reloadable is carried over from previous.
ReloadConfig(previous, new) ==
    [new EXCEPT !.duration = previous.duration,
                !.interval = previous.interval,
                !.burst = previous.burst,
                !.recovery_steps = previous.recovery_steps]

=============================================================================
