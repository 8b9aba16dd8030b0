------------------------------ MODULE Limiter ------------------------------
(***************************************************************************)
(* What the daemon promises about its limit, whatever happens to the       *)
(* process: a limit that has been recorded stays recorded until its        *)
(* cooldown has passed, unless the limiter is told to stop.  Crashes,      *)
(* restarts, failing commands and failing reads are not mentioned because  *)
(* they change nothing.                                                    *)
(***************************************************************************)
EXTENDS Integers

CONSTANTS NoAge,      \* the age of a limiter that limits nothing
          Cooldowns   \* the cooldowns an administrator may configure

VARIABLES mode,      \* OFF, NORMAL or LIMITED
          age,       \* the time since the limit was last set
          cooldown,  \* how long it must last
          asked      \* the limiter has been told to stop

\* asked belongs to whoever gives the order.
vars == << mode, age, cooldown >>

Init == mode = "OFF" /\ age = NoAge /\ cooldown = 0

TurnOn ==
    /\ mode = "OFF"
    /\ mode' = "NORMAL" /\ cooldown' \in Cooldowns
    /\ UNCHANGED age

TurnOff == asked /\ Init'

\* An overload sets the limit, or sets it again while it lasts.
Limit ==
    /\ mode \in {"NORMAL", "LIMITED"}
    /\ mode' = "LIMITED" /\ age' = 0
    /\ UNCHANGED cooldown

Elapse ==
    /\ mode = "LIMITED"
    /\ age' > age
    /\ UNCHANGED << mode, cooldown >>

Lift ==
    /\ mode = "LIMITED" /\ age >= cooldown
    /\ mode' = "NORMAL" /\ age' = NoAge /\ cooldown' \in Cooldowns

Reconfigure ==
    /\ mode # "OFF"
    /\ cooldown' \in Cooldowns
    /\ UNCHANGED << mode, age >>

Next == TurnOn \/ TurnOff \/ Limit \/ Elapse \/ Lift \/ Reconfigure

Spec == Init /\ [][Next]_vars

=============================================================================
