--------------------------- MODULE SlidingWindow ---------------------------
(***************************************************************************)
(* What a ring buffer stands for: the last Size samples pushed since it    *)
(* was cleared, in order.                                                  *)
(***************************************************************************)
EXTENDS Integers, Sequences

CONSTANTS Size, Samples

VARIABLE window

Init == window = << >>

PushSample(delta) ==
    window' = IF Len(window) < Size THEN Append(window, delta)
                                    ELSE Append(Tail(window), delta)

ClearWindow == window' = << >>

Next == (\E delta \in Samples : PushSample(delta)) \/ ClearWindow

Spec == Init /\ [][Next]_window

=============================================================================
