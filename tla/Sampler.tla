------------------------------ MODULE Sampler ------------------------------
(***************************************************************************)
(* One RingBuffer under any sequence of pushes and clears, shown to be a   *)
(* sliding window.  The daemon pushes a sample per interval and clears on  *)
(* a counter reset and on its way back to NORMAL.                          *)
(***************************************************************************)
EXTENDS RingBuffer

CONSTANTS Size,      \* buf_size, at least 1
          Samples    \* the byte counts a sample may have

ASSUME SamplerAssumption == Size \in Nat \ {0} /\ Samples \subseteq Nat

VARIABLE buffer

Init == buffer = NewBuffer(Size)

PushSample(delta) == buffer' = Push(buffer, delta)

ClearBuffer == buffer' = Clear(buffer)

Next == (\E delta \in Samples : PushSample(delta)) \/ ClearBuffer

Spec == Init /\ [][Next]_buffer

-----------------------------------------------------------------------------

\* The next write and every slot stay inside the array.
TypeOK == buffer \in Buffers(Size, Samples \cup {0})

\* The slots from the oldest sample to the latest.
Oldest(b) == IF b.filled < b.size THEN 0 ELSE b.idx
Contents(b) == [i \in 1 .. b.filled |-> b.slots[(Oldest(b) + i - 1) % b.size]]

\* sum() adds up all the slots and the trigger compares it with a threshold
\* for the window: it must be the sum of the samples in the window, after a
\* clear as well as after the indices have gone round.
TotalIsWindowSum == Total(buffer) = SumFunction(Contents(buffer))

\* The buffer holds the last Size samples since the last clear, in order.
Window == INSTANCE SlidingWindow WITH window <- Contents(buffer)
ImplementsWindow == Window!Spec

=============================================================================
