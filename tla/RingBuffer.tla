----------------------------- MODULE RingBuffer -----------------------------
(***************************************************************************)
(* The RingBuffer class of sampler.py: a fixed array of byte counts, the   *)
(* position of the next write and the number of slots written since the    *)
(* last clear.  A buffer is a value of the daemon, so the class is a set   *)
(* of operators on records and not a state machine; SlidingWindow checks   *)
(* the operators against the window of samples they stand for.             *)
(***************************************************************************)
EXTENDS Integers, Functions

\* Every buffer of a given size whose slots hold values of the set S.
Buffers(size, S) ==
    [size: {size}, slots: [0 .. size - 1 -> S], idx: 0 .. size - 1, filled: 0 .. size]

NewBuffer(size) ==
    [size |-> size, slots |-> [i \in 0 .. size - 1 |-> 0], idx |-> 0, filled |-> 0]

IsFull(b) == b.filled >= b.size

\* Slip: the index is never wrapped.
AdvanceUnwrapped(b) == b.idx + 1

Advance(b) == (b.idx + 1) % b.size

\* Slip: one sample too few counted as filled.
PushCountsShort(b, delta) ==
    [size   |-> b.size,
     slots  |-> [b.slots EXCEPT ![b.idx] = delta],
     idx    |-> Advance(b),
     filled |-> IF b.filled < b.size - 1 THEN b.filled + 1 ELSE b.filled]

Push(b, delta) ==
    [size   |-> b.size,
     slots  |-> [b.slots EXCEPT ![b.idx] = delta],
     idx    |-> Advance(b),
     filled |-> IF b.filled < b.size THEN b.filled + 1 ELSE b.filled]

\* sum(self._buf): over all the slots, the unwritten ones included.
Total(b) == SumFunction(b.slots)

\* Slips: the slots keep their bytes, or nothing is cleared.
ClearCountOnly(b) == [b EXCEPT !.idx = 0, !.filled = 0]
ClearNothing(b) == b

\* Every slot back to zero, so that Total forgets the cleared samples.
Clear(b) == NewBuffer(b.size)

=============================================================================
