---------------------------- MODULE SamplerProofs ----------------------------
(***************************************************************************)
(* Proof that a RingBuffer of any size is the sliding window of the        *)
(* samples pushed into it, whatever is pushed and whenever it is cleared.  *)
(***************************************************************************)
EXTENDS Sampler, OperatorLemmas, FiniteSetTheorems, WellFoundedInduction

\* The buffers that a sampler may have: one with room writes next to the
\* samples it holds.
S == Samples \cup {0}
Windows == {b \in Buffers(Size, S) : b.filled < Size => b.idx = b.filled}

WindowInv == buffer \in Windows

-----------------------------------------------------------------------------
(* Slots and samples. *)

\* One turn of the index, without the remainder.
LEMMA Wrap ==
    ASSUME NEW n \in Nat \ {0}, NEW a \in Nat, a <= 2 * n - 1
    PROVE  a % n = IF a < n THEN a ELSE a - n
<1>1. CASE a < n
  BY <1>1
<1>2. CASE ~(a < n)
  <2>1. a - n \in 0 .. n - 1 /\ a = (a - n) + n * 1
    BY <1>2
  <2> QED
    BY <1>2, <2>1
<1> QED
  BY <1>1, <1>2

LEMMA Fields ==
    ASSUME NEW b \in Windows
    PROVE  /\ b.size = Size /\ Size \in Nat \ {0}
           /\ b.idx \in 0 .. Size - 1 /\ b.filled \in 0 .. Size
           /\ b.slots \in [0 .. Size - 1 -> S]
           /\ b.filled < Size => b.idx = b.filled
BY SamplerAssumption DEF Windows, Buffers

\* What a push does: the index goes round.
LEMMA PushFields ==
    ASSUME NEW b \in Windows, NEW delta \in S
    PROVE  LET c == Push(b, delta) IN
           /\ c \in Windows
           /\ \A i \in 0 .. Size - 1 : c.slots[i] = IF i = b.idx THEN delta ELSE b.slots[i]
           /\ c.idx = IF b.idx + 1 = Size THEN 0 ELSE b.idx + 1
           /\ c.filled = IF b.filled < Size THEN b.filled + 1 ELSE b.filled
<1> DEFINE c == Push(b, delta)
<1>1. /\ b.size = Size /\ Size \in Nat \ {0}
      /\ b.idx \in 0 .. Size - 1 /\ b.filled \in 0 .. Size
      /\ b.slots \in [0 .. Size - 1 -> S]
      /\ b.filled < Size => b.idx = b.filled
  BY Fields
<1>2. Advance(b) = IF b.idx + 1 = Size THEN 0 ELSE b.idx + 1
  <2> DEFINE a == b.idx + 1
  <2>1. a \in Nat /\ a <= 2 * Size - 1 /\ a <= Size
    BY <1>1
  <2> HIDE DEF a
  <2>2. a % Size = IF a < Size THEN a ELSE a - Size
    BY <1>1, <2>1, Wrap
  <2>3. a % Size = IF a = Size THEN 0 ELSE a
    BY <1>1, <2>1, <2>2
  <2> QED
    BY <1>1, <2>3 DEF Advance, a
<1>3. c.idx = IF b.idx + 1 = Size THEN 0 ELSE b.idx + 1
  BY <1>2 DEF Push
<1>4. c.filled = IF b.filled < Size THEN b.filled + 1 ELSE b.filled
  BY <1>1 DEF Push
<1>5. \A i \in 0 .. Size - 1 : c.slots[i] = IF i = b.idx THEN delta ELSE b.slots[i]
  BY <1>1 DEF Push
<1>6. c \in Buffers(Size, S)
  <2>1. b \in Buffers(Size, S) /\ Size \in Int
    BY SamplerAssumption DEF Windows
  <2> QED
    BY <2>1, PushType
<1> HIDE DEF c
<1>7. c.filled < Size => c.idx = c.filled
  BY <1>1, <1>3, <1>4
<1> QED
  BY <1>3, <1>4, <1>5, <1>6, <1>7 DEF Windows, c

LEMMA ClearFields ==
    ASSUME NEW b \in Windows
    PROVE  Clear(b) \in Windows /\ Clear(b).filled = 0
<1>1. Size \in Int /\ 0 \in S /\ b \in Buffers(Size, S)
  BY SamplerAssumption DEF Windows, S
<1>2. Clear(b) \in Buffers(Size, S)
  BY <1>1, ClearType
<1>3. Clear(b).idx = 0 /\ Clear(b).filled = 0
  BY DEF Clear, NewBuffer
<1> QED
  BY <1>2, <1>3 DEF Windows

\* The slot of the i-th sample: the oldest one is in the slot to be written
\* next once the buffer is full.
LEMMA SlotOf ==
    ASSUME NEW b \in Windows, NEW i \in 1 .. b.filled
    PROVE  Contents(b)[i] = IF b.filled < Size THEN b.slots[i - 1]
                            ELSE IF b.idx + i - 1 < Size THEN b.slots[b.idx + i - 1]
                            ELSE b.slots[b.idx + i - 1 - Size]
<1>1. Size \in Nat \ {0} /\ b.idx \in 0 .. Size - 1 /\ b.filled \in 0 .. Size
  BY Fields
<1>2. Contents(b)[i] = b.slots[(Oldest(b) + i - 1) % Size]
  BY Fields DEF Contents
<1>3. CASE b.filled < Size
  <2>1. Oldest(b) = 0 /\ i - 1 \in 0 .. Size - 1
    BY <1>1, <1>3, Fields DEF Oldest
  <2>2. (i - 1) % Size = i - 1
    BY <1>1, <2>1
  <2>3. Oldest(b) + i - 1 = i - 1
    BY <1>1, <2>1
  <2> QED
    BY <1>2, <1>3, <2>2, <2>3
<1>4. CASE ~(b.filled < Size)
  <2>1. Oldest(b) = b.idx /\ i \in 1 .. Size
    BY <1>1, <1>4, Fields DEF Oldest
  <2>2. b.idx + i - 1 \in Nat /\ b.idx + i - 1 <= 2 * Size - 1
    BY <1>1, <2>1
  <2> DEFINE a == b.idx + i - 1
  <2> HIDE DEF a
  <2>3. a % Size = IF a < Size THEN a ELSE a - Size
    BY <1>1, <2>2, Wrap DEF a
  <2>4. Contents(b)[i] = b.slots[a % Size]
    BY <1>2, <2>1 DEF a
  <2>5. Contents(b)[i] = IF a < Size THEN b.slots[a] ELSE b.slots[a - Size]
    BY <2>3, <2>4
  <2> QED
    BY <1>1, <1>4, <2>1, <2>5 DEF a
<1> QED
  BY <1>3, <1>4

LEMMA ContentsType ==
    ASSUME NEW b \in Windows
    PROVE  Contents(b) \in Seq(S) /\ Len(Contents(b)) = b.filled
<1> DEFINE w == Contents(b)
<1>1. /\ b.size = Size /\ Size \in Nat \ {0}
      /\ b.idx \in 0 .. Size - 1 /\ b.filled \in 0 .. Size
      /\ b.slots \in [0 .. Size - 1 -> S]
  BY Fields
<1>2. DOMAIN w = 1 .. b.filled /\ b.filled \in Nat
  BY <1>1 DEF Contents
<1>3. ASSUME NEW i \in 1 .. b.filled PROVE w[i] \in S
  <2>1. w[i] = IF b.filled < Size THEN b.slots[i - 1]
               ELSE IF b.idx + i - 1 < Size THEN b.slots[b.idx + i - 1]
               ELSE b.slots[b.idx + i - 1 - Size]
    BY SlotOf
  <2> QED
    BY <1>1, <2>1
<1>4. w \in [1 .. b.filled -> S]
  <2>1. w = [i \in 1 .. b.filled |-> w[i]]
    BY DEF Contents
  <2> QED
    BY <1>3, <2>1
<1> HIDE DEF w
<1>5. w \in Seq(S)
  BY <1>2, <1>4, SeqDef
<1>6. Len(w) = b.filled
  BY <1>2, <1>5
<1> QED
  BY <1>5, <1>6 DEF w

-----------------------------------------------------------------------------
(* Pushes and the window. *)

\* A push into a buffer with room puts the sample at the end,
LEMMA PushGrows ==
    ASSUME NEW b \in Windows, NEW delta \in S, b.filled < Size
    PROVE  Contents(Push(b, delta)) = Append(Contents(b), delta)
<1> DEFINE c == Push(b, delta)
           w == Contents(b)
           v == Contents(c)
<1>1. /\ Size \in Nat \ {0} /\ b.idx \in 0 .. Size - 1 /\ b.filled \in 0 .. Size
      /\ b.idx = b.filled
  BY Fields
<1>2. /\ c \in Windows /\ c.filled = b.filled + 1
      /\ \A i \in 0 .. Size - 1 : c.slots[i] = IF i = b.idx THEN delta ELSE b.slots[i]
      /\ c.idx = IF b.idx + 1 = Size THEN 0 ELSE b.idx + 1
  BY PushFields
<1> HIDE DEF c
<1>3. w \in Seq(S) /\ Len(w) = b.filled /\ v \in Seq(S) /\ Len(v) = b.filled + 1
  BY <1>2, ContentsType
<1>4. ASSUME NEW i \in 1 .. b.filled + 1 PROVE v[i] = c.slots[i - 1]
  <2>1. i \in 1 .. c.filled
    BY <1>2
  <2>2. v[i] = IF c.filled < Size THEN c.slots[i - 1]
               ELSE IF c.idx + i - 1 < Size THEN c.slots[c.idx + i - 1]
               ELSE c.slots[c.idx + i - 1 - Size]
    BY <1>2, <2>1, SlotOf
  <2>3. ~(c.filled < Size) => c.idx = 0
    BY <1>1, <1>2
  <2> HIDE DEF v
  <2> QED
    BY <1>1, <1>2, <2>2, <2>3
<1>5. ASSUME NEW i \in 1 .. b.filled PROVE w[i] = b.slots[i - 1]
  BY SlotOf
<1> HIDE DEF w, v
<1>6. ASSUME NEW i \in 1 .. b.filled PROVE v[i] = w[i]
  BY <1>1, <1>2, <1>4, <1>5
<1>7. v[b.filled + 1] = delta
  BY <1>1, <1>2, <1>4
<1>8. /\ Append(w, delta) \in Seq(S) /\ Len(Append(w, delta)) = Len(w) + 1
      /\ \A i \in 1 .. Len(w) : Append(w, delta)[i] = w[i]
      /\ Append(w, delta)[Len(w) + 1] = delta
  BY <1>3, AppendProperties
<1>9. \A i \in 1 .. Len(v) : v[i] = Append(w, delta)[i]
  BY <1>1, <1>3, <1>6, <1>7, <1>8
<1>10. v = Append(w, delta)
  BY <1>3, <1>8, <1>9, SeqEqual
<1> QED
  BY <1>10 DEF w, v, c

\* and a push into a full one takes the place of the oldest.
LEMMA PushSlides ==
    ASSUME NEW b \in Windows, NEW delta \in S, ~(b.filled < Size)
    PROVE  Contents(Push(b, delta)) = Append(Tail(Contents(b)), delta)
<1> DEFINE c == Push(b, delta)
           w == Contents(b)
           v == Contents(c)
<1>1. Size \in Nat \ {0} /\ b.idx \in 0 .. Size - 1 /\ b.filled = Size
  BY Fields
<1>2. /\ c \in Windows /\ c.filled = Size
      /\ \A i \in 0 .. Size - 1 : c.slots[i] = IF i = b.idx THEN delta ELSE b.slots[i]
      /\ c.idx = IF b.idx + 1 = Size THEN 0 ELSE b.idx + 1
  BY <1>1, PushFields
<1> HIDE DEF c
<1>3. w \in Seq(S) /\ Len(w) = Size /\ v \in Seq(S) /\ Len(v) = Size
  BY <1>1, <1>2, ContentsType
<1>4. ASSUME NEW i \in 1 .. Size
      PROVE  /\ w[i] = IF b.idx + i - 1 < Size THEN b.slots[b.idx + i - 1]
                       ELSE b.slots[b.idx + i - 1 - Size]
             /\ v[i] = IF c.idx + i - 1 < Size THEN c.slots[c.idx + i - 1]
                       ELSE c.slots[c.idx + i - 1 - Size]
  <2>1. i \in 1 .. b.filled /\ i \in 1 .. c.filled /\ ~(b.filled < Size) /\ ~(c.filled < Size)
    BY <1>1, <1>2
  <2> QED
    BY <1>2, <2>1, SlotOf
<1> HIDE DEF w, v
<1>5. ASSUME NEW i \in 1 .. Size - 1 PROVE v[i] = w[i + 1]
  <2>1. w[i + 1] = IF b.idx + i < Size THEN b.slots[b.idx + i] ELSE b.slots[b.idx + i - Size]
    BY <1>1, <1>4
  <2>2. v[i] = IF c.idx + i - 1 < Size THEN c.slots[c.idx + i - 1]
               ELSE c.slots[c.idx + i - 1 - Size]
    BY <1>1, <1>4
  <2>3. CASE b.idx + 1 = Size
    BY <1>1, <1>2, <2>1, <2>2, <2>3
  <2>4. CASE b.idx + 1 # Size
    BY <1>1, <1>2, <2>1, <2>2, <2>4
  <2> QED
    BY <2>3, <2>4
<1>6. v[Size] = delta
  BY <1>1, <1>2, <1>4
<1>7. w # << >>
  BY <1>1, <1>3, EmptySeq
<1> DEFINE r == Tail(w)
<1>8. /\ r \in Seq(S) /\ Len(r) = Size - 1
      /\ \A i \in 1 .. Size - 1 : r[i] = w[i + 1]
  BY <1>1, <1>3, <1>7, HeadTailProperties
<1> HIDE DEF r
<1>9. /\ Append(r, delta) \in Seq(S) /\ Len(Append(r, delta)) = Len(r) + 1
      /\ \A i \in 1 .. Len(r) : Append(r, delta)[i] = r[i]
      /\ Append(r, delta)[Len(r) + 1] = delta
  BY <1>8, AppendProperties
<1>10. \A i \in 1 .. Len(v) : v[i] = Append(r, delta)[i]
  BY <1>1, <1>3, <1>5, <1>6, <1>8, <1>9
<1>11. v = Append(r, delta)
  BY <1>1, <1>3, <1>8, <1>9, <1>10, SeqEqual
<1> QED
  BY <1>11 DEF w, v, r, c

\* A buffer without samples is an empty window.
LEMMA EmptyWindow ==
    ASSUME NEW b \in Windows, b.filled = 0
    PROVE  Contents(b) = << >>
<1> DEFINE w == Contents(b)
<1>1. w \in Seq(S) /\ Len(w) = 0
  BY ContentsType
<1> HIDE DEF w
<1>2. w = << >>
  BY <1>1, EmptySeq
<1> QED
  BY <1>2 DEF w

-----------------------------------------------------------------------------
(* Sums. SumFunction takes the elements of a set in an order of its own; a *)
(* sum is the same in any order and with any number of zeros. What the     *)
(* recursion computes is shown by induction on the size of the set, which  *)
(* follows from the well-foundedness of < on the natural numbers.          *)

\* A set with zero and the successor of each of its numbers has all: a smallest number
\* outside would have its predecessor inside.
LEMMA Induction ==
    ASSUME NEW T \in SUBSET Nat, 0 \in T, \A n \in T : n + 1 \in T
    PROVE  T = Nat
<1> SUFFICES ASSUME Nat \ T # {} PROVE FALSE
  OBVIOUS
<1>1. PICK n \in Nat \ T : \A k \in Nat \ T : << k, n >> \notin OpToRel(<, Nat)
  BY NatLessThanWellFounded, WFMin
<1>2. n - 1 \in Nat /\ n - 1 < n /\ (n - 1) + 1 = n
  OBVIOUS
<1>3. n - 1 \in T
  BY <1>1, <1>2 DEF OpToRel
<1> QED BY <1>1, <1>2, <1>3

LEMMA OneLess ==
    ASSUME NEW s, IsFiniteSet(s), NEW n \in Nat, Cardinality(s) = n + 1
    PROVE  s # {} /\ \A x \in s : Cardinality(s \ {x}) = n
<1>1. s # {}
  <2>1. n + 1 # 0
    OBVIOUS
  <2> QED BY <2>1, FS_EmptySet
<1>2. ASSUME NEW x \in s PROVE Cardinality(s \ {x}) = n
  BY FS_RemoveElement
<1> QED BY <1>1, <1>2

\* The summand that SumFunction takes from a set first, and its recursion.
First(s) == CHOOSE x \in s : TRUE
Adds(g, f, s) == IF s = {} THEN 0 ELSE f[First(s)] + g[s \ {First(s)}]
SumsUp(g, f, A) == g = [s \in A |-> Adds(g, f, s)]

LEMMA SumUnfolds ==
    ASSUME NEW f
    PROVE  SumFunction(f) = (CHOOSE g : SumsUp(g, f, SUBSET DOMAIN f))[DOMAIN f]
BY DEF SumFunction, SumFunctionOnSet, FoldFunctionOnSet, MapThenFoldSet, SumsUp, Adds, First

\* The recursion has a solution: one for the sets of n elements gives one for n + 1.
LEMMA SumExists ==
    ASSUME NEW D, IsFiniteSet(D), NEW f
    PROVE  \E g : SumsUp(g, f, SUBSET D)
<1> DEFINE Upto(n) == {s \in SUBSET D : Cardinality(s) <= n}
           T == {n \in Nat : \E g : SumsUp(g, f, Upto(n))}
<1>1. \A s \in SUBSET D : IsFiniteSet(s) /\ Cardinality(s) \in Nat
  BY FS_Subset, FS_CardinalityType
<1>2. 0 \in T
  <2> DEFINE g == [s \in Upto(0) |-> 0]
  <2>1. \A s \in Upto(0) : s = {}
    BY <1>1, FS_EmptySet
  <2>2. SumsUp(g, f, Upto(0))
    BY <2>1 DEF SumsUp, Adds
  <2> QED BY <2>2
<1>3. ASSUME NEW n \in T PROVE n + 1 \in T
  <2>1. PICK g : SumsUp(g, f, Upto(n))
    OBVIOUS
  <2> DEFINE h == [s \in Upto(n + 1) |-> Adds(g, f, s)]
  <2>2. ASSUME NEW s \in Upto(n + 1) PROVE h[s] = Adds(h, f, s)
    <3> DEFINE r == s \ {First(s)}
    <3>1. CASE s = {}
      BY <3>1 DEF Adds
    <3>2. CASE s # {}
      <4>1. First(s) \in s
        BY <3>2 DEF First
      <4>2. Cardinality(r) <= n /\ r \in SUBSET D
        BY <1>1, <4>1, FS_RemoveElement
      <4>3. r \in Upto(n) /\ r \in Upto(n + 1)
        BY <1>1, <4>2
      <4>4. h[r] = Adds(g, f, r) /\ g[r] = Adds(g, f, r)
        BY <2>1, <4>3 DEF SumsUp
      <4> HIDE DEF h
      <4>5. h[r] = g[r]
        BY <4>4
      <4>6. h[s] = Adds(g, f, s)
        BY DEF h
      <4> QED BY <3>2, <4>5, <4>6 DEF Adds
    <3> QED BY <3>1, <3>2
  <2>3. SumsUp(h, f, Upto(n + 1))
    BY <2>2 DEF SumsUp
  <2> QED BY <2>3
<1> HIDE DEF T
<1>4. T = Nat
  <2>1. T \in SUBSET Nat
    BY DEF T
  <2> QED BY <1>2, <1>3, <2>1, Induction
<1>5. Cardinality(D) \in T
  BY <1>4, FS_CardinalityType
<1>6. Upto(Cardinality(D)) = SUBSET D
  BY FS_Subset
<1> QED BY <1>5, <1>6 DEF T


\* g gives the sum of f over every subset of D, in whatever order it is added up.
Totals(g, f, D) ==
    /\ g \in [SUBSET D -> Nat] /\ g[{}] = 0
    /\ \A s \in SUBSET D : \A x \in s : g[s] = f[x] + g[s \ {x}]

LEMMA AnyOrder ==
    ASSUME NEW D, IsFiniteSet(D), NEW f \in [D -> Nat], NEW g, SumsUp(g, f, SUBSET D)
    PROVE  Totals(g, f, D)
<1>1. \A s \in SUBSET D : IsFiniteSet(s) /\ Cardinality(s) \in Nat
  BY FS_Subset, FS_CardinalityType
<1>2. \A s \in SUBSET D : g[s] = Adds(g, f, s)
  BY DEF SumsUp
<1>3. g[{}] = 0
  BY <1>2 DEF Adds
<1>4. ASSUME NEW s \in SUBSET D, NEW x \in s
      PROVE  s \ {x} \in SUBSET D /\ Cardinality(s \ {x}) = Cardinality(s) - 1
  BY <1>1, FS_RemoveElement
<1>5. ASSUME NEW s \in SUBSET D, s # {}
      PROVE  First(s) \in s /\ g[s] = f[First(s)] + g[s \ {First(s)}]
  BY <1>2, <1>5 DEF First, Adds
<1>6. \A s \in SUBSET D : g[s] \in Nat
  <2> DEFINE T == {n \in Nat : \A s \in SUBSET D : Cardinality(s) = n => g[s] \in Nat}
  <2>1. 0 \in T
    BY <1>1, <1>3, FS_EmptySet
  <2>2. ASSUME NEW n \in T PROVE n + 1 \in T
    <3> SUFFICES ASSUME NEW s \in SUBSET D, Cardinality(s) = n + 1 PROVE g[s] \in Nat
      OBVIOUS
    <3>1. n \in Nat
      OBVIOUS
    <3>2. s # {} /\ \A x \in s : Cardinality(s \ {x}) = n
      BY <1>1, <3>1, OneLess
    <3>3. g[s \ {First(s)}] \in Nat
      BY <1>5, <3>2
    <3> QED BY <1>5, <3>2, <3>3
  <2> HIDE DEF T
  <2>3. T = Nat
    <3>1. T \in SUBSET Nat
      BY DEF T
    <3> QED BY <2>1, <2>2, <3>1, Induction
  <2> QED BY <1>1, <2>3 DEF T
<1>7. \A s \in SUBSET D : \A x \in s : g[s] = f[x] + g[s \ {x}]
  <2> DEFINE Right(s) == \A x \in s : g[s] = f[x] + g[s \ {x}]
             T == {n \in Nat : \A s \in SUBSET D : Cardinality(s) = n => Right(s)}
  <2>1. 0 \in T
    BY <1>1, FS_EmptySet
  <2>2. ASSUME NEW n \in T PROVE n + 1 \in T
    <3> SUFFICES ASSUME NEW s \in SUBSET D, Cardinality(s) = n + 1, NEW x \in s
                 PROVE  g[s] = f[x] + g[s \ {x}]
      OBVIOUS
    <3>1. PICK c \in s : g[s] = f[c] + g[s \ {c}]
      BY <1>5
    <3>2. CASE x = c
      BY <3>1, <3>2
    <3>3. CASE x # c
      <4>1. Right(s \ {c}) /\ Right(s \ {x})
        BY <1>4
      <4>2. g[s \ {c}] = f[x] + g[(s \ {c}) \ {x}]
        BY <3>3, <4>1
      <4>3. g[s \ {x}] = f[c] + g[(s \ {x}) \ {c}]
        BY <3>3, <4>1
      <4>4. (s \ {c}) \ {x} = (s \ {x}) \ {c} /\ (s \ {c}) \ {x} \in SUBSET D
        OBVIOUS
      <4> DEFINE r == (s \ {c}) \ {x}
      <4>5. g[s \ {c}] = f[x] + g[r] /\ g[s \ {x}] = f[c] + g[r] /\ g[r] \in Nat
        BY <1>6, <4>2, <4>3, <4>4
      <4> HIDE DEF r
      <4> QED BY <3>1, <4>5
    <3> QED BY <3>2, <3>3
  <2> HIDE DEF T
  <2>3. T = Nat
    <3>1. T \in SUBSET Nat
      BY DEF T
    <3> QED BY <2>1, <2>2, <3>1, Induction
  <2> QED BY <1>1, <2>3 DEF T
<1>8. g \in [SUBSET D -> Nat]
  BY <1>6 DEF SumsUp
<1> QED BY <1>3, <1>7, <1>8 DEF Totals

LEMMA SumTotals ==
    ASSUME NEW D, IsFiniteSet(D), NEW f \in [D -> Nat]
    PROVE  \E g : Totals(g, f, D) /\ SumFunction(f) = g[D]
<1> DEFINE g == CHOOSE h : SumsUp(h, f, SUBSET D)
<1>1. SumsUp(g, f, SUBSET D)
  BY SumExists
<1>2. SumFunction(f) = g[D]
  BY SumUnfolds
<1> HIDE DEF g
<1> QED BY <1>1, <1>2, AnyOrder

\* Zeros do not count, and neither does the order.
LEMMA SumRearranged ==
    ASSUME NEW D, IsFiniteSet(D), NEW f \in [D -> Nat],
           NEW E, IsFiniteSet(E), NEW w \in [E -> Nat], NEW place \in [E -> D],
           \A e \in E : w[e] = f[place[e]],
           \A d \in E, e \in E : place[d] = place[e] => d = e,
           \A d \in D : (\A e \in E : place[e] # d) => f[d] = 0
    PROVE  SumFunction(f) = SumFunction(w)
<1>1. PICK g : Totals(g, f, D) /\ SumFunction(f) = g[D]
  BY SumTotals
<1>2. PICK h : Totals(h, w, E) /\ SumFunction(w) = h[E]
  BY SumTotals
<1> DEFINE At(s) == {place[e] : e \in s}
<1>3. \A s \in SUBSET E : IsFiniteSet(s) /\ Cardinality(s) \in Nat /\ At(s) \in SUBSET D
  BY FS_Subset, FS_CardinalityType
<1>4. \A s \in SUBSET E : g[At(s)] = h[s]
  <2> DEFINE T == {n \in Nat : \A s \in SUBSET E : Cardinality(s) = n => g[At(s)] = h[s]}
  <2>1. 0 \in T
    <3>1. At({}) = {}
      OBVIOUS
    <3> QED BY <1>1, <1>2, <1>3, <3>1, FS_EmptySet DEF Totals
  <2>2. ASSUME NEW n \in T PROVE n + 1 \in T
    <3> SUFFICES ASSUME NEW s \in SUBSET E, Cardinality(s) = n + 1 PROVE g[At(s)] = h[s]
      OBVIOUS
    <3>0. n \in Nat
      OBVIOUS
    <3>1. PICK x \in s : Cardinality(s \ {x}) = n
      BY <1>3, <3>0, OneLess
    <3> DEFINE r == s \ {x}
    <3>2. Cardinality(r) = n /\ r \in SUBSET E
      BY <3>1
    <3>3. g[At(r)] = h[r]
      BY <3>2
    <3>4. At(r) = At(s) \ {place[x]} /\ place[x] \in At(s)
      OBVIOUS
    <3>5. h[s] = w[x] + h[r]
      BY <1>2 DEF Totals
    <3>6. g[At(s)] = f[place[x]] + g[At(r)]
      <4>1. g[At(s)] = f[place[x]] + g[At(s) \ {place[x]}]
        BY <1>1, <1>3, <3>4 DEF Totals
      <4> QED BY <3>4, <4>1
    <3> QED BY <3>3, <3>5, <3>6
  <2> HIDE DEF T
  <2>3. T = Nat
    <3>1. T \in SUBSET Nat
      BY DEF T
    <3> QED BY <2>1, <2>2, <3>1, Induction
  <2> QED BY <1>3, <2>3 DEF T
<1> DEFINE A == At(E)
<1>5. A \in SUBSET D
  BY <1>3
<1>6. \A d \in D \ A : f[d] = 0
  OBVIOUS
<1>7. g[A] = h[E]
  BY <1>4
<1> HIDE DEF A
<1>8. \A s \in SUBSET (D \ A) : g[A \cup s] = g[A]
  <2> DEFINE T == {n \in Nat : \A s \in SUBSET (D \ A) : Cardinality(s) = n => g[A \cup s] = g[A]}
  <2>0. \A s \in SUBSET (D \ A) : IsFiniteSet(s) /\ Cardinality(s) \in Nat /\ A \cup s \in SUBSET D
    BY <1>5, FS_Subset, FS_CardinalityType
  <2>1. 0 \in T
    <3>1. \A s \in SUBSET (D \ A) : Cardinality(s) = 0 => A \cup s = A
      BY <2>0, FS_EmptySet
    <3> QED BY <3>1
  <2>2. ASSUME NEW n \in T PROVE n + 1 \in T
    <3> SUFFICES ASSUME NEW s \in SUBSET (D \ A), Cardinality(s) = n + 1
                 PROVE  g[A \cup s] = g[A]
      OBVIOUS
    <3>0. n \in Nat
      OBVIOUS
    <3>1. PICK x \in s : Cardinality(s \ {x}) = n
      BY <2>0, <3>0, OneLess
    <3> DEFINE r == s \ {x}
    <3>2. Cardinality(r) = n /\ r \in SUBSET (D \ A)
      BY <3>1
    <3>3. (A \cup s) \ {x} = A \cup r /\ x \in A \cup s
      OBVIOUS
    <3>4. g[A \cup s] = f[x] + g[(A \cup s) \ {x}]
      BY <1>1, <2>0, <3>3 DEF Totals
    <3>5. f[x] = 0
      BY <1>6
    <3>6. g[A \cup r] = g[A] /\ g[A] \in Nat
      BY <1>1, <1>5, <3>2 DEF Totals
    <3>7. g[A \cup s] = f[x] + g[A \cup r]
      BY <3>3, <3>4
    <3> QED BY <3>5, <3>6, <3>7
  <2> HIDE DEF T
  <2>3. T = Nat
    <3>1. T \in SUBSET Nat
      BY DEF T
    <3> QED BY <2>1, <2>2, <3>1, Induction
  <2> QED BY <2>0, <2>3 DEF T
<1>9. A \cup (D \ A) = D
  BY <1>5
<1>10. g[A \cup (D \ A)] = g[A]
  BY <1>8
<1> QED BY <1>1, <1>2, <1>7, <1>9, <1>10

\* Slots without a sample are zero, and so all the slots add up to the samples.
ZeroInv == \A i \in 0 .. Size - 1 : i >= buffer.filled => buffer.slots[i] = 0

LEMMA SumOfSamples ==
    ASSUME NEW b \in Windows, \A i \in 0 .. Size - 1 : i >= b.filled => b.slots[i] = 0
    PROVE  Total(b) = SumFunction(Contents(b))
<1> DEFINE D == 0 .. Size - 1
           E == 1 .. b.filled
           w == Contents(b)
           place == [i \in E |-> IF b.filled < Size THEN i - 1
                                 ELSE IF b.idx + i - 1 < Size THEN b.idx + i - 1
                                 ELSE b.idx + i - 1 - Size]
<1>1. /\ Size \in Nat \ {0} /\ b.idx \in 0 .. Size - 1 /\ b.filled \in 0 .. Size
      /\ b.slots \in [D -> S]
  BY Fields
<1>2. S \subseteq Nat
  BY SamplerAssumption DEF S
<1>3. b.slots \in [D -> Nat] /\ DOMAIN b.slots = D
  BY <1>1, <1>2
<1>4. IsFiniteSet(D) /\ IsFiniteSet(E)
  <2>1. 0 \in Int /\ 1 \in Int /\ Size - 1 \in Int /\ b.filled \in Int
    BY <1>1
  <2> QED BY <2>1, FS_Interval
<1>5. place \in [E -> D]
  BY <1>1
<1>6. \A i \in E : w[i] = b.slots[place[i]]
  <2> SUFFICES ASSUME NEW i \in E PROVE w[i] = b.slots[place[i]]
    OBVIOUS
  <2> QED BY SlotOf
<1>7. w \in [E -> Nat]
  <2>1. w = [i \in E |-> w[i]]
    BY DEF Contents
  <2>2. \A i \in E : b.slots[place[i]] \in Nat
    BY <1>3, <1>5
  <2> HIDE DEF w, place
  <2> QED BY <1>6, <2>1, <2>2
<1>8. ASSUME NEW i \in E, NEW j \in E, place[i] = place[j] PROVE i = j
  <2>1. i \in Int /\ j \in Int /\ i \in 1 .. Size /\ j \in 1 .. Size
    BY <1>1
  <2>2. CASE b.filled < Size
    <3>1. i - 1 = j - 1
      BY <1>8, <2>2
    <3> QED BY <2>1, <3>1
  <2>3. CASE ~(b.filled < Size)
    <3>1. (IF b.idx + i - 1 < Size THEN b.idx + i - 1 ELSE b.idx + i - 1 - Size)
            = IF b.idx + j - 1 < Size THEN b.idx + j - 1 ELSE b.idx + j - 1 - Size
      BY <1>8, <2>3
    <3> HIDE DEF place, E
    <3> QED BY <1>1, <2>1, <3>1
  <2> QED BY <2>2, <2>3
<1>9. ASSUME NEW d \in D, \A i \in E : place[i] # d PROVE b.slots[d] = 0
  <2>1. CASE b.filled < Size
    <3>1. CASE d >= b.filled
      BY <3>1
    <3>2. CASE d < b.filled
      <4>1. d + 1 \in E /\ (d + 1) - 1 = d
        BY <1>1, <3>2
      <4>2. place[d + 1] = d
        BY <2>1, <4>1
      <4> QED BY <1>9, <4>1, <4>2
    <3> QED BY <1>1, <3>1, <3>2
  <2>2. CASE ~(b.filled < Size)
    <3> DEFINE i == IF d >= b.idx THEN d - b.idx + 1 ELSE d - b.idx + 1 + Size
    <3>1. i \in 1 .. Size /\ b.filled = Size
      BY <1>1, <2>2
    <3>2. d = IF b.idx + i - 1 < Size THEN b.idx + i - 1 ELSE b.idx + i - 1 - Size
      BY <1>1
    <3> HIDE DEF i
    <3>3. i \in E /\ place[i] = d
      BY <2>2, <3>1, <3>2
    <3> QED BY <1>9, <3>3
  <2> QED BY <2>1, <2>2
<1>10. SumFunction(b.slots) = SumFunction(w)
  <2> HIDE DEF place, w, D, E
  <2> QED BY <1>3, <1>4, <1>5, <1>6, <1>7, <1>8, <1>9, SumRearranged
<1> QED BY <1>10 DEF Total, w

-----------------------------------------------------------------------------
(* Theorems. *)

LEMMA WindowInit == Init => WindowInv /\ Contents(buffer) = << >>
<1> SUFFICES ASSUME Init PROVE WindowInv /\ Contents(buffer) = << >>
  OBVIOUS
<1>1. NewBuffer(Size) \in Buffers(Size, S)
  BY SamplerAssumption, NewBufferType DEF S
<1>2. NewBuffer(Size).idx = 0 /\ NewBuffer(Size).filled = 0
  BY DEF NewBuffer
<1> QED
  BY <1>1, <1>2, EmptyWindow DEF Init, WindowInv, Windows

LEMMA WindowStep == WindowInv /\ [Next]_buffer => WindowInv'
<1> SUFFICES ASSUME WindowInv, [Next]_buffer PROVE WindowInv'
  OBVIOUS
<1>1. CASE \E delta \in Samples : PushSample(delta)
  BY <1>1, PushFields DEF PushSample, WindowInv, S
<1>2. CASE ClearBuffer
  BY <1>2, ClearFields DEF ClearBuffer, WindowInv
<1> QED
  BY <1>1, <1>2 DEF Next, WindowInv

\* The next write and every slot stay inside the array, for every size of it.
THEOREM SlotsStayInside == Spec => []TypeOK
<1>1. WindowInv => TypeOK
  BY DEF WindowInv, Windows, TypeOK, S
<1> QED
  BY <1>1, WindowInit, WindowStep, PTL DEF Spec

\* The sum over all the slots, which the triggers compare with their thresholds, is the
\* sum of the samples in the window, for every size and every sample.
THEOREM SumIsOfWindow == Spec => []TotalIsWindowSum
<1>1. Init => ZeroInv
  BY DEF Init, ZeroInv, NewBuffer
<1>2. WindowInv /\ ZeroInv /\ [Next]_buffer => ZeroInv'
  <2> SUFFICES ASSUME WindowInv, ZeroInv, [Next]_buffer PROVE ZeroInv'
    OBVIOUS
  <2>1. buffer \in Windows /\ Size \in Nat \ {0} /\ buffer.filled \in 0 .. Size
        /\ buffer.size = Size /\ (buffer.filled < Size => buffer.idx = buffer.filled)
    BY Fields DEF WindowInv
  <2>2. ASSUME NEW delta \in Samples, PushSample(delta) PROVE ZeroInv'
    <3> DEFINE c == Push(buffer, delta)
    <3>1. /\ \A i \in 0 .. Size - 1 :
                 c.slots[i] = IF i = buffer.idx THEN delta ELSE buffer.slots[i]
          /\ c.filled = IF buffer.filled < Size THEN buffer.filled + 1 ELSE buffer.filled
      BY <2>1, PushFields DEF S
    <3>2. buffer' = c
      BY <2>2 DEF PushSample
    <3> HIDE DEF c
    <3>3. \A i \in 0 .. Size - 1 : i >= c.filled => c.slots[i] = 0
      BY <2>1, <3>1 DEF ZeroInv
    <3> QED BY <3>2, <3>3 DEF ZeroInv
  <2>3. CASE ClearBuffer
    BY <2>1, <2>3 DEF ClearBuffer, Clear, NewBuffer, ZeroInv
  <2>4. CASE UNCHANGED buffer
    BY <2>4 DEF ZeroInv
  <2> QED BY <2>2, <2>3, <2>4 DEF Next
<1>3. WindowInv /\ ZeroInv => TotalIsWindowSum
  BY SumOfSamples DEF WindowInv, ZeroInv, TotalIsWindowSum
<1> QED BY <1>1, <1>2, <1>3, WindowInit, WindowStep, PTL DEF Spec

\* A RingBuffer is a sliding window over its samples: the trigger looks at the
\* last Size of them since the last clear, at all of them and at no other.
THEOREM BufferIsWindow == Spec => ImplementsWindow
<1>1. Init => Window!Init
  BY WindowInit DEF Window!Init
<1>2. WindowInv /\ [Next]_buffer => [Window!Next]_(Contents(buffer))
  <2> SUFFICES ASSUME WindowInv, [Next]_buffer
               PROVE  [Window!Next]_(Contents(buffer))
    OBVIOUS
  <2>1. CASE \E delta \in Samples : PushSample(delta)
    <3>1. PICK delta \in Samples : PushSample(delta)
      BY <2>1
    <3>2. delta \in S /\ buffer \in Windows /\ Len(Contents(buffer)) = buffer.filled
      BY ContentsType DEF WindowInv, S
    <3>3. Contents(buffer)' = Contents(Push(buffer, delta))
      BY <3>1 DEF PushSample, Contents, Oldest
    <3>4. Window!PushSample(delta)
      BY <3>2, <3>3, PushGrows, PushSlides DEF Window!PushSample
    <3> QED
      BY <3>4 DEF Window!Next
  <2>2. CASE ClearBuffer
    <3>1. Contents(buffer)' = << >>
      BY <2>2, ClearFields, EmptyWindow DEF ClearBuffer, WindowInv
    <3> QED
      BY <3>1 DEF Window!Next, Window!ClearWindow
  <2>3. CASE UNCHANGED buffer
    BY <2>3 DEF Contents, Oldest
  <2> QED
    BY <2>1, <2>2, <2>3 DEF Next
<1> QED
  BY <1>1, <1>2, WindowInit, WindowStep, PTL DEF Spec, ImplementsWindow, Window!Spec

=============================================================================
