--------------------------- MODULE StorageProofs ---------------------------
(***************************************************************************)
(* Proofs about the database for every value of the constants: types, that *)
(* no row is stored twice and that none is lost, short of the failures the *)
(* properties name; how much a kill may lose, how long samples stay, that  *)
(* the newest one does, and that daily rows are backed by samples.         *)
(*                                                                         *)
(* Every statement maps a sound store to sound stores and brings no row of *)
(* its own; so do the operations, which are made of statements.            *)
(***************************************************************************)
EXTENDS StorageProperties, FiniteSetTheorems, WellFoundedInduction, TLAPS

\* The type of a store, and that the bags of rows are finite, which Cardinality needs.
Typed(s) ==
    /\ s \in Stores
    /\ IsFiniteSet(s.view.rows) /\ IsFiniteSet(s.disk.rows) /\ IsFiniteSet(s.pending)

Once(s) ==
    ~s.torn => \A c \in s.view.rows \cup s.disk.rows : c[2] = 1 /\ c[1] \notin s.pending

\* The rows of G are somewhere at time t.
Held(s, G, t) ==
    ~s.rolled => \A r \in G : r \in s.pending \/ Copies(s.view, r) # {} \/ Expired(r, t)

\* All rows that the store knows of.
Known(s) == s.pending \cup {c[1] : c \in s.view.rows \cup s.disk.rows}

\* x may be what s becomes.
Sound(s, x, G, t) ==
    /\ Typed(x) /\ (Once(s) => Once(x)) /\ (Held(s, G, t) => Held(x, G, t))
    /\ Known(x) \subseteq Known(s) /\ x.pending \subseteq s.pending

LEMMA SoundTrans ==
    ASSUME NEW s, NEW x, NEW y, NEW G, NEW t, Sound(s, x, G, t), Sound(x, y, G, t)
    PROVE  Sound(s, y, G, t)
  BY DEF Sound

LEMMA CopiesNumber ==
    ASSUME NEW db, IsFiniteSet(db.rows), NEW r
    PROVE  Cardinality(Copies(db, r)) \in Nat
<1>1. Copies(db, r) \subseteq db.rows
  BY DEF Copies
<1>2. IsFiniteSet(Copies(db, r))
  BY <1>1, FS_Subset
<1> QED BY <1>2, FS_CardinalityType

\* Rows are added as new copies, finitely many.
LEMMA PutTyped ==
    ASSUME NEW db \in Databases, IsFiniteSet(db.rows), NEW R \in SUBSET Rows, IsFiniteSet(R)
    PROVE  /\ Put(db, R) \in Databases /\ IsFiniteSet(Put(db, R).rows)
           /\ Put(db, R).daily = db.daily
           /\ Put(db, R).rows = db.rows \cup {<< r, Cardinality(Copies(db, r)) + 1 >> : r \in R}
<1> DEFINE New == {<< r, Cardinality(Copies(db, r)) + 1 >> : r \in R}
<1>1. New \subseteq Rows \X Nat
  BY CopiesNumber
<1>2. IsFiniteSet(New)
  <2> DEFINE f == [r \in R |-> << r, Cardinality(Copies(db, r)) + 1 >>]
  <2>1. f \in Surjection(R, New)
    BY DEF Surjection
  <2> HIDE DEF New, f
  <2> QED BY <2>1, FS_Surjection
<1> QED BY <1>1, <1>2, FS_Union DEF Put, Databases

(***************************************************************************)
(* Statements.                                                             *)
(***************************************************************************)

LEMMA SoundStutter ==
    ASSUME NEW s, Typed(s), NEW G, NEW t
    PROVE  Sound(s, [s EXCEPT !.ok = FALSE], G, t) /\ Sound(s, s, G, t)
  BY DEF Sound, Typed, Once, Held, Known, Stores, Copies

LEMMA RolledBackSound ==
    ASSUME NEW s, Typed(s), NEW G, NEW t
    PROVE  Sound(s, RolledBack(s), G, t) /\ ~RolledBack(s).ok
<1> DEFINE x == RolledBack(s)
<1>1. x.ok = FALSE /\ x.pending = s.pending /\ x.view = s.disk /\ x.disk = s.disk
      /\ x.torn = s.torn /\ x.rolled = (s.rolled \/ s.view # s.disk)
  BY DEF RolledBack, Typed, Stores
<1>2. x \in Stores
  BY <1>1 DEF RolledBack, Typed, Stores
<1> QED BY <1>1, <1>2 DEF Sound, Typed, Once, Held, Known

LEMMA KeptSound ==
    ASSUME NEW s, Typed(s), NEW R \in SUBSET s.pending, NEW G, NEW t
    PROVE  Sound(s, Kept(s, R), G, t) /\ ~Kept(s, R).ok
<1> DEFINE x == Kept(s, R)
<1>1. s.view \in Databases /\ R \in SUBSET Rows /\ IsFiniteSet(R)
  BY FS_Subset DEF Typed, Stores
<1>2. x.ok = FALSE /\ x.pending = s.pending /\ x.view = Put(s.view, R) /\ x.disk = s.disk
      /\ x.torn = (s.torn \/ R # {}) /\ x.rolled = s.rolled
  BY DEF Kept, Typed, Stores
<1>3. x \in Stores
  BY <1>1, PutTyped DEF Kept, Typed, Stores
<1>4. x.view.rows = s.view.rows \cup {<< r, Cardinality(Copies(s.view, r)) + 1 >> : r \in R}
      /\ IsFiniteSet(x.view.rows)
  BY <1>1, <1>2, PutTyped DEF Typed
<1>5. Known(x) \subseteq Known(s)
  BY <1>2, <1>4 DEF Known
<1>6. R = {} => x.view.rows = s.view.rows
  BY <1>4
<1>7. Once(s) => Once(x)
  BY <1>2, <1>6 DEF Once
<1>8. Held(s, G, t) => Held(x, G, t)
  BY <1>2, <1>4 DEF Held, Copies
<1> QED BY <1>2, <1>3, <1>4, <1>5, <1>7, <1>8 DEF Sound, Typed

\* Whatever a failing statement leaves.
LEMMA FailsSound ==
    ASSUME NEW s, Typed(s), NEW R \in SUBSET s.pending, NEW x \in Fails(s, R), NEW G, NEW t
    PROVE  Sound(s, x, G, t) /\ ~x.ok
  BY KeptSound, RolledBackSound DEF Fails

\* A batch that goes through leaves the queue and is in the transaction, once.
LEMMA ExecutemanySound ==
    ASSUME NEW s, Typed(s), NEW R \in SUBSET s.pending, NEW x \in Executemany(s, R),
           NEW G, NEW t
    PROVE  Sound(s, x, G, t) /\ (x.ok => x.pending = s.pending \ R)
<1>1. CASE R = {}
  BY <1>1, SoundStutter DEF Executemany
<1>2. ASSUME R # {}, NEW r \in R, x \in Fails(s, {q \in R : q.ts < r.ts})
      PROVE  Sound(s, x, G, t) /\ ~x.ok
  BY <1>2, FailsSound
<1>3. ASSUME R # {}, x = [s EXCEPT !.view = Put(@, R), !.pending = @ \ R]
      PROVE  Sound(s, x, G, t) /\ x.pending = s.pending \ R
  <2>1. s.view \in Databases /\ R \in SUBSET Rows /\ IsFiniteSet(R)
    BY FS_Subset DEF Typed, Stores
  <2>2. x.ok = s.ok /\ x.pending = s.pending \ R /\ x.view = Put(s.view, R)
        /\ x.disk = s.disk /\ x.torn = s.torn /\ x.rolled = s.rolled
    BY <1>3 DEF Typed, Stores
  <2>3. x \in Stores
    BY <1>3, <2>1, PutTyped DEF Typed, Stores
  <2>4. x.view.rows = s.view.rows \cup {<< r, Cardinality(Copies(s.view, r)) + 1 >> : r \in R}
        /\ IsFiniteSet(x.view.rows)
    BY <2>1, <2>2, PutTyped DEF Typed
  <2>5. IsFiniteSet(x.pending)
    BY <2>2, FS_Subset DEF Typed
  <2>6. Known(x) \subseteq Known(s)
    BY <2>2, <2>4 DEF Known
  <2>7. Once(s) => Once(x)
    <3> SUFFICES ASSUME ~s.torn, Once(s), NEW c \in x.view.rows \cup x.disk.rows
                 PROVE  c[2] = 1 /\ c[1] \notin x.pending
      BY <2>2 DEF Once
    <3>1. CASE c \in s.view.rows \cup s.disk.rows
      BY <2>2, <3>1 DEF Once
    <3>2. ASSUME NEW r \in R, c = << r, Cardinality(Copies(s.view, r)) + 1 >>
          PROVE  c[2] = 1 /\ c[1] \notin x.pending
      <4>1. Copies(s.view, r) = {}
        BY DEF Once, Copies
      <4> QED BY <2>2, <3>2, <4>1, FS_EmptySet
    <3> QED BY <2>2, <2>4, <3>1, <3>2
  <2>8. Held(s, G, t) => Held(x, G, t)
    <3> SUFFICES ASSUME ~s.rolled, Held(s, G, t), NEW r \in G
                 PROVE  r \in x.pending \/ Copies(x.view, r) # {} \/ Expired(r, t)
      BY <2>2 DEF Held
    <3>1. CASE r \in R
      <4>1. << r, Cardinality(Copies(s.view, r)) + 1 >> \in Copies(x.view, r)
        BY <2>4, <3>1 DEF Copies
      <4> QED BY <4>1
    <3>2. Copies(s.view, r) \subseteq Copies(x.view, r)
      BY <2>4 DEF Copies
    <3> QED BY <2>2, <3>1, <3>2 DEF Held
  <2> QED BY <2>2, <2>3, <2>4, <2>5, <2>6, <2>7, <2>8 DEF Sound, Typed
<1> QED BY <1>1, <1>2, <1>3 DEF Executemany

LEMMA CommitSound ==
    ASSUME NEW s, Typed(s), NEW x \in Commit(s), NEW G, NEW t
    PROVE  Sound(s, x, G, t) /\ (x.ok => x.disk = x.view /\ x.pending = s.pending)
<1>1. CASE x = [s EXCEPT !.disk = s.view]
  BY <1>1 DEF Sound, Typed, Once, Held, Known, Stores
<1>2. CASE x \in Fails(s, {})
  BY <1>2, FailsSound
<1> QED BY <1>1, <1>2 DEF Commit

\* What is deleted has expired.
LEMMA DeleteSound ==
    ASSUME NEW s, Typed(s), NEW t, NEW x \in DeleteExpired(s, t), NEW G
    PROVE  Sound(s, x, G, t)
<1>1. CASE x = [s EXCEPT !.view.rows = {c \in @ : ~Expired(c[1], t)}]
  <2>1. x.ok = s.ok /\ x.pending = s.pending /\ x.disk = s.disk /\ x.view.daily = s.view.daily
        /\ x.torn = s.torn /\ x.rolled = s.rolled
        /\ x.view.rows = {c \in s.view.rows : ~Expired(c[1], t)}
    BY <1>1 DEF Typed, Stores, Databases
  <2>2. x \in Stores
    BY <1>1 DEF Typed, Stores, Databases
  <2>3. IsFiniteSet(x.view.rows)
    BY <2>1, FS_Subset DEF Typed
  <2>4. Held(s, G, t) => Held(x, G, t)
    BY <2>1 DEF Held, Copies
  <2> QED BY <2>1, <2>2, <2>3, <2>4 DEF Sound, Typed, Once, Known
<1>2. CASE x \in Fails(s, {})
  BY <1>2, FailsSound
<1> QED BY <1>1, <1>2 DEF DeleteExpired

LEMMA WriteDailySound ==
    ASSUME NEW s, Typed(s), NEW d \in Nat, NEW x \in WriteDaily(s, d), NEW G, NEW t
    PROVE  Sound(s, x, G, t)
<1>1. CASE x = [s EXCEPT !.view.daily = @ \cup {DailyRow(s.view, d)}]
  <2>1. Cardinality(OfToday(s.view, d)) \in Nat
    <3>1. OfToday(s.view, d) \subseteq s.view.rows
      BY DEF OfToday, SamplesFrom
    <3>2. IsFiniteSet(OfToday(s.view, d))
      BY <3>1, FS_Subset DEF Typed
    <3> QED BY <3>2, FS_CardinalityType
  <2>2. DailyRow(s.view, d) \in [date: Nat, total: Nat]
    BY <2>1 DEF DailyRow
  <2>3. s.view \in Databases /\ s \in Stores
    BY DEF Typed, Stores
  <2>4. x.ok = s.ok /\ x.pending = s.pending /\ x.disk = s.disk /\ x.view.rows = s.view.rows
        /\ x.torn = s.torn /\ x.rolled = s.rolled
    BY <1>1, <2>3 DEF Stores, Databases
  <2>5. x.view \in Databases
    <3>1. x.view = [s.view EXCEPT !.daily = @ \cup {DailyRow(s.view, d)}]
      BY <1>1, <2>3 DEF Stores
    <3>2. s.view.daily \in SUBSET [date: Nat, total: Nat]
      BY <2>3 DEF Databases
    <3>3. s.view.daily \cup {DailyRow(s.view, d)} \in SUBSET [date: Nat, total: Nat]
      BY <2>2, <3>2
    <3> QED BY <2>3, <3>1, <3>3 DEF Databases
  <2>6. x \in Stores
    BY <1>1, <2>3, <2>5 DEF Stores
  <2> QED BY <2>4, <2>6 DEF Sound, Typed, Once, Held, Known, Copies
<1>2. CASE x \in Fails(s, {})
  BY <1>2, FailsSound
<1> QED BY <1>1, <1>2 DEF WriteDaily

(***************************************************************************)
(* Operations.                                                             *)
(***************************************************************************)

\* A flush that goes through leaves nothing pending and no transaction open.
LEMMA FlushSound ==
    ASSUME NEW s, Typed(s), NEW x \in Flush(s), NEW G, NEW t
    PROVE  Sound(s, x, G, t) /\ (x.ok => x.pending = {} /\ x.disk = x.view)
<1>1. ASSUME NEW a, Typed(a), NEW table, NEW b \in Executemany(a, Batch(a, table))
      PROVE  Sound(a, b, G, t) /\ (b.ok => b.pending = a.pending \ Batch(a, table))
  <2>1. Batch(a, table) \subseteq a.pending
    BY DEF Batch
  <2> QED BY <1>1, <2>1, ExecutemanySound
<1>2. PICK c \in Then(InsertSamples(s), InsertChanges) :
        (x = c /\ ~c.ok) \/ (c.ok /\ x \in Commit(c))
  BY Zenon DEF Flush, Then
<1>3. PICK b \in InsertSamples(s) : (c = b /\ ~b.ok) \/ (b.ok /\ c \in InsertChanges(b))
  BY Zenon DEF Then
<1>4. Sound(s, b, G, t) /\ (b.ok => b.pending = s.pending \ Batch(s, "samples"))
  BY <1>1 DEF InsertSamples
<1>5. Sound(s, c, G, t) /\ (c.ok => c.pending = b.pending \ Batch(b, "state_changes"))
  <2>1. CASE c = b /\ ~b.ok
    BY <1>4, <2>1
  <2>2. CASE c \in InsertChanges(b)
    <3>1. Sound(b, c, G, t) /\ (c.ok => c.pending = b.pending \ Batch(b, "state_changes"))
      BY <1>1, <1>4, <2>2 DEF InsertChanges, Sound
    <3> QED BY <1>4, <3>1, SoundTrans
  <2> QED BY <1>3, <2>1, <2>2
<1>6. CASE x = c /\ ~c.ok
  BY <1>5, <1>6
<1>7. CASE c.ok /\ x \in Commit(c)
  <2>1. Sound(c, x, G, t) /\ (x.ok => x.disk = x.view /\ x.pending = c.pending)
    BY <1>5, <1>7, CommitSound DEF Sound
  <2>2. c.pending = {}
    <3>1. b.ok
      BY <1>3, <1>7
    <3>2. s.pending \subseteq Rows
      BY DEF Typed, Stores
    <3> QED BY <1>4, <1>5, <1>7, <3>1, <3>2 DEF Batch, Rows
  <2> QED BY <1>5, <2>1, <2>2, SoundTrans
<1> QED BY <1>2, <1>6, <1>7

LEMMA RotateSound ==
    ASSUME NEW s, Typed(s), NEW t, NEW x \in Rotate(s, t), NEW G
    PROVE  Sound(s, x, G, t)
<1>1. PICK b \in DeleteExpired(s, t) : x = b \/ x \in Commit(b)
  BY DEF Rotate, Then
<1>2. Sound(s, b, G, t)
  BY DeleteSound
<1>3. CASE x \in Commit(b)
  <2>1. Sound(b, x, G, t)
    BY <1>2, <1>3, CommitSound DEF Sound
  <2> QED BY <1>2, <2>1, SoundTrans
<1> QED BY <1>1, <1>2, <1>3

LEMMA AggregateSound ==
    ASSUME NEW s, Typed(s), NEW t \in Nat, NEW x \in Aggregate(s, t), NEW G
    PROVE  Sound(s, x, G, t)
<1>1. CASE x = s
  BY <1>1, SoundStutter
<1>2. CASE x # s
  <2> DEFINE d == t \div Day
  <2>1. d \in Nat
    BY StorageAssumption DEF StorageAssumption
  <2> HIDE DEF d
  <2>2. PICK b \in WriteDaily(s, d) : x = b \/ x \in Commit(b)
    BY <1>2 DEF Aggregate, Then, d
  <2>3. Sound(s, b, G, t)
    BY <2>1, WriteDailySound
  <2>4. CASE x \in Commit(b)
    <3>1. Sound(b, x, G, t)
      BY <2>3, <2>4, CommitSound DEF Sound
    <3> QED BY <2>3, <3>1, SoundTrans
  <2> QED BY <2>2, <2>3, <2>4
<1> QED BY <1>1, <1>2

(***************************************************************************)
(* The specification.                                                      *)
(***************************************************************************)

\* The row that is inserted next is not there yet.
Fresh ==
    \A r \in Known(store) :
        /\ r.ts <= now
        /\ phase = "awake" => r.ts < now
        /\ phase = "recorded" /\ r.table = "state_changes" => r.ts < now

StoreInv == Typed(store) /\ Once(store) /\ Held(store, given, now) /\ Fresh

Inv == TypeOK /\ StoreInv

LEMMA KnownRows ==
    ASSUME NEW s, Typed(s)
    PROVE  Known(s) \subseteq Rows
  BY DEF Known, Typed, Stores, Databases

\* A row that is not there joins the queue.
LEMMA InsertSound ==
    ASSUME NEW s, Typed(s), Once(s), NEW G, NEW t, Held(s, G, t), now \in Times,
           NEW table \in {"samples", "state_changes"}, [table |-> table, ts |-> now] \notin Known(s)
    PROVE  LET r == [table |-> table, ts |-> now]
               x == Insert(s, table)
           IN  /\ Typed(x) /\ Once(x) /\ Held(x, G \cup {r}, t)
               /\ Known(x) = Known(s) \cup {r} /\ x.ok = TRUE
<1> DEFINE r == [table |-> table, ts |-> now]
           x == Insert(s, table)
<1>1. r \in Rows
  BY DEF Rows
<1> HIDE DEF r
<1>2. x.ok = TRUE /\ x.pending = s.pending \cup {r} /\ x.view = s.view /\ x.disk = s.disk
      /\ x.torn = s.torn /\ x.rolled = s.rolled
  BY DEF Insert, Typed, Stores, r
<1>3. x \in Stores
  BY <1>1 DEF Insert, Typed, Stores, r
<1>4. IsFiniteSet(x.pending)
  BY <1>2, FS_AddElement DEF Typed
<1>5. Known(x) = Known(s) \cup {r}
  BY <1>2 DEF Known
<1>6. Once(x)
  <2>1. \A c \in s.view.rows \cup s.disk.rows : c[1] # r
    BY DEF Known, r
  <2> QED BY <1>2, <2>1 DEF Once
<1>7. Held(x, G \cup {r}, t)
  BY <1>2 DEF Held
<1> QED BY <1>2, <1>3, <1>4, <1>5, <1>6, <1>7 DEF Typed, r

\* The end of a process leaves what is on disk.
LEMMA ClosedSound ==
    ASSUME NEW s, Typed(s), Once(s)
    PROVE  LET x == Closed(s)
           IN  /\ Typed(x) /\ Once(x) /\ Known(x) \subseteq Known(s)
               /\ x.pending = {} /\ x.view = x.disk /\ x.disk = s.disk /\ x.rolled = s.rolled
<1> DEFINE x == Closed(s)
<1>1. x.pending = {} /\ x.view = s.disk /\ x.disk = s.disk /\ x.torn = s.torn
      /\ x.rolled = s.rolled
  BY DEF Closed, Typed, Stores
<1>2. x \in Stores
  BY DEF Closed, Typed, Stores
<1> QED BY <1>1, <1>2, FS_EmptySet DEF Typed, Once, Known

\* Time lets rows expire, nothing else.
LEMMA HeldLater ==
    ASSUME NEW s, NEW G \in SUBSET Rows, NEW t \in Nat, NEW u \in Nat, t <= u, Held(s, G, t)
    PROVE  Held(s, G, u)
<1>1. \A r \in G : r.ts \in Nat
  BY StorageAssumption DEF Rows, Times, StorageAssumption
<1>2. RetentionDays * Day \in Nat
  BY StorageAssumption DEF StorageAssumption
<1>3. \A r \in G : Expired(r, t) => Expired(r, u)
  BY <1>1, <1>2 DEF Expired
<1> QED BY <1>3 DEF Held

LEMMA HeldFewer ==
    ASSUME NEW s, NEW G, NEW H \in SUBSET G, NEW t, Held(s, G, t)
    PROVE  Held(s, H, t)
  BY DEF Held

LEMMA InitInv == Init => Inv
<1> SUFFICES ASSUME Init PROVE Inv
  OBVIOUS
<1>1. store.pending = {} /\ store.view = Empty /\ store.disk = Empty /\ store.torn = FALSE
      /\ store.rolled = FALSE /\ store.ok = TRUE /\ store \in Stores /\ Empty.rows = {}
  BY DEF Init, Empty, Stores, Databases
<1>2. Typed(store)
  BY <1>1, FS_EmptySet DEF Typed
<1>3. Once(store) /\ Held(store, given, now) /\ Fresh
  BY <1>1 DEF Init, Once, Held, Fresh, Known
<1>4. TypeOK
  BY <1>1, StorageAssumption DEF Init, TypeOK, Times, StorageAssumption
<1> QED BY <1>2, <1>3, <1>4 DEF Inv, StoreInv

\* Steps that leave the store and the rows given alone.
LEMMA SameStoreInv ==
    ASSUME Inv, TypeOK', UNCHANGED << store, given >>, now <= now',
           Fresh'
    PROVE  Inv'
<1>1. now \in Nat /\ now' \in Nat /\ given \in SUBSET Rows
  BY StorageAssumption DEF Inv, TypeOK, Times, StorageAssumption
<1>2. Held(store, given, now')
  BY <1>1, HeldLater DEF Inv, StoreInv
<1>3. Held(store', given', now')
  BY <1>2
<1> QED BY <1>3 DEF Inv, StoreInv, Typed, Once

LEMMA WaitInv ==
    ASSUME Inv, Open \/ Downtime \/ Wake \/ NoSample \/ SplitFails
    PROVE  Inv'
<1>1. now \in Nat /\ now' \in Nat /\ now <= now' /\ now' \in Times
  BY StorageAssumption
  DEF Inv, TypeOK, Times, StorageAssumption, Open, Downtime, Wake, NoSample, SplitFails, Passes
<1>2. UNCHANGED << store, given, faults >>
  BY DEF Open, Downtime, Wake, NoSample, SplitFails, history
<1>3. \A r \in Known(store) : r.ts \in Nat
  BY KnownRows, StorageAssumption DEF Inv, StoreInv, Rows, Times, StorageAssumption
<1>4. Fresh'
  <2>1. CASE Wake
    <3>1. now < now' /\ phase' = "awake"
      BY <1>1, <2>1, StorageAssumption DEF Wake, Passes, StorageAssumption
    <3> QED BY <1>1, <1>2, <1>3, <3>1 DEF Fresh, Inv, StoreInv, Known
  <2>2. CASE SplitFails
    BY <1>2, <2>2 DEF SplitFails, Fresh, Inv, StoreInv, Known
  <2>3. CASE Open \/ Downtime \/ NoSample
    <3>1. phase' \notin {"awake", "recorded"}
      BY <2>3 DEF Open, Downtime, NoSample
    <3> QED BY <1>1, <1>2, <1>3, <3>1 DEF Fresh, Inv, StoreInv, Known
  <2> QED BY <2>1, <2>2, <2>3
<1>5. TypeOK'
  <2>1. given' \subseteq Rows /\ (\A r \in given' : r.ts <= now') /\ store' \in Stores
        /\ faults' \in 0 .. MaxFaults
    <3>1. \A r \in given : r.ts \in Nat /\ r.ts <= now
      BY StorageAssumption DEF Inv, TypeOK, Rows, Times, StorageAssumption
    <3> QED BY <1>1, <1>2, <3>1 DEF Inv, TypeOK
  <2>2. {next_commit', last_rotation', last_summary', since'} \subseteq 0 .. now'
    <3>1. {next_commit, last_rotation, last_summary, since} \subseteq 0 .. now
      BY DEF Inv, TypeOK
    <3>2. /\ next_commit' \in {next_commit, now} /\ last_rotation' \in {last_rotation, now}
          /\ last_summary' \in {last_summary, now} /\ since' \in {since, now}
      BY DEF Open, Downtime, Wake, NoSample, SplitFails, clocks, history, RotatedAtOpen
    <3> QED BY <1>1, <3>1, <3>2
  <2>3. phase' \in {"down", "asleep", "awake", "recorded", "evaluated"} /\ good' \in BOOLEAN
        /\ commit_interval' \in CommitIntervals
    BY DEF Inv, TypeOK, Open, Downtime, Wake, NoSample, SplitFails, clocks, history
  <2>4. phase' = "down" => store'.pending = {} /\ store'.view = store'.disk
    BY <1>2 DEF Inv, TypeOK, Open, Downtime, Wake, NoSample, SplitFails
  <2> QED BY <1>1, <2>1, <2>2, <2>3, <2>4 DEF TypeOK
<1> QED BY <1>1, <1>2, <1>4, <1>5, SameStoreInv

\* Steps that store something: what is known before them is older than now.
LEMMA RecordInv ==
    ASSUME Inv, Record
    PROVE  Inv'
<1> DEFINE r == [table |-> "samples", ts |-> now]
           queued == Insert(store, "samples")
           G == given \cup {r}
<1>1. now \in Times /\ now \in Nat /\ phase = "awake" /\ phase' = "recorded" /\ now' = now
      /\ given' = G /\ UNCHANGED << last_summary, commit_interval, since >>
  BY StorageAssumption DEF Inv, TypeOK, Times, StorageAssumption, Record
<1>2. r \notin Known(store)
  BY <1>1 DEF Inv, StoreInv, Fresh
<1>3. Typed(queued) /\ Once(queued) /\ Held(queued, G, now) /\ Known(queued) = Known(store) \cup {r}
  BY <1>1, <1>2, InsertSound DEF Inv, StoreInv
<1>4. PICK flushed \in IF Due(next_commit, commit_interval) THEN Flush(queued) ELSE {queued} :
        /\ next_commit' = NextCommit(flushed)
        /\ \E s \in IF flushed.ok THEN RotateDaily(flushed) ELSE {flushed} :
              /\ store' = s /\ good' = s.ok /\ Fault(s)
              /\ last_rotation' = IF s.ok /\ Due(last_rotation, Day) THEN now ELSE last_rotation
  BY DEF Record
<1>5. PICK s \in IF flushed.ok THEN RotateDaily(flushed) ELSE {flushed} :
        /\ store' = s /\ good' = s.ok /\ Fault(s)
        /\ last_rotation' = IF s.ok /\ Due(last_rotation, Day) THEN now ELSE last_rotation
  BY <1>4
<1> HIDE DEF queued, G, r
<1>6. Sound(queued, flushed, G, now)
  <2>1. CASE flushed \in Flush(queued)
    BY <1>3, <2>1, FlushSound
  <2>2. CASE flushed = queued
    BY <1>3, <2>2, SoundStutter
  <2> QED BY <1>4, <2>1, <2>2
<1>7. Sound(queued, s, G, now)
  <2>1. CASE s = flushed
    BY <1>6, <2>1
  <2>2. CASE s \in Rotate(flushed, now)
    <3>1. Sound(flushed, s, G, now)
      BY <1>6, <2>2, RotateSound DEF Sound
    <3> QED BY <1>6, <3>1, SoundTrans
  <2> QED BY <1>5, <2>1, <2>2 DEF RotateDaily
<1>8. Typed(store') /\ Once(store') /\ Held(store', given', now') /\ Known(store') \subseteq Known(store) \cup {r}
  BY <1>1, <1>3, <1>5, <1>7 DEF Sound
<1>9. Fresh'
  <2> SUFFICES ASSUME NEW q \in Known(store')
               PROVE  /\ q.ts <= now'
                      /\ phase' = "awake" => q.ts < now'
                      /\ phase' = "recorded" /\ q.table = "state_changes" => q.ts < now'
    BY DEF Fresh, Known
  <2>1. CASE q = r
    BY <1>1, <2>1 DEF r
  <2>2. CASE q \in Known(store)
    <3>1. q.ts < now /\ q.ts <= now
      <4>1. q.ts \in Nat
        BY <2>2, KnownRows, StorageAssumption DEF Inv, StoreInv, Rows, Times, StorageAssumption
      <4> QED BY <1>1, <2>2, <4>1 DEF Inv, StoreInv, Fresh
    <3> QED BY <1>1, <3>1
  <2> QED BY <1>8, <2>1, <2>2
<1>10. TypeOK'
  <2>1. given' \subseteq Rows /\ (\A q \in given' : q.ts <= now')
    BY <1>1 DEF G, r, Rows, Inv, TypeOK
  <2>2. {next_commit', last_rotation', last_summary', since'} \subseteq 0 .. now'
    BY <1>1, <1>4, <1>5 DEF NextCommit, Inv, TypeOK
  <2>3. good' \in BOOLEAN /\ store' \in Stores
    BY <1>5, <1>8 DEF Typed, Stores
  <2>4. faults' \in 0 .. MaxFaults
    BY <1>5, StorageAssumption DEF Fault, Inv, TypeOK, StorageAssumption
  <2> QED BY <1>1, <2>1, <2>2, <2>3, <2>4 DEF Inv, TypeOK
<1> QED BY <1>8, <1>9, <1>10 DEF Inv, StoreInv

LEMMA EvaluateInv ==
    ASSUME Inv, Evaluate
    PROVE  Inv'
<1>1. now \in Times /\ now \in Nat /\ now' = now /\ phase = "recorded" /\ phase' = "evaluated"
      /\ UNCHANGED << clocks, since, good, faults >>
  BY StorageAssumption DEF Inv, TypeOK, Times, StorageAssumption, Evaluate
<1>2. CASE UNCHANGED << store, given >>
  <2>1. Fresh'
    BY <1>1, <1>2 DEF Inv, StoreInv, Fresh, Known
  <2>2. TypeOK'
    BY <1>1, <1>2 DEF Inv, TypeOK, clocks
  <2> QED BY <1>1, <1>2, <2>1, <2>2, SameStoreInv
<1>3. ASSUME store' = Insert(store, "state_changes"),
             given' = given \cup {[table |-> "state_changes", ts |-> now]}
      PROVE  Inv'
  <2> DEFINE r == [table |-> "state_changes", ts |-> now]
  <2>1. r \notin Known(store)
    BY <1>1 DEF Inv, StoreInv, Fresh
  <2>2. Typed(store') /\ Once(store') /\ Held(store', given', now') /\ Known(store') = Known(store) \cup {r}
    BY <1>1, <1>3, <2>1, InsertSound DEF Inv, StoreInv
  <2>3. Fresh'
    <3> SUFFICES ASSUME NEW q \in Known(store') PROVE q.ts <= now
      BY <1>1 DEF Fresh, Known
    <3> QED BY <1>1, <2>2 DEF Inv, StoreInv, Fresh
  <2>4. given' \subseteq Rows /\ (\A q \in given' : q.ts <= now')
    BY <1>1, <1>3 DEF Rows, Inv, TypeOK
  <2>5. TypeOK'
    BY <1>1, <2>2, <2>4 DEF Inv, TypeOK, clocks, Typed
  <2> QED BY <2>2, <2>3, <2>5 DEF Inv, StoreInv
<1> QED BY <1>2, <1>3 DEF Evaluate

LEMMA SummariseInv ==
    ASSUME Inv, Summarise
    PROVE  Inv'
<1>1. now \in Times /\ now \in Nat /\ now' = now /\ phase = "evaluated" /\ phase' = "asleep"
      /\ UNCHANGED << next_commit, last_rotation, commit_interval, given, since, good >>
  BY StorageAssumption DEF Inv, TypeOK, Times, StorageAssumption, Summarise
<1>2. CASE UNCHANGED << last_summary, store, faults >>
  <2>1. Fresh'
    BY <1>1, <1>2 DEF Inv, StoreInv, Fresh, Known
  <2>2. TypeOK'
    BY <1>1, <1>2 DEF Inv, TypeOK
  <2> QED BY <1>1, <1>2, <2>1, <2>2, SameStoreInv
<1>3. ASSUME last_summary' = now, store' \in Aggregate([store EXCEPT !.ok = TRUE], now), Fault(store')
      PROVE  Inv'
  <2> DEFINE s == [store EXCEPT !.ok = TRUE]
  <2>1. Typed(s) /\ Once(s) /\ Held(s, given, now) /\ Known(s) = Known(store)
    BY DEF Inv, StoreInv, Typed, Once, Held, Known, Stores, Copies
  <2> HIDE DEF s
  <2>2. Sound(s, store', given, now)
    BY <1>1, <1>3, <2>1, AggregateSound DEF s
  <2>3. Typed(store') /\ Once(store') /\ Held(store', given', now') /\ Known(store') \subseteq Known(store)
    BY <1>1, <2>1, <2>2 DEF Sound
  <2>4. Fresh'
    <3> SUFFICES ASSUME NEW q \in Known(store') PROVE q.ts <= now
      BY <1>1 DEF Fresh, Known
    <3> QED BY <2>3 DEF Inv, StoreInv, Fresh
  <2>5. faults' \in 0 .. MaxFaults
    BY <1>3, StorageAssumption DEF Fault, Inv, TypeOK, StorageAssumption
  <2>6. TypeOK'
    BY <1>1, <1>3, <2>3, <2>5 DEF Inv, TypeOK, Typed
  <2> QED BY <2>3, <2>4, <2>6 DEF Inv, StoreInv
<1> QED BY <1>2, <1>3 DEF Summarise

\* A shutdown that gets through leaves every row on disk, any other end those that are.
LEMMA EndInv ==
    ASSUME Inv, Close \/ Crash
    PROVE  Inv'
<1>1. now \in Times /\ now \in Nat /\ now' = now /\ phase' = "down"
      /\ UNCHANGED << clocks, since, good >>
  BY StorageAssumption DEF Inv, TypeOK, Times, StorageAssumption, Close, Crash
<1>2. PICK s : /\ Typed(s) /\ Once(s) /\ Known(s) \subseteq Known(store)
               /\ store' = Closed(s) /\ faults' \in 0 .. MaxFaults
               /\ \/ s.ok /\ given' = given /\ Held(s, given, now)
                     /\ s.pending = {} /\ s.disk = s.view
                  \/ given' = given \cap OnDisk(s)
  <2>1. CASE Crash
    BY <2>1 DEF Crash, Inv, TypeOK, StoreInv
  <2>2. CASE Close
    <3> DEFINE a == [store EXCEPT !.ok = TRUE]
    <3>1. Typed(a) /\ Once(a) /\ Held(a, given, now) /\ Known(a) = Known(store)
      BY DEF Inv, StoreInv, Typed, Once, Held, Known, Stores, Copies
    <3>2. PICK s \in Flush(a) : /\ store' = Closed(s) /\ Fault(s)
                                /\ given' = IF s.ok THEN given ELSE given \cap OnDisk(s)
      BY <2>2 DEF Close
    <3> HIDE DEF a
    <3>3. Sound(a, s, given, now) /\ (s.ok => s.pending = {} /\ s.disk = s.view)
      BY <3>1, <3>2, FlushSound
    <3>4. faults' \in 0 .. MaxFaults
      BY <3>2, StorageAssumption DEF Fault, Inv, TypeOK, StorageAssumption
    <3> QED BY <3>1, <3>2, <3>3, <3>4 DEF Sound
  <2> QED BY <2>1, <2>2
<1>3. /\ Typed(store') /\ Once(store') /\ Known(store') \subseteq Known(store)
      /\ store'.pending = {} /\ store'.view = store'.disk /\ store'.disk = s.disk
      /\ store'.rolled = s.rolled
  BY <1>2, ClosedSound DEF Sound
<1>4. given' \subseteq given
  BY <1>2
<1>5. Held(store', given', now')
  <2>1. CASE given' = given \cap OnDisk(s)
    BY <1>3, <2>1 DEF Held, OnDisk, Copies
  <2>2. CASE given' = given /\ Held(s, given, now) /\ s.pending = {} /\ s.disk = s.view
    BY <1>1, <1>3, <2>2 DEF Held, Copies
  <2> QED BY <1>2, <2>1, <2>2
<1>6. Fresh'
  <2> SUFFICES ASSUME NEW q \in Known(store') PROVE q.ts <= now
    BY <1>1 DEF Fresh, Known
  <2> QED BY <1>3 DEF Inv, StoreInv, Fresh
<1>7. TypeOK'
  BY <1>1, <1>2, <1>3, <1>4 DEF Inv, TypeOK, clocks, Typed
<1> QED BY <1>3, <1>5, <1>6, <1>7 DEF Inv, StoreInv

LEMMA NextInv == Inv /\ [Next]_vars => Inv'
<1> SUFFICES ASSUME Inv, [Next]_vars PROVE Inv'
  OBVIOUS
<1>1. CASE UNCHANGED vars
  BY <1>1 DEF vars, clocks, history, Inv, TypeOK, StoreInv, Typed, Once, Held, Fresh, Known, Copies
<1> QED BY <1>1, WaitInv, RecordInv, EvaluateInv, SummariseInv, EndInv DEF Next

\* Types, and nothing in memory without a process.
THEOREM StorageTyped == Spec => []TypeOK
<1>1. Inv => TypeOK
  BY DEF Inv
<1> QED BY <1>1, InitInv, NextInv, PTL DEF Spec

\* No retry stores a row twice, short of a batch torn in the middle.
THEOREM RowsAreStoredOnce == Spec => []AtMostOnce
<1>1. Inv => AtMostOnce
  BY DEF Inv, StoreInv, Once, AtMostOnce
<1> QED BY <1>1, InitInv, NextInv, PTL DEF Spec

\* No row is lost while the process lives or when it shuts down, short of a rollback.
THEOREM RowsAreKept == Spec => []NothingLost
<1>1. Inv => NothingLost
  BY DEF Inv, StoreInv, Held, NothingLost
<1> QED BY <1>1, InitInv, NextInv, PTL DEF Spec

(***************************************************************************)
(* What becomes of the rows in time.  A statement moves the rows between   *)
(* the transaction and the disk in one of five ways, and what has to stay  *)
(* is shown for each of them.                                              *)
(***************************************************************************)

\* Rows join the transaction.
Grows(s, x) ==
    /\ x.disk = s.disk /\ x.view.daily = s.view.daily /\ s.view.rows \subseteq x.view.rows
    /\ x.rolled = s.rolled

\* The transaction is gone.
Reverts(s, x) ==
    /\ x.disk = s.disk /\ x.view = s.disk /\ (s.view = s.disk \/ x.rolled)
    /\ (s.rolled => x.rolled)

Commits(s, x) == x.disk = s.view /\ x.view = s.view /\ x.rolled = s.rolled

\* A daily row is made of the samples in the transaction.
Sums(s, x) ==
    /\ x.disk = s.disk /\ x.view.rows = s.view.rows /\ x.rolled = s.rolled
    /\ \E d \in Nat : x.view.daily = s.view.daily \cup {DailyRow(s.view, d)}

\* The expired samples leave the transaction.
Prunes(s, x, t) ==
    /\ x.disk = s.disk /\ x.view.daily = s.view.daily /\ x.rolled = s.rolled
    /\ x.view.rows = {c \in s.view.rows : ~Expired(c[1], t)}

Moves(s, x) == Grows(s, x) \/ Reverts(s, x) \/ Commits(s, x) \/ Sums(s, x)

LEMMA FailsMoves ==
    ASSUME NEW s, Typed(s), NEW R \in SUBSET s.pending, NEW x \in Fails(s, R)
    PROVE  Moves(s, x) /\ ~x.ok
<1>1. CASE x = Kept(s, R)
  <2>1. s.view \in Databases /\ R \in SUBSET Rows /\ IsFiniteSet(R)
    BY FS_Subset DEF Typed, Stores
  <2>2. x.ok = FALSE /\ x.view = Put(s.view, R) /\ x.disk = s.disk /\ x.rolled = s.rolled
    BY <1>1 DEF Kept, Typed, Stores
  <2>3. s.view.rows \subseteq x.view.rows /\ x.view.daily = s.view.daily
    BY <2>1, <2>2, PutTyped DEF Typed
  <2> QED BY <2>2, <2>3 DEF Moves, Grows
<1>2. CASE x = RolledBack(s)
  BY <1>2 DEF RolledBack, Typed, Stores, Moves, Reverts
<1> QED BY <1>1, <1>2 DEF Fails

\* A batch that goes through is in the transaction.
LEMMA ExecutemanyMoves ==
    ASSUME NEW s, Typed(s), NEW R \in SUBSET s.pending, NEW x \in Executemany(s, R)
    PROVE  /\ Moves(s, x)
           /\ x.ok => Grows(s, x) /\ \A r \in R : \E c \in x.view.rows : c[1] = r
<1>1. CASE R = {}
  BY <1>1 DEF Executemany, Moves, Grows
<1>2. ASSUME R # {}, NEW r \in R, x \in Fails(s, {q \in R : q.ts < r.ts})
      PROVE  Moves(s, x) /\ ~x.ok
  BY <1>2, FailsMoves
<1>3. ASSUME x = [s EXCEPT !.view = Put(@, R), !.pending = @ \ R]
      PROVE  Grows(s, x) /\ \A r \in R : \E c \in x.view.rows : c[1] = r
  <2>1. s.view \in Databases /\ R \in SUBSET Rows /\ IsFiniteSet(R)
    BY FS_Subset DEF Typed, Stores
  <2>2. x.view = Put(s.view, R) /\ x.disk = s.disk /\ x.rolled = s.rolled
    BY <1>3 DEF Typed, Stores
  <2>3. /\ x.view.daily = s.view.daily
        /\ x.view.rows = s.view.rows \cup {<< r, Cardinality(Copies(s.view, r)) + 1 >> : r \in R}
    BY <2>1, <2>2, PutTyped DEF Typed
  <2>4. Grows(s, x)
    BY <2>2, <2>3 DEF Grows
  <2>5. ASSUME NEW r \in R PROVE \E c \in x.view.rows : c[1] = r
    <3>1. << r, Cardinality(Copies(s.view, r)) + 1 >> \in x.view.rows
      BY <2>3
    <3> QED BY <3>1
  <2> QED BY <2>4, <2>5
<1> QED BY <1>1, <1>2, <1>3 DEF Executemany, Moves

LEMMA CommitMoves ==
    ASSUME NEW s, Typed(s), NEW x \in Commit(s)
    PROVE  Moves(s, x) /\ (x.ok => Commits(s, x))
<1>1. CASE x = [s EXCEPT !.disk = s.view]
  BY <1>1 DEF Moves, Commits, Typed, Stores
<1>2. CASE x \in Fails(s, {})
  BY <1>2, FailsMoves
<1> QED BY <1>1, <1>2 DEF Commit

LEMMA DeleteMoves ==
    ASSUME NEW s, Typed(s), NEW t, NEW x \in DeleteExpired(s, t)
    PROVE  /\ Moves(s, x) \/ Prunes(s, x, t)
           /\ x.ok => Prunes(s, x, t)
<1>1. CASE x = [s EXCEPT !.view.rows = {c \in @ : ~Expired(c[1], t)}]
  BY <1>1 DEF Prunes, Typed, Stores, Databases
<1>2. CASE x \in Fails(s, {})
  BY <1>2, FailsMoves
<1> QED BY <1>1, <1>2 DEF DeleteExpired

LEMMA WriteDailyMoves ==
    ASSUME NEW s, Typed(s), NEW d \in Nat, NEW x \in WriteDaily(s, d)
    PROVE  Moves(s, x)
<1>1. CASE x = [s EXCEPT !.view.daily = @ \cup {DailyRow(s.view, d)}]
  <2>1. Sums(s, x)
    BY <1>1 DEF Sums, Typed, Stores, Databases
  <2> QED BY <2>1 DEF Moves
<1>2. CASE x \in Fails(s, {})
  BY <1>2, FailsMoves
<1> QED BY <1>1, <1>2 DEF WriteDaily

(***************************************************************************)
(* Of the rows G, those from before m are on disk, and what is pending is  *)
(* from m or later; no daily row counts a sample that was never there.     *)
(***************************************************************************)
Filed(s, G, t, m) ==
    ~s.rolled => \A r \in G : r \in OnDisk(s) \/ Expired(r, t) \/ r.ts >= m

Queued(s, m) == \A r \in s.pending : r.ts >= m

Backed(db, t) ==
    \A row \in db.daily :
        row.total > Cardinality(SamplesFrom(db, row.date)) =>
            (row.date + RetentionDays) * Day < t

Stands(s, G, t, m) ==
    /\ Held(s, G, t) /\ Filed(s, G, t, m) /\ Queued(s, m)
    /\ Backed(s.view, t) /\ Backed(s.disk, t)

LEMMA SamplesNumber ==
    ASSUME NEW db, IsFiniteSet(db.rows), NEW d
    PROVE  IsFiniteSet(SamplesFrom(db, d)) /\ Cardinality(SamplesFrom(db, d)) \in Nat
<1>1. SamplesFrom(db, d) \subseteq db.rows
  BY DEF SamplesFrom
<1> QED BY <1>1, FS_Subset, FS_CardinalityType

\* More rows back the same daily rows.
LEMMA BackedByMore ==
    ASSUME NEW a, NEW b, NEW t, Backed(a, t), b.daily = a.daily, a.rows \subseteq b.rows,
           IsFiniteSet(a.rows), IsFiniteSet(b.rows), a.daily \subseteq [date: Nat, total: Nat]
    PROVE  Backed(b, t)
<1> SUFFICES ASSUME NEW row \in a.daily,
                    row.total > Cardinality(SamplesFrom(b, row.date))
             PROVE  (row.date + RetentionDays) * Day < t
  BY DEF Backed
<1>1. SamplesFrom(a, row.date) \subseteq SamplesFrom(b, row.date)
  BY DEF SamplesFrom
<1>2. Cardinality(SamplesFrom(a, row.date)) <= Cardinality(SamplesFrom(b, row.date))
  BY <1>1, SamplesNumber, FS_Subset
<1>3. /\ Cardinality(SamplesFrom(a, row.date)) \in Nat
      /\ Cardinality(SamplesFrom(b, row.date)) \in Nat /\ row.total \in Nat
  BY SamplesNumber
<1>4. row.total > Cardinality(SamplesFrom(a, row.date))
  BY <1>2, <1>3
<1> QED BY <1>4 DEF Backed

LEMMA MoveStands ==
    ASSUME NEW s, NEW x, Typed(s), Typed(x), Moves(s, x), x.pending \subseteq s.pending,
           NEW G, NEW t, NEW m, Held(x, G, t), Stands(s, G, t, m)
    PROVE  Stands(x, G, t, m)
<1>1. /\ s.view \in Databases /\ s.disk \in Databases
      /\ s.view.daily \subseteq [date: Nat, total: Nat]
  BY DEF Typed, Stores, Databases
<1>2. Queued(x, m)
  BY DEF Stands, Queued
<1>3. CASE Grows(s, x)
  <2>1. Backed(x.view, t)
    BY <1>1, <1>3, BackedByMore DEF Stands, Typed, Grows
  <2> QED BY <1>2, <1>3, <2>1 DEF Stands, Grows, Filed, OnDisk
<1>4. CASE Reverts(s, x)
  BY <1>2, <1>4 DEF Stands, Reverts, Filed, OnDisk
<1>5. CASE Commits(s, x)
  <2>1. Filed(x, G, t, m)
    <3> SUFFICES ASSUME ~s.rolled, NEW r \in G
                 PROVE  r \in OnDisk(x) \/ Expired(r, t) \/ r.ts >= m
      BY <1>5 DEF Filed, Commits
    <3>1. CASE r \in s.pending
      BY <3>1 DEF Stands, Queued
    <3>2. CASE Copies(s.view, r) # {}
      BY <1>5, <3>2 DEF Copies, Commits, OnDisk
    <3> QED BY <3>1, <3>2 DEF Stands, Held
  <2> QED BY <1>2, <1>5, <2>1 DEF Stands, Commits
<1>6. CASE Sums(s, x)
  <2>1. PICK d \in Nat : x.view.daily = s.view.daily \cup {DailyRow(s.view, d)}
    BY <1>6 DEF Sums
  <2>2. ASSUME NEW row \in x.view.daily,
               row.total > Cardinality(SamplesFrom(x.view, row.date))
        PROVE  (row.date + RetentionDays) * Day < t
    <3>1. SamplesFrom(x.view, row.date) = SamplesFrom(s.view, row.date)
      BY <1>6 DEF Sums, SamplesFrom
    <3>2. row # DailyRow(s.view, d)
      <4> SUFFICES ASSUME row = DailyRow(s.view, d) PROVE FALSE
        OBVIOUS
      <4>1. row.date = d /\ row.total = Cardinality(SamplesFrom(s.view, d))
        BY DEF DailyRow, OfToday
      <4>2. Cardinality(SamplesFrom(s.view, d)) \in Nat
        BY SamplesNumber DEF Typed
      <4> QED BY <2>2, <3>1, <4>1, <4>2
    <3> QED BY <2>1, <2>2, <3>1, <3>2 DEF Stands, Backed
  <2>3. Backed(x.view, t)
    BY <2>2 DEF Backed
  <2> QED BY <1>2, <1>6, <2>3 DEF Stands, Sums, Filed, OnDisk
<1> QED BY <1>3, <1>4, <1>5, <1>6 DEF Moves

\* A day that loses a sample to the retention is past it.
LEMMA PruneStands ==
    ASSUME NEW s, NEW x, Typed(s), Typed(x), NEW t \in Nat, Prunes(s, x, t),
           x.pending \subseteq s.pending, NEW G, NEW m, Held(x, G, t), Stands(s, G, t, m)
    PROVE  Stands(x, G, t, m)
<1>1. s.view.daily \subseteq [date: Nat, total: Nat] /\ s.view.rows \subseteq Rows \X Nat
  BY DEF Typed, Stores, Databases
<1>2. ASSUME NEW row \in s.view.daily,
             row.total > Cardinality(SamplesFrom(x.view, row.date))
      PROVE  (row.date + RetentionDays) * Day < t
  <2>1. CASE SamplesFrom(x.view, row.date) = SamplesFrom(s.view, row.date)
    BY <1>2, <2>1 DEF Stands, Backed
  <2>2. CASE SamplesFrom(x.view, row.date) # SamplesFrom(s.view, row.date)
    <3>1. PICK c \in SamplesFrom(s.view, row.date) : Expired(c[1], t)
      BY <2>2 DEF Prunes, SamplesFrom
    <3>2. c[1].ts \in Nat /\ c[1].ts >= row.date * Day /\ c[1].ts + RetentionDays * Day < t
      BY <1>1, <3>1, StorageAssumption
      DEF SamplesFrom, Expired, Rows, Times, StorageAssumption
    <3>3. ASSUME NEW k \in Nat, NEW a \in Nat, NEW b \in Nat, NEW n \in Nat,
                 n >= a * k, n + b * k < t
          PROVE  (a + b) * k < t
      <4>1. (a + b) * k = a * k + b * k /\ a * k \in Nat /\ b * k \in Nat
        OBVIOUS
      <4> QED BY <3>3, <4>1
    <3>4. row.date \in Nat /\ Day \in Nat /\ RetentionDays \in Nat
      BY <1>1, StorageAssumption DEF StorageAssumption
    <3> QED BY <3>2, <3>3, <3>4
  <2> QED BY <2>1, <2>2
<1>3. Backed(x.view, t)
  BY <1>2 DEF Backed, Prunes
<1> QED BY <1>3 DEF Stands, Prunes, Filed, OnDisk, Queued

(***************************************************************************)
(* The newest sample: a sample of time m is on disk and stays in the       *)
(* transaction, and no database has only older samples than another.       *)
(***************************************************************************)
SampleAt(db, n) == \E c \in db.rows : c[1] = [table |-> "samples", ts |-> n]

Anchored(s, m) == SampleAt(s.view, m) /\ SampleAt(s.disk, m)

\* b has a sample as new as any of a.
AsNew(a, b) ==
    \A c \in a.rows :
        c[1].table = "samples" =>
            \E e \in b.rows : e[1].table = "samples" /\ e[1].ts >= c[1].ts

\* db is what was on disk before.
Newest(s, db) == AsNew(db, s.disk) /\ AsNew(s.disk, s.view)

LEMMA AsNewTrans ==
    ASSUME NEW a \in Databases, NEW b \in Databases, NEW c \in Databases,
           AsNew(a, b), AsNew(b, c)
    PROVE  AsNew(a, c)
<1> SUFFICES ASSUME NEW p \in a.rows, p[1].table = "samples"
             PROVE  \E e \in c.rows : e[1].table = "samples" /\ e[1].ts >= p[1].ts
  BY DEF AsNew
<1>1. PICK q \in b.rows : q[1].table = "samples" /\ q[1].ts >= p[1].ts
  BY DEF AsNew
<1>2. PICK e \in c.rows : e[1].table = "samples" /\ e[1].ts >= q[1].ts
  BY <1>1 DEF AsNew
<1>3. p[1].ts \in Nat /\ q[1].ts \in Nat /\ e[1].ts \in Nat
  BY StorageAssumption DEF Databases, Rows, Times, StorageAssumption
<1> QED BY <1>1, <1>2, <1>3

LEMMA AsNewSelf ==
    ASSUME NEW a \in Databases, NEW b, a.rows \subseteq b.rows
    PROVE  AsNew(a, b)
<1>1. \A c \in a.rows : c[1].ts \in Nat
  BY StorageAssumption DEF Databases, Rows, Times, StorageAssumption
<1> QED BY <1>1 DEF AsNew

LEMMA MoveNewest ==
    ASSUME NEW s, NEW x, Typed(s), Typed(x), Moves(s, x), NEW db \in Databases
    PROVE  /\ Newest(s, db) => Newest(x, db)
           /\ \A m : Anchored(s, m) => Anchored(x, m)
<1>1. s.view \in Databases /\ s.disk \in Databases /\ x.view \in Databases
  BY DEF Typed, Stores
<1>2. CASE Grows(s, x)
  <2>1. AsNew(s.view, x.view)
    BY <1>1, <1>2, AsNewSelf DEF Grows
  <2> QED BY <1>1, <1>2, <2>1, AsNewTrans DEF Grows, Newest, Anchored, SampleAt
<1>3. CASE Reverts(s, x)
  BY <1>1, <1>3, AsNewSelf DEF Reverts, Newest, Anchored
<1>4. CASE Commits(s, x)
  BY <1>1, <1>4, AsNewSelf, AsNewTrans DEF Commits, Newest, Anchored
<1>5. CASE Sums(s, x)
  BY <1>5 DEF Sums, Newest, AsNew, Anchored, SampleAt
<1> QED BY <1>2, <1>3, <1>4, <1>5 DEF Moves

\* The retention spares the samples that are not older than one that it spares.
LEMMA PruneNewest ==
    ASSUME NEW s, NEW x, Typed(s), Typed(x), NEW t \in Nat, Prunes(s, x, t),
           NEW db \in Databases, NEW m \in Nat, Anchored(s, m), m + RetentionDays * Day >= t
    PROVE  (Newest(s, db) => Newest(x, db)) /\ Anchored(x, m)
<1>1. s.view \in Databases /\ s.disk \in Databases /\ x.view \in Databases
  BY DEF Typed, Stores
<1>2. RetentionDays * Day \in Nat
  BY StorageAssumption DEF StorageAssumption
<1>3. PICK a \in s.view.rows : a[1] = [table |-> "samples", ts |-> m]
  BY DEF Anchored, SampleAt
<1>4. a \in x.view.rows
  BY <1>2, <1>3 DEF Prunes, Expired
<1>5. AsNew(s.view, x.view)
  <2> SUFFICES ASSUME NEW c \in s.view.rows, c[1].table = "samples"
               PROVE  \E e \in x.view.rows : e[1].table = "samples" /\ e[1].ts >= c[1].ts
    BY DEF AsNew
  <2>1. c[1].ts \in Nat
    BY <1>1, StorageAssumption DEF Databases, Rows, Times, StorageAssumption
  <2>2. CASE Expired(c[1], t)
    <3>1. m >= c[1].ts
      BY <1>2, <2>1, <2>2 DEF Expired
    <3> QED BY <1>3, <1>4, <3>1
  <2>3. CASE ~Expired(c[1], t)
    BY <2>1, <2>3 DEF Prunes
  <2> QED BY <2>2, <2>3
<1>6. Newest(s, db) => Newest(x, db)
  BY <1>1, <1>5, AsNewTrans DEF Newest, Prunes
<1>7. Anchored(x, m)
  BY <1>3, <1>4 DEF Anchored, SampleAt, Prunes
<1> QED BY <1>6, <1>7

(***************************************************************************)
(* The operations, made of statements.                                     *)
(***************************************************************************)
Lasts(s, x, G, t, m, db) ==
    /\ Stands(s, G, t, m) => Stands(x, G, t, m)
    /\ Newest(s, db) => Newest(x, db)
    /\ \A n : Anchored(s, n) => Anchored(x, n)

LEMMA MoveLasts ==
    ASSUME NEW s, NEW x, NEW G, NEW t, Typed(s), Sound(s, x, G, t), Moves(s, x), NEW m,
           NEW db \in Databases
    PROVE  Lasts(s, x, G, t, m, db)
<1>1. Typed(x) /\ x.pending \subseteq s.pending /\ (Held(s, G, t) => Held(x, G, t))
  BY DEF Sound
<1>2. Stands(s, G, t, m) => Stands(x, G, t, m)
  BY <1>1, MoveStands DEF Stands
<1> QED BY <1>1, <1>2, MoveNewest DEF Lasts

LEMMA LastsTrans ==
    ASSUME NEW s, NEW x, NEW y, NEW G, NEW t, NEW m, NEW db,
           Lasts(s, x, G, t, m, db), Lasts(x, y, G, t, m, db)
    PROVE  Lasts(s, y, G, t, m, db)
  BY DEF Lasts

\* A flush that goes through takes every sample out of the queue into the transaction.
LEMMA FlushLasts ==
    ASSUME NEW s, Typed(s), NEW x \in Flush(s), NEW G, NEW t, NEW m, NEW db \in Databases
    PROVE  /\ Lasts(s, x, G, t, m, db)
           /\ x.ok => \A r \in Batch(s, "samples") : \E c \in x.view.rows : c[1] = r
<1>1. ASSUME NEW a, Typed(a), NEW table, NEW b \in Executemany(a, Batch(a, table))
      PROVE  /\ Sound(a, b, G, t) /\ Lasts(a, b, G, t, m, db)
             /\ b.ok => /\ a.view.rows \subseteq b.view.rows
                        /\ \A r \in Batch(a, table) : \E c \in b.view.rows : c[1] = r
  <2>1. Batch(a, table) \in SUBSET a.pending
    BY DEF Batch
  <2>2. Sound(a, b, G, t)
    BY <1>1, <2>1, ExecutemanySound
  <2>3. /\ Moves(a, b)
        /\ b.ok => Grows(a, b) /\ \A r \in Batch(a, table) : \E c \in b.view.rows : c[1] = r
    BY <1>1, <2>1, ExecutemanyMoves
  <2>4. Lasts(a, b, G, t, m, db)
    BY <1>1, <2>2, <2>3, MoveLasts
  <2> QED BY <2>2, <2>3, <2>4 DEF Grows
<1>2. PICK c \in Then(InsertSamples(s), InsertChanges) :
        (x = c /\ ~c.ok) \/ (c.ok /\ x \in Commit(c))
  BY Zenon DEF Flush, Then
<1>3. PICK b \in InsertSamples(s) : (c = b /\ ~b.ok) \/ (b.ok /\ c \in InsertChanges(b))
  BY Zenon DEF Then
<1>4. /\ Typed(b) /\ Lasts(s, b, G, t, m, db)
      /\ b.ok => \A r \in Batch(s, "samples") : \E e \in b.view.rows : e[1] = r
  BY <1>1 DEF InsertSamples, Sound
<1>5. /\ Typed(c) /\ Lasts(s, c, G, t, m, db)
      /\ c.ok => \A r \in Batch(s, "samples") : \E e \in c.view.rows : e[1] = r
  <2>1. CASE c = b /\ ~b.ok
    BY <1>4, <2>1
  <2>2. CASE b.ok /\ c \in InsertChanges(b)
    <3>1. Typed(c) /\ Lasts(b, c, G, t, m, db) /\ (c.ok => b.view.rows \subseteq c.view.rows)
      BY <1>1, <1>4, <2>2 DEF InsertChanges, Sound
    <3>2. Lasts(s, c, G, t, m, db)
      BY <1>4, <3>1, LastsTrans
    <3> QED BY <1>4, <2>2, <3>1, <3>2
  <2> QED BY <1>3, <2>1, <2>2
<1>6. CASE x = c /\ ~c.ok
  BY <1>5, <1>6
<1>7. CASE c.ok /\ x \in Commit(c)
  <2>1. Sound(c, x, G, t) /\ Moves(c, x) /\ (x.ok => x.view = c.view)
    BY <1>5, <1>7, CommitSound, CommitMoves DEF Commits
  <2>2. Lasts(s, x, G, t, m, db)
    BY <1>5, <2>1, MoveLasts, LastsTrans
  <2> QED BY <1>5, <1>7, <2>1, <2>2
<1> QED BY <1>2, <1>6, <1>7

LEMMA RotateLasts ==
    ASSUME NEW s, Typed(s), NEW t \in Nat, NEW x \in Rotate(s, t), NEW G, NEW m \in Nat,
           NEW db \in Databases
    PROVE  /\ Stands(s, G, t, m) => Stands(x, G, t, m)
           /\ Anchored(s, m) /\ m + RetentionDays * Day >= t =>
                  Anchored(x, m) /\ (Newest(s, db) => Newest(x, db))
           /\ x.ok => \A c \in x.view.rows \cup x.disk.rows : ~Expired(c[1], t)
<1>1. PICK b \in DeleteExpired(s, t) : (x = b /\ ~b.ok) \/ (b.ok /\ x \in Commit(b))
  BY DEF Rotate, Then
<1>2. Sound(s, b, G, t) /\ Typed(b)
  BY DeleteSound DEF Sound
<1>3. Moves(s, b) \/ Prunes(s, b, t)
  BY DeleteMoves
<1>4. b.ok => Prunes(s, b, t)
  BY DeleteMoves
<1>5. /\ Stands(s, G, t, m) => Stands(b, G, t, m)
      /\ Anchored(s, m) /\ m + RetentionDays * Day >= t =>
             Anchored(b, m) /\ (Newest(s, db) => Newest(b, db))
  <2>1. CASE Moves(s, b)
    BY <1>2, <2>1, MoveLasts DEF Lasts
  <2>2. CASE Prunes(s, b, t)
    <3>1. Stands(s, G, t, m) => Stands(b, G, t, m)
      BY <1>2, <2>2, PruneStands DEF Sound, Stands
    <3> QED BY <1>2, <2>2, <3>1, PruneNewest
  <2> QED BY <1>3, <2>1, <2>2
<1>6. CASE x = b /\ ~b.ok
  BY <1>5, <1>6
<1>7. CASE b.ok /\ x \in Commit(b)
  <2>1. Sound(b, x, G, t) /\ Moves(b, x) /\ (x.ok => Commits(b, x))
    BY <1>2, <1>7, CommitSound, CommitMoves
  <2>2. Lasts(b, x, G, t, m, db)
    BY <1>2, <2>1, MoveLasts
  <2>3. x.ok => \A c \in x.view.rows \cup x.disk.rows : ~Expired(c[1], t)
    BY <1>4, <1>7, <2>1 DEF Commits, Prunes
  <2> QED BY <1>5, <2>2, <2>3 DEF Lasts
<1> QED BY <1>1, <1>6, <1>7

LEMMA AggregateLasts ==
    ASSUME NEW s, Typed(s), NEW t \in Nat, NEW x \in Aggregate(s, t), NEW G, NEW m,
           NEW db \in Databases
    PROVE  Lasts(s, x, G, t, m, db)
<1>1. CASE x = s
  BY <1>1 DEF Lasts
<1>2. CASE x # s
  <2> DEFINE d == t \div Day
  <2>1. d \in Nat
    BY StorageAssumption DEF StorageAssumption
  <2> HIDE DEF d
  <2>2. PICK b \in WriteDaily(s, d) : x = b \/ x \in Commit(b)
    BY <1>2 DEF Aggregate, Then, d
  <2>3. Sound(s, b, G, t) /\ Typed(b) /\ Moves(s, b)
    BY <2>1, WriteDailySound, WriteDailyMoves DEF Sound
  <2>4. Lasts(s, b, G, t, m, db)
    BY <2>3, MoveLasts
  <2>5. CASE x \in Commit(b)
    <3>1. Sound(b, x, G, t) /\ Moves(b, x)
      BY <2>3, <2>5, CommitSound, CommitMoves
    <3>2. Lasts(b, x, G, t, m, db)
      BY <2>3, <3>1, MoveLasts
    <3> QED BY <2>4, <3>2, LastsTrans
  <2> QED BY <2>2, <2>4, <2>5
<1> QED BY <1>1, <1>2

\* The end of a process is a rollback that takes the queue with it.
LEMMA ClosedLasts ==
    ASSUME NEW s, Typed(s), NEW G, NEW H \in SUBSET G, NEW t, NEW m, NEW db \in Databases
    PROVE  LET x == Closed(s)
           IN  /\ Stands(s, G, t, m) /\ Held(x, H, t) => Stands(x, H, t, m)
               /\ Newest(s, db) => Newest(x, db)
               /\ Anchored(s, m) => Anchored(x, m)
<1> DEFINE x == Closed(s)
<1>1. /\ x.pending = {} /\ x.view = s.disk /\ x.disk = s.disk /\ x.rolled = s.rolled
      /\ s.disk \in Databases
  BY DEF Closed, Typed, Stores
<1> HIDE DEF x
<1>2. Stands(s, G, t, m) /\ Held(x, H, t) => Stands(x, H, t, m)
  BY <1>1 DEF Stands, Filed, Queued, OnDisk
<1>3. Newest(s, db) => Newest(x, db)
  BY <1>1, AsNewSelf DEF Newest
<1> QED BY <1>1, <1>2, <1>3 DEF Anchored, x

(***************************************************************************)
(* The invariant of the time marks.                                        *)
(***************************************************************************)

\* Every sample is young enough at time n.
Young(s, n) ==
    \A r \in Known(s) : r.table = "samples" => r.ts + RetentionDays * Day >= n

\* Neither the flush nor the rotation is overdue after an iteration without a failure.
InTime ==
    good /\ phase \in {"asleep", "recorded", "evaluated"} =>
        ~Due(next_commit, commit_interval) /\ ~Due(last_rotation, Day)

TimeInv ==
    /\ Stands(store, given, now, next_commit)
    /\ InTime
    /\ since <= next_commit /\ since <= last_rotation

\* What holds of the samples as long as the flush comes at least as often as the rotation.
SampleInv ==
    /\ AsNew(store.disk, store.view)
    /\ next_commit # since => Anchored(store, next_commit)
    /\ last_rotation # since => Young(store, last_rotation)

\* As the templates have it (60 s and 90 days), and nothing in the code demands it.
OrdinaryTimes == RetentionDays > 0 /\ \A interval \in CommitIntervals : interval <= Day

LastingInv == Inv /\ TimeInv /\ (OrdinaryTimes => SampleInv)

LEMMA Numbers ==
    ASSUME Inv
    PROVE  /\ now \in Nat /\ next_commit \in Nat /\ last_rotation \in Nat /\ since \in Nat
           /\ next_commit <= now /\ last_rotation <= now /\ since <= now
           /\ commit_interval \in Nat /\ commit_interval > 0
           /\ Day \in Nat /\ Day > 0 /\ RetentionDays \in Nat /\ RetentionDays * Day \in Nat
           /\ RetentionDays > 0 => RetentionDays * Day >= Day
<1>1. now \in Nat /\ {next_commit, last_rotation, since} \subseteq 0 .. now
      /\ commit_interval \in CommitIntervals
  BY StorageAssumption DEF Inv, TypeOK, Times, StorageAssumption
<1>2. ASSUME NEW a \in Nat, NEW b \in Nat PROVE a * b \in Nat /\ (a > 0 => a * b >= b)
  OBVIOUS
<1>3. /\ Day \in Nat /\ Day > 0 /\ RetentionDays \in Nat
      /\ commit_interval \in Nat /\ commit_interval > 0
  BY <1>1, StorageAssumption DEF StorageAssumption
<1> QED BY <1>1, <1>2, <1>3

LEMMA StandsLater ==
    ASSUME NEW s, Typed(s), NEW G \in SUBSET Rows, NEW t \in Nat, NEW u \in Nat, t <= u,
           NEW m, Stands(s, G, t, m)
    PROVE  Stands(s, G, u, m)
<1>1. Held(s, G, u)
  BY HeldLater DEF Stands
<1>2. \A r \in G : Expired(r, t) => Expired(r, u)
  <2>1. \A r \in G : r.ts \in Nat
    BY StorageAssumption DEF Rows, Times, StorageAssumption
  <2>2. RetentionDays * Day \in Nat
    BY StorageAssumption DEF StorageAssumption
  <2> QED BY <2>1, <2>2 DEF Expired
<1>3. ASSUME NEW db \in {s.view, s.disk} PROVE Backed(db, u)
  <2>1. \A row \in db.daily : (row.date + RetentionDays) * Day \in Nat
    <3>1. \A row \in db.daily : row.date \in Nat
      BY DEF Typed, Stores, Databases
    <3>2. RetentionDays \in Nat /\ Day \in Nat
      BY StorageAssumption DEF StorageAssumption
    <3> QED BY <3>1, <3>2
  <2>2. Backed(db, t)
    BY DEF Stands
  <2> HIDE DEF Stands
  <2>3. ASSUME NEW n \in Nat, n < t PROVE n < u
    BY <2>3
  <2> QED BY <2>1, <2>2, <2>3 DEF Backed
<1> QED BY <1>1, <1>2, <1>3 DEF Stands, Filed

LEMMA InsertStands ==
    ASSUME NEW s, Typed(s), now \in Nat, NEW table, NEW G, NEW m \in Nat, m <= now,
           Stands(s, G, now, m), NEW db
    PROVE  LET x == Insert(s, table)
               r == [table |-> table, ts |-> now]
           IN  /\ Held(x, G \cup {r}, now) => Stands(x, G \cup {r}, now, m)
               /\ x.view = s.view /\ x.disk = s.disk
               /\ r \in Batch(x, table)
<1> DEFINE r == [table |-> table, ts |-> now]
           x == Insert(s, table)
<1>1. x.pending = s.pending \cup {r} /\ x.view = s.view /\ x.disk = s.disk
      /\ x.rolled = s.rolled
  BY DEF Insert, Typed, Stores
<1>2. r.ts = now /\ r.table = table
  OBVIOUS
<1> HIDE DEF x, r
<1>3. Filed(x, G \cup {r}, now, m) /\ Queued(x, m)
  BY <1>1, <1>2 DEF Stands, Filed, Queued, OnDisk
<1>4. r \in Batch(x, table)
  BY <1>1, <1>2 DEF Batch
<1> QED BY <1>1, <1>3, <1>4 DEF Stands, x, r

LEMMA InitLasting == Init => LastingInv
<1> SUFFICES ASSUME Init PROVE LastingInv
  OBVIOUS
<1>1. Inv
  BY InitInv
<1>2. /\ store.pending = {} /\ store.view = Empty /\ store.disk = Empty
      /\ Empty.rows = {} /\ Empty.daily = {}
      /\ given = {} /\ phase = "down" /\ now = 0 /\ next_commit = 0 /\ last_rotation = 0
      /\ since = 0
  BY DEF Init, Empty
<1>3. Stands(store, given, now, next_commit)
  BY <1>2 DEF Stands, Held, Filed, Queued, Backed
<1> QED BY <1>1, <1>2, <1>3 DEF LastingInv, TimeInv, InTime, SampleInv, AsNew

LEMMA WaitLasting ==
    ASSUME LastingInv, Open \/ Downtime \/ Wake \/ NoSample \/ SplitFails
    PROVE  LastingInv' /\ store' = store
<1>1. Inv'
  BY WaitInv DEF LastingInv
<1>2. UNCHANGED << store, given >>
  BY DEF Open, Downtime, Wake, NoSample, SplitFails, history
<1>3. now' \in Nat /\ now <= now'
  BY StorageAssumption
  DEF LastingInv, Inv, TypeOK, Times, StorageAssumption, Open, Downtime, Wake, NoSample,
      SplitFails, Passes
<1>4. now \in Nat /\ given \in SUBSET Rows /\ Typed(store) /\ Held(store, given, now)
  BY Numbers DEF LastingInv, Inv, TypeOK, StoreInv
<1>5. CASE Open
  <2>1. /\ next_commit' = now /\ last_rotation' = now /\ since' = now /\ now' = now
        /\ phase = "down" /\ UNCHANGED commit_interval
    BY <1>5 DEF Open, RotatedAtOpen
  <2>2. store.pending = {} /\ store.view = store.disk
    BY <2>1 DEF LastingInv, Inv, TypeOK
  <2>3. Filed(store, given, now, now) /\ Queued(store, now)
    BY <1>4, <2>2 DEF Held, Filed, Queued, OnDisk, Copies
  <2>4. Stands(store, given, now, now)
    BY <2>3 DEF LastingInv, TimeInv, Stands
  <2>5. TimeInv'
    BY <1>2, <1>4, <2>1, <2>4, Numbers DEF TimeInv, InTime, Due, LastingInv
  <2>6. SampleInv'
    BY <1>2, <1>4, <2>1, <2>2, AsNewSelf DEF SampleInv, Typed, Stores
  <2> QED BY <1>1, <1>2, <2>5, <2>6 DEF LastingInv
<1>6. CASE Downtime \/ Wake \/ NoSample \/ SplitFails
  <2>1. UNCHANGED << next_commit, last_rotation, since >>
    BY <1>6 DEF Downtime, Wake, NoSample, SplitFails, clocks, history
  <2>2. Stands(store, given, now', next_commit)
    BY <1>3, <1>4, StandsLater DEF LastingInv, TimeInv
  <2>3. InTime'
    BY <1>6 DEF InTime, Downtime, Wake, NoSample, SplitFails
  <2>4. TimeInv'
    BY <1>2, <2>1, <2>2, <2>3 DEF TimeInv, LastingInv
  <2>5. SampleInv => SampleInv'
    BY <1>2, <2>1 DEF SampleInv, Young, Known
  <2> QED BY <1>1, <1>2, <2>4, <2>5 DEF LastingInv
<1> QED BY <1>5, <1>6

\* The sample of this iteration, or the last flush, is what the rotation spares.
LEMMA RecordLasting ==
    ASSUME LastingInv, Record
    PROVE  LastingInv' /\ (OrdinaryTimes => AsNew(store.disk, store'.disk))
<1> DEFINE r == [table |-> "samples", ts |-> now]
           queued == Insert(store, "samples")
           G == given \cup {r}
<1>1. /\ Inv /\ now \in Times /\ phase = "awake" /\ phase' = "recorded" /\ now' = now
      /\ given' = G /\ UNCHANGED << last_summary, commit_interval, since >>
  BY DEF LastingInv, Inv, TypeOK, Record
<1>2. Inv'
  BY <1>1, RecordInv
<1>3. r \notin Known(store)
  BY <1>1, Numbers DEF Inv, StoreInv, Fresh
<1>4. Typed(queued) /\ Held(queued, G, now) /\ Known(queued) = Known(store) \cup {r}
  BY <1>1, <1>3, InsertSound DEF Inv, StoreInv
<1>5. /\ Stands(queued, G, now, next_commit) /\ r \in Batch(queued, "samples")
      /\ queued.view = store.view /\ queued.disk = store.disk
  BY <1>1, <1>4, InsertStands, Numbers DEF LastingInv, TimeInv, Inv, StoreInv
<1>6. PICK flushed \in IF Due(next_commit, commit_interval) THEN Flush(queued) ELSE {queued} :
        /\ next_commit' = NextCommit(flushed)
        /\ \E s \in IF flushed.ok THEN RotateDaily(flushed) ELSE {flushed} :
              /\ store' = s /\ good' = s.ok /\ Fault(s)
              /\ last_rotation' = IF s.ok /\ Due(last_rotation, Day) THEN now ELSE last_rotation
  BY DEF Record
<1>7. PICK s \in IF flushed.ok THEN RotateDaily(flushed) ELSE {flushed} :
        /\ store' = s /\ good' = s.ok /\ Fault(s)
        /\ last_rotation' = IF s.ok /\ Due(last_rotation, Day) THEN now ELSE last_rotation
  BY <1>6
<1>8. r.ts = now /\ r.table = "samples"
  OBVIOUS
<1> HIDE DEF queued, G, r
<1>9. store.disk \in Databases /\ store.view \in Databases
  BY <1>1 DEF Inv, StoreInv, Typed, Stores
<1>10. /\ Sound(queued, flushed, G, now) /\ Typed(flushed)
       /\ Lasts(queued, flushed, G, now, next_commit, store.disk)
  <2>1. CASE flushed \in Flush(queued)
    BY <1>4, <1>9, <2>1, FlushSound, FlushLasts DEF Sound
  <2>2. CASE flushed = queued
    BY <1>4, <2>2, SoundStutter DEF Lasts
  <2> QED BY <1>6, <2>1, <2>2
<1>11. next_commit' \in {now, next_commit} /\ next_commit' \in Nat
  BY <1>1, <1>6, Numbers DEF NextCommit
\* A flush that went through.
<1>12. ASSUME Due(next_commit, commit_interval), flushed.ok
       PROVE  /\ next_commit' = now /\ flushed.pending = {} /\ flushed.disk = flushed.view
              /\ Anchored(flushed, now)
  <2>1. flushed.pending = {} /\ flushed.disk = flushed.view
    BY <1>4, <1>6, <1>12, FlushSound
  <2>2. \A q \in Batch(queued, "samples") : \E c \in flushed.view.rows : c[1] = q
    BY <1>4, <1>6, <1>9, <1>12, FlushLasts
  <2>3. Anchored(flushed, now)
    BY <1>5, <2>1, <2>2 DEF Anchored, SampleAt, r
  <2> QED BY <1>6, <1>12, <2>1, <2>3 DEF NextCommit
<1>13. Stands(flushed, G, now, next_commit')
  <2>1. CASE next_commit' = next_commit
    BY <1>5, <1>10, <2>1 DEF Lasts
  <2>2. CASE next_commit' # next_commit
    <3>1. Due(next_commit, commit_interval) /\ flushed.ok
      BY <1>6, <2>2 DEF NextCommit
    <3>2. Filed(flushed, G, now, next_commit') /\ Queued(flushed, next_commit')
      BY <1>4, <1>10, <1>12, <3>1 DEF Sound, Held, Filed, Queued, OnDisk, Copies
    <3> QED BY <1>5, <1>10, <3>2 DEF Lasts, Stands
  <2> QED BY <2>1, <2>2
<1>14. \/ s = flushed
       \/ flushed.ok /\ Due(last_rotation, Day) /\ s \in Rotate(flushed, now)
  BY <1>7 DEF RotateDaily
<1>15. s.ok => flushed.ok
  BY <1>7
<1>16. Stands(s, G, now, next_commit')
  BY <1>1, <1>9, <1>10, <1>11, <1>13, <1>14, RotateLasts, Numbers
<1>17. InTime'
  <2> SUFFICES ASSUME s.ok
               PROVE  ~Due(next_commit, commit_interval)' /\ ~Due(last_rotation, Day)'
    BY <1>7 DEF InTime
  <2>1. ~Due(next_commit, commit_interval)'
    BY <1>1, <1>6, <1>15, Numbers DEF NextCommit, Due
  <2>2. ~Due(last_rotation, Day)'
    BY <1>1, <1>7, Numbers DEF Due
  <2> QED BY <2>1, <2>2
<1>18. TimeInv'
  <2>1. Stands(store', given', now', next_commit')
    BY <1>1, <1>7, <1>16
  <2>2. since' <= next_commit' /\ since' <= last_rotation'
    BY <1>1, <1>7, <1>11, Numbers DEF LastingInv, TimeInv
  <2> QED BY <1>17, <2>1, <2>2 DEF TimeInv
<1>19. ASSUME OrdinaryTimes
       PROVE  SampleInv' /\ AsNew(store.disk, store'.disk)
  <2>1. SampleInv
    BY <1>19 DEF LastingInv
  <2>2. Newest(flushed, store.disk)
    <3>1. Newest(queued, store.disk)
      BY <1>5, <1>9, <2>1, AsNewSelf DEF Newest, SampleInv
    <3> QED BY <1>10, <3>1 DEF Lasts
  <2>3. next_commit' # since => Anchored(flushed, next_commit')
    <3>1. CASE next_commit' = next_commit
      <4>1. next_commit # since => Anchored(queued, next_commit)
        BY <1>5, <2>1 DEF SampleInv, Anchored
      <4> QED BY <1>10, <3>1, <4>1 DEF Lasts
    <3>2. CASE next_commit' # next_commit
      BY <1>6, <1>12, <3>2 DEF NextCommit
    <3> QED BY <3>1, <3>2
  <2>4. ASSUME Due(last_rotation, Day), flushed.ok
        PROVE  next_commit' # since /\ next_commit' + RetentionDays * Day >= now
    <3>1. CASE Due(next_commit, commit_interval)
      <4>1. next_commit' = now
        BY <1>12, <2>4, <3>1
      <4> QED BY <1>1, <2>4, <4>1, Numbers DEF Due, LastingInv, TimeInv
    <3>2. CASE ~Due(next_commit, commit_interval)
      <4>1. next_commit' = next_commit
        BY <1>6, <3>2 DEF NextCommit
      <4>2. commit_interval <= Day /\ RetentionDays > 0
        BY <1>1, <1>19 DEF OrdinaryTimes, Inv, TypeOK
      <4>3. next_commit > last_rotation /\ next_commit + Day >= now
        BY <1>1, <2>4, <3>2, <4>2, Numbers DEF Due
      <4> QED BY <1>1, <4>1, <4>2, <4>3, Numbers DEF LastingInv, TimeInv
    <3> QED BY <3>1, <3>2
  <2>5. Newest(s, store.disk) /\ (next_commit' # since => Anchored(s, next_commit'))
    <3>1. CASE s = flushed
      BY <2>2, <2>3, <3>1
    <3>2. CASE flushed.ok /\ Due(last_rotation, Day) /\ s \in Rotate(flushed, now)
      BY <1>1, <1>9, <1>10, <1>11, <2>2, <2>3, <2>4, <3>2, RotateLasts, Numbers
    <3> QED BY <1>14, <3>1, <3>2
  <2>6. Typed(s) /\ Known(s) \subseteq Known(store) \cup {r} /\ s.pending \subseteq flushed.pending
    <3>1. Sound(flushed, s, G, now)
      BY <1>1, <1>10, <1>14, RotateSound, SoundStutter
    <3> QED BY <1>4, <1>10, <3>1 DEF Sound
  <2>7. last_rotation' # since' => Young(s, last_rotation')
    <3>1. CASE last_rotation' = last_rotation
      <4>1. last_rotation # since => Young(store, last_rotation)
        BY <2>1 DEF SampleInv
      <4> QED BY <1>1, <1>8, <2>6, <3>1, <4>1, Numbers DEF Young
    <3>2. CASE last_rotation' # last_rotation
      <4>1. s.ok /\ Due(last_rotation, Day) /\ last_rotation' = now /\ flushed.ok
        BY <1>7, <1>15, <3>2
      <4>2. s \in Rotate(flushed, now)
        BY <1>7, <4>1 DEF RotateDaily
      <4>3. \A c \in s.view.rows \cup s.disk.rows : ~Expired(c[1], now)
        BY <1>1, <1>9, <1>10, <1>11, <4>1, <4>2, RotateLasts, Numbers
      <4>4. next_commit' + RetentionDays * Day >= now
        BY <2>4, <4>1
      <4>5. \A q \in Known(s) : q.ts \in Nat
        BY <2>6, KnownRows, StorageAssumption DEF Rows, Times, StorageAssumption
      <4>6. ASSUME NEW q \in Known(s), q.table = "samples"
            PROVE  q.ts + RetentionDays * Day >= now
        <5>1. CASE q \in s.pending
          <6>1. q.ts >= next_commit'
            BY <1>16, <5>1 DEF Stands, Queued
          <6> QED BY <1>1, <1>11, <4>4, <4>5, <6>1, Numbers
        <5>2. CASE q \notin s.pending
          <6>1. ~Expired(q, now)
            BY <4>3, <5>2 DEF Known
          <6> QED BY <1>1, <4>5, <4>6, <6>1, Numbers DEF Expired
        <5> QED BY <5>1, <5>2
      <4> QED BY <4>1, <4>6 DEF Young
    <3> QED BY <3>1, <3>2
  <2>8. SampleInv'
    BY <1>1, <1>7, <2>5, <2>7 DEF SampleInv, Newest
  <2> QED BY <1>7, <2>5, <2>8 DEF Newest
<1> QED BY <1>2, <1>18, <1>19 DEF LastingInv

LEMMA EvaluateLasting ==
    ASSUME LastingInv, Evaluate
    PROVE  LastingInv' /\ store'.disk = store.disk
<1>1. Inv /\ Inv' /\ now' = now /\ UNCHANGED << clocks, since, good >>
      /\ phase = "recorded" /\ phase' = "evaluated"
  BY EvaluateInv DEF LastingInv, Evaluate
<1>2. InTime'
  BY <1>1 DEF LastingInv, TimeInv, InTime, Due, clocks
<1>3. CASE UNCHANGED << store, given >>
  BY <1>1, <1>2, <1>3 DEF LastingInv, TimeInv, SampleInv, Young, Known, clocks
<1>4. ASSUME store' = Insert(store, "state_changes"),
             given' = given \cup {[table |-> "state_changes", ts |-> now]}
      PROVE  LastingInv' /\ store'.disk = store.disk
  <2> DEFINE r == [table |-> "state_changes", ts |-> now]
  <2>1. Held(store', given', now)
    BY <1>1 DEF Inv, StoreInv
  <2>2. /\ Stands(store', given', now, next_commit)
        /\ store'.view = store.view /\ store'.disk = store.disk
    BY <1>1, <1>4, <2>1, InsertStands, Numbers DEF LastingInv, TimeInv, Inv, StoreInv
  <2>3. TimeInv'
    BY <1>1, <1>2, <2>2 DEF LastingInv, TimeInv, clocks
  <2>4. store'.pending = store.pending \cup {r}
    BY <1>1, <1>4 DEF Insert, Inv, StoreInv, Typed, Stores
  <2>5. r.table # "samples"
    OBVIOUS
  <2> HIDE DEF r
  <2>6. SampleInv => SampleInv'
    BY <1>1, <2>2, <2>4, <2>5 DEF SampleInv, Young, Known, Anchored, clocks
  <2> QED BY <1>1, <2>2, <2>3, <2>6 DEF LastingInv
<1> QED BY <1>3, <1>4 DEF Evaluate

LEMMA SummariseLasting ==
    ASSUME LastingInv, Summarise
    PROVE  LastingInv' /\ (OrdinaryTimes => AsNew(store.disk, store'.disk))
<1>1. /\ Inv /\ Inv' /\ now' = now /\ phase = "evaluated" /\ phase' = "asleep"
      /\ UNCHANGED << next_commit, last_rotation, commit_interval, given, since, good >>
  BY SummariseInv DEF LastingInv, Summarise
<1>2. InTime'
  BY <1>1 DEF LastingInv, TimeInv, InTime, Due
<1> DEFINE s == [store EXCEPT !.ok = TRUE]
<1>3. /\ s.pending = store.pending /\ s.view = store.view /\ s.disk = store.disk
      /\ s.rolled = store.rolled /\ Typed(s)
  BY <1>1 DEF Inv, StoreInv, Typed, Stores
<1>4. store.disk \in Databases /\ now \in Nat
  BY <1>1, Numbers DEF Inv, StoreInv, Typed, Stores
<1>5. store' = store \/ store' \in Aggregate(s, now)
  BY DEF Summarise
<1> HIDE DEF s
<1>6. Stands(s, given, now, next_commit)
  BY <1>3 DEF LastingInv, TimeInv, Stands, Held, Filed, Queued, OnDisk
<1>7. CASE store' = store
  BY <1>1, <1>2, <1>4, <1>7, AsNewSelf DEF LastingInv, TimeInv, SampleInv, Young, Known
<1>8. CASE store' \in Aggregate(s, now)
  <2>1. Lasts(s, store', given, now, next_commit, store.disk)
    BY <1>3, <1>4, <1>8, AggregateLasts
  <2>2. TimeInv'
    BY <1>1, <1>2, <1>6, <2>1 DEF LastingInv, TimeInv, Lasts
  <2>3. ASSUME SampleInv PROVE SampleInv' /\ AsNew(store.disk, store'.disk)
    <3>1. Newest(s, store.disk) /\ (next_commit # since => Anchored(s, next_commit))
      BY <1>3, <1>4, <2>3, AsNewSelf DEF SampleInv, Newest, Anchored
    <3>2. Known(store') \subseteq Known(store)
      BY <1>3, <1>4, <1>8, AggregateSound DEF Sound, Known
    <3> QED BY <1>1, <2>1, <2>3, <3>1, <3>2 DEF SampleInv, Newest, Lasts, Young
  <2> QED BY <1>1, <2>2, <2>3 DEF LastingInv
<1> QED BY <1>5, <1>7, <1>8

LEMMA EndLasting ==
    ASSUME LastingInv, Close \/ Crash
    PROVE  LastingInv' /\ (OrdinaryTimes => AsNew(store.disk, store'.disk))
<1>1. Inv /\ Inv' /\ now' = now /\ phase' = "down" /\ UNCHANGED << clocks, since, good >>
  BY EndInv DEF LastingInv, Close, Crash
<1>2. InTime'
  BY <1>1 DEF InTime
<1>3. store.disk \in Databases /\ now \in Nat
  BY <1>1, Numbers DEF Inv, StoreInv, Typed, Stores
<1>4. PICK s : /\ Typed(s) /\ Known(s) \subseteq Known(store) /\ store' = Closed(s)
               /\ given' \subseteq given
               /\ Stands(s, given, now, next_commit)
               /\ SampleInv => /\ Newest(s, store.disk)
                               /\ next_commit # since => Anchored(s, next_commit)
  <2>1. CASE Crash
    BY <1>1, <1>3, <2>1, AsNewSelf
    DEF Crash, LastingInv, Inv, StoreInv, TimeInv, SampleInv, Newest
  <2>2. CASE Close
    <3> DEFINE a == [store EXCEPT !.ok = TRUE]
    <3>1. /\ a.pending = store.pending /\ a.view = store.view /\ a.disk = store.disk
          /\ a.rolled = store.rolled /\ Typed(a)
      BY <1>1 DEF Inv, StoreInv, Typed, Stores
    <3>2. PICK s \in Flush(a) : /\ store' = Closed(s)
                                /\ given' = IF s.ok THEN given ELSE given \cap OnDisk(s)
      BY <2>2 DEF Close
    <3> HIDE DEF a
    <3>3. Stands(a, given, now, next_commit)
      BY <3>1 DEF LastingInv, TimeInv, Stands, Held, Filed, Queued, OnDisk
    <3>4. Sound(a, s, given, now) /\ Lasts(a, s, given, now, next_commit, store.disk)
      BY <1>3, <3>1, <3>2, FlushSound, FlushLasts
    <3>5. SampleInv => /\ Newest(a, store.disk)
                       /\ next_commit # since => Anchored(a, next_commit)
      BY <1>3, <3>1, AsNewSelf DEF SampleInv, Newest, Anchored
    <3>6. Known(a) = Known(store)
      BY <3>1 DEF Known
    <3> QED BY <3>2, <3>3, <3>4, <3>5, <3>6 DEF Sound, Lasts
  <2> QED BY <2>1, <2>2
<1>5. Stands(store', given', now, next_commit)
  <2>1. Held(store', given', now)
    BY <1>1 DEF Inv, StoreInv
  <2> QED BY <1>3, <1>4, <2>1, ClosedLasts
<1>6. TimeInv'
  BY <1>1, <1>2, <1>5 DEF LastingInv, TimeInv, clocks
<1>7. ASSUME SampleInv PROVE SampleInv' /\ AsNew(store.disk, store'.disk)
  <2>1. Newest(store', store.disk) /\ (next_commit # since => Anchored(store', next_commit))
    BY <1>3, <1>4, <1>7, ClosedLasts
  <2>2. Known(store') \subseteq Known(store)
    BY <1>4 DEF Closed, Known, Typed, Stores
  <2> QED BY <1>1, <1>7, <2>1, <2>2 DEF SampleInv, Newest, Young, clocks
<1> QED BY <1>1, <1>6, <1>7 DEF LastingInv

LEMMA NextLasting ==
    ASSUME LastingInv, [Next]_vars
    PROVE  LastingInv' /\ (OrdinaryTimes => AsNew(store.disk, store'.disk))
<1>1. store.disk \in Databases
  BY DEF LastingInv, Inv, StoreInv, Typed, Stores
<1>2. CASE UNCHANGED vars
  <2>1. Inv'
    BY <1>2, NextInv DEF LastingInv
  <2> QED BY <1>1, <1>2, <2>1, AsNewSelf
      DEF vars, clocks, history, LastingInv, TimeInv, InTime, Due, SampleInv, Young, Known
<1>3. CASE Open \/ Downtime \/ Wake \/ NoSample \/ SplitFails
  BY <1>1, <1>3, WaitLasting, AsNewSelf
<1>4. CASE Evaluate
  BY <1>1, <1>4, EvaluateLasting, AsNewSelf
<1> QED BY <1>2, <1>3, <1>4, RecordLasting, SummariseLasting, EndLasting DEF Next

\* No loss of a row older than commit_interval, from where the time marks are.
THEOREM LossIsBounded == Spec => []LossBounded
<1>1. LastingInv => LossBounded
  <2> SUFFICES ASSUME LastingInv, good, ~store.rolled,
                      phase \in {"recorded", "evaluated", "asleep"}, NEW r \in given
               PROVE  r \in OnDisk(store) \/ Expired(r, now) \/ now - r.ts < commit_interval
    BY DEF LossBounded
  <2>1. r.ts \in Nat /\ r.ts <= now
    BY StorageAssumption DEF LastingInv, Inv, TypeOK, Rows, Times, StorageAssumption
  <2>2. r \in OnDisk(store) \/ Expired(r, now) \/ r.ts >= next_commit
    BY DEF LastingInv, TimeInv, Stands, Filed
  <2>3. ~(now - next_commit >= commit_interval)
    BY DEF LastingInv, TimeInv, InTime, Due
  <2> QED BY <2>1, <2>2, <2>3, Numbers DEF LastingInv
<1>2. LastingInv /\ [Next]_vars => LastingInv'
  BY NextLasting
<1> QED BY <1>1, <1>2, InitLasting, PTL DEF Spec

\* No daily row counts a sample that is not on disk with it, before the retention.
THEOREM DailyStaysBacked == Spec => []DailyIsBacked
<1>1. LastingInv => DailyIsBacked
  BY DEF LastingInv, TimeInv, Stands, Backed, DailyIsBacked
<1>2. LastingInv /\ [Next]_vars => LastingInv'
  BY NextLasting
<1> QED BY <1>1, <1>2, InitLasting, PTL DEF Spec

\* No sample stays longer than a day past its retention, where commit_interval is
\* at most a day and retention_days at least one.
THEOREM RetentionIsBounded ==
    ASSUME OrdinaryTimes
    PROVE  Spec => []RetentionBound
<1>1. LastingInv => RetentionBound
  <2> SUFFICES ASSUME LastingInv, good, phase # "awake", phase # "down", now - since >= Day,
                      NEW r \in OnDisk(store), r.table = "samples"
               PROVE  r.ts + (RetentionDays + 1) * Day >= now
    BY DEF RetentionBound
  <2>1. r \in Known(store)
    BY DEF OnDisk, Known
  <2>2. r.ts \in Nat
    BY <2>1, KnownRows, StorageAssumption
    DEF LastingInv, Inv, StoreInv, Rows, Times, StorageAssumption
  <2>3. ~(now - last_rotation >= Day)
    BY DEF LastingInv, TimeInv, InTime, Due, Inv, TypeOK
  <2>4. r.ts + RetentionDays * Day >= last_rotation
    BY <2>1, <2>3 DEF LastingInv, SampleInv, Young
  <2>5. (RetentionDays + 1) * Day = RetentionDays * Day + Day
    <3>1. RetentionDays \in Nat /\ Day \in Nat
      BY Numbers DEF LastingInv
    <3> QED BY <3>1
  <2>6. ASSUME NEW kept \in Nat, NEW day \in Nat, NEW last \in Nat, NEW t \in Nat, NEW ts \in Nat,
               ts + kept >= last, ~(t - last >= day)
        PROVE  ts + (kept + day) >= t
    BY <2>6
  <2> QED BY <2>2, <2>3, <2>4, <2>5, <2>6, Numbers DEF LastingInv
<1>2. LastingInv /\ [Next]_vars => LastingInv'
  BY NextLasting
<1> QED BY <1>1, <1>2, InitLasting, PTL DEF Spec

\* Every set of natural numbers has its least.
LEMMA LeastNumber ==
    ASSUME NEW T \in SUBSET Nat, T # {}
    PROVE  \E n \in T : \A k \in T : n <= k
<1>1. \E n \in T : \A k \in T : << k, n >> \notin OpToRel(<, Nat)
  BY NatLessThanWellFounded, WFMin
<1>2. ASSUME NEW n \in Nat, NEW k \in Nat, << k, n >> \notin OpToRel(<, Nat)
      PROVE  n <= k
  BY <1>2 DEF OpToRel
<1> QED BY <1>1, <1>2

\* A database with a sample has a last one, since time is bounded.
LEMMA LastSampleExists ==
    ASSUME NEW db \in Databases, NEW c \in db.rows, c[1].table = "samples"
    PROVE  \E q \in last_sample(db) : q.ts >= c[1].ts
<1> DEFINE S == SamplesFrom(db, 0)
           T == {Horizon - e[1].ts : e \in S}
<1>1. \A e \in db.rows : e[1].ts \in 0 .. Horizon
  BY DEF Databases, Rows, Times
<1>2. Horizon \in Nat /\ 0 * Day = 0
  BY StorageAssumption DEF StorageAssumption
<1>3. S = {e \in db.rows : e[1].table = "samples"}
  BY <1>1, <1>2 DEF SamplesFrom
<1> HIDE DEF S
<1>4. T \in SUBSET Nat /\ Horizon - c[1].ts \in T
  BY <1>1, <1>2, <1>3
<1>5. PICK n \in T : \A k \in T : n <= k
  BY <1>4, LeastNumber
<1>6. PICK e \in S : n = Horizon - e[1].ts
  OBVIOUS
<1>7. \A d \in S : d[1].ts <= e[1].ts
  <2>1. \A d \in S : Horizon - e[1].ts <= Horizon - d[1].ts
    BY <1>5, <1>6
  <2> QED BY <1>1, <1>2, <1>3, <2>1
<1>8. e[1] \in last_sample(db)
  BY <1>7 DEF last_sample, S
<1> QED BY <1>3, <1>7, <1>8

\* The last sample on disk is never replaced by an older one, nor deleted, where
\* commit_interval is at most a day and retention_days at least one.
THEOREM NewestSampleStays ==
    ASSUME OrdinaryTimes
    PROVE  Spec => LastSampleStays
<1>1. ASSUME LastingInv, [Next]_vars
      PROVE  \A r \in last_sample(store.disk) :
                 \E q \in last_sample(store'.disk) : q.ts >= r.ts
  <2> SUFFICES ASSUME NEW r \in last_sample(store.disk)
               PROVE  \E q \in last_sample(store'.disk) : q.ts >= r.ts
    OBVIOUS
  <2>1. store.disk \in Databases /\ store'.disk \in Databases
    BY <1>1, NextLasting DEF LastingInv, Inv, StoreInv, Typed, Stores
  <2>2. PICK c \in store.disk.rows : c[1] = r /\ r.table = "samples"
    BY DEF last_sample, SamplesFrom
  <2>3. PICK e \in store'.disk.rows : e[1].table = "samples" /\ e[1].ts >= r.ts
    BY <1>1, <2>2, NextLasting DEF AsNew
  <2>4. PICK q \in last_sample(store'.disk) : q.ts >= e[1].ts
    BY <2>1, <2>3, LastSampleExists
  <2>5. q \in Rows /\ e[1] \in Rows /\ r \in Rows
    BY <2>1, <2>2, <2>3 DEF last_sample, SamplesFrom, Databases
  <2>6. q.ts \in Nat /\ e[1].ts \in Nat /\ r.ts \in Nat
    BY <2>5, StorageAssumption DEF Rows, Times, StorageAssumption
  <2> QED BY <2>3, <2>4, <2>6
<1>2. LastingInv /\ [Next]_vars => LastingInv'
  BY NextLasting
<1>3. LastingInv /\ [Next]_vars =>
          [\A r \in last_sample(store.disk) :
               \E q \in last_sample(store'.disk) : q.ts >= r.ts]_store
  BY <1>1
<1> QED BY <1>2, <1>3, InitLasting, PTL DEF Spec, LastSampleStays

=============================================================================
