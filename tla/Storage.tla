------------------------------ MODULE Storage ------------------------------
(***************************************************************************)
(* The metrics database and the part of the daemon's loop that feeds it:   *)
(* rows queue in memory, go to SQLite in a transaction every               *)
(* commit_interval, and a daily row is made of the samples of the day.     *)
(*                                                                         *)
(* A row is its table and its timestamp.  view is what the connection of   *)
(* the daemon sees, with its open transaction; disk is what a report, or   *)
(* the next daemon, sees.  Every statement may fail (a full disk, a        *)
(* database locked by a report): SQLite then keeps the transaction as it   *)
(* was or rolls it back, and the exception leaves the operation.           *)
(***************************************************************************)
EXTENDS Naturals, FiniteSets

CONSTANTS CommitIntervals,   \* storage.commit_interval, before and after a reload
          Day,               \* 86400 s
          RetentionDays,
          SummaryInterval,
          Steps,             \* how long an iteration takes
          MaxFaults, MaxChanges, Horizon   \* bounds: failing calls, state changes, time

ASSUME StorageAssumption ==
    /\ CommitIntervals \subseteq Nat \ {0} /\ Day \in Nat \ {0}
    /\ RetentionDays \in Nat /\ SummaryInterval \in Nat
    /\ Steps \subseteq Nat \ {0} /\ {MaxFaults, MaxChanges, Horizon} \subseteq Nat

Times == 0 .. Horizon
Rows == [table: {"samples", "state_changes"}, ts: Times]

VARIABLES now, phase,
          store,             \* the Storage object and its database
          next_commit, last_rotation, last_summary, commit_interval

\* What happened, for the properties.
VARIABLES given,             \* rows handed to insert_*, less those lost with a process
          since,             \* when the database was opened
          good,              \* the last iteration stored all it had to
          faults

clocks == << next_commit, last_rotation, last_summary, commit_interval >>
history == << given, since, good, faults >>
vars == << now, phase, store, clocks, history >>

\* rows holds pairs of a row and the number of its copy, daily the daily_summary.
Empty == [rows |-> {}, daily |-> {}]

Init ==
    /\ now = 0 /\ phase = "down"
    /\ store = [ok |-> TRUE, pending |-> {}, view |-> Empty, disk |-> Empty,
                torn |-> FALSE, rolled |-> FALSE]
    /\ next_commit = 0 /\ last_rotation = 0 /\ last_summary = 0
    /\ commit_interval \in CommitIntervals
    /\ given = {} /\ since = 0 /\ good = TRUE /\ faults = 0

-----------------------------------------------------------------------------
(* The outcomes of a statement: a set of stores, of which ok is FALSE when *)
(* it raised.                                                              *)

Copies(db, r) == {c \in db.rows : c[1] = r}
Put(db, R) == [db EXCEPT !.rows = @ \cup {<< r, Cardinality(Copies(db, r)) + 1 >> : r \in R}]

\* torn: part of a batch is in the transaction, and the whole of it is still pending.
Kept(s, R) == [s EXCEPT !.ok = FALSE, !.view = Put(@, R), !.torn = @ \/ R # {}]
\* rolled: rows that were no longer pending are gone.
RolledBack(s) == [s EXCEPT !.ok = FALSE, !.view = s.disk, !.rolled = @ \/ s.view # s.disk]
Fails(s, R) == {Kept(s, R), RolledBack(s)}

Then(outcomes, Statement(_)) ==
    {s \in outcomes : ~s.ok} \cup UNION {Statement(s) : s \in {x \in outcomes : x.ok}}

Commit(s) == {[s EXCEPT !.disk = s.view]} \cup Fails(s, {})

\* Slip: the queue is emptied first.
ClearFirst(s, R) ==
    IF R = {} THEN {s} ELSE
    LET q == [s EXCEPT !.pending = @ \ R]
    IN  {[q EXCEPT !.view = Put(@, R)]} \cup Fails(q, {})

\* executemany, then clear: the batch is inserted row by row, in the order it was queued.
Executemany(s, R) ==
    IF R = {} THEN {s} ELSE
    {[s EXCEPT !.view = Put(@, R), !.pending = @ \ R]}
        \cup UNION {Fails(s, {q \in R : q.ts < r.ts}) : r \in R}

Batch(s, table) == {r \in s.pending : r.table = table}
InsertSamples(s) == Executemany(s, Batch(s, "samples"))
InsertChanges(s) == Executemany(s, Batch(s, "state_changes"))

\* Slip: the samples are not taken off the queue.
FlushTwice(s) ==
    LET Requeue(x) == {[x EXCEPT !.pending = @ \cup Batch(s, "samples")]}
    IN  Then(Then(Then(InsertSamples(s), InsertChanges), Commit), Requeue)

\* _flush
Flush(s) == Then(Then(InsertSamples(s), InsertChanges), Commit)

Expired(r, t) == r.table = "samples" /\ r.ts + RetentionDays * Day < t

DeleteExpired(s, t) ==
    {[s EXCEPT !.view.rows = {c \in @ : ~Expired(c[1], t)}]} \cup Fails(s, {})

\* _rotate_retention
Rotate(s, t) == Then(DeleteExpired(s, t), Commit)

\* The samples of a day and later.
SamplesFrom(db, d) == {c \in db.rows : c[1].table = "samples" /\ c[1].ts >= d * Day}

\* Slip: the samples of all days are added up.
SamplesEver(db, d) == SamplesFrom(db, 0)

\* What the row of a day is made of.
OfToday(db, d) == SamplesFrom(db, d)

\* Their number stands for their volume.
DailyRow(db, d) == [date |-> d, total |-> Cardinality(OfToday(db, d))]
WriteDaily(s, d) ==
    {[s EXCEPT !.view.daily = @ \cup {DailyRow(s.view, d)}]} \cup Fails(s, {})

\* maybe_aggregate_daily
Aggregate(s, t) ==
    LET d == t \div Day
    IN  IF (\E row \in s.view.daily : row.date = d) \/ OfToday(s.view, d) = {} THEN {s}
        ELSE Then(WriteDaily(s, d), Commit)

-----------------------------------------------------------------------------
(* The daemon's calls.                                                     *)

Fault(s) == faults' = faults + (IF s.ok THEN 0 ELSE 1) /\ faults' <= MaxFaults

\* What stays when the process ends: the file.
Closed(s) == [s EXCEPT !.ok = TRUE, !.pending = {}, !.view = s.disk]
OnDisk(s) == {c[1] : c \in s.disk.rows}

\* Slip: the mark keeps the value of __init__.
NotYetRotated == 0

RotatedAtOpen == now

\* Storage.open; when it fails, the daemon goes on without, as if this one were down.
Open ==
    /\ phase = "down" /\ phase' = "asleep"
    /\ next_commit' = now /\ last_rotation' = RotatedAtOpen /\ last_summary' = now
    /\ since' = now /\ good' = TRUE
    /\ UNCHANGED << now, store, commit_interval, given, faults >>

Passes(n) == now + n <= Horizon /\ now' = now + n

Downtime ==
    /\ phase = "down" /\ Passes(1)
    /\ UNCHANGED << phase, store, clocks, history >>

\* time.sleep, and a reload if one was asked for.
Wake ==
    /\ phase = "asleep" /\ phase' = "awake"
    /\ \E n \in Steps : Passes(n)
    /\ commit_interval' \in CommitIntervals
    /\ UNCHANGED << store, next_commit, last_rotation, last_summary, history >>

\* A failed read or a counter that went back: continue.
NoSample ==
    /\ phase = "awake" /\ phase' = "asleep" /\ good' = FALSE
    /\ UNCHANGED << now, store, clocks, given, since, faults >>

Insert(s, table) == [s EXCEPT !.ok = TRUE, !.pending = @ \cup {[table |-> table, ts |-> now]}]

\* read_counters_split fails: nothing is stored, and nothing flushed.
SplitFails ==
    /\ phase = "awake" /\ phase' = "recorded" /\ good' = FALSE
    /\ UNCHANGED << now, store, clocks, given, since, faults >>

Due(last, period) == now - last >= period

\* Slip: the time of the next commit is set before the flush.
MarkFirst(s) == IF Due(next_commit, commit_interval) THEN now ELSE next_commit
\* Slip: the mark is the time of the next commit, as its name says.
Deadline(s) ==
    IF Due(next_commit, commit_interval) /\ s.ok THEN now + commit_interval ELSE next_commit

\* _next_commit holds the time of the last one.
NextCommit(s) == IF Due(next_commit, commit_interval) /\ s.ok THEN now ELSE next_commit

\* Slip: the daily rotation is forgotten.
NeverRotate(s) == {s}

RotateDaily(s) == IF Due(last_rotation, Day) THEN Rotate(s, now) ELSE {s}

\* insert_sample, then maybe_flush; an exception from either is logged.
Record ==
    /\ phase = "awake" /\ phase' = "recorded"
    /\ LET queued == Insert(store, "samples")
       IN  \E flushed \in IF Due(next_commit, commit_interval) THEN Flush(queued) ELSE {queued} :
             /\ next_commit' = NextCommit(flushed)
             /\ \E s \in IF flushed.ok THEN RotateDaily(flushed) ELSE {flushed} :
                   /\ store' = s /\ good' = s.ok /\ Fault(s)
                   /\ last_rotation' = IF s.ok /\ Due(last_rotation, Day) THEN now
                                                                         ELSE last_rotation
    /\ given' = given \cup {[table |-> "samples", ts |-> now]}
    /\ UNCHANGED << now, last_summary, commit_interval, since >>

\* The state machine, and insert_state_change if it changed the state.
Evaluate ==
    /\ phase = "recorded" /\ phase' = "evaluated"
    /\ \/ UNCHANGED << store, given >>
       \/ /\ Cardinality({r \in given : r.table = "state_changes"}) < MaxChanges
          /\ store' = Insert(store, "state_changes")
          /\ given' = given \cup {[table |-> "state_changes", ts |-> now]}
    /\ UNCHANGED << now, clocks, since, good, faults >>

Summarise ==
    /\ phase = "evaluated" /\ phase' = "asleep"
    /\ IF Due(last_summary, SummaryInterval)
         THEN last_summary' = now /\ store' \in Aggregate([store EXCEPT !.ok = TRUE], now)
                                  /\ Fault(store')
         ELSE UNCHANGED << last_summary, store, faults >>
    /\ UNCHANGED << now, next_commit, last_rotation, commit_interval, given, since, good >>

\* close() in the shutdown handler.  An exception leaves run(), and the process ends.
Close ==
    /\ phase \in {"asleep", "awake"} /\ phase' = "down"
    /\ \E s \in Flush([store EXCEPT !.ok = TRUE]) :
          /\ store' = Closed(s) /\ Fault(s)
          /\ given' = IF s.ok THEN given ELSE given \cap OnDisk(s)
    /\ UNCHANGED << now, clocks, since, good >>

Crash ==
    /\ phase # "down" /\ phase' = "down"
    /\ store' = Closed(store)
    /\ given' = given \cap OnDisk(store)
    /\ UNCHANGED << now, clocks, since, good, faults >>

Next ==
    \/ Open \/ Downtime \/ Wake \/ NoSample \/ SplitFails \/ Record
    \/ Evaluate \/ Summarise \/ Close \/ Crash

Spec == Init /\ [][Next]_vars

=============================================================================
