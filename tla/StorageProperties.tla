------------------------- MODULE StorageProperties -------------------------
(***************************************************************************)
(* What the database promises about the rows it is given, and the queries  *)
(* of tc-limit report.                                                     *)
(***************************************************************************)
EXTENDS Storage

Databases == [rows: SUBSET (Rows \X Nat), daily: SUBSET [date: Nat, total: Nat]]
Stores == [ok: BOOLEAN, pending: SUBSET Rows, view: Databases, disk: Databases,
           torn: BOOLEAN, rolled: BOOLEAN]

\* Types; without a process nothing is pending and no transaction is open, and no
\* time mark is ahead of the clock.
TypeOK ==
    /\ now \in Times
    /\ phase \in {"down", "asleep", "awake", "recorded", "evaluated"}
    /\ store \in Stores
    /\ phase = "down" => store.pending = {} /\ store.view = store.disk
    /\ {next_commit, last_rotation, last_summary, since} \subseteq 0 .. now
    /\ commit_interval \in CommitIntervals
    /\ given \subseteq Rows /\ (\A r \in given : r.ts <= now)
    /\ good \in BOOLEAN /\ faults \in 0 .. MaxFaults

\* A retry stores nothing twice, unless a batch failed half way and its first half
\* stayed in the transaction.
AtMostOnce ==
    ~store.torn =>
        \A c \in store.view.rows \cup store.disk.rows : c[2] = 1 /\ c[1] \notin store.pending

\* A row that was handed over is pending, in the open transaction or on disk until
\* its retention ends, whatever fails and is retried; only a rollback after the
\* queue was emptied takes it away.  After a shutdown that means on disk.
NothingLost ==
    ~store.rolled =>
        \A r \in given : r \in store.pending \/ Copies(store.view, r) # {} \/ Expired(r, now)

\* A kill loses no row older than commit_interval, and one iteration without a
\* failure is enough to make up for those before it.
LossBounded ==
    good /\ ~store.rolled /\ phase \in {"recorded", "evaluated", "asleep"} =>
        \A r \in given :
            r \in OnDisk(store) \/ Expired(r, now) \/ now - r.ts < commit_interval

\* A daemon that has been up for a day keeps no sample more than a day longer than
\* retention_days.
RetentionBound ==
    good /\ phase # "awake" /\ phase # "down" /\ now - since >= Day =>
        \A r \in OnDisk(store) :
            r.table = "samples" => r.ts + (RetentionDays + 1) * Day >= now

\* A daily row never counts a sample that is not on disk itself: the two are
\* committed together, also when the samples were left over in the transaction of
\* a failed flush.
DailyIsBacked ==
    \A row \in store.disk.daily :
        row.total > Cardinality(SamplesFrom(store.disk, row.date)) =>
            (row.date + RetentionDays) * Day < now

-----------------------------------------------------------------------------
(* The queries, each in a connection of its own.                           *)

query_daily_volume(days) ==
    LET later(row) == {other \in store.disk.daily : other.date > row.date}
    IN  {row \in store.disk.daily : Cardinality(later(row)) < days}

\* The last sample of query_summary: none, or one.
last_sample(db) ==
    {r \in {c[1] : c \in SamplesFrom(db, 0)} : \A c \in SamplesFrom(db, 0) : c[1].ts <= r.ts}

\* The last sample that a report shows is never older than the one before showed:
\* the retention never deletes the newest sample, not even after a long downtime.
LastSampleStays ==
    [][\A r \in last_sample(store.disk) :
          \E q \in last_sample(store'.disk) : q.ts >= r.ts]_store

\* What the design says of the report: the daily totals, so those of a whole day
\* once it is over.
DailyTotals ==
    \A row \in query_daily_volume(7) :
        (row.date + 1) * Day <= now =>
            row.total = Cardinality(SamplesFrom(store.disk, row.date)
                                        \ SamplesFrom(store.disk, row.date + 1))

=============================================================================
