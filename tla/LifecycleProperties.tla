------------------------ MODULE LifecycleProperties ------------------------
(***************************************************************************)
(* What the PID file, its lock and the commands that use it promise.       *)
(***************************************************************************)
EXTENDS Lifecycle

Commands == [cmd: {"none", "stop", "reload"}, pc: {"idle", "read", "checked", "waiting"},
             pid: Pids \cup {NoPid}, patience: 0 .. Patience, same: BOOLEAN]

\* The longest of a sleep and a piece of work.
Longest == IF interval >= Work THEN interval ELSE Work

\* Types; the number that stop and reload act on is a process's.
TypeOK ==
    /\ pc \in [Pids -> {"free", "other"} \cup Unprotected \cup Protected]
    /\ fd \in [Pids -> Inodes \cup {NoInode}]
    /\ nap \in [Pids -> 0 .. Longest]
    /\ term \in [Pids -> BOOLEAN]
    /\ path \in Inodes \cup {NoInode}
    /\ lock \in [Inodes -> Pids \cup {NoPid}]
    /\ content \in [Inodes -> Pids \cup {NoPid}]
    /\ rules \in BOOLEAN /\ orphaned \in BOOLEAN
    /\ record \in Pids \cup {NoPid} /\ main \in Pids \cup {NoPid}
    /\ cli \in Commands /\ (cli.pc # "idle" => cli.pid \in Pids)
    /\ interval \in Intervals
    /\ killed \in SUBSET Pids

\* Past acquire_lock, before release_lock.
Running(p) == pc[p] \in {"owner", "ready", "head", "asleep", "cleaning", "releasing"}

\* What the docstring of acquire_lock says: the lock is exclusive.
OneDaemon == \A p, q \in Pids : Running(p) /\ Running(q) => p = q

\* However starts, kills, shutdowns and commands interleave, two daemons run at
\* once only after a PID file was removed while a daemon had it open, by the unlink
\* of release_lock or by systemd.  Nothing else gets past the lock.
ExclusiveUnlessOrphaned == ~orphaned => OneDaemon

\* Until then the PID file leads to the daemon that runs: a second instance that is
\* refused, or a process killed half way through acquire_lock, leaves no other number.
PidFileNamesDaemon ==
    ~orphaned => \A p \in Pids : Running(p) => path = fd[p] /\ content[path] = p

\* The number in the PID file is a daemon's, or that of one that was killed: only
\* then do stop and reload signal a program that got the number later.
StaleOnlyIfKilled ==
    path # NoInode /\ content[path] # NoPid =>
        IsDaemon(content[path]) \/ content[path] \in killed

\* A shutdown never takes away the rules of the next instance: the lock is held
\* until they are cleaned up.
RulesStay == ~orphaned => \A p \in Pids : pc[p] \in {"head", "asleep"} => rules

\* tc-limit stop runs out of patience, and so kills a daemon before its cleanup is
\* over, only if what the daemon is at (its sleep or a piece of work) and the
\* shutdown after it may last as long as stop waits.  Nothing else delays the end.
KillOnlyIfSlow == OutOfPatience /\ cli.same => Longest + Work >= Patience

\* The state file of a running daemon goes or changes hands only by an instance that
\* has released the lock and not yet removed its own, or when a PID file is orphaned.
RecordStays ==
    [][\A p \in Pids :
          record = p /\ Running(p) /\ Running(p)' /\ record' # p =>
              orphaned' \/ \E q \in Pids \ {p} : pc[q] = "removing"]_vars

=============================================================================
