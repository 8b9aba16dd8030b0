----------------------------- MODULE Lifecycle -----------------------------
(***************************************************************************)
(* Processes around the PID file: daemons that start, run and stop, the    *)
(* commands tc-limit stop and tc-limit reload, the systemd unit, and other *)
(* programs that get the number of a process that ended.                   *)
(*                                                                         *)
(* A PID file is an inode that the path may or may not lead to: a process  *)
(* keeps the inode it opened, and flock locks the inode, not the path.     *)
(* What a daemon does to tc is rules, to the state file record; Daemon     *)
(* has both in detail.                                                     *)
(*                                                                         *)
(* Time passes while a daemon sleeps, while it works (it sets up tc,       *)
(* finishes an iteration, or closes the storage and cleans up tc) and      *)
(* while tc-limit stop waits.  No subprocess has a timeout: Work is what   *)
(* such a piece of work takes at most on the machine, whatever that is.    *)
(***************************************************************************)
EXTENDS Naturals, FiniteSets

CONSTANTS Pids, NoPid,       \* the numbers of processes
          Inodes, NoInode,   \* files the path may lead to
          Intervals,         \* window.interval, in units of time
          Work,              \* how long a piece of work may take
          Patience,          \* how long tc-limit stop waits: 50 times 0.1 s
          RuntimeDirectoryPreserve   \* as in the unit, where it is missing: FALSE

ASSUME LifecycleAssumption ==
    /\ NoPid \notin Pids /\ NoInode \notin Inodes
    /\ Intervals \subseteq Nat \ {0} /\ Work \in Nat /\ Patience \in Nat \ {0}
    /\ RuntimeDirectoryPreserve \in BOOLEAN

VARIABLES pc,        \* where each process is
          fd,        \* the inode a daemon has open
          nap,       \* the time to its next step: the rest of its sleep or work
          term,      \* its _shutdown flag
          path,      \* the inode pid_file leads to
          lock,      \* the holder of the flock of an inode
          content,   \* the number written in it
          rules,     \* tc limits the interface
          record,    \* who wrote the state file, NoPid if there is none
          main,      \* the unit's main process, until systemd has seen it end
          cli,       \* tc-limit stop or reload
          interval

\* What happened, for the properties.
VARIABLES orphaned,  \* a PID file was removed while a daemon had it open
          killed     \* processes that ended without their shutdown

files == << path, lock, content >>
history == << orphaned, killed >>
vars == << pc, fd, nap, term, files, rules, record, main, cli, interval, history >>

\* Before signal.signal a signal has its default effect, the end.
Unprotected == {"started", "opened", "locked", "truncated", "owner"}
Protected == {"ready", "head", "asleep", "cleaning", "releasing", "unlinking", "removing"}

IsDaemon(p) == pc[p] \in Unprotected \cup Protected
Alive(p) == pc[p] # "free"

NoCommand == [cmd |-> "none", pc |-> "idle", pid |-> NoPid, patience |-> 0, same |-> FALSE]

Init ==
    /\ pc = [p \in Pids |-> "free"]
    /\ fd = [p \in Pids |-> NoInode]
    /\ nap = [p \in Pids |-> 0] /\ term = [p \in Pids |-> FALSE]
    /\ path = NoInode
    /\ lock = [i \in Inodes |-> NoPid] /\ content = [i \in Inodes |-> NoPid]
    /\ rules = FALSE /\ record = NoPid /\ main = NoPid
    /\ cli = NoCommand
    /\ interval \in Intervals
    /\ orphaned = FALSE /\ killed = {}

\* The step just taken begins a piece of work.
Works(p) == \E time \in 0 .. Work : nap' = [nap EXCEPT ![p] = time]

Goto(p, phase) == pc' = [pc EXCEPT ![p] = phase]

-----------------------------------------------------------------------------
(* The end of a process, whatever the cause, gives back what the kernel    *)
(* keeps for it: its descriptor and with it the lock.                      *)

Unlocked(p) == [i \in Inodes |-> IF lock[i] = p THEN NoPid ELSE lock[i]]

End(p) ==
    /\ Goto(p, "free")
    /\ fd' = [fd EXCEPT ![p] = NoInode]
    /\ nap' = [nap EXCEPT ![p] = 0] /\ term' = [term EXCEPT ![p] = FALSE]
    /\ lock' = Unlocked(p)

\* The process a command is after may be another one by now.
Forget(c, p) == [c EXCEPT !.same = @ /\ c.pid # p]

\* SIGKILL by anyone, an exception that leaves run(), SIGTERM too early.
Dies(p) == End(p) /\ killed' = killed \cup {p}

Crash(p) ==
    /\ IsDaemon(p) /\ Dies(p) /\ cli' = Forget(cli, p)
    /\ UNCHANGED << path, content, rules, record, main, interval, orphaned >>

-----------------------------------------------------------------------------
(* Start: acquire_lock and the beginning of run.                           *)

\* By hand, or by the unit, whose process keeps its number until it is seen to end.
Start(p) ==
    /\ pc[p] = "free" /\ p # main
    /\ Goto(p, "started")
    /\ main' \in {main} \cup (IF main = NoPid THEN {p} ELSE {})
    /\ UNCHANGED << fd, nap, term, files, rules, record, cli, interval, history >>

Unused(i) == i # path /\ \A q \in Pids : fd[q] # i

\* Slip: open for writing, which truncates the file of the instance that runs.
OpenTruncates(p) ==
    /\ pc[p] = "started" /\ Goto(p, "opened")
    /\ \/ path # NoInode /\ UNCHANGED << path, lock >>
       \/ path = NoInode /\ \E i \in Inodes :
             Unused(i) /\ path' = i /\ lock' = [lock EXCEPT ![i] = NoPid]
    /\ content' = [content EXCEPT ![path'] = NoPid]
    /\ fd' = [fd EXCEPT ![p] = path']
    /\ UNCHANGED << nap, term, rules, record, main, cli, interval, history >>

\* os.open(pid_file, O_CREAT | O_RDWR): the file that is there, or a new one.
Open(p) ==
    /\ pc[p] = "started" /\ Goto(p, "opened")
    /\ \/ path # NoInode /\ UNCHANGED files
       \/ /\ path = NoInode
          /\ \E i \in Inodes :
                /\ Unused(i) /\ path' = i
                /\ content' = [content EXCEPT ![i] = NoPid]
                /\ lock' = [lock EXCEPT ![i] = NoPid]
    /\ fd' = [fd EXCEPT ![p] = path']
    /\ UNCHANGED << nap, term, rules, record, main, cli, interval, history >>

\* Slip: a lock held by another instance is only logged.
LockIgnored(p) ==
    /\ pc[p] = "opened" /\ Goto(p, "locked")
    /\ lock' = [lock EXCEPT ![fd[p]] = p]
    /\ UNCHANGED << fd, nap, term, path, content, rules, record, main, cli, interval, history >>

Lock(p) ==
    /\ pc[p] = "opened" /\ lock[fd[p]] = NoPid /\ Goto(p, "locked")
    /\ lock' = [lock EXCEPT ![fd[p]] = p]
    /\ UNCHANGED << fd, nap, term, path, content, rules, record, main, cli, interval, history >>

\* Slip: the refused instance tidies up on its way out.
RefusedRemoves(p) ==
    /\ pc[p] = "opened" /\ lock[fd[p]] # NoPid
    /\ End(p) /\ cli' = Forget(cli, p) /\ record' = NoPid
    /\ UNCHANGED << path, content, rules, main, interval, history >>

\* BlockingIOError: sys.exit(1).
Refused(p) ==
    /\ pc[p] = "opened" /\ lock[fd[p]] # NoPid
    /\ End(p) /\ cli' = Forget(cli, p)
    /\ UNCHANGED << path, content, rules, record, main, interval, history >>

Truncate(p) ==
    /\ pc[p] = "locked" /\ Goto(p, "truncated")
    /\ content' = [content EXCEPT ![fd[p]] = NoPid]
    /\ UNCHANGED << fd, nap, term, path, lock, rules, record, main, cli, interval, history >>

WritePid(p) ==
    /\ pc[p] = "truncated" /\ Goto(p, "owner")
    /\ content' = [content EXCEPT ![fd[p]] = p]
    /\ UNCHANGED << fd, nap, term, path, lock, rules, record, main, cli, interval, history >>

\* load_state, then signal.signal; then the work of SetUp begins.
InstallHandlers(p) ==
    /\ pc[p] = "owner" /\ Goto(p, "ready") /\ Works(p)
    /\ UNCHANGED << fd, term, files, rules, record, main, cli, interval, history >>

\* tc_init, the seeding read, READY=1 and the first save_state.
SetUp(p) ==
    /\ pc[p] = "ready" /\ nap[p] = 0 /\ Goto(p, "head")
    /\ rules' = TRUE /\ record' = p
    /\ UNCHANGED << fd, nap, term, files, main, cli, interval, history >>

-----------------------------------------------------------------------------
(* The loop and the shutdown.                                              *)

\* while not self._shutdown: time.sleep(interval), which a signal does not cut short.
Head(p) ==
    /\ pc[p] = "head" /\ nap[p] = 0
    /\ IF term[p] THEN Goto(p, "cleaning") /\ Works(p)
                  ELSE Goto(p, "asleep") /\ nap' = [nap EXCEPT ![p] = interval]
    /\ UNCHANGED << fd, term, files, rules, record, main, cli, interval, history >>

\* A reload that was asked for, whose time is part of the work, and the check of
\* _shutdown; then the rest of the iteration, which may save the state, or the
\* shutdown.  Three failed reads end the loop as a SIGTERM does.
Wake(p) ==
    /\ pc[p] = "asleep" /\ nap[p] = 0 /\ Works(p)
    /\ \/ Goto(p, "cleaning") /\ UNCHANGED record
       \/ ~term[p] /\ Goto(p, "head") /\ record' \in {record, p}
    /\ UNCHANGED << fd, term, files, rules, main, cli, interval, history >>

\* storage.close and tc_cleanup are over.
CleanUp(p) ==
    /\ pc[p] = "cleaning" /\ nap[p] = 0 /\ Goto(p, "releasing")
    /\ rules' = FALSE
    /\ UNCHANGED << fd, nap, term, files, record, main, cli, interval, history >>

\* release_lock: LOCK_UN, then close.
Release(p) ==
    /\ pc[p] = "releasing" /\ Goto(p, "unlinking")
    /\ lock' = Unlocked(p) /\ fd' = [fd EXCEPT ![p] = NoInode]
    /\ UNCHANGED << nap, term, path, content, rules, record, main, cli, interval, history >>

\* Removing the file that the path leads to, whoever has it open.
RemovePidFile ==
    /\ path' = NoInode
    /\ orphaned' = (orphaned \/ \E q \in Pids : fd[q] # NoInode /\ fd[q] = path)

\* Slip: the PID file is left for the next instance to reuse.
KeepPidFile(p) ==
    /\ pc[p] = "unlinking" /\ Goto(p, "removing")
    /\ UNCHANGED << fd, nap, term, files, rules, record, main, cli, interval, history >>

UnlinkPidFile(p) ==
    /\ pc[p] = "unlinking" /\ Goto(p, "removing")
    /\ RemovePidFile
    /\ UNCHANGED << fd, nap, term, lock, content, rules, record, main, cli, interval, killed >>

\* Slip: the tc rules are cleaned up last, when another instance may have its own.
CleanUpLast(p) ==
    /\ pc[p] = "removing" /\ record' = NoPid /\ rules' = FALSE
    /\ End(p) /\ cli' = Forget(cli, p)
    /\ UNCHANGED << path, content, main, interval, history >>

\* os.unlink(state_file), and the process ends.
RemoveRecord(p) ==
    /\ pc[p] = "removing" /\ record' = NoPid
    /\ End(p) /\ cli' = Forget(cli, p)
    /\ UNCHANGED << path, content, rules, main, interval, history >>

-----------------------------------------------------------------------------
(* tc-limit stop and tc-limit reload, on the number in the PID file.       *)

\* Slip: an empty file is read as a number.
PidReadEmpty == path # NoInode

\* _read_pid: a file that holds a number.  Otherwise "not running": the command ends.
PidRead == path # NoInode /\ content[path] # NoPid

ReadPid ==
    /\ cli.pc = "idle" /\ PidRead
    /\ \E cmd \in {"stop", "reload"} :
          cli' = [cmd |-> cmd, pc |-> "read", pid |-> content[path], patience |-> 0,
                  same |-> \E p \in Pids : p = content[path] /\ IsDaemon(p)]
    /\ UNCHANGED << pc, fd, nap, term, files, rules, record, main, interval, history >>

\* _process_running: signal 0.
CheckRunning ==
    /\ cli.pc = "read"
    /\ cli' = IF Alive(cli.pid) THEN [cli EXCEPT !.pc = "checked"] ELSE NoCommand
    /\ UNCHANGED << pc, fd, nap, term, files, rules, record, main, interval, history >>

\* Slip: one poll less.
WaitLess(c) == [c EXCEPT !.pc = "waiting", !.patience = Patience - 1]

\* What the command does once it has sent its signal.
AfterSignal(c) == [c EXCEPT !.pc = "waiting", !.patience = Patience]
Signalled == IF cli.cmd = "stop" THEN AfterSignal(cli) ELSE NoCommand

\* SIGTERM or SIGHUP to a process without handlers, which ends,
SignalEnds ==
    /\ cli.pc = "checked" /\ pc[cli.pid] \in Unprotected
    /\ Dies(cli.pid)
    /\ cli' = Forget(Signalled, cli.pid)
    /\ UNCHANGED << path, content, rules, record, main, interval, orphaned >>

\* to a daemon, which takes note of a SIGTERM,
SignalNoted ==
    /\ cli.pc = "checked" /\ pc[cli.pid] \in Protected
    /\ term' = [term EXCEPT ![cli.pid] = @ \/ cli.cmd = "stop"]
    /\ cli' = Signalled
    /\ UNCHANGED << pc, fd, nap, files, rules, record, main, interval, history >>

\* to another program, which may end or not,
SignalStray ==
    /\ cli.pc = "checked" /\ pc[cli.pid] = "other"
    /\ pc' \in {pc, [pc EXCEPT ![cli.pid] = "free"]}
    /\ cli' = Signalled
    /\ UNCHANGED << fd, nap, term, files, rules, record, main, interval, history >>

\* or to nobody: ProcessLookupError.
SignalFails ==
    /\ cli.pc = "checked" /\ ~Alive(cli.pid)
    /\ cli' = NoCommand
    /\ UNCHANGED << pc, fd, nap, term, files, rules, record, main, interval, history >>

SendSignal == SignalEnds \/ SignalNoted \/ SignalStray \/ SignalFails

\* "Daemon stopped."
SeesEnd ==
    /\ cli.pc = "waiting" /\ cli.patience > 0 /\ ~Alive(cli.pid)
    /\ cli' = NoCommand
    /\ UNCHANGED << pc, fd, nap, term, files, rules, record, main, interval, history >>

OutOfPatience == cli.pc = "waiting" /\ cli.patience = 0

\* "Daemon force-stopped."
ForceStop ==
    /\ OutOfPatience /\ cli' = NoCommand
    /\ IF IsDaemon(cli.pid)
         THEN Dies(cli.pid)
         ELSE /\ Goto(cli.pid, "free")
              /\ UNCHANGED << fd, nap, term, lock, killed >>
    /\ UNCHANGED << path, content, rules, record, main, interval, orphaned >>

-----------------------------------------------------------------------------
(* The surroundings: numbers are used again, systemd, and time.            *)

Recycle(p) ==
    /\ pc[p] = "free" /\ p # main /\ Goto(p, "other")
    /\ UNCHANGED << fd, nap, term, files, rules, record, main, cli, interval, history >>

OtherEnds(p) ==
    /\ pc[p] = "other" /\ Goto(p, "free")
    /\ UNCHANGED << fd, nap, term, files, rules, record, main, cli, interval, history >>

\* When the unit's main process has ended, systemd removes its RuntimeDirectory=,
\* in which both files are.
UnitStops ==
    /\ main # NoPid /\ pc[main] = "free" /\ main' = NoPid
    /\ IF RuntimeDirectoryPreserve THEN UNCHANGED << path, record, orphaned >>
                                   ELSE RemovePidFile /\ record' = NoPid
    /\ UNCHANGED << pc, fd, nap, term, lock, content, rules, cli, interval, killed >>

Fewer(n) == IF n = 0 THEN 0 ELSE n - 1

\* What takes no time, or is over, comes first.
AtRest ==
    /\ \A p \in Pids : pc[p] \in Protected => nap[p] > 0
    /\ cli.pc = "waiting" => Alive(cli.pid) /\ cli.patience > 0

Tick ==
    /\ AtRest
    /\ cli.pc = "waiting" \/ \E p \in Pids : nap[p] > 0
    /\ nap' = [p \in Pids |-> Fewer(nap[p])]
    /\ cli' = [cli EXCEPT !.patience = Fewer(@)]
    /\ UNCHANGED << pc, fd, term, files, rules, record, main, interval, history >>

-----------------------------------------------------------------------------

Acquire(p) == Open(p) \/ Lock(p) \/ Refused(p) \/ Truncate(p) \/ WritePid(p)
Shutdown(p) == CleanUp(p) \/ Release(p) \/ UnlinkPidFile(p) \/ RemoveRecord(p)
Run(p) == Acquire(p) \/ InstallHandlers(p) \/ SetUp(p) \/ Head(p) \/ Wake(p) \/ Shutdown(p)
Command == CheckRunning \/ SendSignal \/ SeesEnd \/ ForceStop

Next ==
    \/ \E p \in Pids : Run(p) \/ Start(p) \/ Crash(p) \/ Recycle(p) \/ OtherEnds(p)
    \/ ReadPid \/ Command \/ UnitStops \/ Tick

Spec == Init /\ [][Next]_vars

=============================================================================
