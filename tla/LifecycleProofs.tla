-------------------------- MODULE LifecycleProofs --------------------------
(***************************************************************************)
(* Proofs about the PID file, for any number of processes and inodes: the  *)
(* types, and that the lock excludes, the file names its daemon and the    *)
(* rules stay for as long as no PID file is removed under a daemon.        *)
(***************************************************************************)
EXTENDS LifecycleProperties, TLAPS

(***************************************************************************)
(* Types.                                                                  *)
(***************************************************************************)

Phases == {"free", "other"} \cup Unprotected \cup Protected

\* What a sleep and a piece of work are at most.
LEMMA LongestBounds ==
  ASSUME interval \in Intervals
  PROVE  /\ interval \in Nat /\ Work \in Nat /\ Longest \in Nat
         /\ 0 \in 0 .. Longest /\ interval \in 0 .. Longest /\ Work <= Longest
         /\ 0 .. Work \subseteq 0 .. Longest
<1>1. interval \in Nat /\ Work \in Nat
  BY LifecycleAssumption DEF LifecycleAssumption
<1> QED BY <1>1 DEF Longest

\* The initial state has the types.
LEMMA InitTyped == Init => TypeOK
<1> SUFFICES ASSUME Init PROVE TypeOK
  OBVIOUS
<1>1. 0 \in 0 .. Longest /\ 0 \in 0 .. Patience
  BY LongestBounds, LifecycleAssumption DEF LifecycleAssumption, Init
<1>2. cli \in Commands /\ cli.pc = "idle"
  BY <1>1 DEF Init, Commands, NoCommand
<1>3. nap \in [Pids -> 0 .. Longest]
  BY <1>1 DEF Init
<1> QED BY <1>2, <1>3 DEF Init, TypeOK

\* Unlocking keeps the type of the locks.
LEMMA UnlockedType ==
  ASSUME TypeOK, NEW p \in Pids
  PROVE  Unlocked(p) \in [Inodes -> Pids \cup {NoPid}]
  BY DEF TypeOK, Unlocked

\* The end of a process keeps the types of what it gives back.
LEMMA EndTyped ==
  ASSUME TypeOK, NEW p \in Pids, End(p)
  PROVE  /\ pc' \in [Pids -> Phases]
         /\ fd' \in [Pids -> Inodes \cup {NoInode}]
         /\ nap' \in [Pids -> 0 .. Longest]
         /\ term' \in [Pids -> BOOLEAN]
         /\ lock' \in [Inodes -> Pids \cup {NoPid}]
<1>1. 0 \in 0 .. Longest
  BY LongestBounds DEF TypeOK
<1>2. pc' \in [Pids -> Phases] /\ fd' \in [Pids -> Inodes \cup {NoInode}]
  BY DEF TypeOK, End, Goto, Phases
<1>3. nap' \in [Pids -> 0 .. Longest] /\ term' \in [Pids -> BOOLEAN]
  BY <1>1 DEF TypeOK, End
<1>4. lock' \in [Inodes -> Pids \cup {NoPid}]
  BY UnlockedType DEF End
<1> QED BY <1>2, <1>3, <1>4

\* No command is a command.
LEMMA IdleTyped == NoCommand \in Commands /\ NoCommand.pc = "idle"
<1>1. 0 \in 0 .. Patience
  BY LifecycleAssumption DEF LifecycleAssumption
<1> QED BY <1>1 DEF NoCommand, Commands

\* What a command remembers keeps its type.
LEMMA CommandTyped ==
  ASSUME TypeOK, NEW p \in Pids, NEW c \in Commands
  PROVE  Forget(c, p) \in Commands /\ AfterSignal(c) \in Commands
<1>1. 0 \in 0 .. Patience /\ Patience \in 0 .. Patience
  BY LifecycleAssumption DEF LifecycleAssumption
<1>3. AfterSignal(c) \in Commands
  BY <1>1 DEF AfterSignal, Commands
<1>4. c.same \in BOOLEAN
  BY DEF Commands
<1>5. (c.same /\ c.pid # p) \in BOOLEAN
  BY <1>4
<1>6. [c EXCEPT !.same = c.same /\ c.pid # p] \in Commands
  BY <1>5 DEF Commands
<1> QED BY <1>3, <1>6 DEF Forget

\* Acquiring the lock keeps the types.
LEMMA AcquireTyped ==
  ASSUME TypeOK, NEW p \in Pids, Acquire(p)
  PROVE  TypeOK'
<1>1. CASE Open(p)
  BY <1>1 DEF Open, Unused, Goto, TypeOK, Longest, Unprotected, Protected, files, history
<1>2. CASE Lock(p)
  BY <1>2 DEF Lock, Goto, TypeOK, Longest, Unprotected, Protected, files, history
<1>3. CASE Refused(p)
  <2>1. Forget(cli, p) \in Commands /\ Forget(cli, p).pc = cli.pc /\ Forget(cli, p).pid = cli.pid
    BY CommandTyped DEF TypeOK, Commands, Forget
  <2> QED BY <1>3, <2>1, EndTyped DEF Refused, TypeOK, Longest, Phases, history
<1>4. CASE Truncate(p)
  BY <1>4 DEF Truncate, Goto, TypeOK, Longest, Unprotected, Protected, files, history
<1>5. CASE WritePid(p)
  BY <1>5 DEF WritePid, Goto, TypeOK, Longest, Unprotected, Protected, files, history
<1> QED BY <1>1, <1>2, <1>3, <1>4, <1>5 DEF Acquire

\* A piece of work takes no longer than Longest.
LEMMA WorkTyped ==
  ASSUME TypeOK, NEW p \in Pids, Works(p)
  PROVE  nap' \in [Pids -> 0 .. Longest]
<1>1. PICK time \in 0 .. Work : nap' = [nap EXCEPT ![p] = time]
  BY DEF Works
<1>2. time \in 0 .. Longest
  BY LongestBounds DEF TypeOK
<1> QED BY <1>1, <1>2 DEF TypeOK

\* So does the rest of a daemon's life,
LEMMA RunTyped ==
  ASSUME TypeOK, NEW p \in Pids, Run(p)
  PROVE  TypeOK'
<1>1. CASE InstallHandlers(p)
  <2>1. nap' \in [Pids -> 0 .. Longest]
    BY <1>1, WorkTyped DEF InstallHandlers
  <2> QED
    BY <1>1, <2>1 DEF InstallHandlers, Goto, TypeOK, Longest, Unprotected, Protected, files, history
<1>2. CASE SetUp(p)
  BY <1>2 DEF SetUp, Goto, TypeOK, Longest, Unprotected, Protected, files, history
<1>3. CASE Head(p)
  <2>1. interval \in 0 .. Longest
    BY LongestBounds DEF TypeOK
  <2>2. nap' \in [Pids -> 0 .. Longest]
    BY <1>3, <2>1, WorkTyped DEF Head, TypeOK
  <2> QED BY <1>3, <2>2 DEF Head, Goto, TypeOK, Longest, Unprotected, Protected, files, history
<1>4. CASE Wake(p)
  <2>1. nap' \in [Pids -> 0 .. Longest]
    BY <1>4, WorkTyped DEF Wake
  <2> QED BY <1>4, <2>1 DEF Wake, Goto, TypeOK, Longest, Unprotected, Protected, files, history
<1>5. CASE CleanUp(p)
  BY <1>5 DEF CleanUp, Goto, TypeOK, Longest, Unprotected, Protected, files, history
<1>6. CASE Release(p)
  BY <1>6, UnlockedType DEF Release, Goto, TypeOK, Longest, Unprotected, Protected, files, history
<1>7. CASE UnlinkPidFile(p)
  <2>1. orphaned' \in BOOLEAN
    BY <1>7 DEF UnlinkPidFile, RemovePidFile, TypeOK
  <2> QED
    BY <1>7, <2>1 DEF UnlinkPidFile, RemovePidFile, Goto, TypeOK, Longest, Unprotected, Protected
<1>8. CASE RemoveRecord(p)
  <2>1. Forget(cli, p) \in Commands /\ Forget(cli, p).pc = cli.pc /\ Forget(cli, p).pid = cli.pid
    BY CommandTyped DEF TypeOK, Commands, Forget
  <2> QED BY <1>8, <2>1, EndTyped DEF RemoveRecord, TypeOK, Longest, Phases, history
<1> QED
  BY <1>1, <1>2, <1>3, <1>4, <1>5, <1>6, <1>7, <1>8, AcquireTyped DEF Run, Shutdown

\* the commands,
LEMMA CommandStepTyped ==
  ASSUME TypeOK, ReadPid \/ Command
  PROVE  TypeOK'
<1>0. 0 \in 0 .. Patience /\ Patience \in 0 .. Patience
  BY LifecycleAssumption DEF LifecycleAssumption
<1>1. CASE ReadPid
  <2>1. content[path] \in Pids
    BY <1>1 DEF ReadPid, PidRead, TypeOK
  <2>2. (\E p \in Pids : p = content[path] /\ IsDaemon(p)) \in BOOLEAN
    OBVIOUS
  <2>3. cli' \in Commands /\ cli'.pid \in Pids
    BY <1>0, <1>1, <2>1, <2>2 DEF ReadPid, Commands
  <2> QED BY <1>1, <2>3 DEF ReadPid, TypeOK, Longest, files, history
<1>2. CASE CheckRunning
  BY <1>0, <1>2 DEF CheckRunning, NoCommand, Commands, TypeOK, Longest, files, history
<1> DEFINE Ended == cli' = NoCommand \/ (cli' \in Commands /\ cli'.pid \in Pids)
<1>3. ASSUME Ended PROVE cli' \in Commands /\ (cli'.pc # "idle" => cli'.pid \in Pids)
  BY <1>3, IdleTyped
<1>4. cli.pc = "checked" => cli.pid \in Pids /\ (Signalled = NoCommand \/
          (Signalled \in Commands /\ Signalled.pid \in Pids))
  BY <1>0 DEF Signalled, AfterSignal, Commands, TypeOK
<1>5. CASE SignalEnds
  <2>1. cli.pid \in Pids /\ Dies(cli.pid) /\ End(cli.pid)
    BY <1>4, <1>5 DEF SignalEnds, Dies
  <2>2. Signalled \in Commands /\ (Signalled.pc # "idle" => Signalled.pid \in Pids)
    BY <1>4, <1>5, IdleTyped DEF SignalEnds
  <2>3. cli' = Forget(Signalled, cli.pid) /\ cli' \in Commands
    BY <1>5, <2>1, <2>2, CommandTyped DEF SignalEnds
  <2>4. cli'.pc = Signalled.pc /\ cli'.pid = Signalled.pid
    BY <2>2, <2>3 DEF Forget, Commands
  <2> QED BY <1>5, <2>1, <2>2, <2>3, <2>4, EndTyped DEF SignalEnds, Dies, TypeOK, Longest, Phases
<1>6. CASE SignalNoted
  <2>1. Ended BY <1>4, <1>6 DEF SignalNoted
  <2>2. (term[cli.pid] \/ cli.cmd = "stop") \in BOOLEAN
    OBVIOUS
  <2>3. term \in [Pids -> BOOLEAN] /\ term' = [term EXCEPT ![cli.pid] = @ \/ cli.cmd = "stop"]
    BY <1>6 DEF SignalNoted, TypeOK
  <2>4. term' \in [Pids -> BOOLEAN]
    BY <2>2, <2>3, Zenon
  <2> QED BY <1>3, <1>6, <2>1, <2>4 DEF SignalNoted, TypeOK, Longest, files, history
<1>7. CASE SignalStray
  <2>1. Ended BY <1>4, <1>7 DEF SignalStray
  <2> QED BY <1>3, <1>7, <2>1 DEF SignalStray, TypeOK, Longest, files, history
<1>8. CASE SignalFails
  BY <1>3, <1>8 DEF SignalFails, TypeOK, Longest, files, history
<1>9. CASE SeesEnd
  BY <1>3, <1>9 DEF SeesEnd, TypeOK, Longest, files, history
<1>10. CASE ForceStop
  <2>1. cli.pid \in Pids
    BY <1>10 DEF ForceStop, OutOfPatience, TypeOK
  <2>2. CASE IsDaemon(cli.pid)
    BY <1>3, <1>10, <2>1, <2>2, EndTyped DEF ForceStop, Dies, TypeOK, Longest, Phases
  <2>3. CASE ~IsDaemon(cli.pid)
    BY <1>3, <1>10, <2>1, <2>3 DEF ForceStop, Goto, TypeOK, Longest
  <2> QED BY <2>2, <2>3
<1> QED
  BY <1>1, <1>2, <1>5, <1>6, <1>7, <1>8, <1>9, <1>10 DEF Command, SendSignal

\* and everything around them.
LEMMA NextTyped == TypeOK /\ [Next]_vars => TypeOK'
<1> SUFFICES ASSUME TypeOK, [Next]_vars PROVE TypeOK'
  OBVIOUS
<1>1. ASSUME NEW p \in Pids, Start(p) PROVE TypeOK'
  BY <1>1 DEF Start, Goto, TypeOK, Longest, Unprotected, Protected, files, history
<1>2. ASSUME NEW p \in Pids, Crash(p) PROVE TypeOK'
  <2>1. Forget(cli, p) \in Commands /\ Forget(cli, p).pc = cli.pc /\ Forget(cli, p).pid = cli.pid
    BY CommandTyped DEF TypeOK, Commands, Forget
  <2> QED BY <1>2, <2>1, EndTyped DEF Crash, Dies, TypeOK, Longest, Phases
<1>3. ASSUME NEW p \in Pids, Recycle(p) \/ OtherEnds(p) PROVE TypeOK'
  BY <1>3 DEF Recycle, OtherEnds, Goto, TypeOK, Longest, files, history
<1>4. CASE UnitStops
  BY <1>4 DEF UnitStops, RemovePidFile, TypeOK, Longest
<1>5. CASE Tick
  <2>1. ASSUME NEW n \in Nat, NEW m \in 0 .. n PROVE Fewer(m) \in 0 .. n
    BY DEF Fewer
  <2>2. nap' \in [Pids -> 0 .. Longest]
    BY <1>5, <2>1, LongestBounds DEF Tick, TypeOK
  <2>3. Fewer(cli.patience) \in 0 .. Patience
    BY <2>1, LifecycleAssumption DEF TypeOK, Commands, LifecycleAssumption
  <2>4. cli' \in Commands /\ cli'.pc = cli.pc /\ cli'.pid = cli.pid
    BY <1>5, <2>3 DEF Tick, TypeOK, Commands
  <2> QED BY <1>5, <2>2, <2>4 DEF Tick, TypeOK, Longest, files, history
<1>6. CASE UNCHANGED vars
  BY <1>6 DEF vars, files, history, TypeOK, Longest
<1> QED
  BY <1>1, <1>2, <1>3, <1>4, <1>5, <1>6, RunTyped, CommandStepTyped DEF Next

\* In every reachable state the variables have their types.
THEOREM LifecycleTyped == Spec => []TypeOK
  BY InitTyped, NextTyped, PTL DEF Spec

(***************************************************************************)
(* The inductive invariant.  A daemon has a file open exactly between open *)
(* and close, holds its lock after flock and has its number in it after    *)
(* the write.  As long as nothing is orphaned every open file is the one   *)
(* the path leads to, and so all daemons compete for one lock.             *)
(***************************************************************************)

Locking == {"locked", "truncated", "owner", "ready", "head", "asleep", "cleaning", "releasing"}
Writing == {"owner", "ready", "head", "asleep", "cleaning", "releasing", "unlinking"}

Descriptors == \A p \in Pids : fd[p] # NoInode <=> pc[p] \in Locking \cup {"opened"}
Holders == \A p \in Pids : pc[p] \in Locking => lock[fd[p]] = p
Numbers == \A p \in Pids : Running(p) => content[fd[p]] = p
Linked == ~orphaned => \A p \in Pids : fd[p] \in {NoInode, path}
Accounted ==
    path # NoInode =>
        \A p \in Pids : content[path] = p => pc[p] \in Writing \/ p \in killed

LockInv == Descriptors /\ Holders /\ Numbers /\ Linked /\ RulesStay /\ Accounted

\* One lock has one holder.
LEMMA LockExcludes ==
  ASSUME Holders, Linked, Descriptors, ~orphaned,
         NEW p \in Pids, NEW q \in Pids, pc[p] \in Locking, pc[q] \in Locking
  PROVE  p = q
  BY DEF Holders, Linked, Descriptors

LEMMA InitLock == Init => LockInv
  BY LifecycleAssumption
  DEF Init, LockInv, Descriptors, Holders, Numbers, Linked, RulesStay, Accounted, Running,
      Locking, LifecycleAssumption

\* The end of a process keeps the invariant, if the PID file does not name it, it was
\* killed, or it had removed its file.
LEMMA EndLock ==
  ASSUME TypeOK, LockInv, NEW p \in Pids, End(p),
         UNCHANGED << path, content, orphaned >>, rules' = rules,
         killed' = killed \/ killed' = killed \cup {p},
         pc[p] \notin Writing \/ p \in killed'
  PROVE  LockInv'
<1> USE DEF TypeOK, LockInv, End, Goto
<1>1. Descriptors'
  BY DEF Descriptors, Locking
<1>2. Holders'
  <2> SUFFICES ASSUME NEW q \in Pids, pc'[q] \in Locking PROVE lock'[fd'[q]] = q
    BY DEF Holders
  <2>1. q # p /\ pc[q] \in Locking
    BY DEF Locking
  <2>2. fd'[q] = fd[q] /\ fd[q] \in Inodes /\ lock[fd[q]] = q
    BY <2>1 DEF Descriptors, Holders
  <2> QED BY <2>1, <2>2 DEF Unlocked
<1>3. Numbers'
  BY DEF Numbers, Running
<1>4. Linked'
  BY DEF Linked
<1>5. RulesStay'
  BY DEF RulesStay
<1>6. Accounted'
  BY DEF Accounted, Writing
<1> QED BY <1>1, <1>2, <1>3, <1>4, <1>5, <1>6

\* Acquiring the lock keeps the invariant.
LEMMA AcquireLock ==
  ASSUME TypeOK, LockInv, NEW p \in Pids, Acquire(p)
  PROVE  LockInv'
<1> USE DEF TypeOK, LockInv
<1>1. CASE Open(p)
  <2> USE <1>1 DEF Open, Goto, files, history
  <2>1. path' \in Inodes /\ (path # NoInode => path' = path)
        /\ (path = NoInode => Unused(path'))
    BY LifecycleAssumption DEF LifecycleAssumption
  <2>2. \A i \in Inodes : i # path' \/ path # NoInode => lock'[i] = lock[i] /\ content'[i] = content[i]
    BY <2>1
  <2>3. \A q \in Pids : q # p => fd'[q] = fd[q] /\ pc'[q] = pc[q]
    OBVIOUS
  <2>4. \A q \in Pids : fd[q] # NoInode =>
           fd[q] \in Inodes /\ lock'[fd[q]] = lock[fd[q]] /\ content'[fd[q]] = content[fd[q]]
    BY <2>1, <2>2 DEF Unused
  <2>5. pc'[p] = "opened" /\ fd'[p] = path'
    OBVIOUS
  <2>6. Descriptors'
    BY <2>1, <2>3, <2>5, LifecycleAssumption DEF Descriptors, Locking, LifecycleAssumption
  <2>7. Holders'
    BY <2>3, <2>4, <2>5 DEF Holders, Descriptors, Locking
  <2>8. Numbers'
    BY <2>3, <2>4, <2>5 DEF Numbers, Running, Descriptors, Locking
  <2>9. Linked'
    BY <2>1, <2>3, <2>5 DEF Linked
  <2>10. RulesStay'
    BY DEF RulesStay
  <2>11. Accounted'
    BY LifecycleAssumption DEF Accounted, Writing, LifecycleAssumption
  <2> QED BY <2>6, <2>7, <2>8, <2>9, <2>10, <2>11
<1>2. CASE Lock(p)
  <2> USE <1>2 DEF Lock, Goto, history
  <2>1. fd[p] \in Inodes /\ lock[fd[p]] = NoPid
    BY DEF Descriptors
  <2>2. Descriptors'
    BY DEF Descriptors, Locking
  <2>3. Holders'
    BY <2>1, LifecycleAssumption DEF Holders, Descriptors, Locking, LifecycleAssumption
  <2>4. Numbers' /\ Linked' /\ RulesStay'
    BY DEF Numbers, Running, Linked, RulesStay
  <2>5. Accounted'
    BY DEF Accounted, Writing
  <2> QED BY <2>2, <2>3, <2>4, <2>5
<1>3. CASE Refused(p)
  BY <1>3, EndLock DEF Refused, history, Writing
<1>4. CASE Truncate(p) \/ WritePid(p)
  <2> USE <1>4 DEF Truncate, WritePid, Goto, history
  <2>1. pc[p] \in Locking /\ fd[p] \in Inodes
    BY DEF Descriptors, Locking
  <2>2. Descriptors' /\ Holders'
    BY DEF Descriptors, Holders, Locking
  <2>3. Numbers'
    <3>1. ASSUME NEW q \in Pids, Running(q), q # p PROVE fd[q] # fd[p] /\ fd[q] \in Inodes
      <4>1. pc[q] \in Locking
        BY <3>1 DEF Running, Locking
      <4> QED BY <2>1, <3>1, <4>1 DEF Holders, Descriptors
    <3> QED BY <2>1, <3>1 DEF Numbers, Running
  <2>4. Linked'
    BY DEF Linked
  <2>5. RulesStay'
    BY DEF RulesStay
  <2>6. Accounted'
    BY <2>1, LifecycleAssumption DEF Accounted, Writing, LifecycleAssumption
  <2> QED BY <2>2, <2>3, <2>4, <2>5, <2>6
<1> QED BY <1>1, <1>2, <1>3, <1>4 DEF Acquire

\* So does the rest of a daemon's life.
LEMMA RunLock ==
  ASSUME TypeOK, LockInv, NEW p \in Pids, Run(p)
  PROVE  LockInv'
<1> USE DEF TypeOK, LockInv
<1>1. CASE InstallHandlers(p) \/ Head(p) \/ Wake(p)
  <2> USE <1>1 DEF InstallHandlers, Head, Wake, Goto, files, history
  <2>1. Descriptors' /\ Holders'
    BY DEF Descriptors, Holders, Locking
  <2>2. Numbers'
    BY DEF Numbers, Running
  <2>3. Linked' /\ Accounted'
    BY DEF Linked, Accounted, Writing
  <2>4. RulesStay'
    BY DEF RulesStay
  <2> QED BY <2>1, <2>2, <2>3, <2>4
<1>2. CASE SetUp(p)
  <2> USE <1>2 DEF SetUp, Goto, files, history
  <2>1. Descriptors' /\ Holders' /\ Numbers'
    BY DEF Descriptors, Holders, Locking, Numbers, Running
  <2>2. Linked' /\ Accounted' /\ RulesStay'
    BY DEF Linked, Accounted, Writing, RulesStay
  <2> QED BY <2>1, <2>2
<1>3. CASE CleanUp(p)
  <2> USE <1>3 DEF CleanUp, Goto, files, history
  <2>1. Descriptors' /\ Holders' /\ Numbers'
    BY DEF Descriptors, Holders, Locking, Numbers, Running
  <2>2. Linked' /\ Accounted'
    BY DEF Linked, Accounted, Writing
  <2>3. RulesStay'
    BY LockExcludes DEF RulesStay, Locking
  <2> QED BY <2>1, <2>2, <2>3
<1>4. CASE Release(p)
  <2> USE <1>4 DEF Release, Goto, history
  <2>1. Descriptors'
    BY DEF Descriptors, Locking
  <2>2. Holders'
    <3> SUFFICES ASSUME NEW q \in Pids, pc'[q] \in Locking PROVE lock'[fd'[q]] = q
      BY DEF Holders
    <3>1. q # p /\ pc[q] \in Locking
      BY DEF Locking
    <3>2. fd'[q] = fd[q] /\ fd[q] \in Inodes /\ lock[fd[q]] = q
      BY <3>1 DEF Descriptors, Holders
    <3> QED BY <3>1, <3>2 DEF Unlocked
  <2>3. Numbers' /\ Linked'
    BY DEF Numbers, Running, Linked
  <2>4. Accounted' /\ RulesStay'
    BY DEF Accounted, Writing, RulesStay
  <2> QED BY <2>1, <2>2, <2>3, <2>4
<1>5. CASE UnlinkPidFile(p)
  <2> USE <1>5 DEF UnlinkPidFile, RemovePidFile, Goto
  <2>1. Descriptors' /\ Holders' /\ Numbers'
    BY DEF Descriptors, Holders, Locking, Numbers, Running
  <2>2. Linked' /\ Accounted' /\ RulesStay'
    BY DEF Linked, Accounted, RulesStay
  <2> QED BY <2>1, <2>2
<1>6. CASE RemoveRecord(p)
  BY <1>6, EndLock DEF RemoveRecord, history, Writing
<1> QED
  BY <1>1, <1>2, <1>3, <1>4, <1>5, <1>6, AcquireLock DEF Run, Shutdown

\* Commands, other programs, systemd and time keep the invariant.
LEMMA NextLock == TypeOK /\ LockInv /\ [Next]_vars => LockInv'
<1> SUFFICES ASSUME TypeOK, LockInv, [Next]_vars PROVE LockInv'
  OBVIOUS
<1>1. ASSUME NEW p \in Pids, Start(p) PROVE LockInv'
  BY <1>1 DEF Start, Goto, TypeOK, LockInv, Descriptors, Holders, Numbers, Linked, RulesStay,
              Accounted, Locking, Writing, Running, files, history
<1>2. ASSUME NEW p \in Pids, Dies(p), UNCHANGED << path, content, rules, orphaned >>
      PROVE LockInv'
  BY <1>2, EndLock DEF Dies
<1>3. ASSUME NEW p \in Pids, Crash(p) PROVE LockInv'
  BY <1>2, <1>3 DEF Crash
<1>4. ASSUME NEW p \in Pids, pc[p] \in {"free", "other"}, pc' = [pc EXCEPT ![p] = pc'[p]],
             pc'[p] \in {"free", "other"}, UNCHANGED << fd, files, rules, history >>
      PROVE LockInv'
  BY <1>4 DEF TypeOK, LockInv, Descriptors, Holders, Numbers, Linked, RulesStay,
              Accounted, Locking, Writing, Running, files, history
<1>5. ASSUME NEW p \in Pids, Recycle(p) \/ OtherEnds(p) PROVE LockInv'
  BY <1>4, <1>5 DEF Recycle, OtherEnds, Goto, TypeOK
<1>6. ASSUME UNCHANGED << pc, fd, files, rules, history >> PROVE LockInv'
  BY <1>6 DEF LockInv, Descriptors, Holders, Numbers, Linked, RulesStay, Accounted, Running,
              files, history
<1>7. CASE ReadPid \/ CheckRunning \/ SignalNoted \/ SignalFails \/ SeesEnd \/ Tick
  BY <1>6, <1>7 DEF ReadPid, CheckRunning, SignalNoted, SignalFails, SeesEnd, Tick
<1>8. cli.pc # "idle" => cli.pid \in Pids
  BY DEF TypeOK
<1>9. CASE SignalEnds
  BY <1>2, <1>8, <1>9 DEF SignalEnds
<1>10. CASE SignalStray
  <2>1. CASE pc' = pc
    BY <1>6, <1>10, <2>1 DEF SignalStray
  <2>2. CASE pc' = [pc EXCEPT ![cli.pid] = "free"]
    BY <1>4, <1>8, <1>10, <2>2 DEF SignalStray, TypeOK
  <2> QED BY <1>10, <2>1, <2>2 DEF SignalStray
<1>11. CASE ForceStop
  <2>1. CASE IsDaemon(cli.pid)
    BY <1>2, <1>8, <1>11, <2>1 DEF ForceStop, OutOfPatience
  <2>2. CASE ~IsDaemon(cli.pid)
    <3>1. cli.pid \in Pids /\ pc[cli.pid] \in {"free", "other"}
      BY <1>8, <1>11, <2>2 DEF ForceStop, OutOfPatience, IsDaemon, TypeOK
    <3>2. pc' = [pc EXCEPT ![cli.pid] = "free"] /\ UNCHANGED << fd, files, rules, history >>
      BY <1>11, <2>2 DEF ForceStop, Goto, files, history
    <3> QED BY <1>4, <3>1, <3>2 DEF TypeOK
  <2> QED BY <2>1, <2>2
<1>12. CASE UnitStops
  BY <1>12 DEF UnitStops, RemovePidFile, TypeOK, LockInv, Descriptors, Holders, Numbers,
               Linked, RulesStay, Accounted, Locking, Writing, Running
<1>13. CASE UNCHANGED vars
  BY <1>6, <1>13 DEF vars
<1> QED
  BY <1>1, <1>3, <1>5, <1>7, <1>9, <1>10, <1>11, <1>12, <1>13, RunLock
  DEF Next, Command, SendSignal

THEOREM LockInvariant == Spec => [](TypeOK /\ LockInv)
  BY InitTyped, InitLock, NextTyped, NextLock, PTL DEF Spec

(***************************************************************************)
(* What follows.                                                           *)
(***************************************************************************)

\* Nothing but the removal of a PID file in use lets two daemons run.
THEOREM LockIsExclusive == Spec => []ExclusiveUnlessOrphaned
<1>1. LockInv => ExclusiveUnlessOrphaned
  BY LockExcludes DEF LockInv, ExclusiveUnlessOrphaned, OneDaemon, Running, Locking
<1> QED BY <1>1, LockInvariant, PTL

\* Until then stop and reload find the daemon that runs.
THEOREM DaemonIsFound == Spec => []PidFileNamesDaemon
<1>1. LockInv => PidFileNamesDaemon
  <2> SUFFICES ASSUME LockInv, ~orphaned, NEW p \in Pids, Running(p)
               PROVE  path = fd[p] /\ content[path] = p
    BY DEF PidFileNamesDaemon
  <2>1. fd[p] # NoInode /\ fd[p] \in {NoInode, path} /\ content[fd[p]] = p
    BY DEF LockInv, Descriptors, Linked, Numbers, Running, Locking
  <2> QED BY <2>1
<1> QED BY <1>1, LockInvariant, PTL

\* A stale number in the PID file is that of a process that was killed.
THEOREM StaleIsKilled == Spec => []StaleOnlyIfKilled
<1>1. TypeOK /\ LockInv => StaleOnlyIfKilled
  <2> SUFFICES ASSUME TypeOK, LockInv, path # NoInode, content[path] # NoPid
               PROVE  IsDaemon(content[path]) \/ content[path] \in killed
    BY DEF StaleOnlyIfKilled
  <2>1. content[path] \in Pids
    BY DEF TypeOK
  <2> QED BY <2>1 DEF LockInv, Accounted, IsDaemon, Writing, Unprotected, Protected
<1> QED BY <1>1, LockInvariant, PTL

\* No shutdown takes away the rules of a daemon that runs.
THEOREM RulesAreKept == Spec => []RulesStay
<1>1. LockInv => RulesStay
  BY DEF LockInv
<1> QED BY <1>1, LockInvariant, PTL

(***************************************************************************)
(* The state file of a running daemon.                                     *)
(***************************************************************************)

THEOREM RecordsStay == Spec => RecordStays
<1> DEFINE Safe(p) == record = p /\ Running(p) /\ Running(p)' /\ record' # p =>
                         orphaned' \/ \E q \in Pids \ {p} : pc[q] = "removing"
<1>1. TypeOK /\ LockInv /\ [Next]_vars => [\A p \in Pids : Safe(p)]_vars
  <2> SUFFICES ASSUME TypeOK, LockInv, Next, NEW p \in Pids,
                      record = p, Running(p), Running(p)', record' # p
               PROVE  orphaned' \/ \E q \in Pids \ {p} : pc[q] = "removing"
    BY DEF vars, files, history
  <2>1. ASSUME NEW q \in Pids, SetUp(q) \/ Wake(q) PROVE orphaned'
    <3>1. q # p /\ pc[q] \in Locking /\ orphaned' = orphaned
      BY <2>1 DEF SetUp, Wake, Locking, history
    <3>2. pc[p] \in Locking
      BY DEF Running, Locking
    <3> QED BY <3>1, <3>2, LockExcludes DEF LockInv
  <2>2. ASSUME NEW q \in Pids, RemoveRecord(q) PROVE q \in Pids \ {p} /\ pc[q] = "removing"
    BY <2>2 DEF RemoveRecord, Running
  <2>3. CASE UnitStops
    <3>1. fd[p] # NoInode
      BY DEF LockInv, Descriptors, Running, Locking
    <3> QED BY <2>3, <3>1 DEF UnitStops, RemovePidFile, LockInv, Linked
  <2>4. ASSUME NEW q \in Pids, Run(q)
        PROVE  SetUp(q) \/ Wake(q) \/ RemoveRecord(q) \/ UNCHANGED record
    BY <2>4 DEF Run, Acquire, Shutdown, Open, Lock, Refused, Truncate, WritePid,
                InstallHandlers, Head, CleanUp, Release, UnlinkPidFile
  <2>5. ASSUME NEW q \in Pids, Start(q) \/ Crash(q) \/ Recycle(q) \/ OtherEnds(q)
        PROVE  UNCHANGED record
    BY <2>5 DEF Start, Crash, Recycle, OtherEnds
  <2>6. ASSUME ReadPid \/ Command \/ Tick PROVE UNCHANGED record
    BY <2>6 DEF ReadPid, Command, CheckRunning, SendSignal, SignalEnds, SignalNoted, SignalStray,
                SignalFails, SeesEnd, ForceStop, Tick
  <2> QED BY <2>1, <2>2, <2>3, <2>4, <2>5, <2>6 DEF Next
<1> QED BY <1>1, LockInvariant, PTL DEF Spec, RecordStays

(***************************************************************************)
(* The patience of tc-limit stop.                                          *)
(***************************************************************************)

\* As long as the process is the one the file named, it is a daemon; once it has the
\* SIGTERM it is on its way out, and what it has left to do, with the shutdown, is
\* over before stop gives up.
Pursuit ==
    cli.pc # "idle" /\ cli.same =>
        /\ IsDaemon(cli.pid)
        /\ cli.pc = "waiting" /\ Longest + Work < Patience =>
              /\ pc[cli.pid] \in Protected /\ term[cli.pid]
              /\ nap[cli.pid] < cli.patience
              /\ pc[cli.pid] \in {"ready", "head", "asleep"} =>
                    nap[cli.pid] + Work < cli.patience

\* The steps of other processes leave the pursuit alone, and so does the end of one.
LEMMA PursuitElsewhere ==
  ASSUME TypeOK, Pursuit, UNCHANGED interval, NEW p \in Pids,
         \A q \in Pids \ {p} : pc'[q] = pc[q] /\ nap'[q] = nap[q] /\ term'[q] = term[q],
         cli' = Forget(cli, p) \/ (cli' = cli /\ (cli.pc = "idle" \/ ~cli.same \/ cli.pid # p))
  PROVE  Pursuit'
<1>1. cli'.pc = cli.pc /\ cli'.pid = cli.pid /\ cli'.patience = cli.patience
      /\ (cli'.same => cli.same)
  BY DEF TypeOK, Commands, Forget
<1>2. cli'.pc # "idle" /\ cli'.same => cli.pid \in Pids \ {p}
  BY <1>1 DEF TypeOK, Commands, Forget
<1>3. Longest' = Longest
  BY DEF Longest
<1> QED BY <1>1, <1>2, <1>3 DEF Pursuit, IsDaemon

\* A daemon that has been told to stop goes on towards its end.
LEMMA PursuitOfRun ==
  ASSUME TypeOK, Pursuit, NEW p \in Pids, Run(p)
  PROVE  Pursuit'
<1>1. CASE Refused(p) \/ RemoveRecord(p)
  BY <1>1, PursuitElsewhere DEF Refused, RemoveRecord, End, Goto, TypeOK
<1>2. ASSUME ~(Refused(p) \/ RemoveRecord(p)) PROVE UNCHANGED << cli, interval, term >>
  BY <1>2 DEF Run, Acquire, Shutdown, Open, Lock, Truncate, WritePid,
              InstallHandlers, SetUp, Head, Wake, CleanUp, Release, UnlinkPidFile
<1>3. CASE ~(Refused(p) \/ RemoveRecord(p))
  <2>1. \A q \in Pids \ {p} : pc'[q] = pc[q] /\ nap'[q] = nap[q] /\ term'[q] = term[q]
    <3>1. CASE InstallHandlers(p) \/ Head(p) \/ Wake(p)
      BY <3>1 DEF InstallHandlers, Head, Wake, Works, Goto, TypeOK
    <3>2. CASE Acquire(p) \/ SetUp(p) \/ Shutdown(p)
      BY <1>3, <3>2 DEF Acquire, Shutdown, Open, Lock, Truncate, WritePid, Goto, SetUp,
                        CleanUp, Release, UnlinkPidFile, TypeOK
    <3> QED BY <3>1, <3>2 DEF Run
  <2>2. CASE cli.pid # p
    BY <1>2, <1>3, <2>1, <2>2, PursuitElsewhere
  <2>3. CASE cli.pid = p
    <3>1. pc'[p] \in Unprotected \cup Protected
      BY <1>3 DEF Run, Acquire, Shutdown, Open, Lock, Truncate, WritePid, Goto,
                  InstallHandlers, SetUp, Head, Wake, CleanUp, Release, UnlinkPidFile, TypeOK,
                  Unprotected, Protected
    <3> DEFINE Waiting == cli.pc = "waiting" /\ cli.same /\ Longest + Work < Patience
    <3>2. ASSUME Waiting
          PROVE  /\ pc'[p] \in Protected /\ nap'[p] < cli.patience
                 /\ pc'[p] \in {"ready", "head", "asleep"} => nap'[p] + Work < cli.patience
      <4>1. /\ pc[p] \in Protected /\ term[p] /\ nap[p] < cli.patience
            /\ pc[p] \in {"ready", "head", "asleep"} => nap[p] + Work < cli.patience
        BY <2>3, <3>2 DEF Pursuit
      <4>2. nap[p] \in Nat /\ cli.patience \in Nat /\ Work \in Nat
        BY LongestBounds, LifecycleAssumption DEF TypeOK, Commands, LifecycleAssumption
      <4>3. CASE SetUp(p)
        BY <4>1, <4>2, <4>3 DEF SetUp, Goto, TypeOK, Protected
      <4>4. CASE Head(p) \/ Wake(p)
        <5>1. Works(p) /\ nap[p] = 0 /\ pc[p] \in {"head", "asleep"} /\ pc'[p] = "cleaning"
          BY <4>1, <4>4 DEF Head, Wake, Goto, TypeOK
        <5>2. nap'[p] \in 0 .. Work
          BY <5>1 DEF Works, TypeOK
        <5> QED BY <4>1, <4>2, <5>1, <5>2 DEF Protected
      <4>5. CASE Shutdown(p)
        BY <1>3, <4>1, <4>5 DEF Shutdown, CleanUp, Release, UnlinkPidFile, Goto, TypeOK, Protected
      <4>6. CASE Acquire(p) \/ InstallHandlers(p)
        BY <1>3, <4>1, <4>6 DEF Acquire, Open, Lock, Truncate, WritePid, InstallHandlers, Protected
      <4> QED BY <4>3, <4>4, <4>5, <4>6 DEF Run
    <3>3. Longest' = Longest
      BY <1>2, <1>3 DEF Longest
    <3> QED BY <1>2, <1>3, <2>3, <3>1, <3>2, <3>3 DEF Pursuit, IsDaemon
  <2> QED BY <2>2, <2>3
<1> QED BY <1>1, <1>3

LEMMA NextPursuit == TypeOK /\ Pursuit /\ [Next]_vars => Pursuit'
<1> SUFFICES ASSUME TypeOK, Pursuit, [Next]_vars PROVE Pursuit'
  OBVIOUS
<1>1. ASSUME NEW p \in Pids, Crash(p) PROVE Pursuit'
  BY <1>1, PursuitElsewhere DEF Crash, Dies, End, Goto, TypeOK
<1>2. ASSUME NEW p \in Pids, Start(p) \/ Recycle(p) \/ OtherEnds(p) PROVE Pursuit'
  BY <1>2, PursuitElsewhere
  DEF Start, Recycle, OtherEnds, Goto, TypeOK, Pursuit, IsDaemon, Protected, Unprotected
<1>3. CASE ReadPid
  <2>1. /\ cli'.pc = "read" /\ cli'.pid = content[path]
        /\ cli'.same => IsDaemon(content[path])
    BY <1>3 DEF ReadPid
  <2>2. pc' = pc
    BY <1>3 DEF ReadPid
  <2> QED BY <2>1, <2>2 DEF Pursuit, IsDaemon
<1>4. CASE CheckRunning
  BY <1>4, IdleTyped DEF CheckRunning, Pursuit, IsDaemon, TypeOK, Commands
<1>5. CASE SignalEnds
  <2>1. cli'.same => cli.pid # cli'.pid \/ cli'.pc = "idle"
    BY <1>5, IdleTyped DEF SignalEnds, Forget, Signalled, AfterSignal, TypeOK, Commands
  <2>2. cli'.pc # "idle" => cli'.pid = cli.pid
    BY <1>5, IdleTyped DEF SignalEnds, Forget, Signalled, AfterSignal, TypeOK, Commands
  <2> QED BY <2>1, <2>2 DEF Pursuit
<1>6. CASE SignalNoted
  <2>1. CASE cli.cmd = "stop"
    <3>1. cli'.pc = "waiting" /\ cli'.pid = cli.pid /\ cli'.patience = Patience
          /\ cli'.same = cli.same /\ cli.pid \in Pids
      BY <1>6, <2>1 DEF SignalNoted, Signalled, AfterSignal, TypeOK, Commands
    <3>2. term'[cli.pid] /\ pc[cli.pid] \in Protected
      BY <1>6, <2>1, <3>1 DEF SignalNoted, TypeOK
    <3>3. /\ nap[cli.pid] \in 0 .. Longest /\ Longest \in Nat /\ Work \in Nat
          /\ Patience \in Nat \ {0}
      BY <3>1, LongestBounds, LifecycleAssumption DEF TypeOK, LifecycleAssumption
    <3>4. UNCHANGED << pc, nap, Longest >>
      BY <1>6 DEF SignalNoted, Longest
    <3> QED BY <3>1, <3>2, <3>3, <3>4 DEF Pursuit, IsDaemon
  <2>2. CASE cli.cmd # "stop"
    BY <1>6, <2>2, IdleTyped DEF SignalNoted, Signalled, Pursuit
  <2> QED BY <2>1, <2>2
<1>7. CASE SignalStray
  <2>1. ~cli.same
    BY <1>7 DEF SignalStray, Pursuit, IsDaemon, Protected, Unprotected
  <2>2. cli'.pc = "idle" \/ ~cli'.same
    BY <1>7, <2>1, IdleTyped DEF SignalStray, Signalled, AfterSignal, TypeOK, Commands
  <2> QED BY <2>2 DEF Pursuit
<1>8. CASE SignalFails \/ SeesEnd \/ ForceStop
  BY <1>8, IdleTyped DEF SignalFails, SeesEnd, ForceStop, Pursuit
<1>9. CASE UnitStops
  BY <1>9 DEF UnitStops, Pursuit, IsDaemon, Longest
<1>10. CASE Tick
  <2>1. cli'.pc = cli.pc /\ cli'.pid = cli.pid /\ cli'.same = cli.same
        /\ cli'.patience = Fewer(cli.patience) /\ UNCHANGED << pc, term, Longest >>
    BY <1>10 DEF Tick, TypeOK, Commands, Longest
  <2>2. cli.pc = "waiting" => cli.pid \in Pids
    BY DEF TypeOK
  <2>3. ASSUME cli.pc = "waiting", pc[cli.pid] \in Protected
        PROVE  nap[cli.pid] > 0 /\ nap'[cli.pid] = Fewer(nap[cli.pid])
    BY <1>10, <2>2, <2>3 DEF Tick, AtRest
  <2>4. cli.pc = "waiting" => nap[cli.pid] \in Nat /\ cli.patience \in Nat /\ Work \in Nat
    BY <2>2, LongestBounds, LifecycleAssumption DEF TypeOK, Commands, LifecycleAssumption
  <2> QED BY <2>1, <2>2, <2>3, <2>4 DEF Pursuit, IsDaemon, Fewer
<1>11. CASE UNCHANGED vars
  BY <1>11 DEF vars, Pursuit, IsDaemon, Longest
<1> QED
  BY <1>1, <1>2, <1>3, <1>4, <1>5, <1>6, <1>7, <1>8, <1>9, <1>10, <1>11, PursuitOfRun
  DEF Next, Command, SendSignal

\* For every interval, patience and length of the daemon's work: a stop kills only a
\* daemon whose sleep or work, with the shutdown, may outlast its patience.
THEOREM StopIsPatient == Spec => []KillOnlyIfSlow
<1>1. Init => Pursuit
  BY DEF Init, NoCommand, Pursuit
<1>2. TypeOK /\ Pursuit => KillOnlyIfSlow
  <2> SUFFICES ASSUME TypeOK, Pursuit, OutOfPatience, cli.same, ~(Longest + Work >= Patience)
               PROVE  FALSE
    BY DEF KillOnlyIfSlow
  <2>1. Longest \in Nat /\ Work \in Nat /\ Patience \in Nat /\ cli.pid \in Pids
    BY LongestBounds, LifecycleAssumption DEF TypeOK, OutOfPatience, LifecycleAssumption
  <2>2. nap[cli.pid] \in Nat
    BY <2>1 DEF TypeOK
  <2> QED BY <2>1, <2>2 DEF Pursuit, OutOfPatience
<1>3. Spec => [](TypeOK /\ Pursuit)
  BY <1>1, InitTyped, NextTyped, NextPursuit, PTL DEF Spec
<1> QED BY <1>2, <1>3, PTL

=============================================================================
