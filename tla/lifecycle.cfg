SPECIFICATION Spec
CONSTANTS
    Pids = {p1, p2}
    NoPid = NoPid
    Inodes = {i1, i2}
    NoInode = NoInode
    Intervals = {1, 3}
    Work = 1
    Patience = 3
    RuntimeDirectoryPreserve = FALSE
SYMMETRY Symmetry
INVARIANTS TypeOK ExclusiveUnlessOrphaned PidFileNamesDaemon StaleOnlyIfKilled RulesStay KillOnlyIfSlow
PROPERTIES RecordStays
