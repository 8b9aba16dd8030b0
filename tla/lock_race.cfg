SPECIFICATION Spec
CONSTANTS
    Pids = {p1, p2}
    NoPid = NoPid
    Inodes = {i1, i2}
    NoInode = NoInode
    Intervals = {1}
    Work = 0
    Patience = 2
    RuntimeDirectoryPreserve = TRUE
SYMMETRY Symmetry
INVARIANTS OneDaemon
