\* The name space of MC_Namespace.cfg; one fd slot, so vfs_open also meets
\* a full table; byte positions 0 .. 2 with a two-byte capacity quantum, so
\* a write past the capacity regrows the buffer; five I/O calls: enough to
\* write, seek to the end, write again, seek back and read it all.
CONSTANTS
    Names = {"a", "b"}
    MaxDentries = 5
    MaxInodes = 3
    Paths <- MCPaths
    MaxOps = 3
    MAX_FILES = 1
    Quantum = 2
    MaxPos = 3
    Vals = {1}
    Counts = {1, 2}
    Seeks <- MCSeeks
    MaxIO = 5
SPECIFICATION FSpec
CHECK_DEADLOCK FALSE
INVARIANTS
    FTypeOK
    DcacheWellFormed
    WalkResolvesPath
    ReadReturnsWrites
    ReaddirComplete
