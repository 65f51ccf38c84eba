\* One task, crashes with remount: the FAT, the entries and the sizes stay
\* consistent whatever point a crash hits.
CONSTANTS
    NClusters = 3
    NPast = 1
    EntriesPerCluster = 2
    ClusterBytes = 2
    Names <- MCNames
    Tasks = {t1}
    Offsets <- MCOffsets
    Counts <- MCCounts
    MaxOps = 3
    MaxCrashes = 1
SPECIFICATION Spec
CHECK_DEADLOCK FALSE
INVARIANTS TypeOK FatChainsSound SizeWithinChain EntriesDurable ReadReturnsAll
