\* Two tasks in the driver at once, no crash: fat32_find_free_cluster and
\* the FAT write that claims the cluster are separate bread()s with no lock.
CONSTANTS
    NClusters = 4
    NPast = 1
    EntriesPerCluster = 2
    ClusterBytes = 2
    Names <- MCNames
    Tasks = {t1, t2}
    Offsets <- MCOffsets
    Counts <- MCCounts
    MaxOps = 2
    MaxCrashes = 0
SPECIFICATION Spec
CHECK_DEADLOCK FALSE
INVARIANT FatChainsSound
