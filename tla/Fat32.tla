------------------------------- MODULE Fat32 -------------------------------
(***************************************************************************)
(* The FAT32 driver of fs/fat32.c: the file allocation table, directory    *)
(* entries, and the create / mkdir / mknod / write operations that change  *)
(* them.  The driver takes no lock, and every bread() may suspend the      *)
(* calling task on buffer I/O, so each FAT or sector access is one step    *)
(* and several tasks interleave between them.  Every FAT and directory     *)
(* write is synced (mark_buffer_dirty then sync_dirty_buffer), so a crash  *)
(* keeps the disk and loses what tasks hold in memory.                     *)
(*                                                                         *)
(* Abstractions: sectors_per_cluster = 1; a cluster holds EntriesPerCluster *)
(* directory slots, or ClusterBytes units of file data (data bytes are not *)
(* modelled, only the file size).  Names are short names that              *)
(* fat32_format_name maps one-to-one; "." and ".." are kept as such.       *)
(*                                                                         *)
(* fat32_find_free_cluster scans up to max_cluster = total_sectors /       *)
(* sectors_per_cluster, which counts the reserved and FAT sectors too, so *)
(* the scan goes NPast clusters past the data area.  Their FAT entries lie *)
(* in the FAT's zero padding; their sectors lie past the end of the       *)
(* device, and a bread of them fails (a failed read surfaces as NULL).    *)
(***************************************************************************)
EXTENDS Naturals, Sequences, FiniteSets, FiniteSetsExt, Functions

CONSTANTS
    NClusters,          \* data clusters 2 .. NClusters+1 of the image
    NPast,              \* bound: clusters the scan reaches past the data area
    EntriesPerCluster,  \* 32-byte slots in one cluster (512/32 in the code)
    ClusterBytes,       \* bytes of one cluster, in units of the write sizes
    Names,              \* file and directory names the tasks use
    Tasks,              \* tasks calling into the driver
    Offsets, Counts,    \* arguments of fat32_write
    MaxOps,             \* bound: operations started
    MaxCrashes          \* bound: crashes (with remount) of the machine

Cl   == 2 .. NClusters + 1
Past == NClusters + 2 .. NClusters + 1 + NPast
Clusters == Cl \cup Past        \* what the scan can hand out
MaxCluster == NClusters + 2 + NPast  \* max_cluster, the scan's bound
Root == 2                       \* sbi->root_cluster of a fresh image
EOC  == 268435455               \* 0x0FFFFFFF; every value >= 0x0FFFFFF8

\* A directory slot; name "0" is a slot whose name[0] == 0.
Slot == [name : Names \cup {".", "..", "0"}, clus : Clusters \cup {0},
         size : Nat, dir : BOOLEAN]
FreeSlot == [name |-> "0", clus |-> 0, size |-> 0, dir |-> FALSE]
ZeroCluster == [j \in 1 .. EntriesPerCluster |-> FreeSlot]

\* In-memory state of a task inside the driver: its program counter, the
\* caller label alloc and add_entry return to, and the locals of the calls.
Idle == [pc |-> "idle", kind |-> "none", dir |-> Root, name |-> "0",
         cl |-> 0, prev |-> 0, new |-> 0, ret |-> "idle", cur |-> Root,
         ent |-> FreeSlot, adir |-> Root, aret |-> "idle", aok |-> FALSE,
         off |-> 0, cnt |-> 0, written |-> 0, target |-> 0, file |-> 0, skip |-> 0]

VARIABLES
    fat,        \* the on-disk FAT: cluster -> 0 | EOC | next cluster
    dent,       \* on-disk directory slots of every cluster
    task,       \* per task: where it is in the driver and its locals
    nops,       \* operations started
    crashes,    \* crashes so far
    added       \* history: <<dir, entry>> for every add_entry that returned 0

vars == <<fat, dent, task, nops, crashes, added>>

-----------------------------------------------------------------------------
(* Reading the disk.                                                       *)

\* The clusters of S reached from c by following the FAT, at most k of
\* them: fat32_next_cluster repeated until a value >= 0x0FFFFFF8.
RECURSIVE ChainIn(_, _, _)
ChainIn(S, c, k) ==
    IF k = 0 \/ c \notin S THEN <<>>
    ELSE <<c>> \o (IF fat[c] \in Clusters THEN ChainIn(S, fat[c], k - 1) ELSE <<>>)

Chain(c) == ChainIn(Clusters, c, NClusters + NPast)

\* The clusters of c's chain before the first one off the device: a bread
\* there fails, and fat32_lookup returns 0, update_inode_size -1.
Readable(c) == ChainIn(Cl, c, NClusters)

\* The slots of directory d that fat32_lookup and fat32_update_inode_size
\* see: in chain order, up to the first slot with name[0] == 0.
DirSlots(d) ==
    LET all == [i \in 1 .. Len(Readable(d)) * EntriesPerCluster |->
                  LET c == Readable(d)[(i - 1) \div EntriesPerCluster + 1]
                  IN  <<c, ((i - 1) % EntriesPerCluster) + 1>>]
        ends == {i \in DOMAIN all : dent[all[i][1]][all[i][2]].name = "0"}
        stop == IF ends = {} THEN Len(all) + 1
                ELSE CHOOSE i \in ends : \A j \in ends : i <= j
    IN  SubSeq(all, 1, stop - 1)

Entries(d) == {dent[p[1]][p[2]] : p \in {DirSlots(d)[i] : i \in DOMAIN DirSlots(d)}}

\* fat32_lookup: the first entry of d named n, or FreeSlot when none is.
FatLookup(d, n) ==
    LET hits == {i \in DOMAIN DirSlots(d) :
                   dent[DirSlots(d)[i][1]][DirSlots(d)[i][2]].name = n}
    IN  IF hits = {} THEN FreeSlot
        ELSE LET i == CHOOSE i \in hits : \A j \in hits : i <= j
             IN  dent[DirSlots(d)[i][1]][DirSlots(d)[i][2]]

\* The directories a path walk can reach: the root, then every directory
\* entry (other than "." and "..") of a reachable directory.
RECURSIVE ReachDirs(_, _)
ReachDirs(S, k) ==
    LET T == S \cup {e.clus : e \in UNION {{x \in Entries(d) :
                       x.dir /\ x.name \in Names /\ x.clus \in Clusters} : d \in S}}
    IN  IF k = 0 \/ T = S THEN S ELSE ReachDirs(T, k - 1)

Dirs == ReachDirs({Root}, NClusters)

\* Mutant: the scan's test cluster <= max_cluster, one past its bound.
FindFreeOffByOne ==
    IF \A c \in Clusters : fat[c] # 0 THEN MaxCluster
    ELSE Min({c \in Clusters : fat[c] = 0})

\* fat32_find_free_cluster: the lowest cluster below max_cluster whose FAT
\* entry is 0, or 0; past the data area once the data area is full.
FindFree ==
    IF \A c \in Clusters : fat[c] # 0 THEN 0
    ELSE Min({c \in Clusters : fat[c] = 0})

-----------------------------------------------------------------------------
(* fat32_alloc_cluster(prev): find, mark EOC, link prev, zero.  Each FAT   *)
(* write and each sector zeroing is a bread + sync: a step of its own.    *)

\* Call alloc from task t's current state; it returns to label r.
CallAlloc(s, p, r) == [s EXCEPT !.pc = "find", !.prev = p, !.ret = r]

\* fat32_find_free_cluster; none free returns 0 to the caller.
Find(t) ==
    /\ task[t].pc = "find"
    /\ LET c == FindFree IN
       task' = [task EXCEPT ![t].new = c,
                            ![t].pc = IF c = 0 THEN task[t].ret ELSE "eoc"]
    /\ UNCHANGED <<fat, dent, nops, crashes, added>>

\* Mutant: the EOC mark written only for a first cluster, as if the link
\* from prev_cluster marked the new one in use.
EocOnlyFirst(t) ==
    /\ task[t].pc = "eoc"
    /\ fat' = IF task[t].prev # 0 THEN fat ELSE [fat EXCEPT ![task[t].new] = EOC]
    /\ task' = [task EXCEPT ![t].pc = IF task[t].prev # 0 THEN "link" ELSE "zero"]
    /\ UNCHANGED <<dent, nops, crashes, added>>

\* fat32_write_fat_entry(new_cluster, 0x0FFFFFFF).
Eoc(t) ==
    /\ task[t].pc = "eoc"
    /\ fat' = [fat EXCEPT ![task[t].new] = EOC]
    /\ task' = [task EXCEPT ![t].pc = IF task[t].prev # 0 THEN "link" ELSE "zero"]
    /\ UNCHANGED <<dent, nops, crashes, added>>

\* fat32_write_fat_entry(prev_cluster, new_cluster).
Link(t) ==
    /\ task[t].pc = "link"
    /\ fat' = [fat EXCEPT ![task[t].prev] = task[t].new]
    /\ task' = [task EXCEPT ![t].pc = "zero"]
    /\ UNCHANGED <<dent, nops, crashes, added>>

\* Mutant: the sector of prev_cluster zeroed instead of the new cluster's.
ZeroPrev(t) ==
    /\ task[t].pc = "zero"
    /\ LET z == IF task[t].prev # 0 THEN task[t].prev ELSE task[t].new IN
       dent' = IF z \in Cl THEN [dent EXCEPT ![z] = ZeroCluster] ELSE dent
    /\ task' = [task EXCEPT ![t].pc = task[t].ret]
    /\ UNCHANGED <<fat, nops, crashes, added>>

\* The memset of the cluster's sector (skipped when its bread fails); alloc
\* then returns new_cluster.
Zero(t) ==
    /\ task[t].pc = "zero"
    /\ dent' = IF task[t].new \in Cl THEN [dent EXCEPT ![task[t].new] = ZeroCluster]
              ELSE dent
    /\ task' = [task EXCEPT ![t].pc = task[t].ret]
    /\ UNCHANGED <<fat, nops, crashes, added>>

-----------------------------------------------------------------------------
(* fat32_add_entry(dir, name, cluster, size, is_dir): scan the directory's *)
(* clusters for a slot with name[0] == 0 (or 0xE5, which nothing here      *)
(* writes), write the entry there; at the end of the chain extend it with  *)
(* fat32_alloc_cluster(dir_cluster) and go on in the new cluster.          *)

CallAdd(s, d, e, r) ==
    [s EXCEPT !.pc = "ae_scan", !.cur = d, !.adir = d, !.ent = e, !.aret = r]

\* One bread of a directory cluster: write into its first free slot and
\* return 0, or go on to the FAT entry of the cluster.
AeScan(t) ==
    /\ task[t].pc = "ae_scan"
    /\ task[t].cur \in Cl
    /\ LET c == task[t].cur
           free == {j \in 1 .. EntriesPerCluster : dent[c][j].name = "0"}
       IN  IF free = {}
           THEN /\ task' = [task EXCEPT ![t].pc = "ae_next"]
                /\ UNCHANGED <<dent, added>>
           ELSE /\ dent' = [dent EXCEPT ![c][Min(free)] = task[t].ent]
                /\ added' = added \cup {<<task[t].adir, task[t].ent>>}
                /\ task' = [task EXCEPT ![t].aok = TRUE, ![t].pc = task[t].aret]
    /\ UNCHANGED <<fat, nops, crashes>>

\* The bread of a directory cluster off the device fails: add_entry
\* returns -1.
AeScanFail(t) ==
    /\ task[t].pc = "ae_scan"
    /\ task[t].cur \in Past
    /\ task' = [task EXCEPT ![t].aok = FALSE, ![t].pc = task[t].aret]
    /\ UNCHANGED <<fat, dent, nops, crashes, added>>

\* fat32_next_cluster(dir_cluster); at the end of the chain, alloc.
AeNext(t) ==
    /\ task[t].pc = "ae_next"
    /\ LET n == fat[task[t].cur] IN
       task' = [task EXCEPT ![t] =
                  IF n = EOC THEN CallAlloc(task[t], task[t].cur, "ae_ext")
                  ELSE [task[t] EXCEPT !.cur = n, !.pc = "ae_scan"]]
    /\ UNCHANGED <<fat, dent, nops, crashes, added>>

\* Back from fat32_alloc_cluster(dir_cluster): 0 makes add_entry return -1.
AeExt(t) ==
    /\ task[t].pc = "ae_ext"
    /\ task' = [task EXCEPT ![t] =
                  IF task[t].new = 0
                  THEN [task[t] EXCEPT !.aok = FALSE, !.pc = task[t].aret]
                  ELSE [task[t] EXCEPT !.cur = task[t].new, !.pc = "ae_scan"]]
    /\ UNCHANGED <<fat, dent, nops, crashes, added>>

-----------------------------------------------------------------------------
(* fat32_create, fat32_mknod, fat32_mkdir.                                 *)

\* vfs_open(O_CREAT) calls create after fat32_lookup missed the name.
StartCreate(t) ==
    /\ task[t].pc = "idle" /\ nops < MaxOps
    /\ \E d \in Dirs, n \in Names :
         /\ FatLookup(d, n) = FreeSlot
         /\ task' = [task EXCEPT ![t] = CallAlloc(
                 [Idle EXCEPT !.kind = "create", !.dir = d, !.name = n], 0, "cr_alloc")]
    /\ nops' = nops + 1
    /\ UNCHANGED <<fat, dent, crashes, added>>

\* vfs_mknod(S_IFREG) reaches fat32_mknod -> fat32_create without a lookup.
StartMknod(t) ==
    /\ task[t].pc = "idle" /\ nops < MaxOps
    /\ \E d \in Dirs, n \in Names :
         task' = [task EXCEPT ![t] = CallAlloc(
                 [Idle EXCEPT !.kind = "mknod", !.dir = d, !.name = n], 0, "cr_alloc")]
    /\ nops' = nops + 1
    /\ UNCHANGED <<fat, dent, crashes, added>>

\* vfs_mkdir calls fat32_mkdir without a lookup.
StartMkdir(t) ==
    /\ task[t].pc = "idle" /\ nops < MaxOps
    /\ \E d \in Dirs, n \in Names :
         task' = [task EXCEPT ![t] = CallAlloc(
                 [Idle EXCEPT !.kind = "mkdir", !.dir = d, !.name = n], 0, "mk_alloc")]
    /\ nops' = nops + 1
    /\ UNCHANGED <<fat, dent, crashes, added>>

\* create: alloc_cluster(0) returned; 0 fails, else add the file entry.
CrAlloc(t) ==
    /\ task[t].pc = "cr_alloc"
    /\ LET s == task[t] IN
       task' = [task EXCEPT ![t] =
                  IF s.new = 0 THEN Idle
                  ELSE CallAdd([s EXCEPT !.cl = s.new], s.dir,
                         [name |-> s.name, clus |-> s.new, size |-> 0, dir |-> FALSE],
                         "cr_added")]
    /\ UNCHANGED <<fat, dent, nops, crashes, added>>

\* create: add_entry returned; on failure fat32_free_cluster, else
\* fat32_get_inode and d_instantiate (memory only).
CrAdded(t) ==
    /\ task[t].pc = "cr_added"
    /\ fat' = IF task[t].aok THEN fat ELSE [fat EXCEPT ![task[t].cl] = 0]
    /\ task' = [task EXCEPT ![t] = Idle]
    /\ UNCHANGED <<dent, nops, crashes, added>>

\* mkdir: alloc_cluster(0) returned; 0 fails, else add the directory entry.
MkAlloc(t) ==
    /\ task[t].pc = "mk_alloc"
    /\ LET s == task[t] IN
       task' = [task EXCEPT ![t] =
                  IF s.new = 0 THEN Idle
                  ELSE CallAdd([s EXCEPT !.cl = s.new], s.dir,
                         [name |-> s.name, clus |-> s.new, size |-> 0, dir |-> TRUE],
                         "mk_added")]
    /\ UNCHANGED <<fat, dent, nops, crashes, added>>

\* mkdir: on failure free the cluster; else add "." to the new directory.
MkAdded(t) ==
    /\ task[t].pc = "mk_added"
    /\ LET s == task[t] IN
       /\ fat' = IF s.aok THEN fat ELSE [fat EXCEPT ![s.cl] = 0]
       /\ task' = [task EXCEPT ![t] =
                    IF ~s.aok THEN Idle
                    ELSE CallAdd(s, s.cl,
                           [name |-> ".", clus |-> s.cl, size |-> 0, dir |-> TRUE],
                           "mk_dot")]
    /\ UNCHANGED <<dent, nops, crashes, added>>

\* mkdir: add ".." (cluster 0 when the parent is the root), result ignored.
MkDot(t) ==
    /\ task[t].pc = "mk_dot"
    /\ LET s == task[t] IN
       task' = [task EXCEPT ![t] = CallAdd(s, s.cl,
                  [name |-> "..", clus |-> IF s.dir = Root THEN 0 ELSE s.dir,
                   size |-> 0, dir |-> TRUE], "mk_dotdot")]
    /\ UNCHANGED <<fat, dent, nops, crashes, added>>

\* mkdir: d_instantiate and return 0.
MkDotdot(t) ==
    /\ task[t].pc = "mk_dotdot"
    /\ task' = [task EXCEPT ![t] = Idle]
    /\ UNCHANGED <<fat, dent, nops, crashes, added>>

-----------------------------------------------------------------------------
(* fat32_write(file, buf, count, offset), sectors_per_cluster = 1: walk    *)
(* (extending) the chain to the cluster of *offset, then per cluster write *)
(* the data, raise i_size and the entry's size (fat32_update_inode_size),  *)
(* and extend the chain when more is left.                                 *)

\* Position of the first entry of directory d whose cluster is f: the slot
\* fat32_update_inode_size rewrites.
SizeSlot(d, f) ==
    LET hits == {i \in DOMAIN DirSlots(d) :
                   dent[DirSlots(d)[i][1]][DirSlots(d)[i][2]].clus = f}
    IN  IF hits = {} THEN <<>> ELSE DirSlots(d)[Min(hits)]

\* The inode's i_size: what fat32_lookup read from that entry.
FileSize(d, f) ==
    IF SizeSlot(d, f) = <<>> THEN 0
    ELSE dent[SizeSlot(d, f)[1]][SizeSlot(d, f)[2]].size

\* Where the write loop goes with target_pos = tp (before the next bread).
AtTarget(s, tp) ==
    [s EXCEPT !.target = tp, !.pc = IF tp >= ClusterBytes THEN "wr_skip" ELSE "wr_data"]

\* vfs_write on a file that fat32_lookup found in directory d (count > 0).
StartWrite(t) ==
    /\ task[t].pc = "idle" /\ nops < MaxOps
    /\ \E d \in Dirs, n \in Names, o \in Offsets, c \in Counts :
         LET e == FatLookup(d, n) IN
         /\ e.name = n /\ ~e.dir
         /\ task' = [task EXCEPT ![t] = AtTarget([Idle EXCEPT !.kind = "write",
                       !.dir = d, !.file = e.clus, !.cur = e.clus,
                       !.off = o, !.cnt = c], o)]
    /\ nops' = nops + 1
    /\ UNCHANGED <<fat, dent, crashes, added>>

\* One turn of the seek loop: follow the chain, or alloc at its end.
WrSkip(t) ==
    /\ task[t].pc = "wr_skip"
    /\ LET s == task[t]
           n == fat[s.cur]
       IN  task' = [task EXCEPT ![t] =
                      IF n = EOC THEN CallAlloc(s, s.cur, "wr_skipx")
                      ELSE AtTarget([s EXCEPT !.cur = n], s.target - ClusterBytes)]
    /\ UNCHANGED <<fat, dent, nops, crashes, added>>

\* Back from alloc in the seek loop: 0 makes fat32_write return -1.
WrSkipX(t) ==
    /\ task[t].pc = "wr_skipx"
    /\ LET s == task[t] IN
       task' = [task EXCEPT ![t] =
                  IF s.new = 0 THEN Idle
                  ELSE AtTarget([s EXCEPT !.cur = s.new], s.target - ClusterBytes)]
    /\ UNCHANGED <<fat, dent, nops, crashes, added>>

\* Mutant: the size raised to the end of the whole write on the first
\* cluster written, before the chain is extended for the rest.
WrDataWholeCount(t) ==
    /\ task[t].pc = "wr_data"
    /\ task[t].cur \in Cl
    /\ LET s   == task[t]
           tw  == Min({ClusterBytes - s.target, s.cnt - s.written})
           pos == s.off + s.cnt
           at  == SizeSlot(s.dir, s.file)
       IN  /\ dent' = IF pos > FileSize(s.dir, s.file) /\ at # <<>>
                      THEN [dent EXCEPT ![at[1]][at[2]].size = pos]
                      ELSE dent
           /\ task' = [task EXCEPT ![t] =
                        IF s.written + tw < s.cnt
                        THEN [s EXCEPT !.written = s.written + tw, !.target = 0,
                                       !.pc = "wr_next"]
                        ELSE Idle]
    /\ UNCHANGED <<fat, nops, crashes, added>>

\* Write one cluster's part of the data; if *offset passed i_size, raise it
\* and rewrite the size in the entry of the parent directory.
WrData(t) ==
    /\ task[t].pc = "wr_data"
    /\ task[t].cur \in Cl
    /\ LET s   == task[t]
           tw  == Min({ClusterBytes - s.target, s.cnt - s.written})
           pos == s.off + s.written + tw
           at  == SizeSlot(s.dir, s.file)
       IN  /\ dent' = IF pos > FileSize(s.dir, s.file) /\ at # <<>>
                      THEN [dent EXCEPT ![at[1]][at[2]].size = pos]
                      ELSE dent
           /\ task' = [task EXCEPT ![t] =
                        IF s.written + tw < s.cnt
                        THEN [s EXCEPT !.written = s.written + tw, !.target = 0,
                                       !.pc = "wr_next"]
                        ELSE Idle]
    /\ UNCHANGED <<fat, nops, crashes, added>>

\* The bread of a data cluster off the device fails: fat32_write returns
\* -1, with the clusters before it written and their size raised.
WrDataFail(t) ==
    /\ task[t].pc = "wr_data"
    /\ task[t].cur \in Past
    /\ task' = [task EXCEPT ![t] = Idle]
    /\ UNCHANGED <<fat, dent, nops, crashes, added>>

\* More to write: fat32_next_cluster, or alloc at the end of the chain.
WrNext(t) ==
    /\ task[t].pc = "wr_next"
    /\ LET s == task[t]
           n == fat[s.cur]
       IN  task' = [task EXCEPT ![t] =
                      IF n = EOC THEN CallAlloc(s, s.cur, "wr_nextx")
                      ELSE [s EXCEPT !.cur = n, !.pc = "wr_data"]]
    /\ UNCHANGED <<fat, dent, nops, crashes, added>>

\* Back from alloc in the data loop: 0 returns the bytes written so far.
WrNextX(t) ==
    /\ task[t].pc = "wr_nextx"
    /\ LET s == task[t] IN
       task' = [task EXCEPT ![t] =
                  IF s.new = 0 THEN Idle ELSE [s EXCEPT !.cur = s.new, !.pc = "wr_data"]]
    /\ UNCHANGED <<fat, dent, nops, crashes, added>>

-----------------------------------------------------------------------------
(* fat32_read.  `cnt` is count clamped to i_size - *offset, `skip` the    *)
(* clusters still to skip, `target` the offset in the current cluster and *)
(* `written` the bytes copied so far.  The return value is left in        *)
(* `written` of the idle task, with kind "read" and the clamped count.    *)

Returned(s, r) == [Idle EXCEPT !.kind = "read", !.cnt = s.cnt, !.written = r]

\* Mutant: skip_clusters rounded up, (*offset + cluster_size - 1) / size.
StartReadSkipUp(t) ==
    /\ task[t].pc = "idle" /\ nops < MaxOps
    /\ \E d \in Dirs, n \in Names, o \in Offsets, c \in Counts :
         LET e == FatLookup(d, n)
             s == [Idle EXCEPT !.kind = "read", !.dir = d, !.file = e.clus,
                     !.cur = e.clus, !.off = o, !.cnt = Min({c, e.size - o}),
                     !.skip = (o + ClusterBytes - 1) \div ClusterBytes,
                     !.target = o % ClusterBytes]
         IN  /\ e.name = n /\ ~e.dir
             /\ task' = [task EXCEPT ![t] =
                          IF o >= e.size THEN Returned([s EXCEPT !.cnt = 0], 0)
                          ELSE [s EXCEPT !.pc = IF s.skip > 0 THEN "rd_skip" ELSE "rd_data"]]
    /\ nops' = nops + 1
    /\ UNCHANGED <<fat, dent, crashes, added>>

\* vfs_read on a file that fat32_lookup found in directory d; i_size is
\* the size of that entry.  Nothing to read returns 0 at once.
StartRead(t) ==
    /\ task[t].pc = "idle" /\ nops < MaxOps
    /\ \E d \in Dirs, n \in Names, o \in Offsets, c \in Counts :
         LET e == FatLookup(d, n)
             s == [Idle EXCEPT !.kind = "read", !.dir = d, !.file = e.clus,
                     !.cur = e.clus, !.off = o, !.cnt = Min({c, e.size - o}),
                     !.skip = o \div ClusterBytes, !.target = o % ClusterBytes]
         IN  /\ e.name = n /\ ~e.dir
             /\ task' = [task EXCEPT ![t] =
                          IF o >= e.size THEN Returned([s EXCEPT !.cnt = 0], 0)
                          ELSE [s EXCEPT !.pc = IF s.skip > 0 THEN "rd_skip" ELSE "rd_data"]]
    /\ nops' = nops + 1
    /\ UNCHANGED <<fat, dent, crashes, added>>

\* One turn of the skip loop: a chain end returns 0.
RdSkip(t) ==
    /\ task[t].pc = "rd_skip"
    /\ LET s == task[t]
           n == fat[s.cur]
       IN  task' = [task EXCEPT ![t] =
                      IF n = EOC THEN Returned(s, 0)
                      ELSE [s EXCEPT !.cur = n, !.skip = s.skip - 1,
                                     !.pc = IF s.skip > 1 THEN "rd_skip" ELSE "rd_data"]]
    /\ UNCHANGED <<fat, dent, nops, crashes, added>>

\* Copy this cluster's part of the data (bread + memcpy), then go on to
\* fat32_next_cluster; a bread off the device returns -1.
RdData(t) ==
    /\ task[t].pc = "rd_data"
    /\ LET s  == task[t]
           tw == Min({ClusterBytes - s.target, s.cnt - s.written})
       IN  task' = [task EXCEPT ![t] =
                      IF s.cur = EOC THEN Returned(s, s.written)
                      ELSE IF s.cur \in Past THEN Returned(s, -1)
                      ELSE [s EXCEPT !.written = s.written + tw, !.target = 0,
                                     !.pc = "rd_next"]]
    /\ UNCHANGED <<fat, dent, nops, crashes, added>>

\* fat32_next_cluster, then the loop test: all read returns the count.
RdNext(t) ==
    /\ task[t].pc = "rd_next"
    /\ LET s == task[t] IN
       task' = [task EXCEPT ![t] =
                  IF s.written >= s.cnt THEN Returned(s, s.written)
                  ELSE [s EXCEPT !.cur = fat[s.cur], !.pc = "rd_data"]]
    /\ UNCHANGED <<fat, dent, nops, crashes, added>>

-----------------------------------------------------------------------------
(* Crash and remount: every synced write is on the disk; the tasks, their  *)
(* locals, inodes and dentries are gone.  fat32_mount reads the boot       *)
(* sector again and builds the root inode from root_cluster.               *)

Crash ==
    /\ crashes < MaxCrashes
    /\ crashes' = crashes + 1
    /\ task' = [t \in Tasks |-> Idle]
    /\ UNCHANGED <<fat, dent, nops, added>>

\* A freshly formatted image: the root directory is one empty cluster.
Init ==
    /\ fat = [c \in Clusters |-> IF c = Root THEN EOC ELSE 0]
    /\ dent = [c \in Cl |-> ZeroCluster]
    /\ task = [t \in Tasks |-> Idle]
    /\ nops = 0
    /\ crashes = 0
    /\ added = {}

Step(t) ==
    \/ StartCreate(t) \/ StartMknod(t) \/ StartMkdir(t) \/ StartWrite(t)
    \/ Find(t) \/ Eoc(t) \/ Link(t) \/ Zero(t)
    \/ AeScan(t) \/ AeScanFail(t) \/ AeNext(t) \/ AeExt(t)
    \/ CrAlloc(t) \/ CrAdded(t) \/ MkAlloc(t) \/ MkAdded(t) \/ MkDot(t) \/ MkDotdot(t)
    \/ WrSkip(t) \/ WrSkipX(t) \/ WrData(t) \/ WrDataFail(t) \/ WrNext(t) \/ WrNextX(t)
    \/ StartRead(t) \/ RdSkip(t) \/ RdData(t) \/ RdNext(t)

Next == (\E t \in Tasks : Step(t)) \/ Crash

Spec == Init /\ [][Next]_vars

-----------------------------------------------------------------------------
(* Properties.                                                             *)

TypeOK ==
    /\ fat \in [Clusters -> Clusters \cup {0, EOC}]
    /\ dent \in [Cl -> [1 .. EntriesPerCluster -> Slot]]
    /\ \A t \in Tasks : task[t].pc \in {"idle", "find", "eoc", "link", "zero",
          "ae_scan", "ae_next", "ae_ext", "cr_alloc", "cr_added", "mk_alloc",
          "mk_added", "mk_dot", "mk_dotdot", "wr_skip", "wr_skipx", "wr_data",
          "wr_next", "wr_nextx", "rd_skip", "rd_data", "rd_next"}
    /\ \A t \in Tasks : task[t].new \in Clusters \cup {0}
    /\ nops \in 0 .. MaxOps /\ crashes \in 0 .. MaxCrashes

\* The owners of cluster chains: the root directory, and every file or
\* directory entry (not "." or "..") that a path walk can reach, by slot.
Owners ==
    {[at |-> <<0, 0>>, clus |-> Root]} \cup
    UNION {{[at |-> p, clus |-> dent[p[1]][p[2]].clus] :
              p \in {q \in Range(DirSlots(d)) : dent[q[1]][q[2]].name \in Names}}
           : d \in Dirs}

ChainEnds(c) == Len(Chain(c)) > 0 /\ fat[Chain(c)[Len(Chain(c))]] = EOC

\* The FAT as fat32_alloc_cluster, fat32_add_entry, create, mkdir and
\* write leave it, across crashes: every reachable file or directory has a
\* chain that ends in EOC (no free cluster, no cycle), and no two of them
\* share a cluster (no cross-linked files).
FatChainsSound ==
    /\ \A o \in Owners : ChainEnds(o.clus)
    /\ \A o1, o2 \in Owners :
         o1.at # o2.at => Range(Chain(o1.clus)) \cap Range(Chain(o2.clus)) = {}

\* fat32_write extends the chain before it raises the size on disk: the
\* size of every reachable file entry fits in the clusters of its chain.
SizeWithinChain ==
    \A o \in Owners :
       o.at # <<0, 0>> /\ ~dent[o.at[1]][o.at[2]].dir =>
          dent[o.at[1]][o.at[2]].size <= ClusterBytes * Len(Chain(o.clus))

\* An entry fat32_add_entry reported written (synced) stays in its
\* directory: no later add_entry, alloc zeroing or crash loses it.
EntriesDurable ==
    \A a \in added : \E e \in Entries(a[1]) :
       e.name = a[2].name /\ e.clus = a[2].clus /\ e.dir = a[2].dir


\* fat32_read clamps count to i_size - *offset, skips *offset / cluster
\* clusters and copies cluster by cluster: since fat32_write extends the
\* chain before it raises the size, a read that returns gives back the
\* whole clamped count, never a short read from a chain that ends early.
ReadReturnsAll ==
    \A t \in Tasks : task[t].pc = "idle" /\ task[t].kind = "read" =>
        task[t].written = task[t].cnt

\* fat32_alloc_cluster hands out clusters of the data area only: every
\* cluster in the chain of a reachable file or directory has its sectors
\* on the device (fat32_find_free_cluster's bound, max_cluster, is past
\* the data area, so this fails once the data area is full).
ChainsOnDevice ==
    \A o \in Owners : Range(Chain(o.clus)) \subseteq Cl
=============================================================================
