--------------------------- MODULE NamespaceFiles ---------------------------
(***************************************************************************)
(* The name space of Namespace composed with what vfs_open hands back: a  *)
(* struct file in the process's fd table, and vfs_read / vfs_write /      *)
(* vfs_lseek / vfs_close on it, which for a ramfs regular file go to       *)
(* ramfs_read and ramfs_write on the inode's ramfs_inode_info (a kmalloc'd *)
(* byte buffer `data` of `capacity` bytes) and i_size.                     *)
(*                                                                         *)
(* One process, as in Namespace; each call runs to completion.  Bytes are *)
(* small integers: 0 is a zeroed byte, Junk whatever a fresh kmalloc      *)
(* block held (never a byte a caller wrote), and Vals the bytes written.  *)
(* Quantum stands for ramfs_write's 4096-byte rounding.                    *)
(***************************************************************************)
EXTENDS Namespace

CONSTANTS
    MAX_FILES,  \* fd_table slots of the process
    Quantum,    \* the capacity rounding of ramfs_write (4096 in the code)
    MaxPos,     \* bound: file positions and sizes stay below MaxPos + 1
    Vals,       \* byte values callers write (positive integers)
    Counts,     \* count arguments of read and write
    Seeks,      \* <<whence, offset>> arguments of lseek
    MaxIO       \* bound: read, write, lseek and close calls

Junk == -1
Pos == 0 .. MaxPos - 1
Fds == 0 .. MAX_FILES - 1
NoFile == [ino |-> 0, dent |-> 0, pos |-> 0]

VARIABLES
    fd_table,   \* fd -> [ino, dent, pos] of its struct file (f_dentry's
                \* inode, f_dentry, f_pos), or NoFile
    data,       \* inode -> its buffer (positions below capacity count)
    capacity,   \* inode -> ramfs_inode_info.capacity (0: data == NULL)
    i_size,     \* inode -> inode->i_size
    nio,        \* I/O calls so far
    wrote,      \* history: inode -> position -> last byte written, 0 if none
    lastRead,   \* history: the last read: the bytes it returned, and what
                \* `wrote` held at those positions when it ran
    listing     \* history: fd -> the directory listing since open or a seek
                \* to 0: [at: the children then, seen: the dentries readdir
                \* returned, done: readdir returned 0]

NoRead == [bytes |-> <<>>, want |-> <<>>]
NoListing == [at |-> {}, seen |-> {}, done |-> FALSE]
fileVars == <<fd_table, data, capacity, i_size, nio, wrote, lastRead, listing>>

\* The dentries on d's d_subdirs.
Children(S, d) == {S.subdirs[d][k] : k \in 1 .. Len(S.subdirs[d])}

(* ramfs_write's new capacity: (offset + count + 4095) & ~4095.           *)
RoundUp(n) == ((n + Quantum - 1) \div Quantum) * Quantum

IO == nio < MaxIO /\ nio' = nio + 1

-----------------------------------------------------------------------------
(***************************************************************************)
(* vfs_open: -1 at once when all MAX_FILES slots are taken; otherwise the *)
(* name-space part (Namespace's Open), then the checks on the dentry it   *)
(* ended at: an existing name with O_CREAT|O_EXCL fails, and a directory  *)
(* fails without O_DIRECTORY (odir).  Then the struct                    *)
(* file (kmalloc, may fail) goes into the lowest free slot with f_pos 0.  *)
(***************************************************************************)
FileOpen(path, creat, excl, odir) ==
    LET free == {fd \in Fds : fd_table[fd] = NoFile}
        before == PathWalk(ns, path)
        existed == before.ok /\ before.s.inode[before.d] # 0
    IN
    IF free = {}
    THEN /\ Call(ns) /\ justMade' = <<>> /\ UNCHANGED cwd
         /\ UNCHANGED fileVars
    ELSE /\ Open(path, creat, excl)
         /\ LET w == PathWalk(ns', path)
                i == ns'.inode[w.d]
                ok == w.ok /\ i # 0 /\ (IsDir(ns', i) => odir) /\ ~(creat /\ excl /\ existed)
            IN \/ /\ ok
                  /\ fd_table' = [fd_table EXCEPT ![Min(free)] = [ino |-> i, dent |-> w.d, pos |-> 0]]
                  /\ listing' = [listing EXCEPT ![Min(free)] =
                                    [NoListing EXCEPT !.at = Children(ns', w.d)]]
               \/ UNCHANGED <<fd_table, listing>>  \* -1: refused, or kmalloc failed
         /\ UNCHANGED <<data, capacity, i_size, nio, wrote, lastRead>>

\* A regular ramfs file open on fd: its reads and writes reach ramfs.
RegFile(fd) == fd_table[fd] # NoFile /\ ns.imode[fd_table[fd].ino] = "reg"

\* Seeded fault: the regrowth copying count bytes of the old buffer
\* instead of i_size.
RamfsWriteCopyCount(fd, c, v) ==
    LET f == fd_table[fd]
        i == f.ino
        end == f.pos + c
        grow == end > capacity[i]
        old == data[i]
        fresh == [p \in Pos |-> IF capacity[i] = 0 THEN 0
                               ELSE IF p < c THEN old[p] ELSE Junk]
        buf == IF grow THEN fresh ELSE old
    IN /\ end <= MaxPos
       /\ \/ /\ grow
             /\ UNCHANGED <<data, capacity, i_size, fd_table, wrote>>
          \/ /\ data' = [data EXCEPT ![i] = [p \in Pos |->
                            IF f.pos <= p /\ p < end THEN v ELSE buf[p]]]
             /\ capacity' = [capacity EXCEPT ![i] = IF grow THEN RoundUp(end) ELSE @]
             /\ fd_table' = [fd_table EXCEPT ![fd].pos = end]
             /\ i_size' = [i_size EXCEPT ![i] = IF end > @ THEN end ELSE @]
             /\ wrote' = [wrote EXCEPT ![i] = [p \in Pos |->
                            IF f.pos <= p /\ p < end THEN v ELSE @[p]]]

(***************************************************************************)
(* ramfs_write(count bytes of value v at f_pos): when *offset + count     *)
(* passes the capacity, kmalloc the rounded-up size (-1 if that fails),   *)
(* copy i_size bytes of the old buffer and kfree it, or memset the new    *)
(* one to 0 when there was none; then copy the bytes in, advance f_pos    *)
(* and raise i_size to it.                                                 *)
(***************************************************************************)
RamfsWrite(fd, c, v) ==
    LET f == fd_table[fd]
        i == f.ino
        end == f.pos + c
        grow == end > capacity[i]
        old == data[i]
        fresh == [p \in Pos |-> IF capacity[i] = 0 THEN 0
                               ELSE IF p < i_size[i] THEN old[p] ELSE Junk]
        buf == IF grow THEN fresh ELSE old
    IN /\ end <= MaxPos
       /\ \/ /\ grow
             /\ UNCHANGED <<data, capacity, i_size, fd_table, wrote>>
          \/ /\ data' = [data EXCEPT ![i] = [p \in Pos |->
                            IF f.pos <= p /\ p < end THEN v ELSE buf[p]]]
             /\ capacity' = [capacity EXCEPT ![i] = IF grow THEN RoundUp(end) ELSE @]
             /\ fd_table' = [fd_table EXCEPT ![fd].pos = end]
             /\ i_size' = [i_size EXCEPT ![i] = IF end > @ THEN end ELSE @]
             /\ wrote' = [wrote EXCEPT ![i] = [p \in Pos |->
                            IF f.pos <= p /\ p < end THEN v ELSE @[p]]]

(* vfs_write on a regular file.                                             *)
Write(fd, c, v) ==
    /\ IO /\ RegFile(fd)
    /\ RamfsWrite(fd, c, v)
    /\ UNCHANGED <<ns, cwd, nops, justMade, lastRead, listing>>

(***************************************************************************)
(* ramfs_read: 0 at or past i_size; else count clamped to i_size - f_pos, *)
(* the bytes copied out and f_pos advanced.                                *)
(***************************************************************************)
Read(fd, c) ==
    LET f == fd_table[fd]
        i == f.ino
        n == IF f.pos >= i_size[i] THEN 0
             ELSE IF f.pos + c > i_size[i] THEN i_size[i] - f.pos ELSE c
    IN /\ IO /\ RegFile(fd)
       /\ lastRead' = [bytes |-> [k \in 1 .. n |-> data[i][f.pos + k - 1]],
                       want  |-> [k \in 1 .. n |-> wrote[i][f.pos + k - 1]]]
       /\ fd_table' = [fd_table EXCEPT ![fd].pos = f.pos + n]
       /\ UNCHANGED <<ns, cwd, nops, justMade, data, capacity, i_size, wrote, listing>>

(***************************************************************************)
(* vfs_lseek: SEEK_SET, SEEK_CUR or SEEK_END (from i_size); a negative    *)
(* result is -1 and leaves f_pos; ramfs has no llseek.  Positions past    *)
(* MaxPos are not explored.  A seek to 0 starts a new listing; any other  *)
(* moves the readdir cursor where no listing is promised.                  *)
(***************************************************************************)
Lseek(fd, off, whence) ==
    LET f == fd_table[fd]
        np == CASE whence = "SET" -> off
                [] whence = "CUR" -> f.pos + off
                [] whence = "END" -> i_size[f.ino] + off
    IN /\ IO /\ fd_table[fd] # NoFile
       /\ np <= MaxPos
       /\ fd_table' = IF np < 0 THEN fd_table ELSE [fd_table EXCEPT ![fd].pos = np]
       /\ listing' = CASE np = 0 -> [listing EXCEPT ![fd] =
                                       [NoListing EXCEPT !.at = Children(ns, f.dent)]]
                     [] np > 0 -> [listing EXCEPT ![fd] = NoListing]
                     [] OTHER -> listing
       /\ UNCHANGED <<ns, cwd, nops, justMade, data, capacity, i_size, wrote, lastRead>>

(* vfs_close: clear the slot; ramfs has no release; f_count 1 -> kfree.   *)
Close(fd) ==
    /\ IO /\ fd_table[fd] # NoFile
    /\ fd_table' = [fd_table EXCEPT ![fd] = NoFile]
    /\ listing' = [listing EXCEPT ![fd] = NoListing]
    /\ UNCHANGED <<ns, cwd, nops, justMade, data, capacity, i_size, wrote, lastRead>>

\* Seeded fault: the child scan starting its index at 1, one child late.
ReaddirSkipFirst(fd) ==
    LET f == fd_table[fd]
        kids == ns.subdirs[f.dent]
        k == f.pos - 2
    IN /\ IO /\ f # NoFile /\ IsDir(ns, f.ino)
       /\ \/ /\ f.pos < 2
             /\ fd_table' = [fd_table EXCEPT ![fd].pos = @ + 1]
             /\ UNCHANGED listing
          \/ /\ f.pos >= 2 /\ k + 2 <= Len(kids)
             /\ fd_table' = [fd_table EXCEPT ![fd].pos = @ + 1]
             /\ listing' = [listing EXCEPT ![fd].seen = @ \cup {kids[k + 2]}]
          \/ /\ f.pos >= 2 /\ k + 2 > Len(kids)
             /\ listing' = [listing EXCEPT ![fd].done = TRUE]
             /\ UNCHANGED fd_table
       /\ UNCHANGED <<ns, cwd, nops, justMade, data, capacity, i_size, wrote, lastRead>>

(***************************************************************************)
(* vfs_readdir (-1 unless the file's inode is a directory) into           *)
(* ramfs_readdir: "." at f_pos 0 and ".." at 1; from 2 on, the child at   *)
(* index f_pos of d_subdirs counted from 2, negative dentries included,   *)
(* under d_lock; f_pos advances by one per entry; 0 at the end.           *)
(***************************************************************************)
Readdir(fd) ==
    LET f == fd_table[fd]
        kids == ns.subdirs[f.dent]
        k == f.pos - 2
    IN /\ IO /\ f # NoFile /\ IsDir(ns, f.ino)
       /\ \/ /\ f.pos < 2
             /\ fd_table' = [fd_table EXCEPT ![fd].pos = @ + 1]
             /\ UNCHANGED listing
          \/ /\ f.pos >= 2 /\ k + 1 <= Len(kids)
             /\ fd_table' = [fd_table EXCEPT ![fd].pos = @ + 1]
             /\ listing' = [listing EXCEPT ![fd].seen = @ \cup {kids[k + 1]}]
          \/ /\ f.pos >= 2 /\ k + 1 > Len(kids)
             /\ listing' = [listing EXCEPT ![fd].done = TRUE]
             /\ UNCHANGED fd_table
       /\ UNCHANGED <<ns, cwd, nops, justMade, data, capacity, i_size, wrote, lastRead>>

(* Boot as in Namespace; no file open, every inode's info zeroed.          *)
FInit ==
    /\ Init
    /\ fd_table = [fd \in Fds |-> NoFile]
    /\ data = [i \in INos |-> [p \in Pos |-> 0]]
    /\ capacity = [i \in INos |-> 0]
    /\ i_size = [i \in INos |-> 0]
    /\ nio = 0
    /\ wrote = [i \in INos |-> [p \in Pos |-> 0]]
    /\ lastRead = NoRead
    /\ listing = [fd \in Fds |-> NoListing]

FNext ==
    \/ /\ \E p \in Paths :
            \/ Stat(p) \/ Chdir(p) \/ Mkdir(p) \/ Mknod(p) \/ Unlink(p) \/ Rmdir(p)
            \/ \E q \in Paths : Rename(p, q)
       /\ UNCHANGED fileVars
    \/ \E p \in Paths, creat, excl, odir \in BOOLEAN : FileOpen(p, creat, excl, odir)
    \/ \E fd \in Fds :
        \/ \E c \in Counts, v \in Vals : Write(fd, c, v)
        \/ \E c \in Counts : Read(fd, c)
        \/ \E sk \in Seeks : Lseek(fd, sk[2], sk[1])
        \/ Close(fd)
        \/ Readdir(fd)

FSpec == FInit /\ [][FNext]_<<vars, fileVars>>

-----------------------------------------------------------------------------
FTypeOK ==
    /\ TypeOK
    /\ \A fd \in Fds : fd_table[fd] = NoFile \/
          (/\ fd_table[fd].ino \in ns.ialive /\ fd_table[fd].pos \in 0 .. MaxPos + 2 + MaxDentries
           /\ fd_table[fd].dent \in ns.alive /\ ns.inode[fd_table[fd].dent] = fd_table[fd].ino)
    /\ capacity \in [INos -> 0 .. RoundUp(MaxPos)]
    /\ i_size \in [INos -> 0 .. MaxPos]
    /\ nio \in 0 .. MaxIO

(***************************************************************************)
(* spec 6, round trip: open; write(fd, B); ...; read == B.  Every byte a  *)
(* read returns at a position some write covered is the byte last written *)
(* there, whatever lseeks, reopenings and buffer regrowths came between:  *)
(* ramfs_write's regrowth must carry over every written byte, and i_size, *)
(* which bounds that copy, must never shrink.                              *)
(***************************************************************************)
ReadReturnsWrites ==
    \A k \in DOMAIN lastRead.bytes :
        lastRead.want[k] # 0 => lastRead.bytes[k] = lastRead.want[k]

(***************************************************************************)
(* A position below i_size that no write covered (a hole left by lseek   *)
(* past the end) reads as 0.  ramfs_write zeroes a first buffer but leaves *)
(* the tail of a regrown one as kmalloc returned it.                       *)
(***************************************************************************)
HolesReadZero ==
    \A k \in DOMAIN lastRead.bytes :
        lastRead.want[k] = 0 => lastRead.bytes[k] = 0
(***************************************************************************)
(* A listing (readdir from f_pos 0 until it returns 0) names every child  *)
(* the directory had when it started, whatever stats, creates and mkdirs  *)
(* ran between the calls.  ramfs_readdir's cursor is an index into        *)
(* d_subdirs, where alloc_dentry links new dentries at the head: each one *)
(* shifts the children already listed back under the cursor, so entries   *)
(* may repeat, and none may be skipped as long as nothing leaves the list. *)
(***************************************************************************)
ReaddirComplete ==
    \A fd \in Fds : listing[fd].done => listing[fd].at \subseteq listing[fd].seen

(***************************************************************************)
(* readdir returns only names that exist: every child a listing returned  *)
(* has an inode.  ramfs_readdir walks d_subdirs, where path_walk leaves   *)
(* the negative dentries of names it looked up and did not find.          *)
(***************************************************************************)
ReaddirPositive ==
    \A fd \in Fds : \A d \in listing[fd].seen : ns.inode[d] # 0
====
