------------------------------- MODULE PipeFd -------------------------------
(***************************************************************************)
(* Pipes (ipc/pipe.c) as processes reach them through their descriptor    *)
(* tables (fs/vfs.c: vfs_read, vfs_write, vfs_dup, vfs_close), together   *)
(* with the two process operations that touch descriptor tables:          *)
(* process_fork copies the table and process_exit closes it.              *)
(*                                                                         *)
(* One CPU.  A pipe's spinlock disables interrupts, so each locked region *)
(* is one atomic step; between those steps the timer may preempt the      *)
(* running process, so the steps of all READY processes interleave.       *)
(* The wait queues (sleep_on, wake_up) are not under src/ and follow the  *)
(* spec (section 5): sleep_on makes the caller BLOCKED on the queue and    *)
(* schedules; wake_up makes the BLOCKED tasks on it READY.                 *)
(*                                                                         *)
(* Bytes are abstracted to sequence numbers: the k-th byte written into a *)
(* pipe carries k, so what readers get shows loss, duplication and order. *)
(* A pipe and its two files are fresh kmalloc objects; kfree marks them   *)
(* freed and their memory keeps its contents (no later allocation reuses  *)
(* it in these bounds).                                                    *)
(***************************************************************************)
EXTENDS Naturals, Integers, FiniteSets, FiniteSetsExt, Sequences

CONSTANTS
    NProc,      \* pids 0 .. NProc-1; pid 0 exists at boot
    MAX_FILES,  \* descriptor slots per process
    PIPE_SIZE,  \* ring size
    MaxPipes,   \* pipes created in one behaviour
    MaxReq,     \* largest size passed to read/write
    MaxBytes,   \* bytes written into one pipe in one behaviour
    MaxDups     \* vfs_dup calls in one behaviour

ASSUME /\ NProc \in Nat \ {0} /\ MAX_FILES \in Nat \ {0}
       /\ PIPE_SIZE \in Nat \ {0} /\ MaxPipes \in Nat \ {0}
       /\ MaxReq \in Nat \ {0} /\ MaxBytes \in Nat /\ MaxDups \in Nat

VARIABLES
    procs, next_pid, parent, pstate, pc, op,
    fd_table,       \* fd_table[t][i]: a file or NULL
    f_count,
    files_live,     \* allocated and not kfree'd files
    npipes,         \* pipes created so far
    ndups,          \* vfs_dup calls so far (vfs_dup raises f_count but not
                    \* readers/writers, so dup and close lower them without end)
    buf, read_pos, write_pos, bytes_available, readers, writers,
    read_wait, write_wait,
    pipes_live,     \* allocated and not kfree'd pipes
    panicked,       \* a fault in kernel mode stopped the machine
    sent,           \* sent[p]: bytes written into p so far
    got             \* got[p]: the bytes read from p, in order

vars == <<procs, next_pid, parent, pstate, pc, op, fd_table, f_count,
          files_live, npipes, ndups, buf, read_pos, write_pos, bytes_available,
          readers, writers, read_wait, write_wait, pipes_live, panicked,
          sent, got>>
pipeVars == <<buf, read_pos, write_pos, bytes_available, readers, writers,
              read_wait, write_wait, pipes_live>>

Pids == 0 .. NProc - 1
Fds == 0 .. MAX_FILES - 1
Pipes == 0 .. MaxPipes - 1
\* pipe_create's r_file (O_RDONLY) and w_file (O_WRONLY) of pipe p
Files == Pipes \X {"O_RDONLY", "O_WRONLY"}
NULL == <<>>
PipeOf(f) == f[1]
Mode(f) == f[2]
Ring == 0 .. PIPE_SIZE - 1

\* The free descriptor slots of t, lowest first as the code scans them.
FreeFds(t) == {i \in Fds : fd_table[t][i] = NULL}
LowestFree(t) == Min(FreeFds(t))

(***************************************************************************)
(* Wait queues, from the spec: sleep_on(q) by t, and wake_up(q).           *)
(***************************************************************************)
Woken(q, st) == [u \in Pids |-> IF u \in q /\ st[u] = "BLOCKED" THEN "READY" ELSE st[u]]

(***************************************************************************)
(* pipe_create by t: a pipe with one reader and one writer, two files     *)
(* with f_count 1, installed in the two lowest free slots.  With fewer    *)
(* than two free slots it returns -1 and leaves the pipe and both files   *)
(* allocated and unreachable.                                              *)
(***************************************************************************)
PipeCreate(t) ==
    LET p == npipes
        rf == <<p, "O_RDONLY">>
        wf == <<p, "O_WRONLY">>
    IN
    /\ pc[t] = "user"
    /\ npipes < MaxPipes
    /\ npipes' = npipes + 1
    /\ readers' = [readers EXCEPT ![p] = 1]
    /\ writers' = [writers EXCEPT ![p] = 1]
    /\ pipes_live' = pipes_live \cup {p}
    /\ files_live' = files_live \cup {rf, wf}
    /\ f_count' = [f_count EXCEPT ![rf] = 1, ![wf] = 1]
    /\ IF Cardinality(FreeFds(t)) >= 2
       THEN LET fd0 == LowestFree(t)
                fd1 == Min(FreeFds(t) \ {fd0})
            IN fd_table' = [fd_table EXCEPT ![t][fd0] = rf, ![t][fd1] = wf]
       ELSE UNCHANGED fd_table
    /\ UNCHANGED <<procs, next_pid, parent, pstate, pc, op, ndups, buf, read_pos,
                   write_pos, bytes_available, read_wait, write_wait,
                   panicked, sent, got>>

(***************************************************************************)
(* vfs_read(fd, n) on a read end enters pipe_read (a write end returns -1 *)
(* at once, an empty slot too: no state changes).                          *)
(***************************************************************************)
Read(t, fd, n) ==
    LET f == fd_table[t][fd] IN
    /\ pc[t] = "user"
    /\ f # NULL /\ Mode(f) = "O_RDONLY"
    /\ pc' = [pc EXCEPT ![t] = "rd"]
    /\ op' = [op EXCEPT ![t] = [file |-> f, n |-> n, done |-> 0]]
    /\ UNCHANGED <<procs, next_pid, parent, pstate, fd_table, f_count,
                   files_live, npipes, ndups, panicked, sent, got>>
    /\ UNCHANGED pipeVars

\* Seeded fault: the byte taken without `p->bytes_available--`.
ReadByteKeepCount(t) ==
    LET p == PipeOf(op[t].file)
        done == op[t].done
    IN
    /\ got' = [got EXCEPT ![p] = Append(@, buf[p][read_pos[p]])]
    /\ read_pos' = [read_pos EXCEPT ![p] = (@ + 1) % PIPE_SIZE]
    /\ pstate' = Woken(write_wait[p], pstate)
    /\ write_wait' = [write_wait EXCEPT ![p] = {}]
    /\ op' = [op EXCEPT ![t].done = done + 1]
    /\ pc' = [pc EXCEPT ![t] = IF done + 1 = op[t].n THEN "user" ELSE "rd"]
    /\ UNCHANGED bytes_available

(* pipe_read with a byte available: take it, advance read_pos, wake the   *)
(* writers, release the lock; return once `size` bytes are read.          *)
ReadByte(t) ==
    LET p == PipeOf(op[t].file)
        done == op[t].done
    IN
    /\ got' = [got EXCEPT ![p] = Append(@, buf[p][read_pos[p]])]
    /\ read_pos' = [read_pos EXCEPT ![p] = (@ + 1) % PIPE_SIZE]
    /\ bytes_available' = [bytes_available EXCEPT ![p] = @ - 1]
    /\ pstate' = Woken(write_wait[p], pstate)
    /\ write_wait' = [write_wait EXCEPT ![p] = {}]
    /\ op' = [op EXCEPT ![t].done = done + 1]
    /\ pc' = [pc EXCEPT ![t] = IF done + 1 = op[t].n THEN "user" ELSE "rd"]

(***************************************************************************)
(* One locked pass of pipe_read's loop: with the pipe empty, return what  *)
(* was read if there is no writer, else release the lock to sleep; with   *)
(* data, take one byte.                                                    *)
(***************************************************************************)
ReadStep(t) ==
    LET p == PipeOf(op[t].file) IN
    /\ pc[t] = "rd"
    /\ \/ /\ bytes_available[p] = 0 /\ writers[p] = 0
          /\ pc' = [pc EXCEPT ![t] = "user"]
          /\ UNCHANGED <<op, pstate, got, read_pos, bytes_available, write_wait>>
       \/ /\ bytes_available[p] = 0 /\ writers[p] # 0
          /\ pc' = [pc EXCEPT ![t] = "rd_sleep"]
          /\ UNCHANGED <<op, pstate, got, read_pos, bytes_available, write_wait>>
       \/ /\ bytes_available[p] > 0
          /\ ReadByte(t)
    /\ UNCHANGED <<procs, next_pid, parent, fd_table, f_count, files_live,
                   npipes, ndups, buf, write_pos, readers, writers, read_wait,
                   pipes_live, panicked, sent>>

(* sleep_on(&p->read_wait), reached with the lock already released.       *)
ReadSleep(t) ==
    LET p == PipeOf(op[t].file) IN
    /\ pc[t] = "rd_sleep"
    /\ pstate' = [pstate EXCEPT ![t] = "BLOCKED"]
    /\ read_wait' = [read_wait EXCEPT ![p] = @ \cup {t}]
    /\ pc' = [pc EXCEPT ![t] = "rd"]
    /\ UNCHANGED <<procs, next_pid, parent, op, fd_table, f_count, files_live,
                   npipes, ndups, buf, read_pos, write_pos, bytes_available, readers,
                   writers, write_wait, pipes_live, panicked, sent, got>>

\* Bytes the writers inside pipe_write still have to put into pipe p.
Pending(p) ==
    MapThenSumSet(LAMBDA u : IF pc[u] \in {"wr", "wr_sleep"} /\ PipeOf(op[u].file) = p
                             THEN op[u].n - op[u].done ELSE 0, Pids)

(* vfs_write(fd, n) on a write end enters pipe_write.  (The bound keeps   *)
(* the bytes ever written into a pipe within MaxBytes.)                   *)
Write(t, fd, n) ==
    LET f == fd_table[t][fd] IN
    /\ pc[t] = "user"
    /\ f # NULL /\ Mode(f) = "O_WRONLY"
    /\ sent[PipeOf(f)] + Pending(PipeOf(f)) + n <= MaxBytes
    /\ pc' = [pc EXCEPT ![t] = "wr"]
    /\ op' = [op EXCEPT ![t] = [file |-> f, n |-> n, done |-> 0]]
    /\ UNCHANGED <<procs, next_pid, parent, pstate, fd_table, f_count,
                   files_live, npipes, ndups, panicked, sent, got>>
    /\ UNCHANGED pipeVars

\* Seeded fault: the ring taken as full only past PIPE_SIZE bytes.
PipeFullPastEnd(p) == bytes_available[p] > PIPE_SIZE

\* pipe_write's test for a full ring.
PipeFull(p) == bytes_available[p] = PIPE_SIZE

(***************************************************************************)
(* One locked pass of pipe_write's loop: with the ring full, return -1 if *)
(* there is no reader, else release the lock to sleep; with room, put one *)
(* byte, wake the readers and release.                                     *)
(***************************************************************************)
WriteStep(t) ==
    LET p == PipeOf(op[t].file)
        done == op[t].done
        full == PipeFull(p)
    IN
    /\ pc[t] = "wr"
    /\ \/ /\ full /\ readers[p] = 0
          /\ pc' = [pc EXCEPT ![t] = "user"]
          /\ UNCHANGED <<op, pstate, sent, buf, write_pos, bytes_available, read_wait>>
       \/ /\ full /\ readers[p] # 0
          /\ pc' = [pc EXCEPT ![t] = "wr_sleep"]
          /\ UNCHANGED <<op, pstate, sent, buf, write_pos, bytes_available, read_wait>>
       \/ /\ ~full
          /\ buf' = [buf EXCEPT ![p][write_pos[p]] = sent[p] + 1]
          /\ sent' = [sent EXCEPT ![p] = @ + 1]
          /\ write_pos' = [write_pos EXCEPT ![p] = (@ + 1) % PIPE_SIZE]
          /\ bytes_available' = [bytes_available EXCEPT ![p] = @ + 1]
          /\ pstate' = Woken(read_wait[p], pstate)
          /\ read_wait' = [read_wait EXCEPT ![p] = {}]
          /\ op' = [op EXCEPT ![t].done = done + 1]
          /\ pc' = [pc EXCEPT ![t] = IF done + 1 = op[t].n THEN "user" ELSE "wr"]
    /\ UNCHANGED <<procs, next_pid, parent, fd_table, f_count, files_live,
                   npipes, ndups, read_pos, readers, writers, write_wait,
                   pipes_live, panicked, got>>

(* sleep_on(&p->write_wait), reached with the lock already released.      *)
WriteSleep(t) ==
    LET p == PipeOf(op[t].file) IN
    /\ pc[t] = "wr_sleep"
    /\ pstate' = [pstate EXCEPT ![t] = "BLOCKED"]
    /\ write_wait' = [write_wait EXCEPT ![p] = @ \cup {t}]
    /\ pc' = [pc EXCEPT ![t] = "wr"]
    /\ UNCHANGED <<procs, next_pid, parent, op, fd_table, f_count, files_live,
                   npipes, ndups, buf, read_pos, write_pos, bytes_available, readers,
                   writers, read_wait, pipes_live, panicked, sent, got>>

(* vfs_dup: a second slot for the same file, f_count + 1.                  *)
Dup(t, fd) ==
    LET f == fd_table[t][fd] IN
    /\ pc[t] = "user"
    /\ ndups < MaxDups
    /\ f # NULL /\ FreeFds(t) # {}
    /\ fd_table' = [fd_table EXCEPT ![t][LowestFree(t)] = f]
    /\ f_count' = [f_count EXCEPT ![f] = @ + 1]
    /\ ndups' = ndups + 1
    /\ UNCHANGED <<procs, next_pid, parent, pstate, pc, op, files_live, npipes,
                   panicked, sent, got>>
    /\ UNCHANGED pipeVars

(***************************************************************************)
(* pipe_close(f), under the lock: one reader or writer fewer, wake the    *)
(* other side when its count reaches 0, kfree the pipe when both are 0.    *)
(***************************************************************************)
PipeClose(f) ==
    LET p == PipeOf(f)
        isR == Mode(f) = "O_RDONLY"
        r1 == IF isR THEN readers[p] - 1 ELSE readers[p]
        w1 == IF isR THEN writers[p] ELSE writers[p] - 1
        wakeW == isR /\ r1 = 0
        wakeR == ~isR /\ w1 = 0
    IN
    /\ readers' = [readers EXCEPT ![p] = r1]
    /\ writers' = [writers EXCEPT ![p] = w1]
    /\ pstate' = IF wakeW THEN Woken(write_wait[p], pstate)
                 ELSE IF wakeR THEN Woken(read_wait[p], pstate)
                 ELSE pstate
    /\ write_wait' = IF wakeW THEN [write_wait EXCEPT ![p] = {}] ELSE write_wait
    /\ read_wait' = IF wakeR THEN [read_wait EXCEPT ![p] = {}] ELSE read_wait
    /\ pipes_live' = IF r1 = 0 /\ w1 = 0 THEN pipes_live \ {p} ELSE pipes_live

(***************************************************************************)
(* vfs_close(fd) by t: clear the slot, call release (pipe_close) on every *)
(* close, then f_count - 1 and kfree at 0.  release is passed             *)
(* f->f_dentry->d_inode and a pipe file's f_dentry is 0: the read either  *)
(* faults, stopping the kernel, or yields a value pipe_close ignores.     *)
(***************************************************************************)
VfsClose(t, fd) ==
    LET f == fd_table[t][fd] IN
    /\ f # NULL
    /\ fd_table' = [fd_table EXCEPT ![t][fd] = NULL]
    /\ \/ /\ panicked' = TRUE
          /\ UNCHANGED <<pstate, f_count, files_live, readers, writers,
                         read_wait, write_wait, pipes_live>>
       \/ /\ UNCHANGED panicked
          /\ PipeClose(f)
          /\ f_count' = [f_count EXCEPT ![f] = @ - 1]
          /\ files_live' = IF f_count[f] - 1 <= 0 THEN files_live \ {f} ELSE files_live

(* SYS_CLOSE.                                                              *)
Close(t, fd) ==
    /\ pc[t] = "user"
    /\ VfsClose(t, fd)
    /\ UNCHANGED <<procs, next_pid, parent, pc, op, npipes, ndups, buf, read_pos,
                   write_pos, bytes_available, sent, got>>

(***************************************************************************)
(* process_fork: the child's struct is a memcpy of the parent's, so its   *)
(* fd_table holds the same file pointers, and no f_count is raised.  If   *)
(* the kernel stack cannot be allocated the pid is consumed and no child  *)
(* exists.                                                                 *)
(***************************************************************************)
Fork(t) ==
    LET c == next_pid IN
    /\ pc[t] = "user"
    /\ next_pid < NProc
    /\ next_pid' = next_pid + 1
    /\ \/ /\ procs' = procs \cup {c}
          /\ fd_table' = [fd_table EXCEPT ![c] = fd_table[t]]
          /\ parent' = [parent EXCEPT ![c] = t]
          /\ pstate' = [pstate EXCEPT ![c] = "READY"]
          /\ pc' = [pc EXCEPT ![c] = "user"]
       \/ UNCHANGED <<procs, fd_table, parent, pstate, pc>>
    /\ UNCHANGED <<op, f_count, files_live, npipes, ndups, panicked, sent, got>>
    /\ UNCHANGED pipeVars

(* process_exit: the loop over fd_table closing each open slot in order.  *)
Exit(t) ==
    /\ pc[t] = "user"
    /\ pc' = [pc EXCEPT ![t] = "exit"]
    /\ UNCHANGED <<procs, next_pid, parent, pstate, op, fd_table, f_count,
                   files_live, npipes, ndups, panicked, sent, got>>
    /\ UNCHANGED pipeVars

ExitClose(t) ==
    /\ pc[t] = "exit"
    /\ \E fd \in Fds :
          /\ \A j \in 0 .. fd - 1 : fd_table[t][j] = NULL
          /\ VfsClose(t, fd)
    /\ UNCHANGED <<procs, next_pid, parent, pc, op, npipes, ndups, buf, read_pos,
                   write_pos, bytes_available, sent, got>>

(***************************************************************************)
(* The rest of process_exit once every slot is closed: children go to     *)
(* pid 1 (pid 0 without one), a BLOCKED parent is made READY, and the     *)
(* process is TERMINATED.  The parent is not taken off a wait queue.      *)
(***************************************************************************)
ExitDone(t) ==
    LET init == IF 1 \in procs THEN 1 ELSE 0
        par == parent[t]
    IN
    /\ pc[t] = "exit"
    /\ \A fd \in Fds : fd_table[t][fd] = NULL
    /\ parent' = [u \in Pids |-> IF parent[u] = t THEN init ELSE parent[u]]
    /\ pstate' = [u \in Pids |->
                    IF u = t THEN "TERMINATED"
                    ELSE IF u = par /\ pstate[u] = "BLOCKED" THEN "READY"
                    ELSE pstate[u]]
    /\ pc' = [pc EXCEPT ![t] = "dead"]
    /\ UNCHANGED <<procs, next_pid, op, fd_table, f_count, files_live, npipes, ndups,
                   panicked, sent, got>>
    /\ UNCHANGED pipeVars

Init ==
    /\ procs = {0}
    /\ next_pid = 1
    /\ parent = [t \in Pids |-> -1]
    /\ pstate = [t \in Pids |-> IF t = 0 THEN "READY" ELSE "UNUSED"]
    /\ pc = [t \in Pids |-> "user"]
    /\ op = [t \in Pids |-> [file |-> NULL, n |-> 0, done |-> 0]]
    /\ fd_table = [t \in Pids |-> [i \in Fds |-> NULL]]
    /\ f_count = [f \in Files |-> 0]
    /\ files_live = {}
    /\ npipes = 0
    /\ ndups = 0
    /\ buf = [p \in Pipes |-> [i \in Ring |-> 0]]
    /\ read_pos = [p \in Pipes |-> 0]
    /\ write_pos = [p \in Pipes |-> 0]
    /\ bytes_available = [p \in Pipes |-> 0]
    /\ readers = [p \in Pipes |-> 0]
    /\ writers = [p \in Pipes |-> 0]
    /\ read_wait = [p \in Pipes |-> {}]
    /\ write_wait = [p \in Pipes |-> {}]
    /\ pipes_live = {}
    /\ panicked = FALSE
    /\ sent = [p \in Pipes |-> 0]
    /\ got = [p \in Pipes |-> <<>>]

\* A process the CPU may be running: READY (the model does not tell the
\* running one apart: the timer may switch between any two of them).
Runnable(t) == t \in procs /\ pstate[t] = "READY" /\ ~panicked

\* Every step but fork (Signal replaces fork by one that copies more).
NextButFork ==
    \/ \E t \in Pids : Runnable(t) /\ PipeCreate(t)
    \/ \E t \in Pids, fd \in Fds, n \in 1 .. MaxReq : Runnable(t) /\ Read(t, fd, n)
    \/ \E t \in Pids : Runnable(t) /\ ReadStep(t)
    \/ \E t \in Pids : Runnable(t) /\ ReadSleep(t)
    \/ \E t \in Pids, fd \in Fds, n \in 1 .. MaxReq : Runnable(t) /\ Write(t, fd, n)
    \/ \E t \in Pids : Runnable(t) /\ WriteStep(t)
    \/ \E t \in Pids : Runnable(t) /\ WriteSleep(t)
    \/ \E t \in Pids, fd \in Fds : Runnable(t) /\ Dup(t, fd)
    \/ \E t \in Pids, fd \in Fds : Runnable(t) /\ Close(t, fd)
    \/ \E t \in Pids : Runnable(t) /\ Exit(t)
    \/ \E t \in Pids : Runnable(t) /\ ExitClose(t)
    \/ \E t \in Pids : Runnable(t) /\ ExitDone(t)

Next ==
    \/ NextButFork
    \/ \E t \in Pids : Runnable(t) /\ Fork(t)

Spec == Init /\ [][Next]_vars

-----------------------------------------------------------------------------
(* Properties *)

PStates == {"UNUSED", "READY", "BLOCKED", "TERMINATED"}
PCs == {"user", "rd", "rd_sleep", "wr", "wr_sleep", "exit", "dead"}

TypeOK ==
    /\ procs \subseteq Pids /\ next_pid \in 1 .. NProc
    /\ pstate \in [Pids -> PStates] /\ pc \in [Pids -> PCs]
    /\ fd_table \in [Pids -> [Fds -> Files \cup {NULL}]]
    /\ f_count \in [Files -> Int] /\ files_live \subseteq Files
    /\ npipes \in 0 .. MaxPipes /\ ndups \in 0 .. MaxDups
    /\ pipes_live \subseteq Pipes
    /\ buf \in [Pipes -> [Ring -> 0 .. MaxBytes]]
    /\ read_pos \in [Pipes -> Ring] /\ write_pos \in [Pipes -> Ring]
    /\ bytes_available \in [Pipes -> 0 .. PIPE_SIZE]
    /\ readers \in [Pipes -> Int] /\ writers \in [Pipes -> Int]
    /\ read_wait \in [Pipes -> SUBSET Pids] /\ write_wait \in [Pipes -> SUBSET Pids]
    /\ panicked \in BOOLEAN
    /\ sent \in [Pipes -> 0 .. MaxBytes]

(***************************************************************************)
(* The ring of pipe_read/pipe_write is a FIFO, through every interleaving *)
(* of readers and writers sharing its ends, partial reads and writes,     *)
(* sleeps and wrap-around: the bytes read are exactly the first bytes     *)
(* written, in order and each once, and the bytes_available cells from    *)
(* read_pos hold the rest, ending at write_pos.                            *)
(***************************************************************************)
PipeIsFifo ==
    \A p \in Pipes :
        LET k == Len(got[p]) IN
        /\ \A i \in 1 .. k : got[p][i] = i
        /\ bytes_available[p] = sent[p] - k
        /\ \A j \in 0 .. bytes_available[p] - 1 :
               buf[p][(read_pos[p] + j) % PIPE_SIZE] = k + 1 + j
        /\ write_pos[p] = (read_pos[p] + bytes_available[p]) % PIPE_SIZE

(***************************************************************************)
(* No wake-up is lost: a process asleep on a pipe's read queue has        *)
(* nothing to read and a writer to wait for, and one asleep on the write  *)
(* queue has a full ring and a reader to wait for.  pipe_read and         *)
(* pipe_write drop the lock before sleep_on; a byte written or read in    *)
(* that window wakes nobody.                                               *)
(***************************************************************************)
NoLostWakeup ==
    \A p \in Pipes, t \in Pids :
        /\ t \in read_wait[p] /\ pstate[t] = "BLOCKED" =>
              bytes_available[p] = 0 /\ writers[p] # 0
        /\ t \in write_wait[p] /\ pstate[t] = "BLOCKED" =>
              bytes_available[p] = PIPE_SIZE /\ readers[p] # 0

\* The descriptors of live processes that refer to pipe p's write end.
WriteEndsOpen(p) ==
    {<<u, i>> \in procs \X Fds :
        pstate[u] # "TERMINATED" /\ fd_table[u][i] = <<p, "O_WRONLY">>}

(***************************************************************************)
(* pipe_read reports end of file (returns short) only when no descriptor  *)
(* of any live process still refers to the pipe's write end, as the spec  *)
(* says: EOF is "writers == 0 and empty".                                  *)
(***************************************************************************)
EOFOnlyWithoutWriters ==
    [][\A t \in Pids :
         (pc[t] = "rd" /\ pc'[t] = "user" /\ op'[t].done = op[t].done)
            => WriteEndsOpen(PipeOf(op[t].file)) = {}]_vars

(***************************************************************************)
(* Every descriptor a live process holds refers to a file that is still   *)
(* allocated, of a pipe that is still allocated: no read, write or close  *)
(* through it touches freed memory.                                        *)
(***************************************************************************)
FdRefsLive ==
    \A u \in procs, i \in Fds :
        pstate[u] # "TERMINATED" /\ fd_table[u][i] # NULL =>
            /\ fd_table[u][i] \in files_live
            /\ PipeOf(fd_table[u][i]) \in pipes_live

(***************************************************************************)
(* Nothing pipe_create allocates is lost: every allocated file is reached *)
(* through a descriptor of a live process, so closing them all frees it.  *)
(* pipe_create returns -1 when the table has no two free slots, after     *)
(* allocating the pipe and both files.                                     *)
(***************************************************************************)
NoOrphanFiles ==
    \A f \in files_live :
        \E u \in procs, i \in Fds : pstate[u] # "TERMINATED" /\ fd_table[u][i] = f

=============================================================================
