------------------------------- MODULE Sched -------------------------------
(***************************************************************************)
(* The process model and scheduler of process/process.c and               *)
(* process/sched_mlfq.c on one CPU.                                        *)
(*                                                                         *)
(* Processes are numbered by pid: process_create and process_fork take     *)
(* next_pid++ and nothing is ever reaped, so pid p is the p-th process     *)
(* created.  The MLFQ run queues and the sleep queue are the code's        *)
(* singly linked lists, threaded through the one `next_ready` field every  *)
(* process has: a process on two lists at once corrupts both, which is     *)
(* what the properties below watch for.                                    *)
(*                                                                         *)
(* sleep_left[p] stands for waiting_on - global_ticks (floored at 0):      *)
(* global_ticks is read nowhere else in this code, and the only test on    *)
(* it, waiting_on <= global_ticks, is sleep_left = 0.  time_slice is       *)
(* floored at 0 likewise: the code only ever tests it for <= 0.  No code   *)
(* under src/ sets SCHED_CFS or SCHED_FIFO, so every process is           *)
(* SCHED_OTHER on the MLFQ class and the fair class's queue stays empty.   *)
(***************************************************************************)
EXTENDS Naturals, FiniteSets, FiniteSetsExt, Sequences, Functions

CONSTANTS
    NProc,          \* pids 0 .. NProc-1 (pid 0 is the kernel process)
    MLFQ_LEVELS,
    Quantum,        \* mlfq_quantums, as a sequence: level l has Quantum[l+1]
    MaxSleep,       \* largest tick count passed to process_sleep
    ExitCodes,      \* codes a process passes to process_exit
    KernelIdles     \* TRUE: pid 0 only yields (never sleeps or waits)

ASSUME /\ NProc \in Nat \ {0}
       /\ MLFQ_LEVELS \in Nat \ {0}
       /\ Quantum \in [1 .. MLFQ_LEVELS -> Nat \ {0}]
       /\ MaxSleep \in Nat \ {0}
       /\ KernelIdles \in BOOLEAN

VARIABLES
    procs,          \* pids on process_list
    state,          \* state[p]
    priority,       \* MLFQ level
    time_slice,
    sleep_left,     \* waiting_on - global_ticks, floored at 0
    next_ready,     \* the shared link field
    mlfq_head,      \* mlfq_queues[l]
    mlfq_tail,      \* mlfq_tails[l]
    sleep_queue,
    current,        \* current_process
    halted,         \* the CPU sits in process_schedule's `sti; hlt`
    next_pid,
    parent,
    exit_code,
    pc,             \* where the process is: "user", "wait" loop, "exit"
    wait_for        \* the pid a process in process_wait polls

vars == <<procs, state, priority, time_slice, sleep_left, next_ready,
          mlfq_head, mlfq_tail, sleep_queue, current, halted, next_pid,
          parent, exit_code, pc, wait_for>>

Pids == 0 .. NProc - 1
Levels == 0 .. MLFQ_LEVELS - 1
NIL == -1
States == {"UNUSED", "READY", "RUNNING", "SLEEPING", "BLOCKED", "TERMINATED"}
Q(l) == Quantum[l + 1]
MaxSlice == Max({Q(l) : l \in Levels})

(***************************************************************************)
(* The scheduler's state as one record, so that code which walks a list   *)
(* and changes it on the way (the sleep-queue scan calling enqueue) is a  *)
(* fold over this record.                                                  *)
(***************************************************************************)
KS == [state |-> state, prio |-> priority, slice |-> time_slice,
       left |-> sleep_left, next |-> next_ready, head |-> mlfq_head,
       tail |-> mlfq_tail, sleepq |-> sleep_queue, cur |-> current,
       halted |-> halted]

Commit(k) ==
    /\ state' = k.state /\ priority' = k.prio /\ time_slice' = k.slice
    /\ sleep_left' = k.left /\ next_ready' = k.next /\ mlfq_head' = k.head
    /\ mlfq_tail' = k.tail /\ sleep_queue' = k.sleepq /\ current' = k.cur
    /\ halted' = k.halted

(* The nodes of a list, following `next` from h; fuel cuts off a cycle.   *)
RECURSIVE ChainFrom(_, _, _)
ChainFrom(nx, h, fuel) ==
    IF h = NIL \/ fuel = 0 THEN <<>> ELSE <<h>> \o ChainFrom(nx, nx[h], fuel - 1)

Chain(nx, h) == ChainFrom(nx, h, NProc + 1)

\* Seeded fault: enqueue_task_mlfq appending without clearing p->next_ready.
EnqueueKeepLink(k, p) ==
    IF k.state[p] # "READY" THEN k
    ELSE LET l == k.prio[p]
         IN IF k.head[l] = NIL
            THEN [k EXCEPT !.head[l] = p, !.tail[l] = p]
            ELSE [k EXCEPT !.next[k.tail[l]] = p, !.tail[l] = p]

\* Seeded fault: enqueue_task_mlfq pushing at the head of its level.
EnqueueAtHead(k, p) ==
    IF k.state[p] # "READY" THEN k
    ELSE LET l == k.prio[p]
         IN [k EXCEPT !.next[p] = k.head[l], !.head[l] = p,
                      !.tail[l] = IF k.head[l] = NIL THEN p ELSE @]

(***************************************************************************)
(* enqueue_process: nothing unless the process is READY; then             *)
(* enqueue_task_mlfq clears p's link and appends p at its level's tail.   *)
(***************************************************************************)
Enqueue(k, p) ==
    IF k.state[p] # "READY" THEN k
    ELSE LET l == k.prio[p]
             nx == [k.next EXCEPT ![p] = NIL]
         IN IF k.head[l] = NIL
            THEN [k EXCEPT !.next = nx, !.head[l] = p, !.tail[l] = p]
            ELSE [k EXCEPT !.next = [nx EXCEPT ![k.tail[l]] = p], !.tail[l] = p]

(* pick_next_task_mlfq: pop the head of the first non-empty level.       *)
PickLevel(k) == {l \in Levels : k.head[l] # NIL}

PopMLFQ(k) ==
    LET l == Min(PickLevel(k))
        h == k.head[l]
        nh == k.next[h]
    IN [k EXCEPT !.head[l] = nh,
                 !.tail[l] = IF nh = NIL THEN NIL ELSE @,
                 !.next[h] = NIL]

\* Seeded fault: process_schedule that marks the preempted process READY
\* without putting it back on a run queue.
ScheduleNoRequeue(k) ==
    LET c == k.cur
        k1 == IF k.state[c] = "RUNNING" THEN [k EXCEPT !.state[c] = "READY"] ELSE k
    IN IF PickLevel(k1) # {}
       THEN LET nxt == k1.head[Min(PickLevel(k1))]
            IN [PopMLFQ(k1) EXCEPT !.cur = nxt, !.state[nxt] = "RUNNING"]
       ELSE IF k1.state[c] = "READY"
            THEN [k1 EXCEPT !.state[c] = "RUNNING"]
            ELSE [k1 EXCEPT !.halted = TRUE]

\* Seeded fault: process_schedule that enqueues the preempted process
\* before demoting it, so it waits in the queue of its old level.
ScheduleEnqueueFirst(k) ==
    LET c == k.cur
        spent == k.slice[c] = 0
        lvl == IF spent /\ k.prio[c] < MLFQ_LEVELS - 1 THEN k.prio[c] + 1 ELSE k.prio[c]
        k1 == IF k.state[c] = "RUNNING"
              THEN [Enqueue([k EXCEPT !.state[c] = "READY"], c)
                       EXCEPT !.prio[c] = lvl, !.slice[c] = IF spent THEN Q(lvl) ELSE @]
              ELSE k
    IN IF PickLevel(k1) # {}
       THEN LET nxt == k1.head[Min(PickLevel(k1))]
            IN [PopMLFQ(k1) EXCEPT !.cur = nxt, !.state[nxt] = "RUNNING"]
       ELSE IF k1.state[c] = "READY"
            THEN [k1 EXCEPT !.state[c] = "RUNNING"]
            ELSE [k1 EXCEPT !.halted = TRUE]

(***************************************************************************)
(* process_schedule.  A RUNNING current becomes READY, is demoted one     *)
(* level with a fresh quantum if its slice is spent, and is enqueued.     *)
(* Then the first MLFQ task runs; with the queues empty the current runs  *)
(* on if it is READY, and otherwise the CPU halts (`sti; hlt`) and the    *)
(* call returns to its caller when the next interrupt has been handled.   *)
(***************************************************************************)
Schedule(k) ==
    LET c == k.cur
        spent == k.slice[c] = 0
        lvl == IF spent /\ k.prio[c] < MLFQ_LEVELS - 1 THEN k.prio[c] + 1 ELSE k.prio[c]
        k1 == IF k.state[c] = "RUNNING"
              THEN Enqueue([k EXCEPT !.state[c] = "READY", !.prio[c] = lvl,
                                     !.slice[c] = IF spent THEN Q(lvl) ELSE @], c)
              ELSE k
    IN IF PickLevel(k1) # {}
       THEN LET nxt == k1.head[Min(PickLevel(k1))]
            IN [PopMLFQ(k1) EXCEPT !.cur = nxt, !.state[nxt] = "RUNNING"]
       ELSE IF k1.state[c] = "READY"
            THEN [k1 EXCEPT !.state[c] = "RUNNING"]
            ELSE [k1 EXCEPT !.halted = TRUE]

\* Seeded fault: the scan unlinking every due entry as if it were the head.
RECURSIVE ScanSleepersHeadOnly(_, _, _, _)
ScanSleepersHeadOnly(k, s, prev, fuel) ==
    IF s = NIL \/ fuel = 0 THEN k
    ELSE IF k.left[s] = 0
         THEN LET sn == k.next[s]
                  k2 == Enqueue([k EXCEPT !.sleepq = sn, !.state[s] = "READY",
                                          !.left[s] = 0], s)
              IN ScanSleepersHeadOnly(k2, sn, prev, fuel - 1)
         ELSE ScanSleepersHeadOnly(k, k.next[s], s, fuel - 1)

(***************************************************************************)
(* The sleep-queue scan of scheduler_tick: every entry whose wake-up tick  *)
(* has come is unlinked, made READY with waiting_on = 0, and enqueued     *)
(* (which rewrites its link: the scan read the successor first).          *)
(***************************************************************************)
RECURSIVE ScanSleepers(_, _, _, _)
ScanSleepers(k, s, prev, fuel) ==
    IF s = NIL \/ fuel = 0 THEN k
    ELSE IF k.left[s] = 0
         THEN LET sn == k.next[s]
                  k1 == IF prev = NIL THEN [k EXCEPT !.sleepq = sn]
                        ELSE [k EXCEPT !.next[prev] = sn]
                  k2 == Enqueue([k1 EXCEPT !.state[s] = "READY", !.left[s] = 0], s)
              IN ScanSleepers(k2, sn, prev, fuel - 1)
         ELSE ScanSleepers(k, k.next[s], s, fuel - 1)

(***************************************************************************)
(* scheduler_tick, the timer interrupt: count the tick against the        *)
(* current slice, wake due sleepers, reschedule when the slice is spent.  *)
(* It also ends a `hlt`.  (hrtimer_run_queues and the RLIMIT_CPU check,   *)
(* whose limit is infinite for every process, change nothing here.)       *)
(***************************************************************************)
Tick ==
    LET c == current
        k0 == [KS EXCEPT !.slice[c] = IF @ > 0 THEN @ - 1 ELSE 0,
                         !.left = [p \in Pids |-> IF @[p] > 0 THEN @[p] - 1 ELSE 0],
                         !.halted = FALSE]
        k1 == ScanSleepers(k0, k0.sleepq, NIL, NProc + 1)
        k2 == IF k1.slice[c] = 0 THEN Schedule(k1) ELSE k1
    IN /\ Commit(k2)
       /\ UNCHANGED <<procs, next_pid, parent, exit_code, pc, wait_for>>

\* Seeded fault: waiting_on = global_ticks + ticks + 1.
SleepOpLate(k, c, n) ==
    LET q == Chain(k.next, k.sleepq)
        k1 == [k EXCEPT !.state[c] = "SLEEPING", !.left[c] = n + 1]
        k2 == IF k.sleepq = NIL THEN [k1 EXCEPT !.sleepq = c]
              ELSE [k1 EXCEPT !.next[q[Len(q)]] = c]
    IN Schedule([k2 EXCEPT !.next[c] = NIL])

(***************************************************************************)
(* process_sleep: SLEEPING until n ticks from now, appended at the tail   *)
(* of the sleep queue through next_ready, then process_schedule.          *)
(***************************************************************************)
SleepOp(k, c, n) ==
    LET q == Chain(k.next, k.sleepq)
        k1 == [k EXCEPT !.state[c] = "SLEEPING", !.left[c] = n]
        k2 == IF k.sleepq = NIL THEN [k1 EXCEPT !.sleepq = c]
              ELSE [k1 EXCEPT !.next[q[Len(q)]] = c]
    IN Schedule([k2 EXCEPT !.next[c] = NIL])

\* The process that runs its own code: the current one, CPU not halted.
Runs(c) == c = current /\ ~halted

(* SYS_YIELD: process_yield.                                               *)
Yield(c) ==
    /\ Runs(c) /\ pc[c] = "user"
    /\ Commit(Schedule(KS))
    /\ UNCHANGED <<procs, next_pid, parent, exit_code, pc, wait_for>>

(* SYS_SLEEP: process_sleep(n), back to user code when it returns.         *)
Sleep(c, n) ==
    /\ Runs(c) /\ pc[c] = "user"
    /\ ~(KernelIdles /\ c = 0)
    /\ Commit(SleepOp(KS, c, n))
    /\ UNCHANGED <<procs, next_pid, parent, exit_code, pc, wait_for>>

(***************************************************************************)
(* process_fork: the child is a copy of the caller (priority, waiting_on, *)
(* exit code) with a fresh pid, the caller as parent, READY, a full slice *)
(* of its level.  If the kernel stack cannot be allocated the call fails  *)
(* with the pid already consumed and the child never linked.             *)
(***************************************************************************)
Fork(c) ==
    LET child == next_pid IN
    /\ Runs(c) /\ pc[c] = "user" /\ c # 0
    /\ next_pid < NProc
    /\ next_pid' = next_pid + 1
    /\ \/ /\ procs' = procs \cup {child}
          /\ parent' = [parent EXCEPT ![child] = c]
          /\ exit_code' = [exit_code EXCEPT ![child] = exit_code[c]]
          /\ pc' = [pc EXCEPT ![child] = "user"]
          /\ Commit(Enqueue([KS EXCEPT !.state[child] = "READY",
                                       !.prio[child] = priority[c],
                                       !.slice[child] = Q(priority[c]),
                                       !.left[child] = sleep_left[c],
                                       !.next[child] = NIL], child))
       \/ /\ UNCHANGED <<procs, state, priority, time_slice, sleep_left,
                         next_ready, mlfq_head, mlfq_tail, sleep_queue,
                         current, halted, parent, exit_code, pc>>
    /\ UNCHANGED wait_for

(* process_create: a zeroed process at level 0 with no parent; fails the  *)
(* same way as fork when its stack page cannot be allocated.              *)
Spawn(c) ==
    LET child == next_pid IN
    /\ Runs(c) /\ pc[c] = "user"
    /\ next_pid < NProc
    /\ next_pid' = next_pid + 1
    /\ \/ /\ procs' = procs \cup {child}
          /\ pc' = [pc EXCEPT ![child] = "user"]
          /\ Commit(Enqueue([KS EXCEPT !.state[child] = "READY",
                                       !.prio[child] = 0,
                                       !.slice[child] = Q(0),
                                       !.left[child] = 0,
                                       !.next[child] = NIL], child))
       \/ /\ UNCHANGED <<procs, state, priority, time_slice, sleep_left,
                         next_ready, mlfq_head, mlfq_tail, sleep_queue,
                         current, halted, pc>>
    /\ UNCHANGED <<parent, exit_code, wait_for>>

\* Seeded fault: process_exit waking the parent without checking that it
\* is BLOCKED.
ExitWakeAnyParent(c, code) ==
    LET init == IF 1 \in procs THEN 1 ELSE 0
        par == parent[c]
        k1 == IF par # NIL
              THEN Enqueue([KS EXCEPT !.state[par] = "READY"], par)
              ELSE KS
    IN
    /\ Runs(c) /\ pc[c] = "user" /\ c # 0
    /\ exit_code' = [exit_code EXCEPT ![c] = code]
    /\ parent' = [p \in Pids |-> IF parent[p] = c THEN init ELSE parent[p]]
    /\ Commit(Schedule([k1 EXCEPT !.state[c] = "TERMINATED"]))
    /\ pc' = [pc EXCEPT ![c] = "exit"]
    /\ UNCHANGED <<procs, next_pid, wait_for>>

(***************************************************************************)
(* process_exit: record the code, hand the children to pid 1 (pid 0 when  *)
(* there is no pid 1), make a BLOCKED parent READY and enqueue it, become *)
(* TERMINATED and schedule; the code then spins in while(1).             *)
(***************************************************************************)
Exit(c, code) ==
    LET init == IF 1 \in procs THEN 1 ELSE 0
        par == parent[c]
        k1 == IF par # NIL /\ state[par] = "BLOCKED"
              THEN Enqueue([KS EXCEPT !.state[par] = "READY"], par)
              ELSE KS
    IN
    /\ Runs(c) /\ pc[c] = "user" /\ c # 0
    /\ exit_code' = [exit_code EXCEPT ![c] = code]
    /\ parent' = [p \in Pids |-> IF parent[p] = c THEN init ELSE parent[p]]
    /\ Commit(Schedule([k1 EXCEPT !.state[c] = "TERMINATED"]))
    /\ pc' = [pc EXCEPT ![c] = "exit"]
    /\ UNCHANGED <<procs, next_pid, wait_for>>

(***************************************************************************)
(* One pass of process_wait's loop: -1 when the pid is not on the list,   *)
(* return when it is TERMINATED, otherwise process_sleep(1) and loop.     *)
(***************************************************************************)
WaitPass(c, pid) ==
    \/ /\ pid \notin procs \/ state[pid] = "TERMINATED"
       /\ pc' = [pc EXCEPT ![c] = "user"]
       /\ UNCHANGED <<state, priority, time_slice, sleep_left, next_ready,
                      mlfq_head, mlfq_tail, sleep_queue, current, halted>>
    \/ /\ pid \in procs /\ state[pid] # "TERMINATED"
       /\ pc' = [pc EXCEPT ![c] = "wait"]
       /\ Commit(SleepOp(KS, c, 1))

(* SYS_WAIT: enter process_wait.                                           *)
Wait(c, pid) ==
    /\ Runs(c) /\ pc[c] = "user"
    /\ ~(KernelIdles /\ c = 0)
    /\ wait_for' = [wait_for EXCEPT ![c] = pid]
    /\ WaitPass(c, pid)
    /\ UNCHANGED <<procs, next_pid, parent, exit_code>>

(* Back in process_wait's loop after process_sleep returned.               *)
WaitAgain(c) ==
    /\ Runs(c) /\ pc[c] = "wait"
    /\ WaitPass(c, wait_for[c])
    /\ UNCHANGED <<procs, next_pid, parent, exit_code, wait_for>>

(***************************************************************************)
(* process_init: pid 0 RUNNING at level 0 with a full slice, the only     *)
(* process; every queue empty.                                             *)
(***************************************************************************)
Init ==
    /\ procs = {0}
    /\ state = [p \in Pids |-> IF p = 0 THEN "RUNNING" ELSE "UNUSED"]
    /\ priority = [p \in Pids |-> 0]
    /\ time_slice = [p \in Pids |-> IF p = 0 THEN Q(0) ELSE 0]
    /\ sleep_left = [p \in Pids |-> 0]
    /\ next_ready = [p \in Pids |-> NIL]
    /\ mlfq_head = [l \in Levels |-> NIL]
    /\ mlfq_tail = [l \in Levels |-> NIL]
    /\ sleep_queue = NIL
    /\ current = 0
    /\ halted = FALSE
    /\ next_pid = 1
    /\ parent = [p \in Pids |-> NIL]
    /\ exit_code = [p \in Pids |-> 0]
    /\ pc = [p \in Pids |-> "user"]
    /\ wait_for = [p \in Pids |-> NIL]

Next ==
    \/ Tick
    \/ \E c \in procs :
        \/ Yield(c)
        \/ \E n \in 1 .. MaxSleep : Sleep(c, n)
        \/ Fork(c)
        \/ Spawn(c)
        \/ \E code \in ExitCodes : Exit(c, code)
        \/ \E pid \in Pids : Wait(c, pid)
        \/ WaitAgain(c)

(***************************************************************************)
(* The PIT raises the timer interrupt at 1 kHz forever.  While the current *)
(* process is RUNNING or the CPU halted (StateMatchesQueues) every tick    *)
(* changes the state, so infinitely many ticks is weak fairness of Tick,  *)
(* written without ENABLED.                                                *)
(***************************************************************************)
Spec == Init /\ [][Next]_vars /\ []<><<Tick>>_vars


-----------------------------------------------------------------------------
(* Properties *)

TypeOK ==
    /\ procs \subseteq Pids /\ 0 \in procs
    /\ state \in [Pids -> States]
    /\ priority \in [Pids -> Levels]
    /\ time_slice \in [Pids -> 0 .. MaxSlice]
    /\ sleep_left \in [Pids -> 0 .. MaxSleep]
    /\ next_ready \in [Pids -> Pids \cup {NIL}]
    /\ mlfq_head \in [Levels -> Pids \cup {NIL}]
    /\ mlfq_tail \in [Levels -> Pids \cup {NIL}]
    /\ sleep_queue \in Pids \cup {NIL}
    /\ current \in procs /\ halted \in BOOLEAN
    /\ next_pid \in 1 .. NProc
    /\ parent \in [Pids -> Pids \cup {NIL}]
    /\ pc \in [Pids -> {"user", "wait", "exit"}]
    /\ wait_for \in [Pids -> Pids \cup {NIL}]

RunQueue(l) == Chain(next_ready, mlfq_head[l])
SleepList == Chain(next_ready, sleep_queue)
Lists == {RunQueue(l) : l \in Levels} \cup {SleepList}
OnRunQueue == UNION {Range(RunQueue(l)) : l \in Levels}
Asleep == Range(SleepList)

(***************************************************************************)
(* The MLFQ lists and the sleep list stay well formed through every        *)
(* interleaving of ticks, sleeps, forks, exits and waits: each is acyclic, *)
(* each run queue ends at its mlfq_tails entry (empty exactly when its    *)
(* tail is NULL), and no process is linked into two lists, which sharing  *)
(* next_ready would corrupt.                                               *)
(***************************************************************************)
ListsWellFormed ==
    /\ \A l \in Levels :
        /\ (mlfq_head[l] = NIL) <=> (mlfq_tail[l] = NIL)
        /\ mlfq_head[l] # NIL =>
              /\ RunQueue(l)[Len(RunQueue(l))] = mlfq_tail[l]
              /\ next_ready[mlfq_tail[l]] = NIL
    /\ sleep_queue # NIL => next_ready[SleepList[Len(SleepList)]] = NIL
    /\ \A L1, L2 \in Lists : \A i \in 1 .. Len(L1), j \in 1 .. Len(L2) :
           L1[i] = L2[j] => L1 = L2 /\ i = j

(***************************************************************************)
(* The current process is RUNNING unless the CPU is halted, and the state *)
(* of every other process agrees with the list it is on: READY exactly    *)
(* when on a run queue (otherwise it is never picked again, or a process  *)
(* that is not READY gets dispatched), SLEEPING exactly when on the sleep *)
(* queue (otherwise no tick ever wakes it).                                *)
(***************************************************************************)
StateMatchesQueues ==
    /\ halted \/ state[current] = "RUNNING"
    /\ \A p \in procs \ {current} :
           /\ (state[p] = "READY") <=> (p \in OnRunQueue)
           /\ (state[p] = "SLEEPING") <=> (p \in Asleep)

(***************************************************************************)
(* A TERMINATED process never runs again: no wake-up, enqueue or pick     *)
(* brings it back.                                                         *)
(***************************************************************************)
TerminatedIsFinal ==
    [][\A p \in Pids : state[p] = "TERMINATED" => state'[p] = "TERMINATED"]_vars

(***************************************************************************)
(* Every process that goes to sleep is woken by the timer tick: process_  *)
(* sleep's entry is found by a later scan of scheduler_tick.               *)
(***************************************************************************)
SleeperWakes ==
    \A p \in Pids : state[p] = "SLEEPING" ~> state[p] # "SLEEPING"


(***************************************************************************)
(* pick_next_task_mlfq scans the levels from 0 up (spec: "pick_next       *)
(* scans levels from highest to lowest"): whenever process_schedule hands *)
(* the CPU to another process, no READY process has a higher MLFQ level   *)
(* (a smaller number) than the one dispatched.  This fails if a process   *)
(* waits in a queue other than the one of its priority, as when the       *)
(* demotion and the enqueue of the preempted process are done in the      *)
(* wrong order.                                                            *)
(***************************************************************************)
DispatchHighest ==
    [][current' # current =>
         \A q \in procs' : state'[q] = "READY" => priority'[current'] <= priority'[q]]_vars


(***************************************************************************)
(* No READY process starves: with the timer ticking, every READY process  *)
(* is eventually dispatched.  pick_next_task_mlfq always prefers a higher *)
(* level and nothing boosts priorities, so this rests on process_schedule *)
(* demoting a process whose slice is spent and on enqueue_task_mlfq       *)
(* appending at the tail, so that a level is served round robin.  It      *)
(* holds for the bounded number of processes the model creates.           *)
(***************************************************************************)
ReadyRuns ==
    \A p \in Pids : state[p] = "READY" ~> state[p] = "RUNNING"

=============================================================================
