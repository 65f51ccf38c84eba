---------------------------- MODULE SchedPreempt ----------------------------
(***************************************************************************)
(* Sched with the timer interrupt able to land inside process_sleep.      *)
(* process_sleep takes no lock and does not disable interrupts, and spec  *)
(* section 5 keeps preemption enabled while a task runs.  So the call is *)
(* split where a tick can land: SleepMark is its first two lines (state   *)
(* SLEEPING, waiting_on), and SleepLink is the append to sleep_queue and  *)
(* process_schedule.  Every other entry point is Sched's.                  *)
(***************************************************************************)
EXTENDS Sched

(* process_sleep, lines 475-476: SLEEPING until n ticks from now.          *)
SleepMark(c, n) ==
    /\ Runs(c) /\ pc[c] = "user"
    /\ ~(KernelIdles /\ c = 0)
    /\ state' = [state EXCEPT ![c] = "SLEEPING"]
    /\ sleep_left' = [sleep_left EXCEPT ![c] = n]
    /\ pc' = [pc EXCEPT ![c] = "sleep"]
    /\ UNCHANGED <<procs, priority, time_slice, next_ready, mlfq_head, mlfq_tail,
                   sleep_queue, current, halted, next_pid, parent, exit_code,
                   wait_for>>

(* process_sleep, lines 478-487: append at the tail of sleep_queue, clear  *)
(* the link, process_schedule; back to user code when it returns.  Only   *)
(* the process itself, when it is current again, takes this step.         *)
SleepLink(c) ==
    LET q == Chain(next_ready, sleep_queue)
        k == IF sleep_queue = NIL THEN [KS EXCEPT !.sleepq = c]
             ELSE [KS EXCEPT !.next[q[Len(q)]] = c]
    IN /\ Runs(c) /\ pc[c] = "sleep"
       /\ Commit(Schedule([k EXCEPT !.next[c] = NIL]))
       /\ pc' = [pc EXCEPT ![c] = "user"]
       /\ UNCHANGED <<procs, next_pid, parent, exit_code, wait_for>>

PNext ==
    \/ Tick
    \/ \E c \in procs :
        \/ Yield(c)
        \/ \E n \in 1 .. MaxSleep : SleepMark(c, n)
        \/ SleepLink(c)
        \/ Fork(c)
        \/ Spawn(c)
        \/ \E code \in ExitCodes : Exit(c, code)
        \/ \E pid \in Pids : Wait(c, pid)
        \/ WaitAgain(c)

PSpec == Init /\ [][PNext]_vars /\ []<><<Tick>>_vars
=============================================================================
