------------------------------- MODULE Signal -------------------------------
(***************************************************************************)
(* Signals (ipc/signal.c) composed with the pipe and descriptor model:    *)
(* sys_kill sets a pending bit and makes a BLOCKED target READY, which is *)
(* how a reader or writer asleep on a pipe meets a signal.                 *)
(*                                                                         *)
(* handle_pending_signals has no caller under src/; the spec runs it at a *)
(* safe point such as syscall exit, so it is a step of a process between  *)
(* system calls (pc "user").  A user handler's frame is the stack of      *)
(* signals being handled; sigreturn pops it.  Every process's gid is 0     *)
(* (process_init sets it and fork copies it), so kill(0, sig) reaches     *)
(* every process on the list, and kill(-g, sig) for g > 1 none.            *)
(***************************************************************************)
EXTENDS PipeFd

CONSTANTS
    Sigs,       \* signal numbers sent (1 .. 31)
    UserHandler,\* a handler address other than 0 (default) and 1 (ignore)
    Installed,  \* the handlers programs pass to sys_signal
    MaxKills,   \* sys_kill calls in one behaviour
    MaxNest     \* handler frames one process has at once

ASSUME Sigs \subseteq 1 .. 31 /\ UserHandler \notin {0, 1}
       /\ Installed \subseteq {0, 1, UserHandler}
       /\ MaxKills \in Nat /\ MaxNest \in Nat

VARIABLES
    pending,    \* pending[t]: the set bits of pending_signals
    handler,    \* handler[t][s]: signal_handler[s]
    frames,     \* frames[t]: the signals whose user handler t is running
    nkills,     \* sys_kill calls so far
    raised,     \* raised[t][s]: kills that set bit s of t
    delivered   \* delivered[t][s]: times t entered its handler for s

sigVars == <<pending, handler, frames, nkills, raised, delivered>>
allVars == <<vars, sigVars>>

Handlers == {0, 1, UserHandler}

SInit ==
    /\ Init
    /\ pending = [t \in Pids |-> {}]
    /\ handler = [t \in Pids |-> [s \in Sigs |-> 0]]
    /\ frames = [t \in Pids |-> <<>>]
    /\ nkills = 0
    /\ raised = [t \in Pids |-> [s \in Sigs |-> 0]]
    /\ delivered = [t \in Pids |-> [s \in Sigs |-> 0]]

(***************************************************************************)
(* Raise s on every process of `targets`: set the bit, and a BLOCKED one  *)
(* becomes READY (enqueue_process).  It is not taken off the wait queue.  *)
(***************************************************************************)
RaiseOn(targets, s) ==
    /\ pending' = [u \in Pids |-> IF u \in targets THEN pending[u] \cup {s} ELSE pending[u]]
    /\ raised' = [u \in Pids |-> IF u \in targets THEN [raised[u] EXCEPT ![s] = @ + 1]
                                 ELSE raised[u]]
    /\ pstate' = [u \in Pids |-> IF u \in targets /\ pstate[u] = "BLOCKED"
                                 THEN "READY" ELSE pstate[u]]

(***************************************************************************)
(* sys_kill(pid, sig) by t: pid > 0 one process (-1 if there is none),    *)
(* pid = -1 every process with pid > 1 but the caller, pid = 0 the        *)
(* caller's group (all processes).                                         *)
(***************************************************************************)
\* Seeded fault: get_process_by_pid's NULL not checked.
KillPidNoLookup(pid, s) == RaiseOn({pid}, s)

\* pid > 0: get_process_by_pid, -1 if there is no such process.
KillPid(pid, s) == pid \in procs /\ RaiseOn({pid}, s)

Kill(t, pid, s) ==
    /\ pc[t] = "user"
    /\ nkills < MaxKills
    /\ nkills' = nkills + 1
    /\ \/ pid > 0 /\ KillPid(pid, s)
       \/ pid = -1 /\ RaiseOn({u \in procs : u > 1 /\ u # t}, s)
       \/ pid = 0 /\ RaiseOn(procs, s)
    /\ UNCHANGED <<handler, frames, delivered>>
    /\ UNCHANGED <<procs, next_pid, parent, pc, op, fd_table, f_count,
                   files_live, npipes, ndups, panicked, sent, got>>
    /\ UNCHANGED pipeVars

(* sys_signal(sig, h): install h for sig.                                  *)
SysSignal(t, s, h) ==
    /\ pc[t] = "user"
    /\ handler' = [handler EXCEPT ![t][s] = h]
    /\ UNCHANGED <<pending, frames, nkills, raised, delivered>>
    /\ UNCHANGED vars

\* The bits handle_pending_signals acts on: those not ignored.
Acting(t) == {s \in pending[t] : handler[t][s] # 1}

\* Seeded fault: the loop clears the bits below i but not bit i itself.
TakeSignalKeepBit(t, s) == pending' = [pending EXCEPT ![t] = {r \in @ : r >= s}]

\* The loop has cleared every bit up to and including i when it stops at i
\* (`pending_signals &= ~(1 << i)` on each set bit it passes).
TakeSignal(t, s) == pending' = [pending EXCEPT ![t] = {r \in @ : r > s}]

(***************************************************************************)
(* handle_pending_signals at t's return to user mode, one atomic call:    *)
(* walk the bits low to high, clearing each; pass an ignored one, exit    *)
(* with 128 + sig at a default one, set up the frame of a user handler    *)
(* and return.  With only ignored bits the walk clears them all.          *)
(***************************************************************************)
HandleSignals(t) ==
    /\ pc[t] = "user"
    /\ pending[t] # {}
    /\ \/ /\ Acting(t) = {}
          /\ pending' = [pending EXCEPT ![t] = {}]
          /\ UNCHANGED <<frames, delivered>> /\ UNCHANGED vars
       \/ /\ Acting(t) # {}
          /\ LET s == Min(Acting(t)) IN
             /\ TakeSignal(t, s)
             /\ \/ /\ handler[t][s] = 0
                   /\ Exit(t)
                   /\ UNCHANGED <<frames, delivered>>
                \/ /\ handler[t][s] = UserHandler
                   /\ Len(frames[t]) < MaxNest
                   /\ frames' = [frames EXCEPT ![t] = Append(@, s)]
                   /\ delivered' = [delivered EXCEPT ![t][s] = @ + 1]
                   /\ UNCHANGED vars
    /\ UNCHANGED <<handler, nkills, raised>>

(* The trampoline's sys_sigreturn: restore the frame saved below it.       *)
SigReturn(t) ==
    /\ pc[t] = "user"
    /\ frames[t] # <<>>
    /\ frames' = [frames EXCEPT ![t] = SubSeq(@, 1, Len(@) - 1)]
    /\ UNCHANGED <<pending, handler, nkills, raised, delivered>>
    /\ UNCHANGED vars

(* process_fork's memcpy also copies the handlers and the pending bits    *)
(* (each inherited bit counts as one raise on the child).                  *)
SFork(t) ==
    LET c == next_pid IN
    /\ Fork(t)
    /\ \/ /\ c \in procs'
          /\ handler' = [handler EXCEPT ![c] = handler[t]]
          /\ pending' = [pending EXCEPT ![c] = pending[t]]
          /\ raised' = [raised EXCEPT ![c] = [s \in Sigs |-> IF s \in pending[t] THEN 1 ELSE 0]]
       \/ /\ c \notin procs'
          /\ UNCHANGED <<handler, pending, raised>>
    /\ UNCHANGED <<frames, nkills, delivered>>

Pidv == {-1, 0} \cup Pids

SNext ==
    \/ \E t \in Pids, pid \in Pidv, s \in Sigs : Runnable(t) /\ Kill(t, pid, s)
    \/ \E t \in Pids, s \in Sigs, h \in Installed : Runnable(t) /\ SysSignal(t, s, h)
    \/ \E t \in Pids : Runnable(t) /\ HandleSignals(t)
    \/ \E t \in Pids : Runnable(t) /\ SigReturn(t)
    \/ \E t \in Pids : Runnable(t) /\ SFork(t)
    \/ NextButFork /\ UNCHANGED sigVars

SSpec == SInit /\ [][SNext]_allVars

-----------------------------------------------------------------------------
(* Properties *)

STypeOK ==
    /\ TypeOK
    /\ pending \in [Pids -> SUBSET Sigs]
    /\ handler \in [Pids -> [Sigs -> Handlers]]
    /\ \A t \in Pids : Len(frames[t]) <= MaxNest
    /\ nkills \in 0 .. MaxKills
    /\ \A t \in Pids \ procs : pending[t] = {}    \* only a live struct has bits

(***************************************************************************)
(* A handler runs only for a signal that was sent: for every process and  *)
(* signal, the handler entries so far, plus one if the bit is still       *)
(* pending, are no more than the kills that set the bit (kills that find  *)
(* it already set merge into one delivery).                                *)
(***************************************************************************)
DeliveredOnlyIfSent ==
    \A t \in Pids, s \in Sigs :
        delivered[t][s] + (IF s \in pending[t] THEN 1 ELSE 0) <= raised[t][s]

(***************************************************************************)
(* The spec: a signal unblocks a blocked task and the blocking operation  *)
(* must re-check and return Intr, so no process sleeps on a wait queue    *)
(* with a signal pending that it does not ignore.  pipe_read and          *)
(* pipe_write go back to sleep.                                            *)
(***************************************************************************)
BlockedOnlyWithoutSignal ==
    \A t \in Pids :
        pstate[t] = "BLOCKED" => \A s \in pending[t] : handler[t][s] = 1

====
