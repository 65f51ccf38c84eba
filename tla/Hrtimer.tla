------------------------------- MODULE Hrtimer -------------------------------
(***************************************************************************)
(* time/hrtimer.c: the global expiry-ordered list of timers, kept as the  *)
(* list_head pointers themselves (next and prev of the head and of every  *)
(* timer's node), hrtimer_start, hrtimer_cancel and hrtimer_run_queues.   *)
(*                                                                         *)
(* Concurrency (spec.md section 5): one CPU; acquiring a spinlock         *)
(* disables interrupts and releasing re-enables them.  So a task's        *)
(* hrtimer_start or hrtimer_cancel is one atomic step, and so is each     *)
(* locked stretch of hrtimer_run_queues, which the tick runs.  The tick   *)
(* releases the lock around each callback, so another tick may nest      *)
(* there (up to MaxNest activations of run_queues).                        *)
(*                                                                         *)
(* list.h is not in the repository.  list_del is modelled as the unlink   *)
(* every list_del variant performs (prev->next = next, next->prev = prev) *)
(* and leaves the removed node's own pointers as they were.  Callbacks    *)
(* are code outside src/; one may return, or call hrtimer_start on its    *)
(* own timer or hrtimer_cancel on any timer (CbOps).  `Reuse` says        *)
(* whether callers start a timer again, or cancel one again or after it   *)
(* fired; without it each timer is started once and cancelled at most     *)
(* once, before its callback ran.                                          *)
(***************************************************************************)
EXTENDS Naturals, Sequences, SequencesExt

CONSTANTS
    Timers,     \* the struct hrtimer objects
    ListHead,       \* &hrtimer_list
    NULL,       \* a zero pointer (a static timer never passed to hrtimer_init)
    Times,      \* expiry values passed to hrtimer_start
    MaxTime,    \* the last value of ktime_get_ns in a behaviour
    MaxNest,    \* activations of hrtimer_run_queues at once (nested ticks)
    MaxStarts,  \* hrtimer_start calls in a behaviour
    CbOps,      \* what callbacks do: "none", "restart", "cancel"
    Reuse       \* whether timers are started or cancelled again

ASSUME Times \subseteq 1 .. MaxTime /\ MaxNest \in Nat \ {0}
       /\ CbOps \subseteq {"none", "restart", "cancel"} /\ Reuse \in BOOLEAN

VARIABLES
    nxt, prv,   \* list_head.next / .prev of the head and every timer
    expires,    \* timer->expires
    clock,      \* ktime_get_ns()
    act,        \* the stack of hrtimer_run_queues activations
    nstarts,    \* hrtimer_start calls so far
    started,    \* timers ever started (callers' history)
    fired,      \* timers whose callback run_queues has taken
    cancelled   \* timers ever cancelled (callers' history)

vars == <<nxt, prv, expires, clock, act, nstarts, started, fired, cancelled>>

\* The callers' discipline: may t be cancelled now?
MayCancel(t) == Reuse \/ t \notin fired \cup cancelled

Nodes == Timers \cup {ListHead}

\* The links as one value, so list operations compose.
Links == [n |-> nxt, p |-> prv]
SetLinks(L) == nxt' = L.n /\ prv' = L.p

(* list_del: unlink n between its neighbours; n keeps its pointers.       *)
Del(L, x) ==
    LET a == L.p[x]
        b == L.n[x]
    IN [n |-> [L.n EXCEPT ![a] = b], p |-> [L.p EXCEPT ![b] = a]]

\* Seeded fault: list_add (insert after c) where list_add_tail is meant.
AddAfter(L, new, c) ==
    LET b == L.n[c]
    IN [n |-> [L.n EXCEPT ![new] = b, ![c] = new],
        p |-> [L.p EXCEPT ![b] = new, ![new] = c]]

\* Seeded fault: the new node's prev link never written.
AddTailNoPrev(L, new, c) ==
    LET a == L.p[c]
    IN [n |-> [L.n EXCEPT ![new] = c, ![a] = new],
        p |-> [L.p EXCEPT ![c] = new]]

(* list_add_tail(new, c): insert new just before c, in __list_add's order. *)
AddTail(L, new, c) ==
    LET a == L.p[c]
    IN [n |-> [L.n EXCEPT ![new] = c, ![a] = new],
        p |-> [L.p EXCEPT ![c] = new, ![new] = a]]

(* The nodes met walking next from the head until it comes back (at most  *)
(* one lap of the nodes: a corrupted ring is cut there).                   *)
RECURSIVE Seg(_, _, _)
Seg(L, x, k) ==
    IF x = ListHead \/ x = NULL \/ k = 0 THEN <<>>
    ELSE <<x>> \o Seg(L, L.n[x], k - 1)

Ring(L) == Seg(L, L.n[ListHead], Cardinality(Nodes))

(* hrtimer_start's walk: the first entry expiring after e, else the head. *)
InsertPos(L, ex, e) ==
    LET r == Ring(L)
        later == {i \in DOMAIN r : ex[r[i]] > e}
    IN IF later = {} THEN ListHead ELSE r[Min(later)]

(***************************************************************************)
(* hrtimer_start(t, e) under the lock: a node whose next is neither 0 nor *)
(* itself (and whose prev is set) is unlinked, expires is set, and t is   *)
(* inserted before the first entry that expires later.                    *)
(***************************************************************************)
StartOp(L, ex, t, e) ==
    LET L1 == IF L.n[t] # NULL /\ L.n[t] # t /\ L.p[t] # NULL THEN Del(L, t) ELSE L
        ex1 == [ex EXCEPT ![t] = e]
    IN AddTail(L1, t, InsertPos(L1, ex1, e))

(* hrtimer_cancel(t) under the lock: unlink if both pointers are set.      *)
CancelOp(L, t) ==
    IF L.n[t] # NULL /\ L.p[t] # NULL THEN Del(L, t) ELSE L

\* Seeded faults in run_queues' expiry test.
DueAlways(f, now) == TRUE
DueStrict(f, now) == expires[f] < now

\* `timer->expires <= now`
Due(f, now) == expires[f] <= now

-----------------------------------------------------------------------------
(* hrtimer_init_system: an empty list.  Each timer is either passed to    *)
(* hrtimer_init (linked to itself) or a zeroed static struct.              *)
Init ==
    /\ nxt \in {f \in [Nodes -> Nodes \cup {NULL}] :
                  f[ListHead] = ListHead /\ \A t \in Timers : f[t] \in {t, NULL}}
    /\ prv = nxt
    /\ expires = [t \in Timers |-> 0]
    /\ clock = 0
    /\ act = <<>>
    /\ nstarts = 0
    /\ started = {}
    /\ fired = {}
    /\ cancelled = {}

\* No interrupt handler is running, so a task runs.
TaskRuns == act = <<>>

\* Interrupts are enabled: in a task, or in run_queues around a callback.
IrqOn == IF act = <<>> THEN TRUE ELSE Last(act).pc \in {"cb", "ret"}

Top == Len(act)

(* A task's hrtimer_start(t, e).                                           *)
Start(t, e) ==
    /\ TaskRuns
    /\ nstarts < MaxStarts
    /\ Reuse \/ t \notin started
    /\ SetLinks(StartOp(Links, expires, t, e))
    /\ expires' = [expires EXCEPT ![t] = e]
    /\ nstarts' = nstarts + 1
    /\ started' = started \cup {t}
    /\ UNCHANGED <<clock, act, fired, cancelled>>

(* A task's hrtimer_cancel(t).                                             *)
Cancel(t) ==
    /\ TaskRuns
    /\ MayCancel(t)
    /\ SetLinks(CancelOp(Links, t))
    /\ cancelled' = cancelled \cup {t}
    /\ UNCHANGED <<expires, clock, act, nstarts, started, fired>>

(* The time stamp counter advances.                                        *)
Advance ==
    /\ clock < MaxTime
    /\ clock' = clock + 1
    /\ UNCHANGED <<nxt, prv, expires, act, nstarts, started, fired, cancelled>>

(* The timer interrupt enters hrtimer_run_queues: now = ktime_get_ns().    *)
Tick ==
    /\ IrqOn
    /\ Len(act) < MaxNest
    /\ act' = Append(act, [now |-> clock, pc |-> "scan", tm |-> ListHead])
    /\ UNCHANGED <<nxt, prv, expires, clock, nstarts, started, fired, cancelled>>

(***************************************************************************)
(* One locked stretch of run_queues' loop (entered at the top, or after   *)
(* the callback by re-acquiring the lock and restarting at the head):     *)
(* the first entry, if due, is unlinked and the lock dropped for its      *)
(* callback; otherwise the lock is released and the activation returns.  *)
(***************************************************************************)
\* The loop's head test and expiry test on the first entry.
Expired(f, now) == f # ListHead /\ f # NULL /\ Due(f, now)

Scan ==
    LET a == act[Top]
        f == nxt[ListHead]
    IN /\ act # <<>>
       /\ a.pc \in {"scan", "ret"}
       /\ \/ /\ Expired(f, a.now)
             /\ SetLinks(Del(Links, f))
             /\ act' = [act EXCEPT ![Top] = [@ EXCEPT !.pc = "cb", !.tm = f]]
             /\ fired' = fired \cup {f}
          \/ /\ ~Expired(f, a.now)
             /\ act' = Front(act)
             /\ UNCHANGED <<nxt, prv, fired>>
       /\ UNCHANGED <<expires, clock, nstarts, started, cancelled>>

(***************************************************************************)
(* timer->function(timer), with the lock dropped; its return value is     *)
(* ignored.  A callback may return at once (or function is NULL), restart *)
(* its own timer or cancel a timer, each an atomic locked call.           *)
(***************************************************************************)
Callback ==
    LET t == act[Top].tm IN
    /\ act # <<>>
    /\ act[Top].pc = "cb"
    /\ act' = [act EXCEPT ![Top].pc = "ret"]
    /\ \/ /\ "none" \in CbOps
          /\ UNCHANGED <<nxt, prv, expires, nstarts, started, cancelled>>
       \/ /\ "restart" \in CbOps /\ Reuse /\ nstarts < MaxStarts
          /\ \E e \in Times :
                /\ SetLinks(StartOp(Links, expires, t, e))
                /\ expires' = [expires EXCEPT ![t] = e]
          /\ nstarts' = nstarts + 1
          /\ UNCHANGED <<started, cancelled>>
       \/ /\ "cancel" \in CbOps
          /\ \E u \in Timers :
                /\ MayCancel(u)
                /\ SetLinks(CancelOp(Links, u))
                /\ cancelled' = cancelled \cup {u}
          /\ UNCHANGED <<expires, nstarts, started>>
    /\ UNCHANGED <<clock, fired>>

Next ==
    \/ \E t \in Timers, e \in Times : Start(t, e)
    \/ \E t \in Timers : Cancel(t)
    \/ Advance
    \/ Tick
    \/ Scan
    \/ Callback

(***************************************************************************)
(* The PIT interrupt recurs, so a tick eventually comes while interrupts  *)
(* are on at task level; a handler, once entered, runs to completion; the *)
(* counter keeps advancing.  Tasks' calls have no fairness.               *)
(***************************************************************************)
Fairness ==
    /\ WF_vars(TaskRuns /\ Tick)
    /\ WF_vars(Scan)
    /\ WF_vars(Callback)
    /\ WF_vars(Advance)

Spec == Init /\ [][Next]_vars /\ Fairness

-----------------------------------------------------------------------------
(* Properties *)

\* The timers linked on hrtimer_list.
Linked == Range(Ring(Links))

TypeOK ==
    /\ nxt \in [Nodes -> Nodes \cup {NULL}]
    /\ prv \in [Nodes -> Nodes \cup {NULL}]
    /\ \A t \in Timers : nxt[t] = NULL <=> prv[t] = NULL
    /\ expires \in [Timers -> Times \cup {0}]
    /\ clock \in 0 .. MaxTime
    /\ Len(act) <= MaxNest

(***************************************************************************)
(* hrtimer_list is a well-formed ring sorted by expiry: walking next from *)
(* the head comes back to it, passes no node twice, every prev is the     *)
(* node before, and expiries never decrease.  run_queues relies on the    *)
(* first entry being the earliest, and a task's start or cancel, a        *)
(* callback's, and a nested tick's unlink interleave on it.               *)
(***************************************************************************)
ListWellFormed ==
    LET r == Ring(Links)
        n == Len(r)
    IN /\ IsInjective(r)
       /\ (IF n = 0 THEN nxt[ListHead] ELSE nxt[r[n]]) = ListHead
       /\ prv[ListHead] = (IF n = 0 THEN ListHead ELSE r[n])
       /\ \A i \in 1 .. n : prv[r[i]] = (IF i = 1 THEN ListHead ELSE r[i - 1])
       /\ \A i \in 1 .. n - 1 : expires[r[i]] <= expires[r[i + 1]]

(***************************************************************************)
(* The pointer list implements the abstract timer queue: the linked       *)
(* timers are the armed ones, start arms, cancel disarms, and run_queues  *)
(* takes a timer off only once it is due and no armed timer is earlier;   *)
(* a timer leaves the list by no other step (none is lost by an unlink of *)
(* a neighbour or a nested tick).                                         *)
(***************************************************************************)
Queue == INSTANCE HrtimerQueue WITH armed <- Linked, exp <- expires, clock <- clock,
                               fired <- fired, cancelled <- cancelled

ImplementsQueue == Queue!Spec

(***************************************************************************)
(* Every started timer is eventually taken off the list (its callback     *)
(* runs or it is cancelled): the tick keeps coming and the clock reaches  *)
(* every expiry, so no timer stays behind in the list.                    *)
(***************************************************************************)
TimerLeaves == \A t \in Timers : t \in Linked ~> t \notin Linked

====
