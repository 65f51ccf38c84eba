-------------------------------- MODULE Msg --------------------------------
(***************************************************************************)
(* System V message queues, ipc/msg.c.  Each queue is the code's singly   *)
(* linked list of kmalloc'd entries (`head`, `tail`, the entries' `next`) *)
(* with its `count`, found by key or id on the global `queues` list.      *)
(*                                                                         *)
(* The mutex and condition variable are not under src/ and follow the     *)
(* spec: a locked region is one atomic step (no code in it suspends), and *)
(* cond_wait releases the queue lock and blocks in one step; a broadcast  *)
(* makes every waiter re-take the lock and scan again.  sys_msgsnd and    *)
(* sys_msgrcv look the queue up under queues_lock and take q->lock after  *)
(* dropping it; queues are never removed, so the id found is still valid  *)
(* and the two regions are merged into one step.                          *)
(*                                                                         *)
(* An entry is identified by its send order (entries are fresh kmalloc   *)
(* objects), its text by its size only.                                    *)
(***************************************************************************)
EXTENDS Naturals, Integers, FiniteSets, Sequences

CONSTANTS
    Tasks,      \* processes calling the msg syscalls
    Keys,       \* keys passed to msgget; 0 is IPC_PRIVATE in the spec
    Types,      \* message types sent (positive longs)
    MSG_SIZE,   \* largest text size msgsnd accepts
    MaxQueues,  \* queues created in one behaviour
    MaxMsgs     \* messages sent in one behaviour

ASSUME /\ 0 \in Keys /\ 0 \notin Types /\ MSG_SIZE \in Nat \ {0}
       /\ MaxQueues \in Nat \ {0} /\ MaxMsgs \in Nat \ {0}

VARIABLES
    next_id,    \* the id the next created queue gets
    qkey,       \* qkey[q]: the key of queue q (q < next_id)
    head, tail, count,
    next,       \* next[e]: the entry after e
    mtype, msize, \* type and text size of entry e
    nmsgs,      \* entries allocated so far
    pc,         \* "idle", "scan" (holding q->lock in msgrcv's loop), "wait"
    rq, rtyp,   \* msgrcv's queue and msgtyp (locals of the call)
    waiters,    \* waiters[q]: tasks in cond_wait on q->cond_recv
    sentTo,     \* sentTo[e]: the queue e was sent to
    got         \* got[q]: the entries taken from q

vars == <<next_id, qkey, head, tail, count, next, mtype, msize, nmsgs, pc,
          rq, rtyp, waiters, sentTo, got>>

Ids == 1 .. MaxQueues
Entries == 1 .. MaxMsgs
NIL == 0
Sizes == 1 .. MSG_SIZE + 1
Live == 1 .. next_id - 1   \* the queues on the `queues` list

\* The entries from e on, following next, as the code's loops walk them.
RECURSIVE Walk(_, _)
Walk(e, fuel) ==
    IF e = NIL \/ fuel = 0 THEN <<>> ELSE <<e>> \o Walk(next[e], fuel - 1)

List(q) == Walk(head[q], MaxMsgs + 1)

Matches(e, ty) == ty = 0 \/ mtype[e] = ty

Init ==
    /\ next_id = 1
    /\ qkey = [q \in Ids |-> -1]
    /\ head = [q \in Ids |-> NIL] /\ tail = [q \in Ids |-> NIL]
    /\ count = [q \in Ids |-> 0]
    /\ next = [e \in Entries |-> NIL]
    /\ mtype = [e \in Entries |-> CHOOSE ty \in Types : TRUE]
    /\ msize = [e \in Entries |-> 1]
    /\ nmsgs = 0
    /\ pc = [t \in Tasks |-> "idle"]
    /\ rq = [t \in Tasks |-> NIL] /\ rtyp = [t \in Tasks |-> 0]
    /\ waiters = [q \in Ids |-> {}]
    /\ sentTo = [e \in Entries |-> NIL]
    /\ got = [q \in Ids |-> {}]

(***************************************************************************)
(* sys_msgget(key): the id of the queue with this key if there is one     *)
(* (MsgGetFound), else a new empty queue pushed on the list (MsgGetNew),   *)
(* or -1 when kmalloc fails (MsgGetOom).  All under queues_lock.          *)
(***************************************************************************)
KeyUsed(key) == \E q \in Live : qkey[q] = key

MsgGetFound(t, key) ==
    /\ pc[t] = "idle"
    /\ KeyUsed(key)
    /\ UNCHANGED vars

MsgGetNew(t, key) ==
    /\ pc[t] = "idle"
    /\ ~KeyUsed(key)
    /\ next_id <= MaxQueues
    /\ qkey' = [qkey EXCEPT ![next_id] = key]
    /\ next_id' = next_id + 1
    /\ UNCHANGED <<head, tail, count, next, mtype, msize, nmsgs, pc, rq, rtyp,
                   waiters, sentTo, got>>

MsgGetOom(t, key) ==
    /\ pc[t] = "idle"
    /\ ~KeyUsed(key)
    /\ UNCHANGED vars

\* Seeded fault: msgsnd without its size check.
SizeOkNoCheck(n) == TRUE

\* msgsnd's `msgsz > MSG_SIZE` rejection.
SizeOk(n) == n <= MSG_SIZE

\* Seeded fault: msgsnd appending without waking the receivers.
WakeNobody(q) == UNCHANGED <<pc, waiters>>

\* cond_broadcast(&q->cond_recv): every waiter goes back to its scan.
Broadcast(q) ==
    /\ pc' = [t \in Tasks |-> IF t \in waiters[q] THEN "scan" ELSE pc[t]]
    /\ waiters' = [waiters EXCEPT ![q] = {}]

(***************************************************************************)
(* sys_msgsnd(q, type, size): reject an oversized text or an unknown id;  *)
(* else append a new entry at the tail, count it and broadcast.            *)
(***************************************************************************)
MsgSnd(t, q, ty, n) ==
    LET e == nmsgs + 1 IN
    /\ pc[t] = "idle"
    /\ SizeOk(n) /\ q \in Live
    /\ nmsgs < MaxMsgs
    /\ nmsgs' = e
    /\ mtype' = [mtype EXCEPT ![e] = ty]
    /\ msize' = [msize EXCEPT ![e] = n]
    /\ next' = IF tail[q] # NIL THEN [next EXCEPT ![tail[q]] = e, ![e] = NIL]
                                 ELSE [next EXCEPT ![e] = NIL]
    /\ head' = IF tail[q] # NIL THEN head ELSE [head EXCEPT ![q] = e]
    /\ tail' = [tail EXCEPT ![q] = e]
    /\ count' = [count EXCEPT ![q] = @ + 1]
    /\ sentTo' = [sentTo EXCEPT ![e] = q]
    /\ Broadcast(q)
    /\ UNCHANGED <<next_id, qkey, rq, rtyp, got>>

(* sys_msgrcv(q, msgsz, msgtyp) on a queue that exists: take q->lock.     *)
(* (msgsz only bounds the bytes copied out; texts are not modelled.)      *)
MsgRcv(t, q, ty) ==
    /\ pc[t] = "idle"
    /\ q \in Live
    /\ pc' = [pc EXCEPT ![t] = "scan"]
    /\ rq' = [rq EXCEPT ![t] = q]
    /\ rtyp' = [rtyp EXCEPT ![t] = ty]
    /\ UNCHANGED <<next_id, qkey, head, tail, count, next, mtype, msize,
                   nmsgs, waiters, sentTo, got>>

\* Seeded fault: the scan keeping the last match instead of stopping.
LastMatch(q, ty) ==
    LET l == List(q)
        is == {i \in 1 .. Len(l) : Matches(l[i], ty)}
    IN IF is = {} THEN 0 ELSE CHOOSE i \in is : \A j \in is : j <= i

\* The scan of msgrcv's loop: the position in the list of the first entry
\* that matches msgtyp (any entry for 0), or 0.
FirstMatch(q, ty) ==
    LET l == List(q)
        is == {i \in 1 .. Len(l) : Matches(l[i], ty)}
    IN IF is = {} THEN 0 ELSE CHOOSE i \in is : \A j \in is : i <= j

\* Seeded fault: unlinking the tail entry without moving `tail` back.
UnlinkKeepTail(q, i) ==
    LET l == List(q)
        m == l[i]
    IN IF i > 1
       THEN /\ next' = [next EXCEPT ![l[i - 1]] = next[m]]
            /\ UNCHANGED <<head, tail>>
       ELSE /\ head' = [head EXCEPT ![q] = next[m]]
            /\ tail' = IF next[m] = NIL THEN [tail EXCEPT ![q] = NIL] ELSE tail
            /\ UNCHANGED next

(***************************************************************************)
(* Splice the i-th entry out: through prev->next, moving tail back when   *)
(* it was the tail, or through head, clearing tail when the list empties. *)
(***************************************************************************)
Unlink(q, i) ==
    LET l == List(q)
        m == l[i]
    IN IF i > 1
       THEN /\ next' = [next EXCEPT ![l[i - 1]] = next[m]]
            /\ tail' = IF m = tail[q] THEN [tail EXCEPT ![q] = l[i - 1]] ELSE tail
            /\ UNCHANGED head
       ELSE /\ head' = [head EXCEPT ![q] = next[m]]
            /\ tail' = IF next[m] = NIL THEN [tail EXCEPT ![q] = NIL] ELSE tail
            /\ UNCHANGED next

(***************************************************************************)
(* One pass of msgrcv's loop under q->lock: splice out the first match,   *)
(* count it off, copy it out, kfree it and return; with no match,         *)
(* cond_wait.  On return the call's locals are gone.                       *)
(***************************************************************************)
RcvScan(t) ==
    LET q == rq[t]
        i == FirstMatch(q, rtyp[t])
        m == List(q)[i]
    IN
    /\ pc[t] = "scan"
    /\ \/ /\ i # 0
          /\ Unlink(q, i)
          /\ count' = [count EXCEPT ![q] = @ - 1]
          /\ got' = [got EXCEPT ![q] = @ \cup {m}]
          /\ pc' = [pc EXCEPT ![t] = "idle"]
          /\ rq' = [rq EXCEPT ![t] = NIL]
          /\ rtyp' = [rtyp EXCEPT ![t] = 0]
          /\ UNCHANGED waiters
       \/ /\ i = 0
          /\ pc' = [pc EXCEPT ![t] = "wait"]
          /\ waiters' = [waiters EXCEPT ![q] = @ \cup {t}]
          /\ UNCHANGED <<head, tail, next, count, got, rq, rtyp>>
    /\ UNCHANGED <<next_id, qkey, mtype, msize, nmsgs, sentTo>>

Next ==
    \/ \E t \in Tasks, k \in Keys : MsgGetNew(t, k)
    \/ \E t \in Tasks, q \in Ids, ty \in Types, n \in Sizes : MsgSnd(t, q, ty, n)
    \/ \E t \in Tasks, q \in Ids, ty \in Types \cup {0} : MsgRcv(t, q, ty)
    \/ \E t \in Tasks : RcvScan(t)

Spec == Init /\ [][Next]_vars

-----------------------------------------------------------------------------
(* Properties *)

TypeOK ==
    /\ next_id \in 1 .. MaxQueues + 1 /\ qkey \in [Ids -> Keys \cup {-1}]
    /\ head \in [Ids -> Entries \cup {NIL}] /\ tail \in [Ids -> Entries \cup {NIL}]
    /\ count \in [Ids -> 0 .. MaxMsgs] /\ next \in [Entries -> Entries \cup {NIL}]
    /\ mtype \in [Entries -> Types] /\ msize \in [Entries -> 1 .. MSG_SIZE]
    /\ nmsgs \in 0 .. MaxMsgs
    /\ pc \in [Tasks -> {"idle", "scan", "wait"}]
    /\ waiters \in [Ids -> SUBSET Tasks]

(***************************************************************************)
(* Every queue's list, as the code walks it from head, ends (no cycle) at *)
(* tail, holds `count` entries, and shares no entry with another queue,   *)
(* through every order of appends and of splices at the head, the tail   *)
(* and the middle.                                                         *)
(***************************************************************************)
QueueWellFormed ==
    \A q \in Ids :
        LET l == List(q) IN
        /\ Len(l) = count[q]
        /\ IF l = <<>> THEN tail[q] = NIL ELSE tail[q] = l[Len(l)] /\ next[tail[q]] = NIL
        /\ \A r \in Ids \ {q} : \A i \in 1 .. Len(l), j \in 1 .. Len(List(r)) : l[i] # List(r)[j]

(***************************************************************************)
(* No message is lost or delivered twice, and each type is FIFO: every    *)
(* message sent to q is either on q's list or was taken exactly once, the *)
(* list keeps send order, and a message was taken only when no earlier    *)
(* message of its type was still waiting (msgrcv takes the first match).  *)
(***************************************************************************)
PerTypeFifo ==
    \A q \in Ids :
        LET l == List(q)
            onList == {l[i] : i \in 1 .. Len(l)}
        IN
        /\ onList \cap got[q] = {}
        /\ onList \cup got[q] = {e \in Entries : sentTo[e] = q}
        /\ \A i \in 1 .. Len(l) - 1 : l[i] < l[i + 1]
        /\ \A g \in got[q], e \in onList : mtype[e] = mtype[g] => g < e

(***************************************************************************)
(* No receiver sleeps past its message: a task in cond_wait on q finds no *)
(* entry on q that matches its msgtyp.  msgsnd broadcasts after every     *)
(* append, and cond_wait drops the lock and sleeps in one step.           *)
(***************************************************************************)
NoWaiterWithMatch ==
    \A q \in Ids : \A t \in waiters[q] :
        \A i \in 1 .. Len(List(q)) : ~Matches(List(q)[i], rtyp[t])

(***************************************************************************)
(* The spec: key 0 is IPC_PRIVATE, so msgget(0) creates a new queue every *)
(* time.  sys_msgget looks key 0 up like any other key.                    *)
(***************************************************************************)
PrivateKeyIsFresh ==
    \A t \in Tasks : ~ENABLED MsgGetFound(t, 0)

====
