-------------------------------- MODULE Shm --------------------------------
(***************************************************************************)
(* Shared memory segments, ipc/shm.c.  Every call runs under shm_lock and *)
(* nothing in it suspends, so each is one atomic step.  A segment's       *)
(* backing store is a fresh kmalloc block, so its address stands for the  *)
(* segment (id s has address s).  Sizes are in pages.  Processes detach   *)
(* only what they attached, as a correct program does.                    *)
(***************************************************************************)
EXTENDS Naturals, Integers

CONSTANTS
    Tasks,
    Keys,       \* keys passed to shmget
    PageCounts, \* sizes passed to shmget
    MaxSegs,    \* segments created in one behaviour
    MaxAttach   \* attachments of one segment one process holds at once

ASSUME MaxSegs \in Nat \ {0} /\ PageCounts \subseteq Nat \ {0} /\ MaxAttach \in Nat

VARIABLES
    next_shm_id,
    skey, ssize, ref_count,   \* per segment id
    asked,      \* asked[t]: <<id, size>> of t's last successful shmget, or NoAsk
    attached    \* attached[t][s]: how many times t has s attached

vars == <<next_shm_id, skey, ssize, ref_count, asked, attached>>

Ids == 1 .. MaxSegs
Segs == 1 .. next_shm_id - 1     \* the `segments` list
NoAsk == <<0, 0>>

Init ==
    /\ next_shm_id = 1
    /\ skey = [s \in Ids |-> -1]
    /\ ssize = [s \in Ids |-> 0]
    /\ ref_count = [s \in Ids |-> 0]
    /\ asked = [t \in Tasks |-> NoAsk]
    /\ attached = [t \in Tasks |-> [s \in Ids |-> 0]]

\* find_shm_key: the segment with this key, if any.
KeyUsed(key) == \E s \in Segs : skey[s] = key

(***************************************************************************)
(* sys_shmget(key, size): an existing segment with the key is returned    *)
(* whatever its size; else a zeroed segment of `size` is pushed on the     *)
(* list with ref_count 0.  Either kmalloc may fail (-1, nothing changes). *)
(***************************************************************************)
ShmGet(t, key, n) ==
    \/ \E s \in Segs :
          /\ skey[s] = key
          /\ asked' = [asked EXCEPT ![t] = <<s, n>>]
          /\ UNCHANGED <<next_shm_id, skey, ssize, ref_count, attached>>
    \/ /\ ~KeyUsed(key)
       /\ next_shm_id <= MaxSegs
       /\ skey' = [skey EXCEPT ![next_shm_id] = key]
       /\ ssize' = [ssize EXCEPT ![next_shm_id] = n]
       /\ next_shm_id' = next_shm_id + 1
       /\ asked' = [asked EXCEPT ![t] = <<next_shm_id, n>>]
       /\ UNCHANGED <<ref_count, attached>>

(* sys_shmat(id): find_shm, ref_count + 1, return the address.             *)
ShmAt(t, s) ==
    /\ s \in Segs
    /\ attached[t][s] < MaxAttach
    /\ ref_count' = [ref_count EXCEPT ![s] = @ + 1]
    /\ attached' = [attached EXCEPT ![t][s] = @ + 1]
    /\ UNCHANGED <<next_shm_id, skey, ssize, asked>>

(* sys_shmdt(addr): the first segment with that address, ref_count - 1;   *)
(* the segment stays allocated at 0.                                       *)
ShmDt(t, s) ==
    /\ attached[t][s] > 0
    /\ ref_count' = [ref_count EXCEPT ![s] = @ - 1]
    /\ attached' = [attached EXCEPT ![t][s] = @ - 1]
    /\ UNCHANGED <<next_shm_id, skey, ssize, asked>>

Next ==
    \/ \E t \in Tasks, k \in Keys, n \in PageCounts : ShmGet(t, k, n)
    \/ \E t \in Tasks, s \in Ids : ShmAt(t, s)
    \/ \E t \in Tasks, s \in Ids : ShmDt(t, s)

Spec == Init /\ [][Next]_vars

-----------------------------------------------------------------------------
(* Properties *)

TypeOK ==
    /\ next_shm_id \in 1 .. MaxSegs + 1
    /\ skey \in [Ids -> Keys \cup {-1}]
    /\ ssize \in [Ids -> PageCounts \cup {0}]
    /\ ref_count \in [Ids -> Int]
    /\ attached \in [Tasks -> [Ids -> 0 .. MaxAttach]]

(***************************************************************************)
(* A process that got segment s from shmget(key, size) can use `size`     *)
(* bytes at shmat's address: the segment is at least as large as asked.   *)
(* sys_shmget returns an existing segment for the key without comparing   *)
(* sizes, so a later, larger request writes past the kmalloc block.       *)
(***************************************************************************)
SegmentCoversRequest ==
    \A t \in Tasks : asked[t] # NoAsk => ssize[asked[t][1]] >= asked[t][2]

====
