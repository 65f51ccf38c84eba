----------------------------- MODULE FrameAlloc -----------------------------
(***************************************************************************)
(* What the physical frame allocator promises its callers, with no bitmap, *)
(* no search hint and no scan order: a caller is handed frames that are    *)
(* usable, not reserved and not held by anybody, a request fails with Oom  *)
(* only when no such frame (or no contiguous run of them) exists, and the  *)
(* free count is the number of frames that could still be handed out.     *)
(* PMM (memory/pmm.c) is checked to implement this specification.          *)
(***************************************************************************)
EXTENDS Naturals, FiniteSets, Functions

CONSTANTS
    NFrames,    \* total_pages
    Usable,     \* frames the boot memory map reports as usable RAM
    Reserved,   \* frame 0, the kernel image and the bitmap itself
    Clients,    \* callers that hold frames
    MaxRun      \* largest count passed to a run allocation

VARIABLES
    owned,      \* owned[c]: the runs <<start, count>> caller c holds
    ret,        \* ret[c]: <<count asked, value returned>> of c's last allocation
    freeCount   \* the free count the allocator reports

Frames == 0 .. NFrames - 1
Oom == -1   \* the NULL a failed allocation returns

RunFrames(r) == r[1] .. (r[1] + r[2] - 1)
InUse == UNION { RunFrames(r) : r \in UNION Range(owned) }
Avail == (Usable \ Reserved) \ InUse
FitsAt(s, n) == s + n <= NFrames /\ RunFrames(<<s, n>>) \subseteq Avail
Fits(n) == \E s \in Frames : FitsAt(s, n)

Init ==
    /\ owned = [c \in Clients |-> {}]
    /\ ret = [c \in Clients |-> <<0, Oom>>]
    /\ freeCount = Cardinality(Avail)

Grant(c, s, n) ==
    /\ owned' = [owned EXCEPT ![c] = @ \cup {<<s, n>>}]
    /\ ret' = [ret EXCEPT ![c] = <<n, s>>]
    /\ freeCount' = freeCount - n

Refuse(c, n) ==
    /\ ret' = [ret EXCEPT ![c] = <<n, Oom>>]
    /\ UNCHANGED <<owned, freeCount>>

AllocRun(c, n) ==
    \/ \E s \in Frames : FitsAt(s, n) /\ Grant(c, s, n)
    \/ ~Fits(n) /\ Refuse(c, n)

Release(c, r) ==
    /\ r \in owned[c]
    /\ owned' = [owned EXCEPT ![c] = @ \ {r}]
    /\ freeCount' = freeCount + r[2]
    /\ UNCHANGED ret

Next ==
    \E c \in Clients :
        \/ \E n \in 1 .. MaxRun : AllocRun(c, n)
        \/ \E r \in owned[c] : Release(c, r)

Spec == Init /\ [][Next]_<<owned, ret, freeCount>>

=============================================================================
