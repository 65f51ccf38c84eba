-------------------------------- MODULE PMM --------------------------------
(***************************************************************************)
(* The physical frame allocator of memory/pmm.c: one bit per frame in      *)
(* `bitmap` (set = in use or reserved), the search hint `last_free_index`  *)
(* and the free counter `free_memory`.  A frame is its index: the code's   *)
(* addresses are index * PAGE_SIZE and free_memory counts bytes, both      *)
(* divided by PAGE_SIZE here.  Callers are modelled as Clients that free   *)
(* exactly the runs they were given, as every caller under src/ does.      *)
(* The allocator is serialised by contract (spec 4.A), so each call is one *)
(* atomic step.                                                            *)
(***************************************************************************)
EXTENDS Naturals, FiniteSets, FiniteSetsExt, Functions

CONSTANTS NFrames, Usable, Reserved, Clients, MaxRun

ASSUME /\ NFrames \in Nat \ {0}
       /\ Usable \subseteq 0 .. NFrames - 1
       /\ 0 \in Reserved /\ Reserved \subseteq 0 .. NFrames - 1
       /\ MaxRun \in 1 .. NFrames
       \* the map reports some usable frame, so pmm_init's 1MB fallback
       \* (pmm.c 221-234) is not taken
       /\ Usable \ Reserved # {}

VARIABLES
    bitmap,           \* the set bits of `bitmap`
    last_free_index,
    free_memory,      \* in frames
    held,             \* held[c]: runs <<start, count>> caller c holds
    ret               \* ret[c]: <<count asked, value returned>> of c's last call

vars == <<bitmap, last_free_index, free_memory, held, ret>>

Frames == 0 .. NFrames - 1
Oom == -1                          \* the NULL an allocation returns
RunFrames(r) == r[1] .. (r[1] + r[2] - 1)

(***************************************************************************)
(* pmm_init: every bit set, the usable frames of the memory map cleared,   *)
(* then frames 0 .. end of the bitmap and frame 0 set again; free_memory   *)
(* is the count of clear bits.                                             *)
(***************************************************************************)
Init ==
    /\ bitmap = (Frames \ Usable) \cup Reserved
    /\ free_memory = Cardinality(Frames \ bitmap)
    /\ last_free_index = 0
    /\ held = [c \in Clients |-> {}]
    /\ ret = [c \in Clients |-> <<0, Oom>>]

\* Seeded fault: the scan bound written `i <= total_pages`.
FirstFreeOffByOne(bm, hint) ==
    LET above == {i \in hint .. NFrames : i \notin bm}
        below == {i \in 0 .. hint - 1 : i \notin bm}
    IN IF above # {} THEN Min(above)
       ELSE IF below # {} THEN Min(below) ELSE -1

(***************************************************************************)
(* pmm_find_first_free: the first clear bit at or above the hint, else the *)
(* first clear bit below it, else -1.                                      *)
(***************************************************************************)
FirstFree(bm, hint) ==
    LET above == {i \in hint .. NFrames - 1 : i \notin bm}
        below == {i \in 0 .. hint - 1 : i \notin bm}
    IN IF above # {} THEN Min(above)
       ELSE IF below # {} THEN Min(below) ELSE -1

(***************************************************************************)
(* pmm_alloc_page.  When the search finds frame 0 the code sets bit 0 and  *)
(* calls itself, so the search reruns from hint 0 over the updated bitmap  *)
(* (and free_memory is not decremented for frame 0).                       *)
(***************************************************************************)
AllocPage(c) ==
    LET found == FirstFree(bitmap, last_free_index)
        bm    == IF found = 0 THEN bitmap \cup {0} ELSE bitmap
        hint  == IF found = 0 THEN 0 ELSE last_free_index
        bit   == FirstFree(bm, hint)
    IN  IF bit = -1
        THEN /\ bitmap' = bm
             /\ last_free_index' = hint
             /\ ret' = [ret EXCEPT ![c] = <<1, Oom>>]
             /\ UNCHANGED <<free_memory, held>>
        ELSE /\ bitmap' = bm \cup {bit}
             /\ last_free_index' = bit
             /\ free_memory' = free_memory - 1
             /\ held' = [held EXCEPT ![c] = @ \cup {<<bit, 1>>}]
             /\ ret' = [ret EXCEPT ![c] = <<1, bit>>]

(***************************************************************************)
(* pmm_alloc_pages(count): first fit from frame 0.  The code's skip        *)
(* `i += j` past a set bit only drops starts that cannot fit, so the       *)
(* result is the lowest start of a clear run.  The hint is not touched.    *)
(***************************************************************************)
AllocPages(c, n) ==
    LET starts == {i \in 0 .. NFrames - n :
                      RunFrames(<<i, n>>) \cap bitmap = {}}
    IN  IF starts = {}
        THEN /\ ret' = [ret EXCEPT ![c] = <<n, Oom>>]
             /\ UNCHANGED <<bitmap, last_free_index, free_memory, held>>
        ELSE LET s == Min(starts) IN
             /\ bitmap' = bitmap \cup RunFrames(<<s, n>>)
             /\ free_memory' = free_memory - n
             /\ held' = [held EXCEPT ![c] = @ \cup {<<s, n>>}]
             /\ ret' = [ret EXCEPT ![c] = <<n, s>>]
             /\ UNCHANGED last_free_index

(***************************************************************************)
(* pmm_free_page: clear the bit (without looking at it), count the frame   *)
(* free and lower the hint.                                                *)
(***************************************************************************)
FreePage(c, r) ==
    /\ r[2] = 1
    /\ r[1] < NFrames
    /\ bitmap' = bitmap \ {r[1]}
    /\ free_memory' = free_memory + 1
    /\ last_free_index' = IF r[1] < last_free_index THEN r[1] ELSE last_free_index
    /\ held' = [held EXCEPT ![c] = @ \ {r}]
    /\ UNCHANGED ret

\* Seeded fault: pmm_free_pages clearing only the first bit of the run
\* while counting the whole run free.
FreePagesFirstOnly(c, r) ==
    /\ bitmap' = bitmap \ {r[1]}
    /\ free_memory' = free_memory + r[2]
    /\ last_free_index' = IF r[1] < last_free_index THEN r[1] ELSE last_free_index
    /\ held' = [held EXCEPT ![c] = @ \ {r}]
    /\ UNCHANGED ret

(***************************************************************************)
(* pmm_free_pages: clear the bits below total_pages, add the whole count   *)
(* to free_memory, lower the hint.                                         *)
(***************************************************************************)
FreePages(c, r) ==
    /\ bitmap' = bitmap \ (RunFrames(r) \cap Frames)
    /\ free_memory' = free_memory + r[2]
    /\ last_free_index' = IF r[1] < last_free_index THEN r[1] ELSE last_free_index
    /\ held' = [held EXCEPT ![c] = @ \ {r}]
    /\ UNCHANGED ret

Next ==
    \E c \in Clients :
        \/ AllocPage(c)
        \/ \E n \in 1 .. MaxRun : AllocPages(c, n)
        \/ \E r \in held[c] : FreePage(c, r)
        \/ \E r \in held[c] : FreePages(c, r)

Spec == Init /\ [][Next]_vars

-----------------------------------------------------------------------------
(* Properties *)

TypeOK ==
    /\ bitmap \subseteq Frames
    /\ last_free_index \in Frames
    /\ free_memory \in Int
    /\ \A c \in Clients : held[c] \subseteq (Frames \X (1 .. MaxRun))
    /\ ret \in [Clients -> (0 .. MaxRun) \X (Frames \cup {Oom})]

(***************************************************************************)
(* pmm_alloc_page / pmm_alloc_pages hand a caller only frames that are     *)
(* usable, not reserved and held by nobody; they return NULL only when no  *)
(* free frame (no free run) exists, even when every free frame lies below  *)
(* the search hint; and free_memory always equals the frames still         *)
(* available.  Stated as: PMM implements FrameAlloc.                       *)
(***************************************************************************)
Abstract == INSTANCE FrameAlloc WITH owned <- held, freeCount <- free_memory

ImplementsFrameAlloc == Abstract!Spec

=============================================================================
