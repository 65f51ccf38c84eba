-------------------------------- MODULE Swap --------------------------------
(***************************************************************************)
(* memory/swap.c over the frame allocator of PMM.  One process, the client *)
(* VM of the allocator, has the user pages VPages; each page's leaf PTE is *)
(* a 64-bit word: 0, Present (frame in bits 12..51, Present|Writable|User) *)
(* or Swapped (bit 9, device in bits 1..8, slot in bits 12..63).  Swap     *)
(* device 0, set up by swap_init, is a slab of NSlots page slots with a    *)
(* byte map; devices 1..3 stay zero (inactive).  The other clients of PMM  *)
(* allocate and free frames beside it and write into what they get.       *)
(*                                                                         *)
(* A byte page is its content's name: page v holds v, a client's frame     *)
(* holds the client, and 0 is whatever a frame or slot held before.        *)
(*                                                                         *)
(* swap_out's caller (victim selection) and the demand mapping of a page   *)
(* are in spec 4.B, not under src/; they follow the spec.  The fault path  *)
(* runs with interrupts off, so each of these calls is one step.           *)
(***************************************************************************)
EXTENDS PMM

CONSTANTS
    VM,        \* the allocator client that is the process under pressure
    VPages,    \* its user pages (positive integers)
    NSlots     \* swap_devices[0].size (1024 in swap_init)

MAX_SWAP_DEVICES == 4
PTE_PRESENT == 1
PTE_SWAPPED == 512     \* 0x200
UserRW == 7            \* Present | Writable | User

VARIABLES
    pte,       \* v -> its leaf PTE word
    mem,       \* frame -> the page it holds
    sbitmap,   \* swap_devices[0].bitmap: the slots marked used
    storage    \* slot -> the page it holds

swapVars == <<pte, mem, sbitmap, storage>>
allVars == <<vars, swapVars>>

Slots == 0 .. NSlots - 1
Active == {0}          \* swap_devices[i].active: swap_init sets device 0

Bit(w, b) == (w \div (2 ^ b)) % 2
IsPresent(w) == Bit(w, 0) = 1
IsSwapped(w) == Bit(w, 9) = 1
PteFrame(w) == w \div 4096
\* spec 4.B: the evict encoding, device in bits 1..8 and the slot from 12.
SwapPte(dev, off) == off * 4096 + PTE_SWAPPED + dev * 2
\* handle_swap_fault's decode.
PteDevice(w) == (w \div 2) % 256
PteOffset(w) == w \div 4096

\* The frames an allocation by c just handed out, per ret'.
Got(c) == IF ret'[c][2] = Oom THEN {} ELSE RunFrames(<<ret'[c][2], ret'[c][1]>>)

(* swap_init (device 0 active, bitmap zeroed); the process maps nothing.  *)
SInit ==
    /\ Init
    /\ pte = [v \in VPages |-> 0]
    /\ mem = [f \in Frames |-> 0]
    /\ sbitmap = {}
    /\ storage = [s \in Slots |-> 0]

-----------------------------------------------------------------------------
(***************************************************************************)
(* find_free_swap_slot: the first slot whose byte is 0, marked used, or   *)
(* -1 when the device is full.                                             *)
(***************************************************************************)
FreeSlot == IF Slots \ sbitmap = {} THEN -1 ELSE Min(Slots \ sbitmap)

\* Seeded fault: the caller never giving the evicted frame back to pmm.
SwapOutNoFree(v) ==
    LET f == PteFrame(pte[v])
        off == FreeSlot
    IN /\ IsPresent(pte[v])
       /\ off # -1
       /\ sbitmap' = sbitmap \cup {off}
       /\ storage' = [storage EXCEPT ![off] = mem[f]]
       /\ pte' = [pte EXCEPT ![v] = SwapPte(0, off)]
       /\ UNCHANGED <<mem, bitmap, last_free_index, free_memory, held, ret>>

(***************************************************************************)
(* Victim selection (spec 4.B) evicting page v, Present: swap_out copies  *)
(* its frame into the first free slot of device 0 (-1 when full: nothing *)
(* changes); the caller then frees the frame and rewrites the PTE as       *)
(* Swapped.                                                                *)
(***************************************************************************)
SwapOut(v) ==
    LET f == PteFrame(pte[v])
        off == FreeSlot
    IN /\ IsPresent(pte[v])
       /\ off # -1
       /\ sbitmap' = sbitmap \cup {off}
       /\ storage' = [storage EXCEPT ![off] = mem[f]]
       /\ FreePage(VM, <<f, 1>>)
       /\ pte' = [pte EXCEPT ![v] = SwapPte(0, off)]
       /\ UNCHANGED mem

\* Seeded fault: swap_in clearing the slot's byte before pmm_alloc_page,
\* so a failed allocation frees it too.
SwapFaultFreeEarly(v) ==
    LET dev == PteDevice(pte[v])
        off == PteOffset(pte[v])
    IN /\ ~IsPresent(pte[v]) /\ IsSwapped(pte[v])
       /\ dev < MAX_SWAP_DEVICES /\ dev \in Active
       /\ off < NSlots
       /\ AllocPage(VM)
       /\ sbitmap' = sbitmap \ {off}
       /\ IF ret'[VM][2] = Oom
          THEN UNCHANGED <<pte, mem, storage>>
          ELSE LET nf == ret'[VM][2] IN
               /\ mem' = [mem EXCEPT ![nf] = storage[off]]
               /\ pte' = [pte EXCEPT ![v] = nf * 4096 + UserRW]
               /\ UNCHANGED storage

\* Seeded fault: swap_in never clearing the slot's byte.
SwapFaultKeepSlot(v) ==
    LET dev == PteDevice(pte[v])
        off == PteOffset(pte[v])
    IN /\ ~IsPresent(pte[v]) /\ IsSwapped(pte[v])
       /\ dev < MAX_SWAP_DEVICES /\ dev \in Active
       /\ off < NSlots
       /\ AllocPage(VM)
       /\ IF ret'[VM][2] = Oom
          THEN UNCHANGED swapVars
          ELSE LET nf == ret'[VM][2] IN
               /\ mem' = [mem EXCEPT ![nf] = storage[off]]
               /\ pte' = [pte EXCEPT ![v] = nf * 4096 + UserRW]
               /\ UNCHANGED <<sbitmap, storage>>

(***************************************************************************)
(* handle_swap_fault on page v: -1 unless the PTE is Swapped and not       *)
(* Present; decode device and slot; swap_in: -1 for a device past          *)
(* MAX_SWAP_DEVICES or inactive or a slot past the size; pmm_alloc_page    *)
(* (-1 on NULL, PTE and slot kept); copy the slot into the new frame, free *)
(* the slot, and map the frame Present|Writable|User.                      *)
(***************************************************************************)
SwapFault(v) ==
    LET dev == PteDevice(pte[v])
        off == PteOffset(pte[v])
    IN /\ ~IsPresent(pte[v]) /\ IsSwapped(pte[v])
       /\ dev < MAX_SWAP_DEVICES /\ dev \in Active
       /\ off < NSlots
       /\ AllocPage(VM)
       /\ IF ret'[VM][2] = Oom
          THEN UNCHANGED swapVars
          ELSE LET nf == ret'[VM][2] IN
               /\ mem' = [mem EXCEPT ![nf] = storage[off]]
               /\ sbitmap' = sbitmap \ {off}
               /\ pte' = [pte EXCEPT ![v] = nf * 4096 + UserRW]
               /\ UNCHANGED storage

(***************************************************************************)
(* Demand mapping (spec 4.B map_page) of page v, never mapped: a frame    *)
(* from pmm_alloc_page, filled with the page, mapped Present|Writable|User.*)
(***************************************************************************)
MapPage(v) ==
    /\ pte[v] = 0
    /\ AllocPage(VM)
    /\ IF ret'[VM][2] = Oom
       THEN UNCHANGED swapVars
       ELSE LET nf == ret'[VM][2] IN
            /\ mem' = [mem EXCEPT ![nf] = v]
            /\ pte' = [pte EXCEPT ![v] = nf * 4096 + UserRW]
            /\ UNCHANGED <<sbitmap, storage>>

(* Another client's allocator call; it writes into the frames it gets.    *)
Other(c) ==
    /\ \/ AllocPage(c)
       \/ \E n \in 1 .. MaxRun : AllocPages(c, n)
    /\ mem' = [f \in Frames |-> IF f \in Got(c) THEN c ELSE mem[f]]
    /\ UNCHANGED <<pte, sbitmap, storage>>

SNext ==
    \/ \E v \in VPages : MapPage(v) \/ SwapOut(v) \/ SwapFault(v)
    \/ \E c \in Clients \ {VM} :
          \/ Other(c)
          \/ /\ \E r \in held[c] : FreePage(c, r) \/ FreePages(c, r)
             /\ UNCHANGED swapVars

SSpec == SInit /\ [][SNext]_allVars

-----------------------------------------------------------------------------
Present(v) == IsPresent(pte[v])
Swapped(v) == ~IsPresent(pte[v]) /\ IsSwapped(pte[v])

SwapTypeOK ==
    /\ TypeOK
    /\ \A v \in VPages : pte[v] = 0 \/ Present(v) \/ Swapped(v)
    /\ sbitmap \subseteq Slots

(***************************************************************************)
(* spec 7, swap_out(f, &e); swap_in(e, &f'); memcmp(f, f') == 0: a page    *)
(* mapped Present finds its own bytes in its frame, and a Swapped page in  *)
(* the slot its PTE names, after any mix of evictions, faults, failed     *)
(* allocations and other clients reusing the frames swap_out gave back.   *)
(***************************************************************************)
ContentPreserved ==
    \A v \in VPages :
        /\ Present(v) => mem[PteFrame(pte[v])] = v
        /\ Swapped(v) => storage[PteOffset(pte[v])] = v

(***************************************************************************)
(* The slots marked used in device 0's bitmap are exactly those Swapped   *)
(* PTEs name, one page each: swap_in frees a slot only once its copy has  *)
(* a frame, and swap_out's slot is the one the PTE gets.  A slot freed    *)
(* early is handed to the next eviction while a PTE still names it; one   *)
(* never freed is lost to the device.                                      *)
(***************************************************************************)
SlotsAccounted ==
    /\ sbitmap = {PteOffset(pte[v]) : v \in {u \in VPages : Swapped(u)}}
    /\ \A v, u \in VPages : Swapped(v) /\ Swapped(u) /\ v # u =>
          PteOffset(pte[v]) # PteOffset(pte[u])

(***************************************************************************)
(* The frames the process holds from pmm are exactly those its Present    *)
(* PTEs map: a fault's frame is mapped, an evicted page's frame goes back  *)
(* to pmm, and a failed fault keeps nothing.                               *)
(***************************************************************************)
FramesAccounted ==
    held[VM] = {<<PteFrame(pte[v]), 1>> : v \in {u \in VPages : Present(u)}}
=============================================================================
