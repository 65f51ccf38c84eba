------------------------------- MODULE MC_Swap -------------------------------
(* The frames of MC_PMM (usable 2, 4 and 5) shared by the process vm, with *)
(* two pages and one swap slot, and the allocator clients c1, c2: the      *)
(* device fills, a fault meets an exhausted pmm, and frames the process    *)
(* gives back are reused.                                                  *)
EXTENDS Swap, TLC

CONSTANTS c1, c2, vm

MCClients == {c1, c2, vm}
Symmetry == Permutations({c1, c2})
MCUsable == {0, 1, 2, 4, 5}
MCReserved == {0, 1}
=============================================================================
