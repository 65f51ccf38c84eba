------------------------------- MODULE MC_PMM -------------------------------
(* Six frames: 0 and 1 hold the kernel image and the bitmap, frame 3 is a  *)
(* hole in the memory map, so runs of two fit only at 4..5 and a single    *)
(* free frame can sit below the search hint.                               *)
EXTENDS PMM, TLC

CONSTANTS c1, c2

MCClients == {c1, c2}
MCUsable == {0, 1, 2, 4, 5}
MCReserved == {0, 1}
Symmetry == Permutations(MCClients)
=============================================================================
