------------------------------ MODULE MC_Fat32 ------------------------------
(* Fat32 for TLC: a data area of three or four clusters (the root and    *)
(* the rest) and, past it, the one cluster the free-cluster scan reaches; *)
(* two slots per directory cluster so directories grow, two bytes per     *)
(* cluster so writes cross clusters, and the names, offsets and counts    *)
(* the runs use.                                                           *)
EXTENDS Fat32

MCNames   == {"a", "b"}
MCOffsets == {0, 3}
MCCounts  == {1, 3}
====
