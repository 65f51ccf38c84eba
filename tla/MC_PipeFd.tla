------------------------------ MODULE MC_PipeFd ------------------------------
(* Two processes (a parent and one forked child), two descriptor slots     *)
(* per process (both ends of a pipe, or one end and a dup of it), a       *)
(* two-byte ring written three times so that it fills and wraps, and      *)
(* requests of one or two bytes.                                           *)
EXTENDS PipeFd
==============================================================================
