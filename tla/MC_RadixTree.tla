---------------------------- MODULE MC_RadixTree ----------------------------
(* RadixTree's harness instantiated for TLC.                               *)
EXTENDS RadixTree

=============================================================================
