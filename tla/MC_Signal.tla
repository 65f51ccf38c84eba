------------------------------ MODULE MC_Signal ------------------------------
(* Signal (with PipeFd) instantiated for TLC.                              *)
EXTENDS Signal

=============================================================================
