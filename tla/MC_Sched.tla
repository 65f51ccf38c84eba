------------------------------ MODULE MC_Sched ------------------------------
(* Sched instantiated for TLC.  It extends SchedPreempt, so the same module *)
(* checks Spec (MC_Sched.cfg) and the split process_sleep of PSpec         *)
(* (MC_SchedPreempt.cfg).                                                  *)
EXTENDS SchedPreempt
MCQuantum == <<1, 2>>
MCQuantum3 == <<2, 3, 4>>
=============================================================================
