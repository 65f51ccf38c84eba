------------------------------- MODULE MC_Msg -------------------------------
(* Msg instantiated for TLC: tasks are model values, one private key and   *)
(* one named key, two message types.                                       *)
EXTENDS Msg, TLC

CONSTANTS t1, t2, t3

MCTasks == {t1, t2, t3}
MCSymmetry == Permutations(MCTasks)

=============================================================================
