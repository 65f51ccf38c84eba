----------------------------- MODULE MC_Hrtimer -----------------------------
(* Hrtimer instantiated for TLC.  No symmetry: the runs check liveness.    *)
EXTENDS Hrtimer

=============================================================================
