---------------------------- MODULE HrtimerQueue ----------------------------
(***************************************************************************)
(* What the high-resolution timer list promises (spec.md 4.L): a set of   *)
(* armed timers, each with an expiry; starting (re-)arms a timer,          *)
(* cancelling disarms it (recorded in `cancelled`), and a timer expires   *)
(* (its callback is taken, recorded in `fired`) only once the clock has   *)
(* reached its expiry and no armed timer expires before it.  A timer      *)
(* leaves the armed set in no other way.                                  *)
(***************************************************************************)
EXTENDS Naturals

CONSTANTS Timers, Times, MaxTime

VARIABLES armed, exp, clock, fired, cancelled

Init ==
    /\ armed = {}
    /\ exp = [t \in Timers |-> 0]
    /\ clock = 0
    /\ fired = {}
    /\ cancelled = {}

Arm(t, e) ==
    /\ armed' = armed \cup {t}
    /\ exp' = [exp EXCEPT ![t] = e]
    /\ UNCHANGED <<clock, fired, cancelled>>

Disarm(t) ==
    /\ armed' = armed \ {t}
    /\ cancelled' = cancelled \cup {t}
    /\ UNCHANGED <<exp, clock, fired>>

Expire(t) ==
    /\ t \in armed
    /\ exp[t] <= clock
    /\ \A u \in armed : exp[t] <= exp[u]
    /\ armed' = armed \ {t}
    /\ fired' = fired \cup {t}
    /\ UNCHANGED <<exp, clock, cancelled>>

Advance ==
    /\ clock < MaxTime
    /\ clock' = clock + 1
    /\ UNCHANGED <<armed, exp, fired, cancelled>>

Next ==
    \/ \E t \in Timers, e \in Times : Arm(t, e)
    \/ \E t \in Timers : Disarm(t) \/ Expire(t)
    \/ Advance

Spec == Init /\ [][Next]_<<armed, exp, clock, fired, cancelled>>

====
