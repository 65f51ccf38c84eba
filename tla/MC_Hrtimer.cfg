\* Three timers and two expiry values, so insertion meets equal and later
\* entries; two nested ticks; callbacks return or cancel a timer that has
\* not fired; each timer is started at most once.
CONSTANTS
    Timers = {t1, t2, t3}
    ListHead = ListHead
    NULL = NULL
    Times = {1, 2}
    MaxTime = 2
    MaxNest = 2
    MaxStarts = 3
    CbOps = {"none", "cancel"}
    Reuse = FALSE
SPECIFICATION Spec
INVARIANT TypeOK
INVARIANT ListWellFormed
PROPERTY ImplementsQueue
PROPERTY TimerLeaves
