\* Two processes and one pipe as in MC_PipeFd, one signal and two kills
\* (so a second kill can find the bit set).  No byte is written: a reader blocks until the
\* writer closes, which is the sleep a signal meets.  Programs install the
\* ignore and the user handler; every handler starts as the default.
\* Behaviours end (bounded kills, bytes, pids), so
\* deadlock is not checked.
CONSTANTS
    NProc = 2
    MAX_FILES = 2
    PIPE_SIZE = 1
    MaxPipes = 1
    MaxReq = 1
    MaxBytes = 0
    MaxDups = 0
    Sigs = {10}
    UserHandler = 2
    Installed = {1, 2}
    MaxKills = 2
    MaxNest = 1
SPECIFICATION SSpec
CHECK_DEADLOCK FALSE
INVARIANT STypeOK
INVARIANT DeliveredOnlyIfSent
