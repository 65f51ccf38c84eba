\* A reader that finds the pipe empty drops the lock before sleep_on; a
\* write in that window wakes an empty queue.
CONSTANTS
    NProc = 2
    MAX_FILES = 2
    PIPE_SIZE = 2
    MaxPipes = 1
    MaxReq = 2
    MaxBytes = 3
    MaxDups = 1
SPECIFICATION Spec
CHECK_DEADLOCK FALSE
INVARIANT NoLostWakeup
