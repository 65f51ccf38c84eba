\* Bounded behaviours end (no more bytes to write, pids to fork, fds to
\* close), and a machine stopped by a fault stays stopped, so states
\* without successors are expected: deadlock is not checked.
CONSTANTS
    NProc = 2
    MAX_FILES = 2
    PIPE_SIZE = 2
    MaxPipes = 1
    MaxReq = 2
    MaxBytes = 3
    MaxDups = 1
SPECIFICATION Spec
CHECK_DEADLOCK FALSE
INVARIANT TypeOK
INVARIANT PipeIsFifo
