CONSTANTS
    NProc = 3
    MLFQ_LEVELS = 3
    Quantum <- MCQuantum3
    MaxSleep = 2
    ExitCodes = {7}
    KernelIdles = TRUE
SPECIFICATION Spec
INVARIANT TypeOK
 
 
 
 
 
 
