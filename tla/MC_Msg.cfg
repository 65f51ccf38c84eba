\* A behaviour ends once MaxMsgs messages are sent: receivers still waiting
\* then wait for ever, as they would with no sender left.  Deadlock is not
\* checked.
CONSTANTS
    t1 = t1
    t2 = t2
    t3 = t3
    Tasks <- MCTasks
    Keys = {0, 7}
    Types = {1, 2}
    MSG_SIZE = 2
    MaxQueues = 1
    MaxMsgs = 3
SPECIFICATION Spec
SYMMETRY MCSymmetry
CHECK_DEADLOCK FALSE
INVARIANT TypeOK
INVARIANT QueueWellFormed
INVARIANT PerTypeFifo
INVARIANT NoWaiterWithMatch
