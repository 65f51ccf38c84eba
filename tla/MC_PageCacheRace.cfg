\* Two tasks and the mapping as the source leaves it (no a_ops): a reader
\* finds the page another task has just added and copies it before the
\* memset.
CONSTANTS
    MAP_SHIFT = 1
    MaxNodes = 2
    Indices = {0}
    Tasks = {t1, t2}
    NPages = 2
    HasReadpage = FALSE
    MaxOps = 2
SPECIFICATION Spec
CHECK_DEADLOCK FALSE
INVARIANT ReadsInitialised
