\* One task and the mapping as the source builds it (no file system sets
\* a_ops, so new pages are memset): indices 0, 2 and 4 with fanout 2 and
\* a three-node heap, so that caching 0 and 2 extends the tree, 4 cannot
\* be inserted (the lost insert and the second lookup) and deletes shrink
\* it; two page structs, so that allocation also fails.
CONSTANTS
    MAP_SHIFT = 1
    MaxNodes = 3
    Indices = {0, 2, 4}
    Tasks = {t1}
    NPages = 2
    HasReadpage = FALSE
    MaxOps = 5
SPECIFICATION Spec
CHECK_DEADLOCK FALSE
INVARIANT TypeOK
INVARIANT NrPagesExact
INVARIANT CacheBackPointers
 
