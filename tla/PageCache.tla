------------------------------ MODULE PageCache ------------------------------
(***************************************************************************)
(* The page cache of one mapping (mm/page_cache.c) and the generic read   *)
(* and write paths over it (fs/filemap.c), for one page per call.         *)
(*                                                                         *)
(* find_get_page, add_to_page_cache and delete_from_page_cache each run   *)
(* under mapping->lock, so each is one step; the radix tree is the        *)
(* RadixTree model, its items the page structs.  Between those calls a    *)
(* task holds no lock: the steps of generic_file_read and _write are the   *)
(* stretches between lock sections.  A new page is kmalloc'd and memset   *)
(* (page_count 0) around a frame from pmm_alloc_page, which is not        *)
(* cleared: its bytes are junk until readpage or memset fills it.          *)
(*                                                                         *)
(* get_page, put_page, SetPageDirty and readpage live in headers and file *)
(* systems that are not under src/: get_page adds one to page_count,       *)
(* put_page takes one off and frees the page when it reaches 0 (spec.md:  *)
(* delete drops a reference), readpage fills the page or fails.            *)
(* Positions are in half pages: a call covers the first half of a page or *)
(* the whole page.                                                         *)
(***************************************************************************)
EXTENDS Naturals, Integers, FiniteSets

CONSTANTS
    MAP_SHIFT, MaxNodes,  \* the radix tree's fanout and node heap
    Indices,              \* page indices used
    Tasks,                \* tasks calling read and write
    NPages,               \* page structs the heap can hold at once
    HasReadpage,          \* the mapping's a_ops->readpage exists
    MaxOps                \* read and write calls in one behaviour

Pages == MaxNodes + 1 .. MaxNodes + NPages

VARIABLES
    page_tree,   \* mapping->page_tree
    nrpages,     \* mapping->nrpages
    pg_alive,    \* page structs allocated
    page_count,  \* page->_count
    pmapped,     \* page->mapping # 0
    pindex,      \* page->index
    junk,        \* the page's frame holds bytes nobody wrote
    dirty,       \* SetPageDirty was called
    i_size,      \* inode->i_size, in half pages
    pc, op, tidx, tfull, tpage,  \* each task's call, index, extent, page
    got,         \* got[t]: what t's last read copied
    nops         \* calls so far

R == INSTANCE RadixTree WITH Items <- Pages, tree <- page_tree, ref <- [i \in Indices |-> 0]

pcVars == <<pc, op, tidx, tfull, tpage, got, nops>>
pageVars == <<pg_alive, page_count, pmapped, pindex, junk, dirty>>
vars == <<page_tree, nrpages, i_size, pageVars, pcVars>>

Init ==
    /\ page_tree = R!EmptyTree
    /\ nrpages = 0
    /\ pg_alive = {}
    /\ page_count = [p \in Pages |-> 0]
    /\ pmapped = [p \in Pages |-> FALSE]
    /\ pindex = [p \in Pages |-> 0]
    /\ junk = [p \in Pages |-> FALSE]
    /\ dirty = [p \in Pages |-> FALSE]
    /\ i_size = 0
    /\ pc = [t \in Tasks |-> "idle"]
    /\ op = [t \in Tasks |-> "read"]
    /\ tidx = [t \in Tasks |-> 0]
    /\ tfull = [t \in Tasks |-> TRUE]
    /\ tpage = [t \in Tasks |-> 0]
    /\ got = [t \in Tasks |-> "none"]
    /\ nops = 0

\* The end of t's request: pos + bytes, in half pages.
End(t) == 2 * tidx[t] + (IF tfull[t] THEN 2 ELSE 1)

(* put_page: drop a reference; the last one frees the page.                *)
PutPage(p) ==
    /\ page_count' = [page_count EXCEPT ![p] = @ - 1]
    /\ pg_alive' = IF page_count[p] = 1 THEN pg_alive \ {p} ELSE pg_alive

Done(t) == pc' = [pc EXCEPT ![t] = "idle"]

(* find_get_page: the tree lookup under mapping->lock and, on a hit,      *)
(* get_page.                                                               *)
FindGetPage(i) == R!Lookup(page_tree, i)

GetPage(p) == page_count' = [page_count EXCEPT ![p] = @ + 1]

(* t holds page p from a lookup: with a page go to the copy, else `miss`.  *)
Hold(t, p, miss) ==
    /\ tpage' = [tpage EXCEPT ![t] = p]
    /\ IF p # 0
       THEN GetPage(p) /\ pc' = [pc EXCEPT ![t] = "copy"]
       ELSE pc' = [pc EXCEPT ![t] = miss] /\ UNCHANGED page_count

(***************************************************************************)
(* The start of one page of generic_file_read or _write: the page index  *)
(* and extent of the request, then find_get_page.                         *)
(***************************************************************************)
Begin(t, i, o, full) ==
    /\ pc[t] = "idle"
    /\ nops < MaxOps
    /\ nops' = nops + 1
    /\ op' = [op EXCEPT ![t] = o]
    /\ tidx' = [tidx EXCEPT ![t] = i]
    /\ tfull' = [tfull EXCEPT ![t] = full]
    /\ Hold(t, FindGetPage(i), "alloc")
    /\ UNCHANGED <<page_tree, nrpages, i_size, got>>
    /\ UNCHANGED <<pg_alive, pmapped, pindex, junk, dirty>>

ReadBegin(t, i, full) == Begin(t, i, "read", full)

WriteBegin(t, i, full) == Begin(t, i, "write", full)

\* Seeded fault: nrpages counted whether or not the insert succeeded.
CountAlways(ret) == 1

\* add_to_page_cache's accounting: one more page when the insert succeeded.
AddedPages(ret) == IF ret = 0 THEN 1 ELSE 0

(***************************************************************************)
(* A miss: pmm_alloc_page and kmalloc (either failing returns -1), memset *)
(* of the struct, then add_to_page_cache under the lock.  If the insert   *)
(* fails the page is freed and find_get_page is tried again.  Otherwise   *)
(* read fills the page next, and write does for a partial page only.      *)
(***************************************************************************)
AllocAdd(t) ==
    /\ pc[t] = "alloc"
    /\ IF pg_alive = Pages
       THEN /\ Done(t)
            /\ UNCHANGED <<page_tree, nrpages, pageVars, tpage>>
       ELSE LET p == CHOOSE q \in Pages \ pg_alive : TRUE
                r == R!Insert(page_tree, tidx[t], p)
            IN /\ page_tree' = r.t
               /\ nrpages' = nrpages + AddedPages(r.ret)
               /\ page_count' = [page_count EXCEPT ![p] = 0]
               /\ junk' = [junk EXCEPT ![p] = TRUE]
               /\ dirty' = [dirty EXCEPT ![p] = FALSE]
               /\ tpage' = [tpage EXCEPT ![t] = p]
               /\ IF r.ret = 0
                  THEN /\ pg_alive' = pg_alive \cup {p}
                       /\ pmapped' = [pmapped EXCEPT ![p] = TRUE]
                       /\ pindex' = [pindex EXCEPT ![p] = tidx[t]]
                       /\ pc' = [pc EXCEPT ![t] =
                                   IF op[t] = "write" /\ tfull[t] THEN "copy" ELSE "fill"]
                  ELSE /\ pc' = [pc EXCEPT ![t] = "refind"]
                       /\ UNCHANGED <<pg_alive, pmapped, pindex>>
    /\ UNCHANGED <<i_size, op, tidx, tfull, got, nops>>

\* Seeded fault: the page from the second lookup used without the NULL test.
FoundNoCheck(p) == TRUE

\* `if (!page) return -1;` after the second find_get_page.
Found(p) == p # 0

(* The second find_get_page after a lost insert: -1 if it finds nothing.   *)
Refind(t) ==
    LET p == FindGetPage(tidx[t]) IN
    /\ pc[t] = "refind"
    /\ IF Found(p)
       THEN /\ tpage' = [tpage EXCEPT ![t] = p]
            /\ GetPage(p) /\ pc' = [pc EXCEPT ![t] = "copy"]
       ELSE Done(t) /\ UNCHANGED <<tpage, page_count>>
    /\ UNCHANGED <<page_tree, nrpages, i_size, op, tidx, tfull, got, nops>>
    /\ UNCHANGED <<pg_alive, pmapped, pindex, junk, dirty>>

fillVars == <<page_tree, nrpages, i_size, op, tidx, tfull, tpage, got, nops,
              pg_alive, page_count, pmapped, pindex, dirty>>

(***************************************************************************)
(* read fills its new page: readpage if the mapping has one, else memset. *)
(* A failed readpage returns -1 with the page left cached and unreleased. *)
(***************************************************************************)
ReadFill(t) ==
    /\ pc[t] = "fill" /\ op[t] = "read"
    /\ \/ /\ junk' = [junk EXCEPT ![tpage[t]] = FALSE]
          /\ pc' = [pc EXCEPT ![t] = "copy"]
       \/ /\ HasReadpage
          /\ Done(t) /\ UNCHANGED junk
    /\ UNCHANGED fillVars

(* write fills a new page it covers only in part; readpage's result is    *)
(* ignored and the copy follows either way.                                *)
WriteFill(t) ==
    /\ pc[t] = "fill" /\ op[t] = "write"
    /\ \/ junk' = [junk EXCEPT ![tpage[t]] = FALSE]
       \/ HasReadpage /\ UNCHANGED junk
    /\ pc' = [pc EXCEPT ![t] = "copy"]
    /\ UNCHANGED fillVars

(***************************************************************************)
(* read's memcpy out of the page, then put_page.  A freed page's bytes    *)
(* are whatever the heap left there.                                       *)
(***************************************************************************)
ReadCopy(t) ==
    LET p == tpage[t] IN
    /\ pc[t] = "copy" /\ op[t] = "read"
    /\ got' = [got EXCEPT ![t] = IF junk[p] \/ p \notin pg_alive THEN "junk" ELSE "data"]
    /\ PutPage(p) /\ Done(t)
    /\ UNCHANGED <<page_tree, nrpages, i_size, op, tidx, tfull, tpage, nops>>
    /\ UNCHANGED <<pmapped, pindex, junk, dirty>>

(***************************************************************************)
(* write's memcpy into the page, SetPageDirty and the unlocked            *)
(* `pos + bytes > i_size` test: when it holds, the assignment is a step   *)
(* of its own; otherwise put_page.                                         *)
(***************************************************************************)
WriteCopy(t) ==
    LET p == tpage[t] IN
    /\ pc[t] = "copy" /\ op[t] = "write"
    /\ junk' = [junk EXCEPT ![p] = @ /\ ~tfull[t]]
    /\ dirty' = [dirty EXCEPT ![p] = TRUE]
    /\ IF End(t) > i_size
       THEN pc' = [pc EXCEPT ![t] = "size"] /\ UNCHANGED <<page_count, pg_alive>>
       ELSE PutPage(p) /\ Done(t)
    /\ UNCHANGED <<page_tree, nrpages, i_size, op, tidx, tfull, tpage, got, nops>>
    /\ UNCHANGED <<pmapped, pindex>>

(* write: inode->i_size = pos + bytes, then put_page.                      *)
SetSize(t) ==
    /\ pc[t] = "size"
    /\ i_size' = End(t)
    /\ PutPage(tpage[t]) /\ Done(t)
    /\ UNCHANGED <<page_tree, nrpages, op, tidx, tfull, tpage, got, nops>>
    /\ UNCHANGED <<pmapped, pindex, junk, dirty>>

\* Seeded fault: page->mapping left set by delete.
KeepMapping(p) == UNCHANGED pmapped

\* page->mapping = 0
ClearMapping(p) == pmapped' = [pmapped EXCEPT ![p] = FALSE]

(***************************************************************************)
(* delete_from_page_cache(page) on a page some caller holds: under the    *)
(* lock, delete its index (nrpages-- if something was there) and clear    *)
(* page->mapping; then put_page.  Nothing if the page has no mapping.      *)
(***************************************************************************)
DeleteFromPageCache(p) ==
    /\ p \in pg_alive
    /\ pmapped[p]
    /\ LET r == R!Delete(page_tree, pindex[p]) IN
       /\ page_tree' = r.t
       /\ nrpages' = IF r.ret # 0 THEN nrpages - 1 ELSE nrpages
    /\ ClearMapping(p)
    /\ PutPage(p)
    /\ UNCHANGED <<i_size, pindex, junk, dirty, pcVars>>

Next ==
    \/ \E t \in Tasks, i \in Indices, full \in BOOLEAN : ReadBegin(t, i, full)
    \/ \E t \in Tasks, i \in Indices, full \in BOOLEAN : WriteBegin(t, i, full)
    \/ \E t \in Tasks : AllocAdd(t) \/ Refind(t) \/ ReadFill(t) \/ WriteFill(t)
    \/ \E t \in Tasks : ReadCopy(t) \/ WriteCopy(t) \/ SetSize(t)
    \/ \E p \in Pages : DeleteFromPageCache(p)

Spec == Init /\ [][Next]_vars

-----------------------------------------------------------------------------
(* Properties *)

Cached(i) == FindGetPage(i)

TypeOK ==
    /\ pg_alive \subseteq Pages
    /\ page_count \in [Pages -> -MaxOps .. MaxOps]
    /\ nrpages \in 0 .. Cardinality(Indices)
    /\ pc \in [Tasks -> {"idle", "alloc", "refind", "fill", "copy", "size"}]
    /\ \A t \in Tasks : pc[t] \in {"fill", "copy", "size"} => tpage[t] \in Pages
    /\ got \in [Tasks -> {"none", "data", "junk"}]

(***************************************************************************)
(* mapping->nrpages counts the pages the tree holds, through inserts that *)
(* lose to a full node heap and deletes that shrink the tree.              *)
(***************************************************************************)
NrPagesExact == nrpages = Cardinality({i \in Indices : Cached(i) # 0})

(***************************************************************************)
(* spec.md (page): a page is in one mapping at a time and indexed by      *)
(* (mapping, index) in the radix tree.  A page the tree holds at i has    *)
(* page->mapping set and page->index = i, and a live page whose mapping   *)
(* is set is the one the tree holds at its index.                          *)
(***************************************************************************)
CacheBackPointers ==
    /\ \A i \in Indices : Cached(i) # 0 => pmapped[Cached(i)] /\ pindex[Cached(i)] = i
    /\ \A p \in pg_alive : pmapped[p] => Cached(pindex[p]) = p

ReadsInitialised == \A t \in Tasks : got[t] # "junk"

(***************************************************************************)
(* The cache's own reference keeps a cached page allocated: the tree      *)
(* never holds a page that put_page has freed.                             *)
(***************************************************************************)
CachedPagesLive == \A i \in Indices : Cached(i) # 0 => Cached(i) \in pg_alive

(***************************************************************************)
(* spec.md: writes extend i_size.  No step makes the file shorter.         *)
(***************************************************************************)
SizeNeverShrinks == [][i_size' >= i_size]_vars

====
