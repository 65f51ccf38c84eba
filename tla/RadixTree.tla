------------------------------ MODULE RadixTree ------------------------------
(***************************************************************************)
(* lib/radix-tree.c as operators on a tree value: height and root as in   *)
(* struct radix_tree_root, and for each node id its slots and count.  A   *)
(* slot holds 0, a node id (interior levels) or an item (the last level). *)
(* Every call runs under its caller's lock, so each is one function from  *)
(* tree to tree.  kmalloc fails when all MaxNodes node ids are in use.    *)
(*                                                                         *)
(* A small harness inserts and deletes against a reference map, the way  *)
(* spec.md's radix contract (insert; lookup; delete; lookup) reads.       *)
(***************************************************************************)
EXTENDS Naturals, Integers, Sequences, FiniteSets, FiniteSetsExt

CONSTANTS
    MAP_SHIFT,  \* RADIX_TREE_MAP_SHIFT
    MaxNodes,   \* radix_tree_node structs the heap can hold at once
    Items,      \* item pointers stored (numbers above MaxNodes)
    Indices     \* indices used

Fanout == 2 ^ MAP_SHIFT
Offs == 0 .. Fanout - 1
NodeIds == 1 .. MaxNodes

ASSUME MAP_SHIFT \in Nat \ {0} /\ \A x \in Items : x > MaxNodes

(* (1UL << (h * RADIX_TREE_MAP_SHIFT)) - 1                                  *)
MaxIdx(h) == Fanout ^ h - 1

(* (index >> shift) & RADIX_TREE_MAP_MASK, 0 once shift reaches 64.        *)
Offset(index, shift) == IF shift >= 64 THEN 0 ELSE (index \div 2 ^ shift) % Fanout

EmptyTree ==
    [height |-> 0, rnode |-> 0, alive |-> {},
     slot |-> [n \in NodeIds |-> [o \in Offs |-> 0]], count |-> [n \in NodeIds |-> 0]]

\* radix_tree_node_alloc: a free id (0 if kmalloc fails) and the zeroed node.
Fresh(T) == IF NodeIds \ T.alive = {} THEN 0 ELSE Min(NodeIds \ T.alive)
Alloc(T, n) == [T EXCEPT !.alive = @ \cup {n}, !.slot[n] = [o \in Offs |-> 0], !.count[n] = 0]
Free(T, n) == [T EXCEPT !.alive = @ \ {n}]

(* insert's first-use height: digits of index in base Fanout, at least 1. *)
RECURSIVE Digits(_)
Digits(x) == IF x = 0 THEN 0 ELSE 1 + Digits(x \div Fanout)
FirstHeight(index) == IF Digits(index) = 0 THEN 1 ELSE Digits(index)

(* radix_tree_extend: the height that addresses index, from height + 1.   *)
RECURSIVE ExtendTarget(_, _)
ExtendTarget(h, index) == IF index > MaxIdx(h) THEN ExtendTarget(h + 1, index) ELSE h

(* radix_tree_extend's loop: push a new root holding the old one in slot  *)
(* 0 until the height is reached; a failed allocation stops it midway.    *)
RECURSIVE Grow(_, _)
Grow(T, h) ==
    IF T.height >= h THEN [t |-> T, ok |-> TRUE]
    ELSE LET n == Fresh(T) IN
         IF n = 0 THEN [t |-> T, ok |-> FALSE]
         ELSE Grow([Alloc(T, n) EXCEPT !.slot[n][0] = T.rnode, !.count[n] = 1,
                                       !.rnode = n, !.height = T.height + 1], h)

Extend(T, index) ==
    LET h == ExtendTarget(T.height + 1, index)
    IN Grow(IF T.rnode = 0 THEN [T EXCEPT !.height = h] ELSE T, h)

(* radix_tree_insert's descent: create missing interior nodes, then fill  *)
(* the leaf slot (-1 if it is taken or an allocation fails).              *)
RECURSIVE InsWalk(_, _, _, _, _, _)

\* Seeded fault: the leaf slot filled without the `node->slots[offset]` test.
InsWalkOverwrite(T, node, h, shift, index, item) ==
    LET off == Offset(index, shift)
        s == T.slot[node][off]
    IN IF h = 1
       THEN [t |-> [T EXCEPT !.slot[node][off] = item, !.count[node] = @ + 1], ret |-> 0]
       ELSE IF s # 0 THEN InsWalk(T, s, h - 1, shift - MAP_SHIFT, index, item)
            ELSE LET n == Fresh(T) IN
                 IF n = 0 THEN [t |-> T, ret |-> -1]
                 ELSE InsWalk([Alloc(T, n) EXCEPT !.slot[node][off] = n, !.count[node] = @ + 1],
                              n, h - 1, shift - MAP_SHIFT, index, item)

InsWalk(T, node, h, shift, index, item) ==
    LET off == Offset(index, shift)
        s == T.slot[node][off]
    IN IF h = 1
       THEN IF s # 0 THEN [t |-> T, ret |-> -1]
            ELSE [t |-> [T EXCEPT !.slot[node][off] = item, !.count[node] = @ + 1], ret |-> 0]
       ELSE IF s # 0 THEN InsWalk(T, s, h - 1, shift - MAP_SHIFT, index, item)
            ELSE LET n == Fresh(T) IN
                 IF n = 0 THEN [t |-> T, ret |-> -1]
                 ELSE InsWalk([Alloc(T, n) EXCEPT !.slot[node][off] = n, !.count[node] = @ + 1],
                              n, h - 1, shift - MAP_SHIFT, index, item)

Insert(T, index, item) ==
    LET T0 == IF T.rnode = 0 /\ T.height = 0
              THEN [T EXCEPT !.height = FirstHeight(index)] ELSE T
        E == IF index > MaxIdx(T0.height) THEN Extend(T0, index) ELSE [t |-> T0, ok |-> TRUE]
        T1 == E.t
        h == T1.height
        n == Fresh(T1)
    IN IF ~E.ok THEN [t |-> T1, ret |-> -1]
       ELSE IF T1.rnode # 0 THEN InsWalk(T1, T1.rnode, h, (h - 1) * MAP_SHIFT, index, item)
       ELSE IF n = 0 THEN [t |-> T1, ret |-> -1]
       ELSE InsWalk([Alloc(T1, n) EXCEPT !.rnode = n], n, h, (h - 1) * MAP_SHIFT, index, item)

(* radix_tree_lookup: 0 past the height's reach or at an empty slot.      *)
RECURSIVE LkWalk(_, _, _, _, _)
LkWalk(T, node, h, shift, index) ==
    LET s == T.slot[node][Offset(index, shift)]
    IN IF s = 0 \/ h = 1 THEN s
       ELSE LkWalk(T, s, h - 1, shift - MAP_SHIFT, index)

Lookup(T, index) ==
    IF T.height = 0 \/ T.rnode = 0 \/ index > MaxIdx(T.height) THEN 0
    ELSE LkWalk(T, T.rnode, T.height, (T.height - 1) * MAP_SHIFT, index)

RECURSIVE Shrink(_)

\* Seeded fault: the shrink without the `!node->slots[0]` test.
ShrinkAnySlot(T) ==
    LET n == T.rnode IN
    IF T.height = 0 THEN T
    ELSE IF n = 0 THEN [T EXCEPT !.height = 0]
    ELSE IF T.count[n] # 1 \/ T.height <= 1 THEN T
    ELSE Shrink([Free(T, n) EXCEPT !.rnode = T.slot[n][0], !.height = @ - 1])

(* radix_tree_shrink: while the root has one entry, in slot 0, and the    *)
(* tree is taller than 1, make that child the root and free the old one.  *)
Shrink(T) ==
    LET n == T.rnode IN
    IF T.height = 0 THEN T
    ELSE IF n = 0 THEN [T EXCEPT !.height = 0]
    ELSE IF T.count[n] # 1 \/ T.slot[n][0] = 0 \/ T.height <= 1 THEN T
    ELSE Shrink([Free(T, n) EXCEPT !.rnode = T.slot[n][0], !.height = @ - 1])

RECURSIVE Unwind(_, _)

Unwind(T, st) ==
    LET node == st[Len(st)][1] IN
    IF st = <<>> THEN T
    ELSE IF T.count[node] > 0 THEN T
    ELSE IF Len(st) > 1
         THEN LET p == st[Len(st) - 1] IN
              Unwind([Free(T, node) EXCEPT !.slot[p[1]][p[2]] = 0, !.count[p[1]] = @ - 1],
                     SubSeq(st, 1, Len(st) - 1))
         ELSE [Free(T, node) EXCEPT !.rnode = 0, !.height = 0]

(* radix_tree_delete's descent, recording the path; at the leaf the item  *)
(* is cleared, empty nodes are freed upwards and the tree is shrunk.       *)
RECURSIVE DelWalk(_, _, _, _, _, _)
DelWalk(T, node, h, shift, index, st) ==
    LET off == Offset(index, shift)
        s == T.slot[node][off]
        st1 == Append(st, <<node, off>>)
    IN IF s = 0 THEN [t |-> T, ret |-> 0]
       ELSE IF h = 1
            THEN [t |-> Shrink(Unwind([T EXCEPT !.slot[node][off] = 0, !.count[node] = @ - 1], st1)),
                  ret |-> s]
            ELSE DelWalk(T, s, h - 1, shift - MAP_SHIFT, index, st1)

Delete(T, index) ==
    IF T.height = 0 \/ T.rnode = 0 \/ index > MaxIdx(T.height) THEN [t |-> T, ret |-> 0]
    ELSE DelWalk(T, T.rnode, T.height, (T.height - 1) * MAP_SHIFT, index, <<>>)

-----------------------------------------------------------------------------
(* The harness: one tree and the map it should hold.                      *)

VARIABLES tree, ref

vars == <<tree, ref>>

Init == tree = EmptyTree /\ ref = [i \in Indices |-> 0]

\* radix_tree_insert; on success the map gains index |-> item.
TreeInsert(i, x) ==
    LET r == Insert(tree, i, x) IN
    /\ tree' = r.t
    /\ ref' = IF r.ret = 0 THEN [ref EXCEPT ![i] = x] ELSE ref

\* radix_tree_delete; the map loses the index.
TreeDelete(i) ==
    /\ tree' = Delete(tree, i).t
    /\ ref' = [ref EXCEPT ![i] = 0]

Next ==
    \/ \E i \in Indices, x \in Items : TreeInsert(i, x)
    \/ \E i \in Indices : TreeDelete(i)

Spec == Init /\ [][Next]_vars

-----------------------------------------------------------------------------
(* Properties *)

TypeOK ==
    /\ tree.height \in 0 .. 64
    /\ tree.rnode \in NodeIds \cup {0}
    /\ tree.alive \subseteq NodeIds
    /\ \A n \in tree.alive : tree.count[n] \in 0 .. Fanout
    /\ ref \in [Indices -> Items \cup {0}]

(* The node ids reachable from the root (interior levels hold node ids).   *)
RECURSIVE Below(_, _, _)
Below(T, n, h) ==
    {n} \cup UNION {Below(T, T.slot[n][o], h - 1) : o \in {o \in Offs : h > 1 /\ T.slot[n][o] # 0}}

Reachable(T) == IF T.rnode = 0 THEN {} ELSE Below(T, T.rnode, T.height)

(***************************************************************************)
(* spec.md: insert(i, v); lookup(i) = v; delete(i); lookup(i) = null.     *)
(* After any sequence of inserts and deletes, including extends, shrinks  *)
(* and inserts stopped by a failed allocation, every index looks up to    *)
(* what the map holds.                                                     *)
(***************************************************************************)
TreeMatchesMap == \A i \in Indices : Lookup(tree, i) = ref[i]

(***************************************************************************)
(* The allocated nodes are exactly those reachable from the root, and      *)
(* each node's count is the number of its non-empty slots: delete frees   *)
(* what it empties and shrink frees the roots it drops.                   *)
(***************************************************************************)
NodesAccounted ==
    /\ tree.alive = Reachable(tree)
    /\ \A n \in tree.alive : tree.count[n] = Cardinality({o \in Offs : tree.slot[n][o] # 0})

(***************************************************************************)
(* spec.md (RadixTree): the height is the minimum needed to address the   *)
(* largest stored index (0 when nothing is stored).                        *)
(***************************************************************************)
HeightMinimal ==
    LET stored == {i \in Indices : ref[i] # 0}
    IN tree.height = IF stored = {} THEN 0 ELSE FirstHeight(Max(stored))

====
