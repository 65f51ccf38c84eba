------------------------------ MODULE Namespace ------------------------------
(***************************************************************************)
(* The VFS name space (fs/vfs.c) over ramfs (fs/ramfs.c): the dentry      *)
(* cache, path_walk and the calls that walk and create names.             *)
(*                                                                         *)
(* The whole name space is one value `ns`: the dentries (parent, name,    *)
(* inode, d_subdirs in list order), the hash chains as one sequence head *)
(* first (d_lookup compares parent and name, so entries of other buckets  *)
(* never match), and the inodes with their mode.  A path is its absolute *)
(* flag and its non-empty components; "." and ".." are components too.   *)
(* Each call runs to completion (one task; its locks are per list).       *)
(* kmalloc fails when the dentry or inode pool is used up.  Nothing under *)
(* src/ adds to vfsmount_list, so follow_mount never moves; ramfs has no  *)
(* unlink, rmdir or rename, so those calls end after resolving parents.   *)
(***************************************************************************)
EXTENDS Naturals, Sequences, FiniteSets, FiniteSetsExt

CONSTANTS
    Names,        \* path components other than "." and ".."
    MaxDentries,  \* struct dentry allocations the heap can hold
    MaxInodes,    \* struct inode allocations the heap can hold
    Paths,        \* the paths callers pass
    MaxOps        \* calls in one behaviour

Comps == Names \cup {".", ".."}
DIds == 1 .. MaxDentries
INos == 1 .. MaxInodes
Root == 1   \* root_dentry: ramfs's s_root, the first dentry allocated

VARIABLES
    ns,        \* the dentries and inodes
    cwd,       \* current_process->cwd (0: none)
    nops,      \* calls so far
    justMade   \* <<parent, name>> of the mkdir that just succeeded, else <<>>

vars == <<ns, cwd, nops, justMade>>

\* Positions 1 .. Len(s) holding x (SequencesExt's Range as a set).
In(x, s) == \E k \in 1 .. Len(s) : s[k] = x

(* kmalloc of a dentry or inode: the lowest free id, 0 if none.           *)
FreeId(used, ids) == IF ids \ used = {} THEN 0 ELSE Min(ids \ used)

(* ramfs directories have ramfs_dir_inode_ops; files and devices i_op 0.   *)
IsDir(S, i) == i # 0 /\ S.imode[i] = "dir"

(***************************************************************************)
(* alloc_dentry(parent, name): a zeroed dentry, linked at the head of    *)
(* parent->d_subdirs (list_add) but not hashed.                           *)
(***************************************************************************)
AllocDentry(S, p, n) ==
    LET d == FreeId(S.alive, DIds) IN
    IF d = 0 THEN [ok |-> FALSE, s |-> S, d |-> 0]
    ELSE [ok |-> TRUE, d |-> d,
          s |-> [S EXCEPT !.alive = @ \cup {d}, !.parent[d] = p, !.name[d] = n,
                          !.inode[d] = 0, !.subdirs[d] = <<>>,
                          !.subdirs[p] = <<d>> \o @]]

(* d_add: set the inode (if any) and hash the dentry at its chain's head.  *)
DAdd(S, d, i) == [S EXCEPT !.inode[d] = IF i # 0 THEN i ELSE @, !.hashq = <<d>> \o @]

(* d_instantiate: set the inode only.                                      *)
DInstantiate(S, d, i) == [S EXCEPT !.inode[d] = i]

\* Seeded fault: d_lookup matching the name under any parent.
DLookupAnyParent(S, p, n) ==
    LET m == {k \in 1 .. Len(S.hashq) : S.name[S.hashq[k]] = n}
    IN IF m = {} THEN 0 ELSE S.hashq[Min(m)]

(* d_lookup: the first hashed dentry with this parent and name.            *)
DLookup(S, p, n) ==
    LET m == {k \in 1 .. Len(S.hashq) : S.parent[S.hashq[k]] = p /\ S.name[S.hashq[k]] = n}
    IN IF m = {} THEN 0 ELSE S.hashq[Min(m)]

\* Seeded fault: ramfs_mknod hashing with d_add whether or not d is hashed.
RamfsMknodAlwaysAdd(S, d, mode) ==
    LET i == FreeId(S.ialive, INos) IN
    IF i = 0 THEN [ok |-> FALSE, s |-> S]
    ELSE LET S1 == [S EXCEPT !.ialive = @ \cup {i}, !.imode[i] = mode]
         IN [ok |-> TRUE, s |-> DAdd(S1, d, i)]

(***************************************************************************)
(* ramfs_mknod (create and mkdir call it with their mode): new_inode via  *)
(* ramfs_get_inode, -1 if it fails; then d_add if the dentry is not yet  *)
(* hashed, else d_instantiate.                                             *)
(***************************************************************************)
RamfsMknod(S, d, mode) ==
    LET i == FreeId(S.ialive, INos) IN
    IF i = 0 THEN [ok |-> FALSE, s |-> S]
    ELSE LET S1 == [S EXCEPT !.ialive = @ \cup {i}, !.imode[i] = mode]
         IN [ok |-> TRUE, s |-> IF In(d, S.hashq) THEN DInstantiate(S1, d, i) ELSE DAdd(S1, d, i)]

(* follow_mount: lookup_mnt finds no vfsmount, so the dentry stays.        *)
FollowMount(d) == d

(* `..`: the parent, unless at root_dentry or at a dentry without one.    *)
DotDot(S, d) == IF d # Root /\ S.parent[d] # 0 THEN S.parent[d] ELSE d

(***************************************************************************)
(* path_walk's loop from dentry d over components cs: skip ".", climb    *)
(* "..", else d_lookup; on a miss, fail unless d's inode has a lookup op, *)
(* allocate the child and call ramfs_lookup, which hashes it negative.    *)
(* The dentries allocated stay in the result's state also when it fails.  *)
(***************************************************************************)
RECURSIVE WalkFrom(_, _, _)
WalkFrom(S, d, cs) ==
    IF cs = <<>> THEN [ok |-> TRUE, s |-> S, d |-> d]
    ELSE LET c == Head(cs)
             ch == DLookup(S, d, c)
         IN CASE c = "." -> WalkFrom(S, d, Tail(cs))
              [] c = ".." -> WalkFrom(S, DotDot(S, d), Tail(cs))
              [] ch # 0 -> WalkFrom(S, FollowMount(ch), Tail(cs))
              [] ~IsDir(S, S.inode[d]) -> [ok |-> FALSE, s |-> S, d |-> 0]
              [] OTHER ->
                   LET a == AllocDentry(S, d, c) IN
                   IF ~a.ok THEN [ok |-> FALSE, s |-> S, d |-> 0]
                   ELSE WalkFrom(DAdd(a.s, a.d, 0), FollowMount(a.d), Tail(cs))

(* path_walk: absolute paths from root_dentry, relative ones from cwd.    *)
PathWalk(S, path) ==
    WalkFrom(S, IF path.abs \/ cwd = 0 THEN Root ELSE cwd, path.cs)

(***************************************************************************)
(* vfs_resolve_parent: split at the last '/'.  No '/': the cwd; '/' first *)
(* and only: root_dentry; else path_walk of the prefix.  -1 unless the    *)
(* parent is positive.                                                     *)
(***************************************************************************)
ResolveParent(S, path) ==
    LET n == path.cs[Len(path.cs)]
        w == PathWalk(S, [abs |-> path.abs, cs |-> SubSeq(path.cs, 1, Len(path.cs) - 1)])
        r == IF Len(path.cs) = 1 THEN [ok |-> TRUE, s |-> S, d |-> PathWalk(S, [abs |-> path.abs, cs |-> <<>>]).d]
             ELSE w
    IN [ok |-> r.ok /\ r.d # 0 /\ r.s.inode[r.d] # 0, s |-> r.s, d |-> r.d, n |-> n]

(***************************************************************************)
(* Boot: ramfs_mount's s_root, positive with a directory inode and       *)
(* hashed, is root_dentry, and every process starts with cwd = root.      *)
(***************************************************************************)
Init ==
    /\ ns = [alive |-> {Root}, parent |-> [d \in DIds |-> 0],
             name |-> [d \in DIds |-> "/"], inode |-> [d \in DIds |-> IF d = Root THEN 1 ELSE 0],
             subdirs |-> [d \in DIds |-> <<>>], hashq |-> <<Root>>,
             ialive |-> {1}, imode |-> [i \in INos |-> "dir"]]
    /\ cwd = Root
    /\ nops = 0
    /\ justMade = <<>>

\* One call: it counts, and only a successful mkdir leaves justMade set.
Call(S) == /\ nops < MaxOps
           /\ nops' = nops + 1
           /\ ns' = S

(* vfs_stat (vfs_lookup): a walk; its dentries stay.                      *)
Stat(path) ==
    /\ Call(PathWalk(ns, path).s)
    /\ justMade' = <<>>
    /\ UNCHANGED cwd

\* Seeded fault: vfs_chdir without its S_ISDIR test.
ChdirTargetAny(S, d) == S.inode[d] # 0

\* vfs_chdir's test that the walk ended at a positive directory.
ChdirTarget(S, d) == IsDir(S, S.inode[d])

(* vfs_chdir: walk; cwd moves only to a positive directory.               *)
Chdir(path) ==
    LET w == PathWalk(ns, path) IN
    /\ Call(w.s)
    /\ cwd' = IF w.ok /\ w.d # 0 /\ ChdirTarget(w.s, w.d) THEN w.d ELSE cwd
    /\ justMade' = <<>>

(***************************************************************************)
(* vfs_mkdir: resolve the parent, alloc_dentry (no d_lookup first), and   *)
(* the parent's mkdir (ramfs_mkdir); a dentry whose mkdir fails stays.    *)
(***************************************************************************)
Mkdir(path) ==
    LET r == ResolveParent(ns, path)
        a == AllocDentry(r.s, r.d, r.n)
        m == RamfsMknod(a.s, a.d, "dir")
        ok == r.ok /\ a.ok /\ IsDir(r.s, r.s.inode[r.d]) /\ m.ok
    IN /\ Call(CASE ~r.ok -> r.s
                 [] ~a.ok \/ ~IsDir(r.s, r.s.inode[r.d]) -> a.s
                 [] OTHER -> m.s)
       /\ justMade' = IF ok THEN <<r.d, r.n>> ELSE <<>>
       /\ UNCHANGED cwd

(***************************************************************************)
(* vfs_mknod (a device node): -1 without a '/'; walk the parent path     *)
(* ("/" if the slash is first); the parent must be positive with a mknod *)
(* op; then alloc_dentry and ramfs_mknod.                                  *)
(***************************************************************************)
Mknod(path) ==
    LET len == Len(path.cs)
        w == PathWalk(ns, [abs |-> path.abs, cs |-> SubSeq(path.cs, 1, len - 1)])
        pok == w.ok /\ IsDir(w.s, w.s.inode[w.d])
        a == AllocDentry(w.s, w.d, path.cs[len])
    IN /\ Call(CASE ~path.abs /\ len = 1 -> ns
                 [] ~pok -> w.s
                 [] ~a.ok -> a.s
                 [] OTHER -> RamfsMknod(a.s, a.d, "chr").s)
       /\ justMade' = <<>>
       /\ UNCHANGED cwd

(***************************************************************************)
(* vfs_open's name-space part (O_CREAT and O_EXCL as flags): a failed    *)
(* walk with O_CREAT resolves the parent, allocates a dentry and calls   *)
(* create; a walk ending at a negative dentry with O_CREAT calls create  *)
(* on it.  Installing the struct file is not part of the name space.      *)
(***************************************************************************)
Open(path, creat, excl) ==
    LET w == PathWalk(ns, path)
        r == ResolveParent(w.s, path)
        a == AllocDentry(r.s, r.d, r.n)
        neg == w.ok /\ w.s.inode[w.d] = 0
        pd == w.s.parent[w.d]
    IN /\ Call(CASE ~w.ok /\ creat /\ ~r.ok -> r.s
                 [] ~w.ok /\ creat /\ (~a.ok \/ ~IsDir(r.s, r.s.inode[r.d])) -> a.s
                 [] ~w.ok /\ creat -> RamfsMknod(a.s, a.d, "reg").s
                 [] neg /\ creat /\ pd # 0 /\ IsDir(w.s, w.s.inode[pd]) -> RamfsMknod(w.s, w.d, "reg").s
                 [] OTHER -> w.s)
       /\ justMade' = <<>>
       /\ UNCHANGED cwd

(* vfs_unlink and vfs_rmdir: resolve the parent; ramfs has no such op.    *)
Unlink(path) ==
    /\ Call(ResolveParent(ns, path).s)
    /\ justMade' = <<>>
    /\ UNCHANGED cwd

Rmdir(path) ==
    /\ Call(ResolveParent(ns, path).s)
    /\ justMade' = <<>>
    /\ UNCHANGED cwd

(* vfs_rename: resolve both parents (stop at the first failure); no op.   *)
Rename(old, new) ==
    LET r1 == ResolveParent(ns, old) IN
    /\ Call(IF r1.ok THEN ResolveParent(r1.s, new).s ELSE r1.s)
    /\ justMade' = <<>>
    /\ UNCHANGED cwd

Next ==
    \E p \in Paths :
        \/ Stat(p) \/ Chdir(p) \/ Mkdir(p) \/ Mknod(p) \/ Unlink(p) \/ Rmdir(p)
        \/ \E creat, excl \in BOOLEAN : Open(p, creat, excl)
        \/ \E q \in Paths : Rename(p, q)

Spec == Init /\ [][Next]_vars

-----------------------------------------------------------------------------
(* ramfs_readdir past "." and "..": the names on d_subdirs, in list order. *)
ReaddirNames(S, p) == [k \in 1 .. Len(S.subdirs[p]) |-> S.name[S.subdirs[p][k]]]

\* The names from root_dentry down to d.
RECURSIVE PathOf(_, _)
PathOf(S, d) == IF d = Root \/ S.parent[d] = 0 THEN <<>>
                ELSE Append(PathOf(S, S.parent[d]), S.name[d])

\* Textual resolution of a path's components from the names cur.
RECURSIVE NormFrom(_, _)
NormFrom(cur, cs) ==
    IF cs = <<>> THEN cur
    ELSE CASE Head(cs) = "." -> NormFrom(cur, Tail(cs))
           [] Head(cs) = ".." -> NormFrom(SubSeq(cur, 1, Len(cur) - 1), Tail(cs))
           [] OTHER -> NormFrom(Append(cur, Head(cs)), Tail(cs))

(* Types; the cwd vfs_chdir leaves is always a positive directory.        *)
TypeOK ==
    /\ ns.alive \subseteq DIds /\ Root \in ns.alive
    /\ ns.ialive \subseteq INos
    /\ \A d \in ns.alive : /\ ns.parent[d] \in ns.alive \cup {0}
                          /\ ns.name[d] \in Comps \cup {"/"}
                          /\ ns.inode[d] \in ns.ialive \cup {0}
    /\ \A i \in ns.ialive : ns.imode[i] \in {"dir", "reg", "chr"}
    /\ cwd \in {d \in ns.alive : IsDir(ns, ns.inode[d])}
    /\ nops \in 0 .. MaxOps

(***************************************************************************)
(* The dentry cache stays well formed (spec 3, Dentry): no dentry is on   *)
(* the hash chains twice (a second list_add of a linked d_hash would cut  *)
(* the chain), every dentry but the root is on its parent's d_subdirs, and *)
(* every positive dentry is hashed, so d_lookup can find it.  It is about *)
(* ramfs_mknod choosing d_add or d_instantiate for dentries that path_walk *)
(* or vfs_mkdir/vfs_mknod/vfs_open handed it.                              *)
(***************************************************************************)
DcacheWellFormed ==
    /\ \A j, k \in 1 .. Len(ns.hashq) : ns.hashq[j] = ns.hashq[k] => j = k
    /\ \A d \in ns.alive \ {Root} : In(d, ns.subdirs[ns.parent[d]])
    /\ \A d \in ns.alive : ns.inode[d] # 0 => In(d, ns.hashq)

(***************************************************************************)
(* path_walk resolves names (spec 4, Path walk): whenever a walk of any   *)
(* caller's path succeeds, the dentry it ends at has as its name chain    *)
(* from the root the path resolved textually from "/" or from the cwd's   *)
(* chain, "." dropped and ".." removing a name (none above the root).     *)
(* It relates d_lookup over the shared hash chains to the dentry tree,    *)
(* after any history of walks, creates and failed creates.                *)
(***************************************************************************)
WalkResolvesPath ==
    \A p \in Paths :
        LET w == PathWalk(ns, p) IN
        w.ok => PathOf(w.s, w.d) = NormFrom(IF p.abs THEN <<>> ELSE PathOf(ns, cwd), p.cs)

(***************************************************************************)
(* spec 6: after mkdir(p) succeeds, readdir of the parent lists the tail  *)
(* component of p exactly once.  vfs_mkdir allocates without d_lookup.    *)
(***************************************************************************)
MkdirListedOnce ==
    justMade # <<>> =>
        LET names == ReaddirNames(ns, justMade[1])
        IN Cardinality({k \in 1 .. Len(names) : names[k] = justMade[2]}) = 1

====
