-------------------------------- MODULE Trunk --------------------------------
(***************************************************************************)
(* The trunk of SplinterDB (src/splinterdb/src/trunk.c): a tree of nodes   *)
(* that point to branches (B-trees which are never changed) and to routing *)
(* filters.  Memtables come in at the root as bundles, full nodes flush    *)
(* bundles to their children, background tasks compact the branches of a   *)
(* bundle to one branch and then build filters that make it a whole branch.*)
(*                                                                         *)
(* The tree is copied on write: a change copies the path from the root to  *)
(* the node and readers go on with the snapshot they began with, so a tree *)
(* is a value here and an address is not needed.  A change holds the root's*)
(* claim or the write locks from the new root down to the new node, so     *)
(* nobody sees half of it and it is one step.  What is left to interleave  *)
(* is what the code does between two changes: the tasks, the readers, and  *)
(* the queue of references that are given back after a delay.              *)
(***************************************************************************)
EXTENDS Integers, Sequences, FiniteSets, SequencesExt, TLC

CONSTANTS NKeys,        \* keys are 1 .. NKeys
          MaxBundles,   \* TRUNK_MAX_BUNDLES, the modulus of bundle numbers
          Workers,      \* background threads
          Readers,
          Configs       \* what spl->cfg may be and what the database is used for

\* A memtable is a function from keys to "put" or "del".
ConfigsAssumption ==
  \A c \in Configs :
    /\ {c.maxBranches,      \* max_branches_per_node
        c.maxTuples,        \* max_tuples_per_node, of a leaf
        c.singleLeaf,       \* trunk_single_leaf_threshold
        c.fanout} \subseteq Nat
    /\ \A t \in DOMAIN c.tables : DOMAIN c.tables[t] \subseteq 1 .. NKeys
    /\ c.workers \subseteq Workers /\ c.readers \subseteq Readers

VARIABLES cfg,     \* spl->cfg
          root,    \* the tree under spl->root_addr
          up,      \* the number of memtables that are incorporated
          store,   \* reference counts, queues and counters: see Init
          work,    \* the workers' locals
          reader   \* the readers' snapshots

vars == <<cfg, root, up, store, work, reader>>

Keys == 1 .. NKeys
Inf == NKeys + 1      \* POSITIVE_INFINITY_KEY; 0 is NEGATIVE_INFINITY_KEY

NoFilter == [id |-> <<0, 0>>, map |-> {}]    \* filter.addr = 0

-----------------------------------------------------------------------------
(* Numbers of bundles go round.  A node keeps its live bundles in order,   *)
(* oldest first; eB is the number of the next one.                         *)

Minus(a, b) == (a + MaxBundles - b) % MaxBundles
Plus(a, b) == (a + b) % MaxBundles
InRange(x, from, to) == Minus(x, from) < Minus(to, from)

StartBundle(n) == Minus(n.eB, Len(n.bun))
BundleLive(n, no) == InRange(no, StartBundle(n), n.eB)
BundleAt(n, no) == n.bun[Minus(no, StartBundle(n)) + 1]
LiveFor(n, no, p) == InRange(no, p.b, n.eB)

IsLeaf(n) == n.h = 0
End(n, i) == IF i < Len(n.piv) THEN n.piv[i + 1].lo ELSE n.hi
PivotOf(n, k) == CHOOSE i \in DOMAIN n.piv : n.piv[i].lo <= k /\ k < End(n, i)
InnerPivots(n) == {n.piv[i].lo : i \in 2 .. Len(n.piv)}

BranchesOf(bundle) == FlattenSeq([j \in DOMAIN bundle.subs |-> bundle.subs[j].br])
FiltersOf(bundle) == FlattenSeq([j \in DOMAIN bundle.subs |-> bundle.subs[j].fl])

\* The whole branches and the bundles that are live for pivot p.
Wholes(n, p) == SubSeq(n.whole, Len(n.whole) - p.w + 1, Len(n.whole))
Bundles(n, p) == SubSeq(n.bun, Len(n.bun) - Minus(n.eB, p.b) + 1, Len(n.bun))

Empty(kv) == DOMAIN kv = {}
Between(kv, from, to) == {k \in DOMAIN kv : from <= k /\ k < to}

Sum(s) == FoldSeq(LAMBDA x, y : x + y, 0, s)
PivotTuples(n, i) ==
  LET all == Wholes(n, n.piv[i]) \o FlattenSeq([j \in DOMAIN Bundles(n, n.piv[i]) |->
                                                 BranchesOf(Bundles(n, n.piv[i])[j])])
  IN  Sum([j \in DOMAIN all |-> Cardinality(Between(all[j].kv, n.piv[i].lo, End(n, i)))])

LogicalBranches(n) == Len(n.whole) + Len(n.bun)
NodeIsFull(n) == LogicalBranches(n) > cfg.maxBranches
PivotNeedsFlush(n, p) == p.w + Minus(n.eB, p.b) > cfg.maxBranches
NeedsSplit(n) == IF IsLeaf(n) THEN PivotTuples(n, 1) > cfg.maxTuples \/ NodeIsFull(n)
                              ELSE Len(n.piv) > cfg.fanout

-----------------------------------------------------------------------------
(* References.  A branch lies in extents that cover ranges of keys; each   *)
(* has a count.  The first range of a batch begins at minus infinity, the  *)
(* last ends at plus infinity, and one extent, the root's, covers them all.*)

Extents(kv) ==
  LET From(k) == IF \E j \in DOMAIN kv : j < k THEN k ELSE 0
      To(k) == IF \E j \in DOMAIN kv : j > k
               THEN CHOOSE j \in DOMAIN kv : j > k /\ \A m \in DOMAIN kv : m > k => j <= m
               ELSE Inf
  IN  {<<0, Inf>>} \cup {<<From(k), To(k)>> : k \in DOMAIN kv}
Meets(x, from, to) == x[2] >= from /\ x[1] <= to

\* btree_inc_ref_range of each branch of a sequence, at each of the ranges.
IncRanges(s, branches, ranges) ==
  [s EXCEPT !.rc = [id \in DOMAIN @ |-> [x \in DOMAIN @[id] |-> @[id][x] +
     Cardinality({<<j, r>> \in (DOMAIN branches) \X ranges :
                    branches[j].id = id /\ Meets(x, r[1], r[2])})]]]
Points(keys) == {<<k, k>> : k \in keys}

IncFilters(s, filters) ==
  [s EXCEPT !.fr = [id \in DOMAIN @ |-> @[id] + Cardinality({j \in DOMAIN filters : filters[j].id = id})]]

\* References are given back through the queue of garbage.
Zap(b, from, to) == <<"range", b.id, from, to>>
Drop(f) == <<"filter", f.id, 0, 0>>
Discard(s, items) == [s EXCEPT !.gc = @ \o items]
DropAll(s, filters) ==
  LET real == SelectSeq(filters, LAMBDA f : f # NoFilter)
  IN  Discard(s, [j \in DOMAIN real |-> Drop(real[j])])

NewBranch(s, b) == [s EXCEPT !.rc = @ @@ (b.id :> [x \in Extents(b.kv) |-> 1])]
NewFilters(s, filters) == [s EXCEPT !.fr = @ @@ [id \in {f.id : f \in filters} |-> 1]]

Enqueue(s, req) == [s EXCEPT !.q = Append(@, req)]
EnqueueFirst(s, req) == [s EXCEPT !.q = <<req>> \o @]

-----------------------------------------------------------------------------
(* Changes of one node that is being copied.                               *)

\* What no pivot holds any more goes, the bundles with their filters.
Largest(counts) == CHOOSE c \in counts : \A d \in counts : d <= c

KeepLast(s, n, whole, bundles) ==
  [s |-> DropAll(s, FlattenSeq([j \in 1 .. Len(n.bun) - bundles |-> FiltersOf(n.bun[j])])),
   n |-> [n EXCEPT !.whole = SubSeq(@, Len(@) - whole + 1, Len(@)),
                   !.bun = SubSeq(@, Len(@) - bundles + 1, Len(@))]]
ResetStartBranch(s, n) ==
  KeepLast(s, n, Largest({p.w : p \in Range(n.piv)}), Largest({Minus(n.eB, p.b) : p \in Range(n.piv)}))

PivotClear(s, n, i) ==
  ResetStartBranch(s, [n EXCEPT !.piv[i].w = 0, !.piv[i].b = n.eB, !.piv[i].f = NoFilter])

\* A pivot for a new child after pivot i-1, which gets a new generation.
AddPivot(n, i, kid) ==
  [n EXCEPT !.gen = @ + 1,
            !.piv = InsertAt([@ EXCEPT ![i - 1].gen = n.gen], i,
                             [n.piv[i - 1] EXCEPT !.lo = kid.lo, !.kid = kid])]

AddBundle(n, rid, subs) == [n EXCEPT !.bun = Append(@, [rid |-> rid, subs |-> subs]),
                                     !.eB = Plus(@, 1)]

\* Requests; rid numbers them and names the branch they make.
Request(kind, rid, n, no) ==
  [kind |-> kind, rid |-> rid, h |-> n.h, id |-> n.id, no |-> no, s |-> n.lo, e |-> n.hi,
   gens |-> [i \in DOMAIN n.piv |-> n.piv[i].gen],
   out |-> [i \in DOMAIN n.piv |-> 0], kv |-> <<>>, snap |-> <<>>]

-----------------------------------------------------------------------------
(* Splits.                                                                 *)

RebundleAll(n, rid) ==
  LET first == IF n.whole = <<>> THEN <<>>
               ELSE <<[st |-> "leaf", br |-> n.whole, fl |-> <<n.piv[1].f>>]>>
      subs == first \o FlattenSeq([j \in DOMAIN n.bun |-> n.bun[j].subs])
  IN  [n EXCEPT !.whole = <<>>, !.bun = <<[rid |-> rid, subs |-> subs]>>, !.eB = Plus(@, 1),
                !.piv[1] = [@ EXCEPT !.w = 0, !.b = n.eB, !.f = NoFilter, !.gen = n.gen],
                !.gen = @ + 1]

KeysOfLeaf(n) ==
  UNION {Between(b.kv, n.lo, n.hi) : b \in Range(n.whole) \cup
         UNION {Range(BranchesOf(n.bun[j])) : j \in DOMAIN n.bun}}

\* Where the leaf is cut: at its middle key, or not at all.
Cut(n) ==
  LET keys == SetToSortSeq(KeysOfLeaf(n), <)
  IN  IF Len(keys) > cfg.singleLeaf /\ Len(keys) > 1 THEN <<keys[Len(keys) \div 2 + 1]>> ELSE <<>>

LeafRequest(leaf) ==
  [Request("compact", leaf.bun[1].rid, leaf, Minus(leaf.eB, 1)) EXCEPT !.gens = <<leaf.gen - 1>>, !.snap = leaf]

WholeLeaf(s, parent, i, leaf) ==
  [s |-> Enqueue([s EXCEPT !.nid = @ + 1, !.rid = @ + 1], LeafRequest(leaf)),
   n |-> [parent EXCEPT !.piv[i].kid = leaf]]

\* Mutant: the branches were not counted for the second leaf.
SharedFilters(s, branches, filters, key) == IncFilters(s, filters)
Shared(s, branches, filters, key) == IncFilters(IncRanges(s, branches, Points({key})), filters)

TwoLeaves(s, parent, i, left, right) ==
  [s |-> Enqueue(Enqueue(Shared([s EXCEPT !.nid = @ + 2, !.rid = @ + 2],
                                BranchesOf(right.bun[1]), FiltersOf(right.bun[1]), right.lo),
                         LeafRequest(left)), LeafRequest(right)),
   n |-> AddPivot([parent EXCEPT !.piv[i].kid = left], i + 1, right)]

CutLeaf(s, parent, i, leaf, cut) ==
  IF cut = <<>> THEN WholeLeaf(s, parent, i, [leaf EXCEPT !.id = s.nid])
  ELSE TwoLeaves(s, parent, i, [leaf EXCEPT !.id = s.nid, !.hi = cut[1]],
                 [leaf EXCEPT !.id = s.nid + 1, !.lo = cut[1], !.piv[1].lo = cut[1], !.bun[1].rid = s.rid + 1])

SplitLeaf(s, parent, leaf, i) == CutLeaf(s, parent, i, RebundleAll(leaf, s.rid), Cut(leaf))

\* Both halves keep what their pivots hold.  (The parent gets them from the
\* caller: the left one may still flush.)
LeftHalf(right, child, m) ==
  [left |-> ResetStartBranch(right.s, [child EXCEPT !.piv = SubSeq(@, 1, m), !.hi = child.piv[m + 1].lo,
                                                    !.id = right.s.nid + 1]),
   right |-> right.n]
RightHalf(s, child, m) ==
  ResetStartBranch(s, [child EXCEPT !.piv = SubSeq(@, m + 1, Len(@)), !.lo = child.piv[m + 1].lo, !.id = s.nid])

Halves(h) == [s |-> [h.left.s EXCEPT !.nid = @ + 2], left |-> h.left.n, right |-> h.right]

SplitIndex(s, child) ==
  LET m == Len(child.piv) \div 2
      filters == FlattenSeq([j \in DOMAIN child.bun |-> FiltersOf(child.bun[j])])
  IN  Halves(LeftHalf(RightHalf(IncFilters(s, filters), child, m), child, m))

NewRoot(n, h) ==
  LET top == [n EXCEPT !.h = @ + 1, !.whole = <<>>, !.bun = <<>>, !.eB = 0,
                       !.piv = <<[lo |-> 0, kid |-> h.left, gen |-> 0, w |-> 0, b |-> 0, f |-> NoFilter]>>]
  IN  [s |-> h.s, n |-> AddPivot(top, 2, h.right)]

SplitRoot(s, n) == NewRoot(n, SplitIndex(s, n))

-----------------------------------------------------------------------------
(* Flushes.  What the pivot holds becomes a bundle of the child; filters of*)
(* whole branches move, those of bundles are shared.                       *)

Flushed(cleared, child, rid, req) == [s |-> [cleared.s EXCEPT !.rid = rid + 1], parent |-> cleared.n,
                                      child |-> child, req |-> req]

MoveDown(s, parent, i, first, rest) ==
  LET child == AddBundle(parent.piv[i].kid, s.rid, first \o rest)
      shared == IncFilters(s, FlattenSeq([j \in DOMAIN rest |-> rest[j].fl]))
      inc == IncRanges(shared, BranchesOf(Last(child.bun)), Points(InnerPivots(child)))
  IN  Flushed(PivotClear(inc, parent, i), child, s.rid, Request("compact", s.rid, child, Minus(child.eB, 1)))

FlushIntoBundle(s, parent, i) ==
  LET p == parent.piv[i]
  IN  MoveDown(s, parent, i,
               IF p.w = 0 THEN <<>> ELSE <<[st |-> "index", br |-> Wholes(parent, p), fl |-> <<p.f>>]>>,
               FlattenSeq([j \in DOMAIN Bundles(parent, p) |-> Bundles(parent, p)[j].subs]))

RECURSIVE Flush(_, _, _), FlushPivots(_, _, _, _), Relieve(_, _)

IntoNode(d, i, new) ==
  [s |-> Enqueue(new.s, [d.req EXCEPT !.e = new.n.hi, !.id = new.n.id, !.snap = new.n]),
   n |-> [d.parent EXCEPT !.piv[i].kid = new.n]]

\* The right half has the same bundle and a request of its own, which comes first.
RightRequest(d, s, right) ==
  Enqueue([s EXCEPT !.rid = @ + 1],
          [d.req EXCEPT !.rid = s.rid, !.s = right.lo, !.id = right.id, !.snap = right])
Renamed(n, old, new) ==
  [n EXCEPT !.bun = [j \in DOMAIN @ |-> IF @[j].rid = old THEN [@[j] EXCEPT !.rid = new] ELSE @[j]]]

IntoHalves(d, i, h) ==
  IntoNode([d EXCEPT !.parent = AddPivot([@ EXCEPT !.piv[i].kid = h.left], i + 1, Renamed(h.right, d.req.rid, h.s.rid))],
           i, Relieve(RightRequest(d, h.s, Renamed(h.right, d.req.rid, h.s.rid)), h.left))

AfterFlush(d, i) ==
  IF ~NeedsSplit(d.child) THEN IntoNode(d, i, Relieve(d.s, d.child))
  ELSE IF IsLeaf(d.child) THEN SplitLeaf(d.s, d.parent, d.child, i)
  ELSE IntoHalves(d, i, SplitIndex(d.s, d.child))

Flush(s, parent, i) == AfterFlush(FlushIntoBundle(s, parent, i), i)

\* Every pivot with too many branches, and then the fullest of the others.
FlushPivots(s, n, i, fullest) ==
  LET urgent == i <= Len(n.piv) /\ PivotNeedsFlush(n, n.piv[i])
      last == i > Len(n.piv)
      next == IF urgent \/ (fullest # 0 /\ PivotTuples(n, i) <= PivotTuples(n, fullest)) THEN fullest ELSE i
      Rest(f) == IF last THEN f ELSE FlushPivots(f.s, f.n, i + 1, next)
  IN  Rest(IF urgent THEN Flush(s, n, i)
           ELSE IF last /\ NodeIsFull(n) THEN Flush(s, n, fullest) ELSE [s |-> s, n |-> n])

FlushFullest(s, n) == FlushPivots(s, n, 1, 0)

\* While the node is full.
Relieve(s, n) ==
  LET Again(f) == Relieve(f.s, f.n)
  IN  IF NodeIsFull(n) THEN Again(FlushFullest(s, n)) ELSE [s |-> s, n |-> n]

-----------------------------------------------------------------------------
(* Nodes are found by a key and a height; the path to a changed node is new.*)

RECURSIVE NodeAt(_, _, _), CopyPath(_, _, _, _), NodesOf(_)

NodeAt(n, k, h) == IF n.h = h THEN n ELSE NodeAt(n.piv[PivotOf(n, k)].kid, k, h)

CopyPath(n, k, h, new) ==
  IF n.h = h THEN new ELSE [n EXCEPT !.piv[PivotOf(n, k)].kid = CopyPath(@, k, h, new)]

NodesOf(n) ==
  <<n>> \o IF IsLeaf(n) THEN <<>> ELSE FlattenSeq([i \in DOMAIN n.piv |-> NodesOf(n.piv[i].kid)])

HasSplit(req, n) == n.id # req.id
LiveRanges(n, no) == {<<n.piv[i].lo, End(n, i)>> : i \in {j \in DOMAIN n.piv : LiveFor(n, no, n.piv[j])}}
PositionOf(req, gen) == {pos \in DOMAIN req.gens : req.gens[pos] = gen}

-----------------------------------------------------------------------------
Idle == [pc |-> "idle", req |-> <<>>, first |-> 0, holds |-> {}, reps |-> 0, scratch |-> <<>>,
         from |-> 0, to |-> 0, seen |-> 0]

Init ==
  LET leaf == [id |-> 2, h |-> 0, lo |-> 0, hi |-> Inf, gen |-> 1, whole |-> <<>>, bun |-> <<>>, eB |-> 0,
               piv |-> <<[lo |-> 0, kid |-> <<>>, gen |-> 0, w |-> 0, b |-> 0, f |-> NoFilter]>>]
  IN  /\ cfg \in Configs
      /\ root = [leaf EXCEPT !.id = 1, !.h = 1, !.piv[1].kid = leaf]
      /\ up = 0
      /\ store = [rc |-> <<>>, fr |-> <<>>, gc |-> <<>>, q |-> <<>>, nid |-> 3, rid |-> 1]
      /\ work = [w \in Workers |-> Idle]
      /\ reader = [r \in Readers |-> [on |-> FALSE, seen |-> 0, filters |-> {}, extents |-> {}]]

\* The next memtable becomes a bundle of the root that is compacted already.
Incorporate ==
  /\ up < Len(cfg.tables)
  /\ LET rid == store.rid
         branch == [id |-> rid, kv |-> [k \in DOMAIN cfg.tables[up + 1] |-> <<up + 1, cfg.tables[up + 1][k]>>]]
         filter == [id |-> <<rid, 0>>, map |-> (DOMAIN branch.kv) \X {0}]
         new == AddBundle(root, rid, <<[st |-> "compacted", br |-> <<branch>>, fl |-> <<filter>>]>>)
         counted == IncRanges(NewFilters(NewBranch([store EXCEPT !.rid = @ + 1], branch), {filter}),
                              <<branch>>, Points(InnerPivots(new)))
         flushed == Relieve(counted, new)
         split == IF NeedsSplit(flushed.n) THEN SplitRoot(flushed.s, flushed.n) ELSE flushed
         req == [Request("build", rid, new, root.eB) EXCEPT
                   !.kv = branch.kv,
                   !.out = [i \in DOMAIN @ |-> Cardinality(Between(branch.kv, new.piv[i].lo, End(new, i)))]]
     IN  /\ root' = split.n
         /\ store' = EnqueueFirst(split.s, req)
  /\ up' = up + 1
  /\ UNCHANGED <<cfg, work, reader>>

-----------------------------------------------------------------------------
(* A background thread takes the first task.                               *)

Free(w) == w \in cfg.workers /\ work[w].pc = "idle" /\ store.q # <<>>
Task(w) == Head(store.q)
Taken == [store EXCEPT !.q = Tail(@)]
Ends(w) == work' = [work EXCEPT ![w] = Idle]

\* The runs of neighbouring pivots that the bundle is live for.
Runs(n, no) ==
  LET live == {i \in DOMAIN n.piv : LiveFor(n, no, n.piv[i])}
  IN  {<<n.piv[i].lo, End(n, j)>> : <<i, j>> \in {<<a, b>> \in live \X live :
         /\ a <= b /\ (a .. b) \subseteq live /\ a - 1 \notin live /\ b + 1 \notin live}}

\* The task looks at the node as it was when the bundle came: it may be flushed by then.
AbortFlushed(w) ==
  /\ Free(w) /\ Task(w).kind = "compact"
  /\ ~BundleLive(Task(w).snap, Task(w).no)
  /\ store' = Taken
  /\ UNCHANGED <<cfg, root, up, work, reader>>

StartCompact(w) ==
  /\ Free(w) /\ Task(w).kind = "compact"
  /\ BundleLive(Task(w).snap, Task(w).no)
  /\ LET branches == BranchesOf(BundleAt(Task(w).snap, Task(w).no))
         runs == Runs(Task(w).snap, Task(w).no)
     IN  /\ store' = IncRanges(Taken, branches, runs)
         /\ work' = [work EXCEPT ![w] = [Idle EXCEPT !.pc = "pack", !.req = Task(w), !.first = Task(w).s,
                       !.holds = {<<b.id, r[1], r[2]>> : b \in Range(branches), r \in runs}]]
  /\ UNCHANGED <<cfg, root, up, reader>>

\* The newest message of each key; deletions go when nothing older is left below.
Merge(n, no) ==
  LET branches == BranchesOf(BundleAt(n, no))
      Live(b) == {k \in DOMAIN b.kv : \E r \in LiveRanges(n, no) : r[1] <= k /\ k < r[2]}
      Newest(k) == CHOOSE j \in DOMAIN branches : /\ k \in Live(branches[j])
                                                  /\ \A m \in DOMAIN branches : k \in Live(branches[m]) => m <= j
      all == [k \in UNION {Live(branches[j]) : j \in DOMAIN branches} |-> branches[Newest(k)].kv[k]]
      full == IsLeaf(n) /\ n.whole = <<>> /\ no = StartBundle(n)
  IN  Restrict(all, {k \in DOMAIN all : full => all[k][2] # "del"})

Pack(w) ==
  LET req == work[w].req
      b == [id |-> req.rid, kv |-> Merge(req.snap, req.no)]
      holds == SetToSeq(work[w].holds)
      made == IF Empty(b.kv) THEN store ELSE NewBranch(store, b)
  IN  /\ work[w].pc = "pack"
      /\ store' = Discard(made, [j \in DOMAIN holds |-> <<"range", holds[j][1], holds[j][2], holds[j][3]>>])
      /\ work' = [work EXCEPT ![w].pc = "replace", ![w].holds = {}, ![w].req.kv = b.kv, ![w].req.snap = <<>>]
      /\ UNCHANGED <<cfg, root, up, reader>>

\* The new branch takes the place of the bundle's branches, or the bundle vanishes.
ReplaceBranches(s, n, req, b) ==
  LET at == Minus(req.no, StartBundle(n)) + 1
      dead == {n.piv[i].lo : i \in {j \in DOMAIN n.piv : ~LiveFor(n, req.no, n.piv[j])}}
      slices == SetToSeq({Zap(b, n.piv[i].lo, End(n, i)) : i \in {j \in DOMAIN n.piv : n.piv[j].lo \in dead}})
  IN  [s |-> Discard(IncRanges(s, <<b>>, Points(InnerPivots(n) \cup {n.hi})), slices),
       n |-> [n EXCEPT !.bun[at].subs = <<[st |-> "compacted", br |-> <<b>>, fl |-> FiltersOf(n.bun[at])]>>]]

OutCounts(n, req, b) ==
  [pos \in DOMAIN req.out |->
    LET live == {i \in DOMAIN n.piv : n.piv[i].gen = req.gens[pos] /\ LiveFor(n, req.no, n.piv[i])}
    IN  IF live = {} THEN req.out[pos]
        ELSE LET i == CHOOSE j \in live : TRUE IN Cardinality(Between(b.kv, n.piv[i].lo, End(n, i)))]

Vanish(s, n, req) ==
  LET at == Minus(req.no, StartBundle(n)) + 1
      Shifted(b) == IF InRange(b, Plus(req.no, 1), Plus(n.eB, 1)) THEN Minus(b, 1) ELSE b
  IN  [s |-> DropAll(s, FiltersOf(n.bun[at])),
       n |-> [n EXCEPT !.bun = RemoveAt(@, at), !.eB = Minus(@, 1),
                       !.piv = [i \in DOMAIN @ |-> [@[i] EXCEPT !.b = Shifted(@)]]]]

\* What the old node held goes, range by range.
CollectBundle(s, n, no) ==
  IF ~BundleLive(n, no) THEN s
  ELSE LET branches == BranchesOf(BundleAt(n, no))
           zaps == {Zap(b, r[1], r[2]) : b \in Range(branches), r \in LiveRanges(n, no)}
       IN  Discard(s, SetToSeq(zaps))

DiscardSplit(w) ==
  LET req == work[w].req
      n == NodeAt(root, req.s, req.h)
  IN  /\ work[w].pc = "replace"
      /\ IsLeaf(n) /\ HasSplit(req, n)
      /\ store' = IF Empty(req.kv) THEN store ELSE Discard(store, <<<<"range", req.rid, 0, Inf>>>>)
      /\ Ends(w)
      /\ UNCHANGED <<cfg, root, up, reader>>

Replace(w) ==
  LET req == work[w].req
      b == [id |-> req.rid, kv |-> req.kv]
      n == NodeAt(root, req.s, req.h)
      live == BundleLive(n, req.no)
      new == IF ~live THEN [s |-> store, n |-> n]
             ELSE IF Empty(b.kv) THEN Vanish(store, n, req) ELSE ReplaceBranches(store, n, req, b)
      reps == work[w].reps + (IF live /\ ~Empty(b.kv) THEN 1 ELSE 0)
      more == n.hi < req.e
      fringe == IF ~more /\ reps # 0 THEN Discard(new.s, <<Zap(b, n.hi, n.hi)>>) ELSE new.s
      collected == CollectBundle(fringe, n, req.no)
      counted == [req EXCEPT !.out = OutCounts(n, req, b)]
  IN  /\ work[w].pc = "replace"
      /\ IsLeaf(n) => ~HasSplit(req, n)
      /\ live \/ ~IsLeaf(n)      \* "impossible: bundles flushed from leaf" stops the program
      /\ root' = CopyPath(root, req.s, req.h, new.n)
      /\ IF more
         THEN /\ store' = collected
              /\ work' = [work EXCEPT ![w].req = [counted EXCEPT !.s = n.hi], ![w].reps = reps]
         ELSE /\ store' = IF reps # 0
                          THEN EnqueueFirst(collected, [counted EXCEPT !.kind = "build", !.s = work[w].first])
                          ELSE IF ~Empty(b.kv) THEN Discard(collected, <<Zap(b, 0, Inf)>>) ELSE collected
              /\ Ends(w)
      /\ UNCHANGED <<cfg, up, reader>>

-----------------------------------------------------------------------------
(* The filters of a compacted bundle.  They make its branch a whole one,   *)
(* which lookups find through the filter of the pivot; bundles are taken   *)
(* oldest first.                                                           *)

Take(w) == work' = [work EXCEPT ![w] = [Idle EXCEPT !.pc = "prepare", !.req = Task(w)]]

StartBuild(w) ==
  /\ Free(w) /\ Task(w).kind = "build"
  /\ Take(w)
  /\ store' = Taken
  /\ UNCHANGED <<cfg, root, up, reader>>

Upcoming(w) == NodeAt(root, work[w].req.s, work[w].req.h)
AbortSplit(w) == IsLeaf(Upcoming(w)) /\ HasSplit(work[w].req, Upcoming(w))

\* On to the sibling that begins where this node ends.
NextNode(w, hi) ==
  work' = [work EXCEPT ![w] = IF hi < @.req.e
                              THEN [Idle EXCEPT !.pc = "prepare", !.req = [work[w].req EXCEPT !.s = hi]] ELSE Idle]

Abort(w) ==
  /\ work[w].pc = "prepare" /\ AbortSplit(w)
  /\ Ends(w)
  /\ UNCHANGED <<cfg, root, up, store, reader>>

Skip(w) ==
  /\ work[w].pc = "prepare" /\ ~AbortSplit(w)
  /\ ~BundleLive(Upcoming(w), work[w].req.no)
  /\ NextNode(w, Upcoming(w).hi)
  /\ UNCHANGED <<cfg, root, up, store, reader>>

\* Mutant: a task that came too early were dropped.
ReenqueueNothing(w) ==
  /\ work[w].pc = "prepare" /\ ~AbortSplit(w)
  /\ BundleLive(Upcoming(w), work[w].req.no)
  /\ work[w].req.no # StartBundle(Upcoming(w))
  /\ Ends(w)
  /\ UNCHANGED <<cfg, root, up, store, reader>>

Reenqueue(w) ==
  /\ work[w].pc = "prepare" /\ ~AbortSplit(w)
  /\ BundleLive(Upcoming(w), work[w].req.no)
  /\ work[w].req.no # StartBundle(Upcoming(w))
  /\ store' = Enqueue(store, work[w].req)
  /\ Ends(w)
  /\ UNCHANGED <<cfg, root, up, reader>>

Nothing == [build |-> FALSE, old |-> NoFilter, value |-> 0, new |-> NoFilter]

\* What each pivot has now.
Capture(n, req) ==
  [pos \in DOMAIN req.gens |->
    LET live == {i \in DOMAIN n.piv : n.piv[i].gen = req.gens[pos] /\ LiveFor(n, req.no, n.piv[i])}
    IN  IF live = {} THEN Nothing
        ELSE LET p == n.piv[CHOOSE i \in live : TRUE]
             IN  [Nothing EXCEPT !.build = TRUE, !.old = p.f, !.value = p.w]]

Prepare(w) ==
  /\ work[w].pc = "prepare" /\ ~AbortSplit(w)
  /\ BundleLive(Upcoming(w), work[w].req.no)
  /\ work[w].req.no = StartBundle(Upcoming(w))
  /\ work' = [work EXCEPT ![w].pc = "build", ![w].scratch = Capture(Upcoming(w), work[w].req),
                          ![w].from = Upcoming(w).lo, ![w].to = Upcoming(w).hi, ![w].seen = Len(store.gc)]
  /\ UNCHANGED <<cfg, root, up, store, reader>>

\* The fingerprints of the new branch lie one pivot after the other.
\* Mutant: the fingerprints of the pivots before were not counted.
FingerprintsFromFirst(req, pos) ==
  Range(SubSeq(SetToSortSeq(DOMAIN req.kv, <), 1, req.out[pos]))
Fingerprints(req, pos) ==
  LET before == Sum(SubSeq(req.out, 1, pos - 1))
  IN  Range(SubSeq(SetToSortSeq(DOMAIN req.kv, <), before + 1, before + req.out[pos]))

Build(w) ==
  LET req == work[w].req
      Built(pos) ==
        LET c == work[w].scratch[pos]
        IN  IF ~c.build THEN c
            ELSE IF req.out[pos] = 0 THEN [c EXCEPT !.new = c.old]
            ELSE [c EXCEPT !.new = [id |-> <<req.rid, req.gens[pos] + 1>>,
                                    map |-> c.old.map \cup (Fingerprints(req, pos) \X {c.value})]]
      built == [pos \in DOMAIN req.gens |-> Built(pos)]
      kept == SelectSeq(built, LAMBDA c : c.new = c.old)
      fresh == {c.new : c \in {d \in Range(built) : d.new # d.old}}
  IN  /\ work[w].pc = "build"
      /\ store' = NewFilters(IncFilters(store, [j \in DOMAIN kept |-> kept[j].new]), fresh)
      /\ work' = [work EXCEPT ![w].pc = "swap", ![w].scratch = built, ![w].seen = 0]
      /\ UNCHANGED <<cfg, root, up, reader>>

Leftovers(scratch) == [pos \in DOMAIN scratch |-> scratch[pos].new]

AbortSwap(w) ==
  /\ work[w].pc = "swap"
  /\ LET n == NodeAt(root, work[w].from, work[w].req.h) IN IsLeaf(n) /\ HasSplit(work[w].req, n)
  /\ store' = DropAll(store, Leftovers(work[w].scratch))
  /\ Ends(w)
  /\ UNCHANGED <<cfg, root, up, reader>>

\* The oldest bundle becomes whole branches.
ClearBundle(s, n, no) ==
  LET branches == BranchesOf(BundleAt(n, no))
  IN  [s |-> DropAll(s, FiltersOf(BundleAt(n, no))),
       n |-> [n EXCEPT !.whole = @ \o branches, !.bun = Tail(@),
                !.piv = [i \in DOMAIN @ |-> IF @[i].b = no
                           THEN [@[i] EXCEPT !.b = Plus(no, 1), !.w = @ + Len(branches)] ELSE @[i]]]]

\* The filters that the node had go (of the node where the request begins).
CollectFilters(s, n, no) ==
  LET live == SelectSeq(n.piv, LAMBDA p : LiveFor(n, no, p))
  IN  DropAll(s, [j \in DOMAIN live |-> live[j].f])

Swap(w) ==
  LET req == work[w].req
      n == NodeAt(root, work[w].from, req.h)
      Pos(i) == PositionOf(req, n.piv[i].gen)
      New(i) == work[w].scratch[CHOOSE pos \in Pos(i) : TRUE].new
      placed == [i \in DOMAIN n.piv |->
                   IF LiveFor(n, req.no, n.piv[i]) THEN [n.piv[i] EXCEPT !.f = New(i)] ELSE n.piv[i]]
      flushed == SelectSeq([i \in DOMAIN n.piv |-> i], LAMBDA i : ~LiveFor(n, req.no, n.piv[i]) /\ Pos(i) # {})
      done == UNION {Pos(i) : i \in DOMAIN n.piv}
      rest == [pos \in DOMAIN req.gens |-> IF pos \in done THEN Nothing ELSE work[w].scratch[pos]]
      dropped == DropAll(store, [j \in DOMAIN flushed |-> New(flushed[j])])
      cleared == IF BundleLive(n, req.no) THEN ClearBundle(dropped, [n EXCEPT !.piv = placed], req.no)
                 ELSE [s |-> dropped, n |-> n]
      collected == CollectFilters(cleared.s, NodeAt(root, req.s, req.h), req.no)
  IN  /\ work[w].pc = "swap"
      /\ IsLeaf(n) => ~HasSplit(req, n)
      /\ root' = CopyPath(root, work[w].from, req.h, cleared.n)
      /\ IF n.hi # work[w].to
         THEN /\ store' = collected
              /\ work' = [work EXCEPT ![w].from = n.hi, ![w].scratch = rest]
         ELSE /\ store' = DropAll(collected, Leftovers(rest))
              /\ NextNode(w, n.hi)
      /\ UNCHANGED <<cfg, up, reader>>

-----------------------------------------------------------------------------
(* Lookups.  A filter tells in which branches the key is; the newest is    *)
(* read first.                                                             *)

Hits(f, k, branches) ==
  LET values == SetToSortSeq({v \in {m[2] : m \in {x \in f.map : x[1] = k}} : v < Len(branches)}, >)
  IN  [j \in DOMAIN values |-> branches[values[j] + 1]]

SubbundleHits(sub, k) ==
  IF sub.st = "compacted"
  THEN IF \E f \in Range(sub.fl) : \E m \in f.map : m[1] = k THEN sub.br ELSE <<>>
  ELSE Hits(sub.fl[1], k, sub.br)

BundleHits(bundle, k) == FlattenSeq(Reverse([j \in DOMAIN bundle.subs |-> SubbundleHits(bundle.subs[j], k)]))

PivotHits(n, p, k) ==
  FlattenSeq(Reverse([j \in DOMAIN Bundles(n, p) |-> BundleHits(Bundles(n, p)[j], k)]))
    \o Hits(p.f, k, Wholes(n, p))

RECURSIVE Found(_, _), Path(_, _)
Found(n, k) ==
  LET p == n.piv[PivotOf(n, k)]
      here == SelectSeq(PivotHits(n, p, k), LAMBDA b : k \in DOMAIN b.kv)
  IN  IF here # <<>> THEN {here[1].kv[k]} ELSE IF IsLeaf(n) THEN {} ELSE Found(p.kid, k)

\* The filters and branches that a lookup may read.
Path(n, k) ==
  LET p == n.piv[PivotOf(n, k)]
      f == {p.f} \cup UNION {Range(FiltersOf(Bundles(n, p)[j])) : j \in DOMAIN Bundles(n, p)}
      e == {<<b.id, x>> : b \in Range(PivotHits(n, p, k)), x \in {<<0, Inf>>}}
           \cup UNION {{<<b.id, x>> : x \in {y \in Extents(b.kv) : y[1] <= k /\ k < y[2]}} :
                        b \in Range(PivotHits(n, p, k))}
      below == IF IsLeaf(n) THEN [filters |-> {}, extents |-> {}] ELSE Path(p.kid, k)
  IN  [filters |-> {g.id : g \in f \ {NoFilter}} \cup below.filters, extents |-> e \cup below.extents]

Begin(r) ==
  /\ r \in cfg.readers /\ ~reader[r].on
  /\ \E k \in Keys :
       reader' = [reader EXCEPT ![r] = [on |-> TRUE, seen |-> Len(store.gc), filters |-> Path(root, k).filters,
                                        extents |-> Path(root, k).extents]]
  /\ UNCHANGED <<cfg, root, up, store, work>>

EndRead(r) ==
  /\ reader[r].on
  /\ reader' = [reader EXCEPT ![r] = [on |-> FALSE, seen |-> 0, filters |-> {}, extents |-> {}]]
  /\ UNCHANGED <<cfg, root, up, store, work>>

-----------------------------------------------------------------------------
(* Garbage.  The delay of the queue (TRUNK_GC_DELAY) stands for this: who  *)
(* read the tree before the reference was given back has ended.            *)

Using == {r \in Readers : reader[r].on}
Building == {w \in Workers : work[w].pc = "build"}
Ages == {Len(store.gc)} \cup {reader[r].seen : r \in Using} \cup {work[w].seen : w \in Building}

Ripe == CHOOSE age \in Ages : \A other \in Ages : age <= other

Collected(s, item) ==
  IF item[1] = "filter"
  THEN [s EXCEPT !.fr = IF @[item[2]] = 1 THEN Restrict(@, DOMAIN @ \ {item[2]}) ELSE [@ EXCEPT ![item[2]] = @ - 1]]
  ELSE LET less == [x \in DOMAIN s.rc[item[2]] |->
                      s.rc[item[2]][x] - (IF Meets(x, item[3], item[4]) THEN 1 ELSE 0)]
       IN  [s EXCEPT !.rc = IF \A x \in DOMAIN less : less[x] = 0 THEN Restrict(@, DOMAIN @ \ {item[2]})
                            ELSE [@ EXCEPT ![item[2]] = less]]

Older(seen, n) == IF seen > n THEN seen - n ELSE 0

\* One call runs two tasks at most.
PerformGc ==
  LET n == IF Ripe > 2 THEN 2 ELSE Ripe
  IN  /\ n > 0
      /\ store' = FoldLeft(Collected, [store EXCEPT !.gc = SubSeq(@, n + 1, Len(@))], SubSeq(store.gc, 1, n))
      /\ reader' = [r \in Readers |-> [reader[r] EXCEPT !.seen = Older(@, n)]]
      /\ work' = [w \in Workers |-> [work[w] EXCEPT !.seen = Older(@, n)]]
      /\ UNCHANGED <<cfg, root, up>>

-----------------------------------------------------------------------------
Compacting(w) == AbortFlushed(w) \/ StartCompact(w) \/ Pack(w) \/ DiscardSplit(w) \/ Replace(w)
Filtering(w) == \/ StartBuild(w) \/ Abort(w) \/ Skip(w) \/ Reenqueue(w)
                \/ Prepare(w) \/ Build(w) \/ AbortSwap(w) \/ Swap(w)
Work(w) == Compacting(w) \/ Filtering(w)

Next ==
  \/ Incorporate \/ PerformGc
  \/ \E w \in Workers : Work(w)
  \/ \E r \in Readers : Begin(r) \/ EndRead(r)

Spec == Init /\ [][Next]_vars

-----------------------------------------------------------------------------
(* Correctness.                                                            *)

\* A lookup finds the newest message of its key among the memtables that are
\* incorporated, wherever flushes, splits, compactions and filters have brought
\* it; nothing is found of a key that was deleted last, or its deletion.
NewestTable(k) == LET has == {t \in 1 .. up : k \in DOMAIN cfg.tables[t]}
                  IN  IF has = {} THEN 0 ELSE CHOOSE t \in has : \A u \in has : u <= t
ReadsNewest ==
  \A k \in Keys :
    LET t == NewestTable(k)
    IN  IF t = 0 THEN Found(root, k) = {}
        ELSE \/ Found(root, k) = {<<t, cfg.tables[t][k]>>}
             \/ cfg.tables[t][k] = "del" /\ Found(root, k) = {}

\* Who holds a branch: the pivots of the tree, compactions that read it, and the
\* one that made it until the last node of its range has it.
Claims ==
  LET nodes == NodesOf(root)
      Held(n, p) == Wholes(n, p) \o FlattenSeq([j \in DOMAIN Bundles(n, p) |-> BranchesOf(Bundles(n, p)[j])])
      OfPivot(n, i) == [j \in DOMAIN Held(n, n.piv[i]) |->
                          <<Held(n, n.piv[i])[j].id, n.piv[i].lo, End(n, i)>>]
      OfNode(n) == FlattenSeq([i \in DOMAIN n.piv |-> OfPivot(n, i)])
      OfWorker(w) == SetToSeq(work[w].holds) \o
        IF work[w].pc = "replace" /\ ~Empty(work[w].req.kv) THEN <<<<work[w].req.rid, work[w].req.s, Inf>>>> ELSE <<>>
  IN  FlattenSeq([j \in DOMAIN nodes |-> OfNode(nodes[j])])
        \o FlattenSeq([j \in DOMAIN SetToSeq(Workers) |-> OfWorker(SetToSeq(Workers)[j])])

\* Every extent of a branch has one reference for each holder whose range meets
\* it and for each that waits in the queue of garbage: none is freed under a
\* holder and none is left behind.
BranchesBalanced ==
  LET claims == Claims
      pending == SelectSeq(store.gc, LAMBDA g : g[1] = "range")
      all == claims \o [j \in DOMAIN pending |-> <<pending[j][2], pending[j][3], pending[j][4]>>]
  IN  /\ \A j \in DOMAIN all : all[j][1] \in DOMAIN store.rc
      /\ \A id \in DOMAIN store.rc : \A x \in DOMAIN store.rc[id] :
           store.rc[id][x] = Cardinality({j \in DOMAIN all : all[j][1] = id /\ Meets(x, all[j][2], all[j][3])})

\* The same for filters, which pivots, bundles and builders hold.
FiltersBalanced ==
  LET nodes == NodesOf(root)
      OfNode(n) == [i \in DOMAIN n.piv |-> n.piv[i].f] \o FlattenSeq([j \in DOMAIN n.bun |-> FiltersOf(n.bun[j])])
      OfWorker(w) == IF work[w].pc = "swap" THEN Leftovers(work[w].scratch) ELSE <<>>
      pending == SelectSeq(store.gc, LAMBDA g : g[1] = "filter")
      held == FlattenSeq([j \in DOMAIN nodes |-> OfNode(nodes[j])])
                \o FlattenSeq([j \in DOMAIN SetToSeq(Workers) |-> OfWorker(SetToSeq(Workers)[j])])
      all == [j \in DOMAIN held |-> held[j].id] \o [j \in DOMAIN pending |-> pending[j][2]]
  IN  /\ \A j \in DOMAIN all : all[j] = <<0, 0>> \/ all[j] \in DOMAIN store.fr
      /\ \A id \in DOMAIN store.fr : store.fr[id] = Cardinality({j \in DOMAIN all : all[j] = id})

\* What a lookup in an old tree, a compaction or the building of a filter still
\* reads has not been freed.
SnapshotsReadable ==
  /\ \A r \in Readers :
       /\ reader[r].filters \subseteq DOMAIN store.fr
       /\ \A e \in reader[r].extents : e[1] \in DOMAIN store.rc /\ store.rc[e[1]][e[2]] > 0
  /\ \A w \in Workers :
       /\ \A h \in work[w].holds :
            h[1] \in DOMAIN store.rc /\ \A x \in DOMAIN store.rc[h[1]] : Meets(x, h[2], h[3]) => store.rc[h[1]][x] > 0
       /\ work[w].pc = "build" =>
            \A pos \in DOMAIN work[w].scratch :
              work[w].scratch[pos].old = NoFilter \/ work[w].scratch[pos].old.id \in DOMAIN store.fr

\* Branches and filters are counted as they are held, and whoever reads an old
\* tree still finds what it reads.
ReferencesBalanced == BranchesBalanced /\ FiltersBalanced /\ SnapshotsReadable

\* A task finds its bundle by a number, in a node that has changed since: what
\* has that number is its own bundle.
Pending == Range(store.q) \cup {work[w].req : w \in {v \in Workers : work[v].pc # "idle"}}
TaskNamesItsBundle ==
  \A req \in Pending :
    LET n == NodeAt(root, req.s, req.h)
    IN  BundleLive(n, req.no) /\ (IsLeaf(n) => ~HasSplit(req, n)) => BundleAt(n, req.no).rid = req.rid

\* What trunk_compact_bundle asserts: "impossible: bundles flushed from leaf".
NoFlushFromLeaf ==
  \A w \in Workers : work[w].pc = "replace" =>
    LET n == NodeAt(root, work[w].req.s, work[w].req.h)
    IN  IsLeaf(n) /\ ~HasSplit(work[w].req, n) => BundleLive(n, work[w].req.no)

\* A bundle that waits for its compaction or its filters has a task that will come
\* to it; without it, no later bundle of the node would ever become whole.
StartOf(w) == IF work[w].pc = "replace" THEN work[w].first ELSE work[w].req.s
TaskStarts == {<<req, req.s>> : req \in Range(store.q)}
                \cup {<<work[w].req, StartOf(w)>> : w \in {v \in Workers : work[v].pc # "idle"}}
BundleHasItsTask ==
  \A n \in Range(NodesOf(root)) : \A j \in DOMAIN n.bun :
    \E t \in TaskStarts :
      /\ t[1].h = n.h /\ t[2] <= n.lo /\ n.hi <= t[1].e
      /\ t[1].no = Plus(StartBundle(n), j - 1)
      /\ IsLeaf(n) => ~HasSplit(t[1], n)

\* Bundles and tasks find one another.
BundlesMatchTasks == TaskNamesItsBundle /\ BundleHasItsTask
=============================================================================
