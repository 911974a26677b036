-------------------------------- MODULE BTree --------------------------------
(***************************************************************************)
(* The B-tree of a memtable (btree.c) under concurrent inserts, lookups    *)
(* and iterators.  Every node is a page of the cache: a thread reads it    *)
(* under a reference, claims it (one thread at a time, without waiting)    *)
(* while readers are still there, and locks it for writing by closing it   *)
(* to new readers and waiting for the old ones to leave.                   *)
(*                                                                         *)
(* Threads go down hand over hand.  An insert that finds a claim taken     *)
(* begins again at the root; with the leaf full it holds the claim of the  *)
(* parent and splits the leaf under the write locks of the parent, the     *)
(* leaf, the new right leaf and the leaf after it.  The root is split in   *)
(* place.  Iterators follow the leaves' next and prev addresses and look   *)
(* their end up again when the leaf it was in has changed.                 *)
(*                                                                         *)
(* What a thread does between two waits is one step when everything it     *)
(* touches is under its locks.                                             *)
(***************************************************************************)
EXTENDS BTreeNode

CONSTANTS
  Key,          \* keys, numbers: their order is the data_config's
  Inserter, Reader,
  Loader,       \* makes its inserts with "load" before the others come
  Workloads,    \* set of [Inserter \cup Reader -> sequence of calls]
  MaxNodes,     \* bound: nodes that are ever allocated
  NoOne

Proc == Inserter \cup Reader
Addr == 1 .. MaxNodes
Root == 1
\* The reference an iterator holds on the way to its end.
EndRef(p) == <<p, "end">>

BTreeAssumption ==
  /\ Key \subseteq Nat /\ Key \subseteq DOMAIN KeySize
  /\ Inserter \cap Reader = {} /\ Loader \in Inserter
  /\ MaxNodes \in Nat \ {0}

VARIABLES
  node,      \* [Addr -> node]; a page that is not allocated has height -1
  lock,      \* [Addr -> [readers, claim, write]]: the page's lock
  at,        \* [Proc -> where its call is, with the call's local variables]
  todo,      \* [Proc -> calls it has yet to make]
  hist       \* [Key -> the inserts of this key in the order they took effect,
             \*         each with the generation it was given]
vars == <<node, lock, at, todo, hist>>

Height(a) == node[a].height
ChildOf(a, i) == ValAt(node[a], i)

Unallocated == [EmptyNode EXCEPT !.height = -1]
NewAddr == Min({a \in Addr : Height(a) = -1})
HasNewAddr(count) == Cardinality({a \in Addr : Height(a) = -1}) >= count

(***************************************************************************)
(* Page locks: cache_get, cache_try_claim, cache_lock and their inverses,  *)
(* as functions of the lock table.                                         *)
(***************************************************************************)
Free == [readers |-> {}, claim |-> NoOne, write |-> FALSE]
Open(a) == ~lock[a].write
Unclaimed(a) == lock[a].claim = NoOne

Get(l, a, r)   == [l EXCEPT ![a].readers = @ \cup {r}]
Unget(l, a, r) == [l EXCEPT ![a].readers = @ \ {r}]
Claim(l, a, r) == [l EXCEPT ![a].claim = r]
Unclaim(l, a)  == [l EXCEPT ![a].claim = NoOne]
\* closed to new readers; the lock is had when the others have left
Close(l, a)    == [l EXCEPT ![a].write = TRUE]
Drained(a, r)  == lock[a].readers = {r}
Downgrade(l, a) == [l EXCEPT ![a].claim = NoOne, ![a].write = FALSE]
FullUnlock(l, a, r) == Unget(Downgrade(l, a), a, r)
\* btree_alloc: a new page, locked by who allocated it
Locked(l, a, r) == [l EXCEPT ![a] = [readers |-> {r}, claim |-> r, write |-> TRUE]]

-----------------------------------------------------------------------------
InsertAtRoot == [pc |-> "start", parent |-> 0, idx |-> 0, child |-> 0,
                 spec |-> NoSpec, next |-> 0, right |-> 0]

MayStart(p) ==
  /\ todo[p] # <<>>
  /\ p # Loader => \A i \in DOMAIN todo[Loader] : ~todo[Loader][i].load
Call(p) == todo[p][1]

Goto(p, pc) == at' = [at EXCEPT ![p].pc = pc]
Restart(p) == at' = [at EXCEPT ![p] = InsertAtRoot]

\* The insert is done: the entry went in at this generation.
Finish(p, gen) ==
  /\ at' = [at EXCEPT ![p] = InsertAtRoot]
  /\ todo' = [todo EXCEPT ![p] = Tail(@)]
  /\ hist' = [hist EXCEPT ![Call(p).key] =
                Append(@, [id |-> Call(p).msg.ops[1], put |-> Call(p).msg.put,
                           gen |-> gen])]

Same == UNCHANGED <<todo, hist>>

-----------------------------------------------------------------------------
(***************************************************************************)
(* btree_insert: at the root                                               *)
(***************************************************************************)
\* A root that is a leaf is claimed at once; who finds it claimed begins
\* again, which changes nothing: here it waits.
InsertRoot(p) ==
  /\ at[p].pc = "start" /\ MayStart(p)
  /\ Open(Root)
  /\ IF Height(Root) = 0
     THEN /\ Unclaimed(Root)
          /\ lock' = Close(Claim(Get(lock, Root, p), Root, p), Root)
          /\ at' = [at EXCEPT ![p].pc = "rootleaf",
                      ![p].spec = CreateSpec(node[Root], Call(p).key, Call(p).msg)]
     ELSE lock' = Get(lock, Root, p) /\ Goto(p, "index")
  /\ UNCHANGED node /\ Same

\* The entry goes into the leaf that is the root, or the root grows.
RootLeaf(p) ==
  /\ at[p].pc = "rootleaf" /\ Drained(Root, p)
  /\ IF CanPerform(node[Root], at[p].spec)
     THEN /\ node' = [node EXCEPT ![Root] = Perform(@, at[p].spec)]
          /\ lock' = FullUnlock(lock, Root, p)
          /\ Finish(p, node[Root].gen)
     ELSE /\ HasNewAddr(1)
          /\ node' = [node EXCEPT ![NewAddr] = node[Root],
                                  ![Root] = GrownRoot(@, NewAddr)]
          /\ lock' = Downgrade(lock, Root)
          /\ at' = [at EXCEPT ![p].pc = "index", ![p].spec = NoSpec]
          /\ Same

\* Down from an index node at this position: the next is its child there.
DownFrom(p, parent, idx, child) ==
  at' = [at EXCEPT ![p].pc = "getchild", ![p].parent = parent,
                   ![p].idx = idx, ![p].child = child]

\* The root is an index, read.  When the key is before its first pivot or it
\* could not take one more, it is claimed to be changed first.
RootIndex(p) ==
  LET i == FindIdx(node[Root], Call(p).key)
  IN /\ at[p].pc = "index"
     /\ IF i < 0 \/ IndexIsFull(node[Root])
        THEN IF Unclaimed(Root)
             THEN /\ lock' = Close(Claim(lock, Root, p), Root)
                  /\ Goto(p, "fixroot")
             ELSE lock' = Unget(lock, Root, p) /\ Restart(p)
        ELSE DownFrom(p, Root, i, ChildOf(Root, i)) /\ UNCHANGED lock
     /\ UNCHANGED node /\ Same

\* The first pivot becomes the key, at once or after the root has grown.
FixRoot(p) ==
  LET key   == Call(p).key
      i     == FindIdx(node[Root], key)
      small == i < 0
      done  == small /\ CanSetIndex(node[Root], 0, key)
      n1    == IF done THEN SetIndex(node[Root], 0, key) ELSE node[Root]
      grows == IndexIsFull(n1)
      n2    == IF grows THEN GrownRoot(n1, NewAddr) ELSE n1
      n3    == IF small /\ ~done THEN SetIndex(n2, 0, key) ELSE n2
      j     == IF small \/ grows THEN 0 ELSE i
  IN /\ at[p].pc = "fixroot" /\ Drained(Root, p)
     /\ grows => HasNewAddr(1)
     /\ node' = [a \in Addr |-> IF a = Root THEN n3
                                ELSE IF grows /\ a = NewAddr THEN n1 ELSE node[a]]
     /\ lock' = Downgrade(lock, Root)
     /\ DownFrom(p, Root, j, ValAt(n3, j))
     /\ Same

(***************************************************************************)
(* btree_insert: down the index nodes, hand over hand                      *)
(***************************************************************************)
\* The child is read while the parent is.  A leaf's spec is made at once.
GetChild(p) ==
  LET c == at[p].child
  IN /\ at[p].pc = "getchild" /\ Open(c)
     /\ lock' = Get(lock, c, p)
     /\ at' = [at EXCEPT ![p].pc = IF Height(at[p].parent) > 1 THEN "inner" ELSE "leaf",
                 ![p].spec = IF Height(at[p].parent) > 1 THEN NoSpec
                             ELSE CreateSpec(node[c], Call(p).key, Call(p).msg)]
     /\ UNCHANGED node /\ Same

\* Both are claimed when the child must be changed before going on.
Inner(p) ==
  LET parent == at[p].parent
      c == at[p].child
      i == FindIdx(node[c], Call(p).key)
  IN /\ at[p].pc = "inner"
     /\ IF i < 0 \/ IndexIsFull(node[c])
        THEN IF Unclaimed(parent) /\ Unclaimed(c)
             THEN /\ lock' = Close(Claim(Claim(lock, parent, p), c, p), parent)
                  /\ Goto(p, "lockinner")
             ELSE /\ lock' = Unget(Unget(lock, parent, p), c, p)
                  /\ Restart(p)
        ELSE /\ lock' = Unget(lock, parent, p)
             /\ DownFrom(p, c, i, ChildOf(c, i))
     /\ UNCHANGED node /\ Same

\* The parent is locked; now the child.
LockInner(p) ==
  /\ at[p].pc = "lockinner" /\ Drained(at[p].parent, p)
  /\ lock' = Close(lock, at[p].child)
  /\ Goto(p, "fixinner")
  /\ UNCHANGED node /\ Same

\* btree_defragment_or_split_child_index and what is around it
FixInner(p) ==
  LET key    == Call(p).key
      parent == at[p].parent
      c      == at[p].child
      i      == FindIdx(node[c], key)
      small  == i < 0
      done   == small /\ CanSetIndex(node[c], 0, key)
      n1     == IF done THEN SetIndex(node[c], 0, key) ELSE node[c]
      splits == IndexIsFull(n1) /\ Bytes(n1, n1.entries) >= IndexThreshold
      n2     == IF IndexIsFull(n1) /\ ~splits THEN Rebuilt(n1, n1.entries) ELSE n1
      t      == ChooseIndexSplit(n1)
      j      == IF small THEN 0 ELSE i
      left   == IF splits THEN LeftIndex(n1, t) ELSE n2
      minSet == IF small /\ ~done THEN SetIndex(left, 0, key) ELSE left
      goesRight == splits /\ j >= t
      newChild  == IF goesRight THEN NewAddr ELSE c
      newIdx    == IF goesRight THEN j - t ELSE j
      released  == IF goesRight THEN FullUnlock(lock, c, p) ELSE Downgrade(lock, c)
      right     == RightIndex(n1, t)
  IN /\ at[p].pc = "fixinner" /\ Drained(c, p)
     /\ splits => HasNewAddr(1)
     /\ node' = [a \in Addr |->
                   IF a = parent /\ splits
                   THEN Insert(node[parent], at[p].idx + 1, KeyAt(n1, t), NewAddr)
                   ELSE IF a = c THEN minSet
                   ELSE IF splits /\ a = NewAddr THEN right ELSE node[a]]
     /\ lock' = IF goesRight THEN Get(FullUnlock(released, parent, p), NewAddr, p)
                ELSE FullUnlock(released, parent, p)
     /\ DownFrom(p, newChild, newIdx,
                 IF goesRight THEN ValAt(right, newIdx) ELSE ValAt(minSet, newIdx))
     /\ Same

(***************************************************************************)
(* btree_insert: at the leaf                                               *)
(***************************************************************************)
\* With room in the leaf the parent is let go.  Else it is claimed, so that
\* the leaf can be split.
Leaf(p) ==
  LET parent == at[p].parent
      c == at[p].child
  IN /\ at[p].pc = "leaf"
     /\ IF CanPerform(node[c], at[p].spec)
        THEN IF Unclaimed(c)
             THEN /\ lock' = Close(Claim(Unget(lock, parent, p), c, p), c)
                  /\ Goto(p, "write")
             ELSE lock' = Unget(Unget(lock, parent, p), c, p) /\ Restart(p)
        ELSE IF Unclaimed(parent)
             THEN lock' = Claim(lock, parent, p) /\ Goto(p, "claimleaf")
             ELSE lock' = Unget(Unget(lock, parent, p), c, p) /\ Restart(p)
     /\ UNCHANGED node /\ Same

WriteLeaf(p) ==
  LET c == at[p].child
  IN /\ at[p].pc = "write" /\ Drained(c, p)
     /\ node' = [node EXCEPT ![c] = Perform(@, at[p].spec)]
     /\ lock' = FullUnlock(lock, c, p)
     /\ Finish(p, node[c].gen)

\* While another has the leaf's claim the leaf is left and read again.
\* With the claim, the leaf is defragmented without its parent when few of
\* its bytes live, or a new leaf is allocated and the parent locked.
ClaimLeaf(p) ==
  LET parent == at[p].parent
      c == at[p].child
  IN /\ at[p].pc = "claimleaf"
     /\ IF ~Unclaimed(c)
        THEN /\ lock' = Unget(lock, c, p)
             /\ Goto(p, "regetleaf")
             /\ UNCHANGED node
        ELSE IF LiveBytes(node[c], at[p].spec) < SplitThreshold
        THEN /\ lock' = Close(Claim(FullUnlock(lock, parent, p), c, p), c)
             /\ Goto(p, "defrag")
             /\ UNCHANGED node
        ELSE /\ HasNewAddr(1)
             /\ node' = [node EXCEPT ![NewAddr] = EmptyNode]
             /\ lock' = Close(Claim(Locked(lock, NewAddr, p), c, p), parent)
             /\ at' = [at EXCEPT ![p].pc = "lockparent", ![p].right = NewAddr]
     /\ Same

\* The spec is built again: others may have changed the leaf.
RegetLeaf(p) ==
  LET c == at[p].child
  IN /\ at[p].pc = "regetleaf" /\ Open(c)
     /\ lock' = Get(lock, c, p)
     /\ at' = [at EXCEPT ![p].pc = "claimleaf",
                 ![p].spec = CreateSpec(node[c], Call(p).key, Call(p).msg)]
     /\ UNCHANGED node /\ Same

Defragment(p) ==
  LET c == at[p].child
      spec == at[p].spec
  IN /\ at[p].pc = "defrag" /\ Drained(c, p)
     /\ node' = [node EXCEPT ![c] = Perform(DefragmentLeaf(@, spec), Removed(spec))]
     /\ lock' = FullUnlock(lock, c, p)
     /\ Finish(p, node[c].gen)

\* btree_split_child_leaf: the parent is locked, then the leaf after the
\* child if there is one, then the child
LockParent(p) ==
  LET next == node[at[p].child].next
  IN /\ at[p].pc = "lockparent" /\ Drained(at[p].parent, p)
     /\ at' = [at EXCEPT ![p].pc = IF next = 0 THEN "split" ELSE "getnext",
                         ![p].next = next]
     /\ lock' = IF next = 0 THEN Close(lock, at[p].child) ELSE lock
     /\ UNCHANGED node /\ Same

ClaimNext(p) ==
  LET next == at[p].next
  IN /\ at[p].pc = "getnext" /\ Open(next) /\ Unclaimed(next)
     /\ lock' = Close(Claim(Get(lock, next, p), next, p), next)
     /\ Goto(p, "locknext")
     /\ UNCHANGED node /\ Same

\* After a hundred tries for the next leaf's claim everything is let go and
\* the insert begins again.  The code leaves the new page allocated, where
\* nobody finds it; here it is free again, so that there is no bound on how
\* often a split can be given up.
GiveUp(p) ==
  LET next == at[p].next
  IN /\ at[p].pc = "getnext" /\ Open(next) /\ ~Unclaimed(next)
     /\ node' = [node EXCEPT ![at[p].right] = Unallocated]
     /\ lock' = Unget(Unclaim(FullUnlock(FullUnlock(lock, at[p].right, p),
                                         at[p].parent, p), at[p].child),
                      at[p].child, p)
     /\ Restart(p)
     /\ Same

LockNext(p) ==
  /\ at[p].pc = "locknext" /\ Drained(at[p].next, p)
  /\ lock' = Close(lock, at[p].child)
  /\ Goto(p, "split")
  /\ UNCHANGED node /\ Same

\* The parent learns of the right leaf, which is still locked, and is let
\* go, and so is the next leaf.
Publish(p) ==
  LET parent == at[p].parent
      c == at[p].child
      right == at[p].right
      next == at[p].next
      spec == at[p].spec
      released == FullUnlock(lock, parent, p)
  IN /\ at[p].pc = "split" /\ Drained(c, p)
     /\ node' = [a \in Addr |->
                   IF a = parent
                   THEN Insert(node[a], at[p].idx + 1,
                               SplittingPivot(node[c], spec, Plan(node[c], spec)), right)
                   ELSE IF a = next THEN [node[a] EXCEPT !.prev = right]
                   ELSE node[a]]
     /\ lock' = IF next = 0 THEN released ELSE FullUnlock(released, next, p)
     /\ Goto(p, "build")
     /\ Same

\* The right leaf is filled and the left one cut, with the new entry in one
\* of them.
Build(p) ==
  LET c == at[p].child
      right == at[p].right
      spec == at[p].spec
      plan == Plan(node[c], spec)
      l == LeftLeaf(node[c], right, spec, plan)
      r == RightLeaf(node[c], c, spec, plan)
  IN /\ at[p].pc = "build"
     /\ node' = [node EXCEPT ![c] = l, ![right] = r]
     /\ lock' = FullUnlock(FullUnlock(lock, right, p), c, p)
     /\ Finish(p, (IF plan.goesLeft THEN l ELSE r).gen - 1)

InsertStep(p) ==
  \/ InsertRoot(p) \/ RootLeaf(p) \/ RootIndex(p) \/ FixRoot(p)
  \/ GetChild(p) \/ Inner(p) \/ LockInner(p) \/ FixInner(p)
  \/ Leaf(p) \/ WriteLeaf(p) \/ ClaimLeaf(p) \/ RegetLeaf(p) \/ Defragment(p)
  \/ LockParent(p) \/ ClaimNext(p) \/ GiveUp(p) \/ LockNext(p)
  \/ Publish(p) \/ Build(p)

-----------------------------------------------------------------------------
(***************************************************************************)
(* Lookups and iterators.  A call of a reader is                           *)
(*   [kind |-> "lookup", min |-> key, max |-> key], or                     *)
(*   [kind |-> "forward" or "backward", min |-> .., max |-> ..]: all keys  *)
(*   from min up to max, without max; one above all keys is infinity.      *)
(***************************************************************************)
ReadAtRoot == [pc |-> "start", curr |-> 0, idx |-> 0, minIdx |-> 0,
               end |-> 0, endAddr |-> 0, endGen |-> 0, endIdx |-> 0,
               moving |-> FALSE, from |-> 0, seen |-> <<>>, before |-> <<>>]

\* An iterator that goes backward starts at its maximum, with less_than.
Target(p) == IF Call(p).kind = "backward" THEN Call(p).max ELSE Call(p).min

\* btree_lookup_node: the child for this key
ChildFor(a, key) == ChildOf(a, Max({0, FindIdx(node[a], key)}))

ReadRoot(p) ==
  /\ at[p].pc \in {"start", "again"} /\ MayStart(p)
  /\ Open(Root)
  /\ lock' = Get(lock, Root, p)
  /\ at' = [at EXCEPT ![p].pc = "down", ![p].curr = Root,
              ![p].before = IF at[p].pc = "start"
                            THEN [k \in Key |-> Len(hist[k])] ELSE @]
  /\ UNCHANGED node /\ Same

\* Mutant: the parent is let go before the child is read.
LeapDown(p) ==
  LET a == at[p].curr
  IN \/ /\ at[p].pc = "down" /\ Height(a) > 0
        /\ lock' = Unget(lock, a, p)
        /\ at' = [at EXCEPT ![p].pc = "leap", ![p].curr = ChildFor(a, Target(p))]
        /\ UNCHANGED node /\ Same
     \/ /\ at[p].pc = "leap" /\ Open(a)
        /\ lock' = Get(lock, a, p)
        /\ Goto(p, "down")
        /\ UNCHANGED node /\ Same

ReadDown(p) ==
  LET a == at[p].curr
      c == ChildFor(a, Target(p))
  IN /\ at[p].pc = "down" /\ Height(a) > 0
     /\ Open(c)
     /\ lock' = Unget(Get(lock, c, p), a, p)
     /\ at' = [at EXCEPT ![p].curr = c]
     /\ UNCHANGED node /\ Same

\* btree_lookup_with_ref: what the leaf has, copied under the reference
LookupLeaf(p) ==
  LET n == node[at[p].curr]
  IN /\ at[p].pc = "down" /\ n.height = 0 /\ Call(p).kind = "lookup"
     /\ lock' = Unget(lock, at[p].curr, p)
     /\ at' = [at EXCEPT ![p].pc = "done",
                 ![p].seen = IF Found(n, Target(p))
                             THEN ValAt(n, FindIdx(n, Target(p))).ops ELSE <<>>]
     /\ UNCHANGED node /\ Same

\* find_btree_node_and_get_idx_bounds: the first leaf is claimed while the
\* end is looked for, so that it does not split meanwhile; with the claim
\* taken the search begins again.
ClaimFirst(p) ==
  /\ at[p].pc = "down" /\ Height(at[p].curr) = 0 /\ Call(p).kind # "lookup"
  /\ IF Unclaimed(at[p].curr)
     THEN lock' = Claim(lock, at[p].curr, p) /\ Goto(p, "findend")
     ELSE lock' = Unget(lock, at[p].curr, p) /\ Goto(p, "again")
  /\ UNCHANGED node /\ Same

\* btree_iterator_find_end
EndRoot(p) ==
  /\ at[p].pc = "findend" /\ Open(Root)
  /\ lock' = Get(lock, Root, EndRef(p))
  /\ at' = [at EXCEPT ![p].pc = "enddown", ![p].end = Root]
  /\ UNCHANGED node /\ Same

EndDown(p) ==
  LET a == at[p].end
      c == ChildFor(a, Call(p).max)
  IN /\ at[p].pc = "enddown" /\ Height(a) > 0
     /\ Open(c)
     /\ lock' = Unget(Get(lock, c, EndRef(p)), a, EndRef(p))
     /\ at' = [at EXCEPT ![p].end = c]
     /\ UNCHANGED node /\ Same

\* Where the first entry not below min is in the first leaf; -1 when the
\* leaf before may have some too.
FirstMinIdx(n, min) ==
  LET i == IF ~Found(n, min) /\ FirstNotLess(n, min) = 0 THEN -1
           ELSE FirstNotLess(n, min)
  IN IF i = -1 /\ n.prev = 0 THEN 0 ELSE i

StartIdx(p, n) ==
  IF Call(p).kind = "forward" THEN FirstNotLess(n, Call(p).min)
  ELSE FirstNotLess(n, Call(p).max) - 1

\* The end is known.  An iterator that is being made lets the claim go and
\* finds its place, one that moves goes back to its leaf.
EndFound(p) ==
  LET e == at[p].end
      n == node[at[p].curr]
      idx == StartIdx(p, n)
      minIdx == FirstMinIdx(n, Call(p).min)
      after  == at[p].curr # e /\ idx = NumEntries(n)
      before == minIdx = -1 /\ idx = -1
      free   == Unget(lock, e, EndRef(p))
      unclaimed == IF at[p].moving THEN free ELSE Unclaim(free, at[p].curr)
      known  == [at[p] EXCEPT !.end = 0, !.endAddr = e, !.endGen = node[e].gen,
                              !.endIdx = FirstNotLess(node[e], Call(p).max)]
  IN /\ at[p].pc = "enddown" /\ Height(e) = 0
     /\ lock' = IF ~at[p].moving /\ (after \/ before)
                THEN Unget(unclaimed, at[p].curr, p) ELSE unclaimed
     /\ at' = [at EXCEPT ![p] =
          IF at[p].moving THEN [known EXCEPT !.pc = "getnext", !.moving = FALSE]
          ELSE IF after
          THEN [known EXCEPT !.pc = "getnext", !.curr = n.next, !.minIdx = 0]
          ELSE IF before
          THEN [known EXCEPT !.pc = "getprev", !.from = at[p].curr, !.curr = n.prev]
          ELSE [known EXCEPT !.pc = "scan", !.idx = idx, !.minIdx = minIdx]]
     /\ UNCHANGED node /\ Same

\* btree_iterator_next_leaf, having left the leaf before: when this leaf is
\* where the end was and it has changed, the end is looked up again first,
\* with no leaf held.
GetNext(p) ==
  LET a == at[p].curr
  IN /\ at[p].pc = "getnext" /\ Open(a)
     /\ IF a = at[p].endAddr /\ node[a].gen # at[p].endGen
        THEN /\ at' = [at EXCEPT ![p].pc = "findend", ![p].moving = TRUE]
             /\ UNCHANGED lock
        ELSE /\ lock' = Get(lock, a, p)
             /\ at' = [at EXCEPT ![p].pc = "scan", ![p].idx = 0]
     /\ UNCHANGED node /\ Same

\* btree_iterator_prev_leaf: on from the leaf that was before, until the one
\* whose next is the leaf it came from
GetPrev(p) ==
  LET a == at[p].curr
      n == node[a]
  IN /\ at[p].pc = "getprev" /\ Open(a)
     /\ IF n.next # at[p].from
        THEN at' = [at EXCEPT ![p].curr = n.next] /\ UNCHANGED lock
        ELSE /\ lock' = Get(lock, a, p)
             /\ at' = [at EXCEPT ![p].pc = "scan", ![p].from = 0,
                         ![p].idx = NumEntries(n) - 1,
                         ![p].minIdx = IF Call(p).min < KeyAt(n, 0)
                                       THEN (IF n.prev = 0 THEN 0 ELSE -1)
                                       ELSE FirstNotLess(n, Call(p).min)]
     /\ UNCHANGED node /\ Same

KeysAt(n, from, to) == [i \in 1 .. Max({0, to - from + 1}) |-> KeyAt(n, from + i - 1)]

\* The caller reads on while btree_iterator_can_next: to the end of the leaf,
\* and then leaves it for the next, or up to end_idx in the last one.
ScanForward(p) ==
  LET a == at[p].curr
      n == node[a]
      last == a = at[p].endAddr
      to   == IF ~last THEN NumEntries(n) - 1
              ELSE IF at[p].minIdx # at[p].endIdx THEN at[p].endIdx - 1 ELSE -1
  IN /\ at[p].pc = "scan" /\ Call(p).kind = "forward"
     /\ lock' = Unget(lock, a, p)
     /\ at' = [at EXCEPT ![p].seen = @ \o KeysAt(n, at[p].idx, to),
                 ![p].pc = IF last THEN "done" ELSE "getnext",
                 ![p].curr = IF last THEN @ ELSE n.next,
                 ![p].minIdx = IF last THEN @ ELSE -1]
     /\ UNCHANGED node /\ Same

\* The same with btree_iterator_can_prev.
ScanBackward(p) ==
  LET a == at[p].curr
      n == node[a]
      to == IF at[p].minIdx = at[p].endIdx /\ a = at[p].endAddr
            THEN at[p].idx + 1 ELSE Max({0, at[p].minIdx})
      more == at[p].minIdx = -1
  IN /\ at[p].pc = "scan" /\ Call(p).kind = "backward"
     /\ lock' = Unget(lock, a, p)
     /\ at' = [at EXCEPT ![p].seen = @ \o Reverse(KeysAt(n, to, at[p].idx)),
                 ![p].pc = IF more THEN "getprev" ELSE "done",
                 ![p].from = IF more THEN a ELSE 0,
                 ![p].curr = IF more THEN n.prev ELSE @]
     /\ UNCHANGED node /\ Same

Return(p) ==
  /\ at[p].pc = "done"
  /\ at' = [at EXCEPT ![p] = ReadAtRoot]
  /\ todo' = [todo EXCEPT ![p] = Tail(@)]
  /\ UNCHANGED <<node, lock, hist>>

ReadStep(p) ==
  \/ ReadRoot(p) \/ ReadDown(p) \/ LookupLeaf(p)
  \/ ClaimFirst(p) \/ EndRoot(p) \/ EndDown(p) \/ EndFound(p)
  \/ GetNext(p) \/ GetPrev(p) \/ ScanForward(p) \/ ScanBackward(p)
  \/ Return(p)

-----------------------------------------------------------------------------
\* btree_create
Init ==
  /\ node = [a \in Addr |-> IF a = Root THEN EmptyNode ELSE Unallocated]
  /\ lock = [a \in Addr |-> Free]
  /\ at = [p \in Proc |-> IF p \in Inserter THEN InsertAtRoot ELSE ReadAtRoot]
  /\ todo \in Workloads
  /\ hist = [k \in Key |-> <<>>]

AllDone == (\A p \in Proc : todo[p] = <<>>) /\ UNCHANGED vars

Next == \/ \E p \in Inserter : InsertStep(p)
        \/ \E p \in Reader : ReadStep(p)
        \/ AllDone

Spec == Init /\ [][Next]_vars

-----------------------------------------------------------------------------
(***************************************************************************)
(* Properties                                                              *)
(***************************************************************************)
\* No thread is changing this page.
Still(a) == Height(a) >= 0 /\ Open(a)
\* A page that a split has allocated and not yet put into the tree.
Spare(a) == \E p \in Inserter : at[p].right = a

FirstKey(n) == KeyAt(n, 0)
LastKey(n)  == KeyAt(n, NumEntries(n) - 1)
Ordered(n)  == \A i, j \in 0 .. NumEntries(n) - 1 : i < j => KeyAt(n, i) < KeyAt(n, j)

\* btree_verify_node, for pages that nobody is changing: keys are in order, a
\* child is one level lower, the pivot of every child but the first is the
\* first key of the leaf, no key of a child reaches the next pivot, and a
\* page's entries do not need more bytes than it has.
VerifyNode(a) ==
  LET n == node[a]
  IN /\ Ordered(n)
     /\ Bytes(n, n.entries) <= n.used /\ n.used <= Capacity(n)
     /\ n.height > 0 => \A i \in 0 .. NumEntries(n) - 1 :
          LET c == node[ValAt(n, i)]
          IN Still(ValAt(n, i)) =>
               /\ c.height = n.height - 1
               /\ i > 0 => FirstKey(c) = KeyAt(n, i)
               /\ i < NumEntries(n) - 1 => LastKey(c) < KeyAt(n, i + 1)

\* Two leaves that follow each other know each other, and their keys do too.
Linked(a) ==
  LET n == node[a]
  IN n.height = 0 /\ n.next # 0 /\ Still(n.next) =>
       node[n.next].prev = a /\ LastKey(n) < FirstKey(node[n.next])

\* The tree and the chain of its leaves are in order wherever nobody is
\* changing them (btree_verify_tree, btree_insert's comments on the minimum
\* key, btree_split_child_leaf).
TreeInOrder == \A a \in Addr : Still(a) /\ ~Spare(a) => VerifyNode(a) /\ Linked(a)

\* What the search for a key finds in the tree, when no page is locked.
Content(key) ==
  LET search[a \in Addr] ==
        IF Height(a) > 0 THEN search[ChildFor(a, key)]
        ELSE IF Found(node[a], key) THEN ValAt(node[a], FindIdx(node[a], key)).ops
        ELSE <<>>
  IN search[Root]

\* All inserts whose ids are not forgotten by a later put, oldest first.
Folded(h) == FoldLeft(LAMBDA old, e : IF e.put THEN <<e.id>> ELSE Append(old, e.id),
                      <<>>, h)

\* When no page is being changed, every key's entry is found from the root
\* and holds exactly the inserts of that key in the order they were made: a
\* split, a defragmentation or a stale spec loses none and doubles none.
EntriesMatchInserts ==
  (\A a \in Addr : Open(a)) => \A k \in Key : Content(k) = Folded(hist[k])

\* A lookup finds what one moment between its start and its end had, however
\* the tree is split around it.
LookupsLinearize ==
  \A p \in Reader : at[p].pc = "done" /\ Call(p).kind = "lookup" =>
    \E n \in at[p].before[Call(p).min] .. Len(hist[Call(p).min]) :
      at[p].seen = Folded(SubSeq(hist[Call(p).min], 1, n))

\* An iterator that came to its end has seen every key of its range that was
\* in the tree when it was made, none twice, in order, and none that was
\* never inserted or is out of its range (the comment on btree_iterator).
ScansComplete ==
  \A p \in Reader : at[p].pc = "done" /\ Call(p).kind # "lookup" =>
    LET seen == IF Call(p).kind = "forward" THEN at[p].seen ELSE Reverse(at[p].seen)
        range(k) == Call(p).min <= k /\ k < Call(p).max
    IN /\ \A i, j \in DOMAIN seen : i < j => seen[i] < seen[j]
       /\ \A k \in Key : range(k) /\ at[p].before[k] > 0 => k \in ToSet(seen)
       /\ \A k \in ToSet(seen) : range(k) /\ hist[k] # <<>>

\* The generation an insert is given grows with every insert of the same
\* key, also when its leaf is split or copied: the log is replayed in this
\* order.
GenerationsGrow ==
  \A k \in Key : \A i, j \in DOMAIN hist[k] : i < j => hist[k][i].gen < hist[k][j].gen
=============================================================================
