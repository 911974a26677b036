------------------------------ MODULE BTreePack ------------------------------
(***************************************************************************)
(* btree_pack of btree.c: a branch is built from the bottom up out of what *)
(* an iterator returns (a merge of the branches of a compaction).  On each *)
(* height there is an edge: the nodes of the last extent of the height,    *)
(* locked and not yet known to the height above, since the address of the  *)
(* extent that comes after them is written into each.                      *)
(*                                                                         *)
(* A node's address is its height and its number there; every height takes *)
(* its pages from extents of its own, ExtentPages to an extent.  What the  *)
(* entries of a node take is abstract: Fanout of them fit.                 *)
(***************************************************************************)
EXTENDS Merge

CONSTANTS
  Fanout,       \* entries in a node
  ExtentPages,  \* pages in an extent
  MaxTuples     \* max_tuples of the request

ASSUME PackAssumption ==
  /\ Fanout \in Nat /\ Fanout > 1
  /\ ExtentPages \in Nat \ {0} /\ MaxTuples \in Nat

VARIABLES
  tree,     \* the request: nodes, the edge of each height, its height and tuples
  packing   \* "no", "running", "packed" or "aborted"

packVars == <<tree, packing>>

NoAddr == <<0, 0>>
NewTree == [nodes |-> << >>, edge |-> <<>>, tuples |-> 0, locked |-> {}, root |-> NoAddr]

-----------------------------------------------------------------------------
Height(st) == Len(st.edge) - 1
Edge(st, h) == IF h <= Height(st) THEN st.edge[h + 1] ELSE <<>>
WithEdge(st, h, e) ==
  [st EXCEPT !.edge = IF h <= Height(st) THEN [@ EXCEPT ![h + 1] = e] ELSE Append(@, e)]

ExtentOf(a) == <<a[1], (a[2] - 1) \div ExtentPages>>
Created(st, h) == Cardinality({a \in DOMAIN st.nodes : a[1] = h})

\* The pairs below these entries.
Kvs(entries) == FoldLeft(LAMBDA n, e : n + e.kvs, 0, entries)

RECURSIVE CreateNext(_, _), LinkAll(_, _, _, _)

\* btree_set_leaf_entry or btree_set_index_entry at the end of the current
\* node of height h, or, if it does not fit, in a node created next.
Put(st, h, entry) ==
  LET e == Edge(st, h)
      fits == e # <<>> /\ Len(st.nodes[Last(e).addr].entries) < Fanout
      at == IF fits THEN st ELSE CreateNext(st, h)
  IN [at EXCEPT !.nodes[Last(Edge(at, h)).addr].entries = Append(@, entry),
                !.edge[h + 1][Len(Edge(at, h))].kvs = @ + entry.kvs]

\* btree_pack_link_node, after which the node is not locked: the pivot is its
\* first key, and the pairs below it have been counted with the edge.
LinkNode(st, at, next) ==
  LET a == at.addr
      linked == [st EXCEPT !.nodes[a].extent = next, !.locked = @ \ {a}]
  IN Put(linked, a[1] + 1,
         [key |-> st.nodes[a].entries[1].key, child |-> a, kvs |-> at.kvs])

\* Mutant: the last node of the extent is not linked to its parent.
LinkAllButLast(st, h, ats, next) ==
  IF Len(ats) <= 1 THEN WithEdge(st, h, <<>>)
  ELSE LinkAll(LinkNode(st, Head(ats), next), h, Tail(ats), next)

\* btree_pack_link_extent
LinkAll(st, h, ats, next) ==
  IF ats = <<>> THEN WithEdge(st, h, <<>>)
  ELSE LinkAll(LinkNode(st, Head(ats), next), h, Tail(ats), next)

\* btree_pack_create_next_node: if it is in another extent than the one before
\* it, the edge of its height is linked to the height above first.
CreateNext(st, h) ==
  LET a == <<h, Created(st, h) + 1>>
      e == Edge(st, h)
      old == IF e = <<>> THEN NoAddr ELSE Last(e).addr
      node == [entries |-> <<>>, next |-> NoAddr, prev |-> old, extent |-> NoAddr]
      nodes == [b \in DOMAIN st.nodes \cup {a} |->
                  IF b = a THEN node
                  ELSE IF b = old THEN [st.nodes[b] EXCEPT !.next = a] ELSE st.nodes[b]]
      added == [st EXCEPT !.nodes = nodes, !.locked = @ \cup {a}]
      ready == IF old # NoAddr /\ ExtentOf(old) # ExtentOf(a)
               THEN LinkAll(added, h, e, a) ELSE added
  IN WithEdge(ready, h, Append(Edge(ready, h), [addr |-> a, kvs |-> 0]))

\* btree_pack_post_loop: the edges are linked from the bottom up to the one
\* that has a single node, which is copied into the root.
RECURSIVE LinkUp(_, _)
LinkUp(st, h) ==
  IF h < Height(st) \/ Len(Edge(st, h)) > 1
  THEN LinkUp(LinkAll(st, h, Edge(st, h), NoAddr), h + 1)
  ELSE [st EXCEPT !.locked = @ \ {Edge(st, h)[1].addr}, !.root = Edge(st, h)[1].addr]

-----------------------------------------------------------------------------
\* btree_get_rank: btree_lookup_node goes down and counts what it passes.
RECURSIVE RankFrom(_, _, _)
RankFrom(st, a, k) ==
  LET es == st.nodes[a].entries
      below == Cardinality({j \in DOMAIN es : es[j].key <= k})
      child == IF below = 0 THEN 1 ELSE below
  IN IF a[1] = 0 THEN Cardinality({j \in DOMAIN es : es[j].key < k})
     ELSE Kvs(SubSeq(es, 1, child - 1)) + RankFrom(st, es[child].child, k)

\* btree_count_in_range
CountInRange(st, lo, hi) ==
  LET min == RankFrom(st, st.root, lo)
      max == RankFrom(st, st.root, hi)
  IN IF min < max THEN max - min ELSE 0

-----------------------------------------------------------------------------
(* btree_pack, a turn of whose loop is a step.                             *)

PackInit == tree = NewTree /\ packing = "no"

StartPack ==
  /\ packing = "no"
  /\ packing' = "running"
  /\ UNCHANGED tree

\* btree_pack_loop
PackTuple ==
  /\ packing = "running" /\ can_next /\ tree.tuples < MaxTuples
  /\ Move(TRUE)
  /\ tree' = [Put(tree, 0, [key |-> curr.key, pair |-> curr, kvs |-> 1]) EXCEPT
                !.tuples = @ + 1]
  /\ UNCHANGED packing

\* btree_pack_abort lets go of the edges and gives the range back.
Abort ==
  /\ packing = "running" /\ pc = "idle" /\ can_next /\ tree.tuples = MaxTuples
  /\ tree' = [NewTree EXCEPT !.locked = tree.locked \ {at.addr : at \in UNION {ToSet(tree.edge[h]) : h \in DOMAIN tree.edge}}]
  /\ packing' = "aborted"

\* btree_pack_post_loop, after which an empty branch has no root.
PostLoop ==
  /\ packing = "running" /\ pc = "idle" /\ ~can_next
  /\ tree' = IF tree.tuples = 0 THEN tree ELSE LinkUp(tree, 0)
  /\ packing' = "packed"

-----------------------------------------------------------------------------
(* Property.                                                               *)

NodesAt(st, h) == [n \in 1 .. Created(st, h) |-> st.nodes[<<h, n>>]]
EntriesAt(st, h) == FlattenSeq([n \in 1 .. Created(st, h) |-> st.nodes[<<h, n>>].entries])

\* The nodes of a height are linked to each other and to the extent that comes
\* after theirs.
Linked(st, h) ==
  LET ns == NodesAt(st, h)
      first(x) == x * ExtentPages + 1
      at(n) == IF n \in DOMAIN ns THEN <<h, n>> ELSE NoAddr
  IN \A n \in DOMAIN ns :
       /\ ns[n].next = at(n + 1) /\ ns[n].prev = at(n - 1)
       /\ ns[n].extent = at(first(ExtentOf(<<h, n>>)[2] + 1))

\* A packed branch holds what its iterator returned, in order, and can be
\* walked over and looked up in: its leaves are linked both ways and to the
\* next extent, every node but the root has one entry above it, with its first
\* key and the number of pairs below it, from which the pairs in any range are
\* counted.  No page is left locked, whatever the end.
PackedRight ==
  /\ packing \in {"packed", "aborted"} => tree.locked = {}
  /\ (packing = "packed" /\ tree.tuples > 0) =>
       /\ [n \in DOMAIN EntriesAt(tree, 0) |-> EntriesAt(tree, 0)[n].pair] = Reference(inputs, mode)
       /\ tree.root = <<Height(tree), 1>> /\ Created(tree, Height(tree)) = 1
       /\ \A h \in 0 .. Height(tree) : Linked(tree, h)
       /\ \A h \in 1 .. Height(tree) :
            EntriesAt(tree, h) =
              [n \in 1 .. Created(tree, h - 1) |->
                 LET es == tree.nodes[<<h - 1, n>>].entries
                 IN [key |-> es[1].key, child |-> <<h - 1, n>>, kvs |-> Kvs(es)]]
       /\ LET at == {e.key : e \in ToSet(EntriesAt(tree, 0))}
          IN \A lo, hi \in 0 .. MaxTuples + 1 :
               CountInRange(tree, lo, hi) = Cardinality({k \in at : lo <= k /\ k < hi})
=============================================================================
