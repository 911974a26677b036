----------------------------- MODULE AsyncLookup -----------------------------
(***************************************************************************)
(* The asynchronous lookup of a key: trunk_lookup_async of trunk.c with    *)
(* the machines inside it, routing_filter_lookup_async of routing_filter.c *)
(* and btree_lookup_async_with_ref of btree.c.  Whenever a page is wanted, *)
(* the cache may have it, say "locked" or "no_reqs" -- the invocation ends *)
(* and the caller invokes again -- or start to read it, and a callback in  *)
(* another thread moves the machine on before it is invoked again.         *)
(*                                                                         *)
(* The module follows one key.  What is stored for it does not change: the *)
(* memtables' messages, newest first, and the nodes from the root to the   *)
(* leaf.  A node has subbundles, newest first, whose filters say in which  *)
(* of their branches the key may be, the filter of the pivot, and branches *)
(* with the key's message, if any.                                         *)
(***************************************************************************)
EXTENDS Messages, Integers, FiniteSets, SequencesExt

CONSTANTS
  Stores,       \* what may be stored: [memtables, path]
  BranchHeight, \* of the branches' trees
  RootCached    \* whether the root page is never missing from the cache

AsyncAssumption == BranchHeight \in Nat /\ RootCached \in BOOLEAN

VARIABLES
  store,
  state,      \* of trunk_async_ctxt
  level,      \* the node in the path (trunk_node, pdata)
  sb, filterNo,   \* sb_no and filter_no
  part,       \* lookup_state: "pivot", "subbundle" or "compacted"
  found, value,   \* found_values and value
  branch,     \* the branch looked up in
  sub,        \* the state of the filter's or the B-tree's machine
  node,       \* the height of the page the B-tree's machine is at, -1: none
  result,     \* the merge accumulator
  readers,    \* how often the lookup holds the memtables' lookup lock
  pins,       \* the pages it holds
  run,        \* "running", "returned", "waiting" or "ended"
  wanted      \* the page that is being read, for "waiting"

vars == <<store, state, level, sb, filterNo, part, found, value, branch, sub, node,
          result, readers, pins, run, wanted>>

Null == [class |-> "none", from |-> <<>>]
NotFound == -1
NoPage == <<"none">>

\* Messages of a key, the newest first, merged up to the first definitive one.
MergeOver(msgs, over) ==
  FoldLeft(LAMBDA acc, m : IF Definitive(acc) THEN acc
                           ELSE IF acc = Null THEN m ELSE MergeTuples(m, acc), over, msgs)

Node == store.path[level]
Sub == Node.subbundles[sb]
IsLeaf == level = Len(store.path)
TrunkPage(l) == <<"trunk", l>>
FilterPage(kind) == <<kind, level, part, sb, filterNo>>
BranchPage(h) == <<"branch", level, branch, h>>

Init ==
  /\ store \in Stores
  /\ state = "start" /\ level = 1 /\ sb = 1 /\ filterNo = 1 /\ part = "pivot"
  /\ found = {} /\ value = NotFound /\ branch = NotFound
  /\ sub = "start" /\ node = -1
  /\ result = Null /\ readers = 0 /\ pins = {}
  /\ run = "running" /\ wanted = NoPage

At(s) == run = "running" /\ state = s

-----------------------------------------------------------------------------
(* cache_get_async: either the page is there, or the invocation ends.      *)

Refused == run' = "returned" /\ UNCHANGED <<pins, wanted>>
Started(page) == run' = "waiting" /\ wanted' = page /\ UNCHANGED pins
Missing(page) == Refused \/ Started(page)
Pinned(page) == pins' = pins \cup {page} /\ UNCHANGED <<run, wanted>>

\* The caller invokes again.
Invoke ==
  /\ run = "returned"
  /\ run' = "running"
  /\ UNCHANGED <<store, state, level, sb, filterNo, part, found, value, branch, sub,
                 node, result, readers, pins, wanted>>

-----------------------------------------------------------------------------
(* The trunk's machine.                                                    *)

\* async_state_start and async_state_lookup_memtable, which falls through to
\* the root's get without a change of the state.
LookupMemtable ==
  /\ run = "running" /\ state \in {"start", "lookup_memtable"}
  /\ LET msgs == MergeOver(store.memtables, IF state = "start" THEN Null ELSE result) IN
     /\ result' = msgs
     /\ IF Definitive(msgs)
        THEN state' = "found_final_answer_early" /\ UNCHANGED <<readers, pins, run, wanted>>
        ELSE \/ /\ Pinned(TrunkPage(1))
                /\ state' = "trunk_node_lookup"
                /\ UNCHANGED readers
             \/ /\ ~RootCached
                /\ Missing(TrunkPage(1))
                /\ state' = "lookup_memtable"
                /\ readers' = readers + 1
  /\ UNCHANGED <<store, level, sb, filterNo, part, found, value, branch, sub, node>>

\* trunk_async_callback
TrunkCallback ==
  /\ run = "waiting" /\ wanted[1] = "trunk"
  /\ state' = IF state = "get_root_reentrant" THEN "trunk_node_lookup"
              ELSE "unget_parent_trunk_node"
  /\ pins' = pins \cup {wanted}
  /\ run' = "returned"
  /\ UNCHANGED <<store, level, sb, filterNo, part, found, value, branch, sub, node,
                 result, readers, wanted>>

TrunkNodeLookup ==
  /\ At("trunk_node_lookup")
  /\ sb' = 1 /\ filterNo' = 1
  /\ state' = "subbundle_lookup"
  /\ UNCHANGED <<store, level, part, found, value, branch, sub, node, result, readers,
                 pins, run, wanted>>

\* async_state_subbundle_lookup, and async_state_pivot_lookup after the last.
SubbundleLookup ==
  /\ At("subbundle_lookup")
  /\ part' = IF sb > Len(Node.subbundles) THEN "pivot"
             ELSE IF Sub.compacted THEN "compacted" ELSE "subbundle"
  /\ state' = "filter_lookup_start"
  /\ UNCHANGED <<store, level, sb, filterNo, found, value, branch, sub, node, result,
                 readers, pins, run, wanted>>

\* Where a pivot has no filter it has no whole branches.
FilterLookupStart ==
  /\ At("filter_lookup_start")
  /\ value' = NotFound
  /\ sub' = "start"
  /\ state' = IF part = "pivot" /\ ~Node.hasFilter THEN "next_in_node" ELSE "filter_lookup_reentrant"
  /\ UNCHANGED <<store, level, sb, filterNo, part, found, branch, node, result, readers,
                 pins, run, wanted>>

FilterSays == IF part = "pivot" THEN Node.filter ELSE Sub.filters[filterNo]

\* routing_filter_get_next_value: the newest that is older.
NextValue ==
  LET older == {v \in found : value = NotFound \/ v < value}
  IN IF older = {} THEN NotFound ELSE CHOOSE v \in older : \A w \in older : w <= v

BtreeLookupStart ==
  /\ At("btree_lookup_start")
  /\ value' = IF part = "compacted" THEN value ELSE NextValue
  /\ IF IF part = "compacted" THEN found = {} ELSE value' = NotFound
     THEN state' = "next_in_node" /\ UNCHANGED <<branch, sub>>
     ELSE /\ branch' = IF part = "compacted" THEN Sub.start
                       ELSE IF part = "pivot" THEN (Node.start + value') % Len(Node.branches)
                       ELSE Sub.start + value'
          /\ sub' = "start"
          /\ state' = "btree_lookup_reentrant"
  /\ UNCHANGED <<store, level, sb, filterNo, part, found, node, result, readers, pins,
                 run, wanted>>

\* A compacted subbundle has one branch and a filter for each branch it was
\* made of: the first that may have the key is enough.
NextInNode ==
  /\ At("next_in_node")
  /\ IF part = "compacted" /\ found = {} /\ filterNo < Len(Sub.filters)
     THEN filterNo' = filterNo + 1 /\ UNCHANGED sb /\ state' = "subbundle_lookup"
     ELSE IF part # "compacted" /\ value # NotFound
     THEN state' = "btree_lookup_start" /\ UNCHANGED <<sb, filterNo>>
     ELSE IF part = "pivot" THEN state' = "trunk_node_done" /\ UNCHANGED <<sb, filterNo>>
     ELSE sb' = sb + 1 /\ filterNo' = 1 /\ state' = "subbundle_lookup"
  /\ UNCHANGED <<store, level, part, found, value, branch, sub, node, result, readers,
                 pins, run, wanted>>

TrunkNodeDone ==
  /\ At("trunk_node_done")
  /\ IF IsLeaf
     THEN /\ result' = Finalized(result)
          /\ pins' = pins \ {TrunkPage(level)}
          /\ state' = "end"
     ELSE state' = "get_child_trunk_node_reentrant" /\ UNCHANGED <<result, pins>>
  /\ UNCHANGED <<store, level, sb, filterNo, part, found, value, branch, sub, node,
                 readers, run, wanted>>

GetChildTrunkNode ==
  /\ At("get_child_trunk_node_reentrant")
  /\ \/ Pinned(TrunkPage(level + 1)) /\ state' = "unget_parent_trunk_node"
     \/ Missing(TrunkPage(level + 1)) /\ UNCHANGED state
  /\ UNCHANGED <<store, level, sb, filterNo, part, found, value, branch, sub, node,
                 result, readers>>

UngetParentTrunkNode ==
  /\ At("unget_parent_trunk_node")
  /\ pins' = pins \ {TrunkPage(level)}
  /\ level' = level + 1
  /\ state' = "trunk_node_lookup"
  /\ UNCHANGED <<store, sb, filterNo, part, found, value, branch, sub, node, result,
                 readers, run, wanted>>

\* async_state_found_final_answer_early and async_state_end
End ==
  /\ run = "running" /\ state \in {"found_final_answer_early", "end"}
  /\ result' = IF result.class = "delete" THEN Null ELSE result
  /\ state' = "end"
  /\ run' = "ended"
  /\ UNCHANGED <<store, level, sb, filterNo, part, found, value, branch, sub, node,
                 readers, pins, wanted>>

-----------------------------------------------------------------------------
(* The filter's machine: the page of the index, then the page with the     *)
(* key's bucket.                                                           *)

InFilter == At("filter_lookup_reentrant")

GetFilterPage ==
  /\ InFilter /\ sub \in {"start", "get_index", "get_filter"}
  /\ LET kind == IF sub = "get_filter" THEN "filter" ELSE "index" IN
     \/ /\ Pinned(FilterPage(kind))
        /\ sub' = IF kind = "index" THEN "got_index" ELSE "got_filter"
     \/ /\ Missing(FilterPage(kind))
        /\ sub' = IF kind = "index" THEN "get_index" ELSE "get_filter"
  /\ UNCHANGED <<store, state, level, sb, filterNo, part, found, value, branch, node,
                 result, readers>>

\* routing_filter_async_callback and trunk_filter_async_callback
FilterCallback ==
  /\ run = "waiting" /\ wanted[1] \in {"index", "filter"}
  /\ sub' = IF sub = "get_index" THEN "got_index" ELSE "got_filter"
  /\ pins' = pins \cup {wanted}
  /\ run' = "returned"
  /\ UNCHANGED <<store, state, level, sb, filterNo, part, found, value, branch, node,
                 result, readers, wanted>>

GotIndex ==
  /\ InFilter /\ sub = "got_index"
  /\ pins' = pins \ {FilterPage("index")}
  /\ sub' = "get_filter"
  /\ UNCHANGED <<store, state, level, sb, filterNo, part, found, value, branch, node,
                 result, readers, run, wanted>>

GotFilter ==
  /\ InFilter /\ sub = "got_filter"
  /\ found' = FilterSays
  /\ pins' = pins \ {FilterPage("filter")}
  /\ state' = "btree_lookup_start"
  /\ UNCHANGED <<store, level, sb, filterNo, part, value, branch, sub, node, result,
                 readers, run, wanted>>

-----------------------------------------------------------------------------
(* The B-tree's machine: hand over hand down to the leaf.                  *)

InBtree == At("btree_lookup_reentrant")
ChildHeight == IF node = -1 THEN BranchHeight ELSE node - 1

GetNode ==
  /\ InBtree /\ sub \in {"start", "get_node"}
  /\ \/ Pinned(BranchPage(ChildHeight)) /\ sub' = "get_index_complete"
     \/ Missing(BranchPage(ChildHeight)) /\ sub' = "get_node"
  /\ UNCHANGED <<store, state, level, sb, filterNo, part, found, value, branch, node,
                 result, readers>>

\* btree_async_callback and trunk_btree_async_callback
BtreeCallback ==
  /\ run = "waiting" /\ wanted[1] = "branch"
  /\ sub' = "get_index_complete"
  /\ pins' = pins \cup {wanted}
  /\ run' = "returned"
  /\ UNCHANGED <<store, state, level, sb, filterNo, part, found, value, branch, node,
                 result, readers, wanted>>

\* Mutant: the parent is not let go of.
GetIndexCompleteKeeping ==
  /\ InBtree /\ sub = "get_index_complete"
  /\ UNCHANGED pins
  /\ node' = ChildHeight
  /\ sub' = IF node' = 0 THEN "get_leaf_complete" ELSE "get_node"
  /\ UNCHANGED <<store, state, level, sb, filterNo, part, found, value, branch, result,
                 readers, run, wanted>>

GetIndexComplete ==
  /\ InBtree /\ sub = "get_index_complete"
  /\ pins' = pins \ {BranchPage(node)}
  /\ node' = ChildHeight
  /\ sub' = IF node' = 0 THEN "get_leaf_complete" ELSE "get_node"
  /\ UNCHANGED <<store, state, level, sb, filterNo, part, found, value, branch, result,
                 readers, run, wanted>>

\* What the leaf has is merged (btree_lookup_and_merge_async), and if that is
\* definitive the trunk's node is let go of.
GetLeafComplete ==
  /\ InBtree /\ sub = "get_leaf_complete"
  /\ LET msg == Node.branches[branch + 1]
         merged == IF msg = Null THEN result ELSE MergeOver(<<msg>>, result)
         left == pins \ {BranchPage(0)}
     IN /\ result' = merged
        /\ IF Definitive(merged)
           THEN state' = "found_final_answer_early" /\ pins' = left \ {TrunkPage(level)}
           ELSE state' = "next_in_node" /\ pins' = left
  /\ node' = -1
  /\ UNCHANGED <<store, level, sb, filterNo, part, found, value, branch, sub, readers,
                 run, wanted>>

-----------------------------------------------------------------------------
Next ==
  \/ Invoke \/ LookupMemtable \/ TrunkCallback \/ TrunkNodeLookup \/ SubbundleLookup
  \/ FilterLookupStart \/ BtreeLookupStart \/ NextInNode \/ TrunkNodeDone
  \/ GetChildTrunkNode \/ UngetParentTrunkNode \/ End
  \/ GetFilterPage \/ FilterCallback \/ GotIndex \/ GotFilter
  \/ GetNode \/ BtreeCallback \/ GetIndexComplete \/ GetLeafComplete

Spec == Init /\ [][Next]_vars

-----------------------------------------------------------------------------
(* Properties.                                                             *)

\* The messages of a node for the key, the newest first: those of its
\* subbundles' branches, then those of the pivot's whole branches.
MessagesOf(n) ==
  LET at(start, count) ==
        [j \in 1 .. count |-> n.branches[((start + count - j) % Len(n.branches)) + 1]]
      sbs == [j \in DOMAIN n.subbundles |-> at(n.subbundles[j].start, n.subbundles[j].count)]
  IN SelectSeq(FlattenSeq(sbs) \o at(n.start, n.count), LAMBDA m : m # Null)

\* What trunk_lookup finds.
Answer ==
  LET msgs == store.memtables \o FlattenSeq([l \in DOMAIN store.path |-> MessagesOf(store.path[l])])
      merged == Finalized(MergeOver(msgs, Null))
  IN IF merged.class = "delete" THEN Null ELSE merged

\* However often it was interrupted, the lookup has every message that counts
\* once, the newest first.
AnswersLikeLookup == run = "ended" => result = Answer

\* It holds the page it is at, and the one that has been read for it, and
\* nothing in the end; the memtables' lock it holds while it reads them only.
HoldsWhatItUses ==
  /\ readers = 0
  /\ Cardinality({p \in pins : p[1] = "trunk"}) =
       IF run = "ended" \/ state \in {"start", "lookup_memtable", "end", "found_final_answer_early"}
       THEN 0
       ELSE IF state = "unget_parent_trunk_node" THEN 2 ELSE 1
  /\ {p \in pins : p[1] # "trunk"} =
       IF state = "filter_lookup_reentrant" /\ sub \in {"got_index", "got_filter"}
       THEN {FilterPage(IF sub = "got_index" THEN "index" ELSE "filter")}
       ELSE IF state = "btree_lookup_reentrant"
       THEN (IF node = -1 THEN {} ELSE {BranchPage(node)})
            \cup (IF sub = "get_index_complete" THEN {BranchPage(ChildHeight)} ELSE {})
       ELSE {}

=============================================================================
