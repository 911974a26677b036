------------------------------- MODULE MCTrees -------------------------------
(***************************************************************************)
(* The trees and what reads and builds them: the trunk; inserts, lookups   *)
(* and scans of one B-tree; the merge iterator, which a caller walks over, *)
(* btree_pack makes a branch of, and a range iterator takes from leaf to   *)
(* leaf; the asynchronous lookup; the routing filter.  Each behaviour is   *)
(* one of these uses; the variables of the others are "off", or as they    *)
(* are before a merge iterator is made.                                    *)
(***************************************************************************)
EXTENDS BTreePack, RangeIterator

CONSTANTS
  i1, i2, r1, NoOne,   \* two inserters and a reader of a B-tree
  Trunks,              \* the trunks and what they are used for
  Uses                 \* subset of {"tree", "walk", "pack", "range", "async", "filter", "trunk"}

VARIABLES
  use,
  node, lock, at, todo, hist,                               \* BTree
  stores, state, level, sb, filterNo, part, found, value,   \* AsyncLookup
  branch, sub, height, result, readers, pins, run, wanted,
  filter, value_next, added,                                \* RoutingFilter
  cfg, root, up, book, work, reader                         \* Trunk

mergeParts  == <<mergeVars, packVars, rangeVars>>
treeVars    == <<node, lock, at, todo, hist>>
asyncVars   == <<stores, state, level, sb, filterNo, part, found, value, branch, sub,
                 height, result, readers, pins, run, wanted>>
filterVars  == <<filter, value_next, added>>
trunkVars   == <<cfg, root, up, book, work, reader>>
vars == <<use, mergeParts, treeVars, asyncVars, filterVars, trunkVars>>

-----------------------------------------------------------------------------
(* Workloads of a B-tree.                                                  *)

Op(id, key, size, put, load) ==
  [key |-> key, load |-> load,
   msg |-> [ops |-> <<id>>, put |-> put, size |-> size]]
Ins(id, key, size) == Op(id, key, size, FALSE, FALSE)
Overwrite(id, key, size) == Op(id, key, size, TRUE, FALSE)
Loading(ops) == [i \in DOMAIN ops |-> [ops[i] EXCEPT !.load = TRUE]]
Read(kind, min_key, max_key) == [kind |-> kind, min |-> min_key, max |-> max_key]

TreeKeys == 1 .. 9
Infinity == 10
\* The pivot of key 1 is longer than the others'.
LongFirst == [k \in TreeKeys |-> IF k = 1 THEN 2 ELSE 1]

Work(load, one, two, reads) ==
  [p \in {i1, i2, r1} |-> IF p = i1 THEN load \o one
                          ELSE IF p = i2 THEN two ELSE reads]

Scans(min_key, max_key) ==
  {<<Read(kind, min_key, max_key)>> : kind \in {"forward", "backward"}}
Lookup(key) == <<Read("lookup", key, key)>>

\* Two leaves; both inserters split, one of them the leaf of the other, while
\* the whole tree is read or a part of it.
Load == Loading(<<Ins(1, 2, 2), Ins(2, 6, 2), Ins(3, 4, 2)>>)
SplitBoth ==
  {Work(Load, <<Ins(4, 3, 2)>>, <<Ins(5, 3, 1), Ins(6, 8, 2)>>, reads) :
     reads \in Scans(2, Infinity) \cup Scans(3, 8) \cup {Lookup(4)}}

\* An empty tree: the root is split by two inserters at once.
FromEmpty ==
  {Work(<<>>, <<Ins(1, 4, 2), Ins(2, 2, 2)>>, <<Ins(3, 3, 2), Overwrite(4, 4, 1)>>, reads) :
     reads \in Scans(2, 5) \cup {Lookup(4)}}

\* Four leaves under a full root: one inserter brings a new first key with a
\* long pivot, the other splits the last leaf.
Deep == Loading(<<Ins(1, 3, 2), Ins(2, 4, 2), Ins(3, 5, 2), Ins(4, 6, 2), Ins(5, 7, 2),
                 Ins(6, 8, 2)>>)
GrowBoth ==
  {Work(Deep, <<Ins(7, 1, 2), Ins(9, 2, 2)>>, <<Ins(8, 9, 2)>>, reads) :
     reads \in Scans(3, Infinity) \cup {Lookup(8)}}

\* A key that is written over until its leaf has more dead bytes than live.
Rewrites == Loading(<<Ins(1, 3, 2), Ins(2, 5, 2), Ins(3, 6, 2), Overwrite(4, 5, 1), Overwrite(5, 6, 1)>>)
DefragmentOne ==
  {Work(Rewrites, <<Ins(6, 6, 1)>>, <<Overwrite(7, 6, 1), Ins(8, 7, 2)>>, reads) :
     reads \in Scans(3, Infinity) \cup {Lookup(6)}}

AllWork == SplitBoth \cup FromEmpty \cup GrowBoth \cup DefragmentOne

-----------------------------------------------------------------------------
(* What an asynchronous lookup may meet.                                   *)

Null == [class |-> "none", from |-> <<>>]
Msg(class, name) == [class |-> class, from |-> <<name>>]

\* A branch that has the key or that the filter has by mistake.
Holding(name, classes) == {Null} \cup {Msg(c, name) : c \in classes}

\* What a filter may say of count branches: those that have the key, and more.
MaySay(branches, count) ==
  {S \in SUBSET (0 .. count - 1) : \A j \in 1 .. count : branches[j] # Null => j - 1 \in S}

\* A root with a bundle that is compacted from two branches, another that is
\* not, and a whole branch; and a leaf.
Roots ==
  UNION {{[subbundles |-> << [compacted |-> FALSE, start |-> 2, count |-> 2, filters |-> <<fresh>>],
                             [compacted |-> TRUE, start |-> 1, count |-> 1, filters |-> old] >>,
           hasFilter |-> TRUE, start |-> 0, count |-> 1, filter |-> {0}, branches |-> b] :
            fresh \in MaySay(<<b[3], b[4]>>, 2),
            old \in {<<{}, {0}>>, <<{0}, {0}>>} \cup (IF b[2] = Null THEN {<<{}, {}>>} ELSE {})} :
         b \in Holding("r0", {"update"}) \X Holding("r1", {"update", "delete"})
               \X Holding("r2", {"update"}) \X Holding("r3", {"insert"})}

Leaves ==
  UNION {{[subbundles |-> <<>>, hasFilter |-> TRUE, start |-> 1, count |-> 2, filter |-> f,
           branches |-> <<b[2], b[1]>>] : f \in MaySay(b, 2)} :
         b \in Holding("l0", {"update", "insert"}) \X Holding("l1", {"delete"})}
  \cup {[subbundles |-> <<>>, hasFilter |-> FALSE, start |-> 0, count |-> 0, filter |-> {},
         branches |-> <<Null, Null>>]}

Stores ==
  {[memtables |-> m, path |-> <<r, l>>] :
     m \in {<<>>, <<Msg("update", "m2")>>, <<Msg("update", "m2"), Msg("delete", "m1")>>},
     r \in Roots, l \in Leaves}

-----------------------------------------------------------------------------
(* Small trunks: what spl->cfg is, and the memtables that come in.         *)

Puts(keys) == [k \in keys |-> "put"]
Dels(keys) == [k \in keys |-> "del"]

Config(branches, tuples, workers, lookups, tables) ==
  [maxBranches |-> branches, maxTuples |-> tuples, singleLeaf |-> 1, fanout |-> 2,
   workers |-> workers, readers |-> lookups, tables |-> tables]

\* Every bundle goes on down; leaves and the root split.
DeepTrunk == Config(0, 2, {1}, {}, <<Puts({1, 2, 3}), Puts({2}), Puts({1, 3})>>)
SplittingTrunk == Config(0, 1, {1}, {1}, <<Puts({1, 2}), Puts({1, 2})>>)

\* Two bundles wait at the root, and keys are written again.
WideTrunk == Config(2, 3, {1}, {}, <<Puts({1, 2}), Puts({2, 3}), Puts({1, 3}), Puts({1, 2, 3})>>)

\* Two threads compact.
BusyTrunk == Config(1, 3, {1, 2}, {}, <<Puts({1, 2}), Puts({2, 3}), Puts({1, 3})>>)

\* Some keys are deleted.
DeletingTrunk == Config(1, 3, {1}, {1}, <<Puts({1, 2}), Dels({1}) @@ Puts({3}), Puts({2, 1})>>)

SmallTrunks == {DeepTrunk, SplittingTrunk, WideTrunk, BusyTrunk, DeletingTrunk}

\* Deletions only.
OnlyDeletions == {Config(2, 9, {1}, {}, [t \in 1 .. 6 |-> Dels({1})])}

-----------------------------------------------------------------------------
BTree == INSTANCE BTree
  WITH Key <- TreeKeys, KeySize <- LongFirst, LeafCap <- 4, IndexCap <- 6, MaxKeySize <- 2,
       SplitThreshold <- 4, IndexThreshold <- 3, Inserter <- {i1, i2}, Reader <- {r1},
       Loader <- i1, Workloads <- AllWork, MaxNodes <- 14

Async == INSTANCE AsyncLookup
  WITH Stores <- Stores, BranchHeight <- 1, RootCached <- TRUE,
       store <- stores, node <- height

\* The fingerprints of a branch: few and many, with and without duplicates, at
\* both ends.
Filter == INSTANCE RoutingFilter
  WITH WordSize <- 8, FingerprintSize <- 4, LogIndexSize <- 1, MaxValue <- 4,
       Batches <- {<<0>>, <<15>>, <<6, 5>>, <<9, 9, 8>>, <<15, 0, 7, 8>>, <<12, 3, 1, 2, 3, 14>>},
       next <- value_next

Trunk == INSTANCE Trunk
  WITH NKeys <- 3, MaxBundles <- 12, Workers <- {1, 2}, Readers <- {1},
       Configs <- Trunks, store <- book

ASSUME TreesAssumption ==
  /\ Uses \subseteq {"tree", "walk", "pack", "range", "async", "filter", "trunk"}
  /\ BTree!BytesAssumption /\ BTree!BTreeAssumption
  /\ Async!AsyncAssumption /\ Filter!FilterAssumption /\ Trunk!ConfigsAssumption

-----------------------------------------------------------------------------
(* What the merge iterator merges: sequences of pairs over these keys.     *)

Tables(keys, classes) ==
  UNION {{LET ks == Ascending(S) IN [j \in DOMAIN ks |-> [key |-> ks[j], class |-> c[ks[j]]]]
          : c \in [S -> classes]} : S \in SUBSET keys}

Inputs(what) ==
  CASE what = "walk" -> [1 .. 2 -> Tables(1 .. 2, Class)] \cup [1 .. 3 -> Tables({1}, Class)]
         \cup [1 .. 3 -> Tables(1 .. 2, {"insert", "delete"})] \cup [1 .. 3 -> Tables(1 .. 3, {"insert"})]
    [] what = "pack" -> [1 .. 1 -> Tables(1 .. 9, {"insert"})] \cup [1 .. 2 -> Tables(1 .. 2, Class)]
    [] what = "range" -> [1 .. 2 -> Tables(1 .. 3, {"insert", "delete"})]
    [] OTHER -> {<<>>}

Init ==
  /\ use \in Uses
  /\ mode \in IF use = "walk" THEN {"raw", "intermediate", "full"} ELSE {"full"}
  /\ store \in Inputs(use)
  /\ inputs = store
  /\ pivots \in IF use = "range" THEN {{0}, {0, 2}, {0, 3}, {0, 2, 3}} ELSE {{0}}
  /\ MergeInit /\ PackInit /\ RangeInit
  /\ IF use = "tree" THEN BTree!Init
     ELSE node = "off" /\ lock = "off" /\ at = "off" /\ todo = "off" /\ hist = "off"
  /\ IF use = "async" THEN Async!Init
     ELSE /\ stores = "off" /\ state = "off" /\ level = "off" /\ sb = "off"
          /\ filterNo = "off" /\ part = "off" /\ found = "off" /\ value = "off"
          /\ branch = "off" /\ sub = "off" /\ height = "off" /\ result = "off"
          /\ readers = "off" /\ pins = "off" /\ run = "off" /\ wanted = "off"
  /\ IF use = "filter" THEN Filter!Init
     ELSE filter = "off" /\ value_next = "off" /\ added = "off"
  /\ IF use = "trunk" THEN Trunk!Init
     ELSE /\ cfg = "off" /\ root = "off" /\ up = "off" /\ book = "off" /\ work = "off"
          /\ reader = "off"

StartWalk ==
  /\ use = "walk" /\ pc = "new"
  /\ \E k \in {0, 2} :
       /\ Create(inputs, FirstNotLess(inputs, k))
       /\ place' = 1 + Cardinality({j \in DOMAIN Reference(inputs, mode) : Reference(inputs, mode)[j].key < k})
  /\ UNCHANGED <<mode, calls, packVars, rangeVars>>

BeginPack ==
  /\ use = "pack" /\ pc = "new"
  /\ Create(inputs, FirstNotLess(inputs, 0))
  /\ StartPack
  /\ UNCHANGED <<mode, place, calls, rangeVars>>

OpenRange ==
  /\ use = "range"
  /\ \E lo \in {0, 2}, hi \in {3, 4}, key \in {0, 2} : Open(lo, hi, key)
  /\ UNCHANGED packVars

MergeUses ==
  /\ \/ StartWalk \/ BeginPack \/ OpenRange
     \/ MergeStep /\ UNCHANGED <<packVars, rangeVars>>
     \/ use = "walk" /\ (MergeNext \/ MergePrev) /\ UNCHANGED <<packVars, rangeVars>>
     \/ PackTuple /\ UNCHANGED <<calls, rangeVars>>
     \/ (Abort \/ PostLoop) /\ UNCHANGED <<mergeVars, rangeVars>>
     \/ use = "range" /\ (Made \/ RangeNext \/ RangePrev \/ MovedNext \/ MovedPrev \/ SplitLeaf)
        /\ UNCHANGED packVars
  /\ UNCHANGED <<use, treeVars, asyncVars, filterVars, trunkVars>>

TreeStep ==
  use = "tree" /\ BTree!Next /\ UNCHANGED <<use, mergeParts, asyncVars, filterVars, trunkVars>>
AsyncStep ==
  use = "async" /\ Async!Next /\ UNCHANGED <<use, mergeParts, treeVars, filterVars, trunkVars>>
FilterStep ==
  use = "filter" /\ Filter!Next /\ UNCHANGED <<use, mergeParts, treeVars, asyncVars, trunkVars>>
TrunkStep ==
  use = "trunk" /\ Trunk!Next /\ UNCHANGED <<use, mergeParts, treeVars, asyncVars, filterVars>>

\* All but the inserters and readers of a B-tree may come to an end anywhere.
Ended == use # "tree" /\ UNCHANGED vars

Next == MergeUses \/ TreeStep \/ AsyncStep \/ FilterStep \/ TrunkStep \/ Ended

Spec == Init /\ [][Next]_vars

-----------------------------------------------------------------------------
(* Properties.                                                             *)

\* Inserts, splits and defragmentation keep the tree in order and every insert
\* in it once; the generations the log is sorted by grow (BTree).
TreeHasInserts ==
  use = "tree" => BTree!TreeInOrder /\ BTree!EntriesMatchInserts /\ BTree!GenerationsGrow

\* Lookups and scans are right whatever is split around them (BTree).
TreeReadsRight == use = "tree" => BTree!LookupsLinearize /\ BTree!ScansComplete

\* An asynchronous lookup answers what one that waits would, wherever it was
\* interrupted, and holds the pages and locks it uses, and none at its end.
AsyncLikeLookup == use = "async" => Async!AnswersLikeLookup /\ Async!HoldsWhatItUses

\* A filter names every branch that has a fingerprint, through all rebuilds.
FilterNamesBranches == use = "filter" => Filter!NamesBranches

\* Every lookup in a trunk finds the newest message, whatever is flushed, split
\* or compacted under it (Trunk).
ReadsNewest == use = "trunk" => Trunk!ReadsNewest

\* References to branches and filters are balanced, and nothing is freed that a
\* lookup may still read (Trunk).
ReferencesBalanced == use = "trunk" => Trunk!ReferencesBalanced

\* A task finds its own bundle by its number, and every bundle that waits has a
\* task that will come to it (Trunk).
BundlesMatchTasks == use = "trunk" => Trunk!BundlesMatchTasks

\* trunk_compact_bundle's assertion (Trunk).
NoFlushFromLeaf == use = "trunk" => Trunk!NoFlushFromLeaf
=============================================================================
