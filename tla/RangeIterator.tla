---------------------------- MODULE RangeIterator ----------------------------
(***************************************************************************)
(* The trunk's range iterator (trunk_range_iterator of trunk.c): it walks  *)
(* a range of keys leaf by leaf.  In a leaf it is a merge iterator over    *)
(* the B-trees that have pairs for the leaf, from the memtables down, and  *)
(* at the end of one it is made anew for the next.  Leaves may split       *)
(* meanwhile; the pairs themselves do not change.                          *)
(*                                                                         *)
(* What the trees hold for a leaf is what "store" has between the leaf's   *)
(* bounds.                                                                 *)
(***************************************************************************)
EXTENDS Merge

CONSTANTS
  Crossing,   \* whether the caller goes back over the start of a leaf
  MaxKey      \* keys are less than it

ASSUME RangeAssumption == Crossing \in BOOLEAN /\ MaxKey \in Nat

VARIABLES
  store,               \* the pairs, oldest tree first
  pivots,              \* the leaves' first keys
  min, max,            \* min_key and max_key
  localMin, localMax,  \* local_min_key and local_max_key
  startType,           \* "not_less" or "less"
  rangePrev, rangeNext,  \* can_prev and can_next
  stage,               \* "none", "made", "next", "prev" or "idle"
  rangePlace           \* history: where the caller should be in the range

rangeVars == <<store, pivots, min, max, localMin, localMax, startType, rangePrev,
               rangeNext, stage, rangePlace>>

Largest(S) == CHOOSE x \in S : \A y \in S : y <= x
Smaller(a, b) == IF a < b THEN a ELSE b
Larger(a, b) == IF a < b THEN b ELSE a

Within(seq, lo, hi) == SelectSeq(seq, LAMBDA p : lo <= p.key /\ p.key < hi)
Bounded(lo, hi) == [i \in DOMAIN store |-> Within(store[i], lo, hi)]

\* trunk_find_pivot down to a leaf.
LeafOf(k, type) ==
  Largest({p \in pivots : IF type = "not_less" THEN p <= k ELSE p < k} \cup {0})
LeafEnd(leaf) ==
  LET after == {p \in pivots : leaf < p}
  IN IF after = {} THEN MaxKey ELSE CHOOSE x \in after : \A y \in after : x <= y

\* trunk_range_iterator_init, up to what the merge iterator does.
Make(lo, hi, key, type) ==
  LET start == IF hi <= Larger(lo, key) THEN hi ELSE Larger(lo, key)
      leaf == LeafOf(start, type)
      from == Larger(leaf, lo)
      to == Smaller(LeafEnd(leaf), hi)
      ins == Bounded(from, to)
      merged == Reference(ins, "full")
      before == Cardinality({j \in DOMAIN merged : merged[j].key < start})
  IN
  /\ min' = lo /\ max' = hi
  /\ localMin' = from /\ localMax' = to
  /\ startType' = type
  /\ rangePrev' = TRUE /\ rangeNext' = TRUE
  /\ stage' = "made"
  /\ mode' = "full"
  /\ Create(ins, IF type = "not_less" THEN FirstNotLess(ins, start) ELSE LastLess(ins, start))
  /\ place' = IF type = "not_less" THEN before + 1 ELSE before

-----------------------------------------------------------------------------
RangeInit ==
  /\ min = 0 /\ max = 0 /\ localMin = 0 /\ localMax = 0
  /\ startType = "not_less"
  /\ rangePrev = TRUE /\ rangeNext = TRUE
  /\ stage = "none" /\ rangePlace = 0

\* splinterdb_iterator_init
Open(lo, hi, key) ==
  /\ stage = "none"
  /\ Make(lo, hi, key, "not_less")
  /\ rangePlace' = 1 + Cardinality({k \in KeysOf(Reference(Bounded(lo, hi), "full")) : k < key})
  /\ UNCHANGED <<store, pivots, calls>>

\* The end of trunk_range_iterator_init: if the leaf has nothing in range from
\* here on, the iterator is made anew for its neighbour.
Made ==
  /\ stage = "made" /\ pc = "idle"
  /\ IF curr # Nothing
     THEN stage' = "idle" /\ UNCHANGED <<rangePrev, rangeNext, mergeVars, min, max, localMin,
                                          localMax, startType>>
     ELSE IF startType = "not_less"
     THEN IF localMax < max THEN Make(min, max, localMax, startType) /\ UNCHANGED calls
          ELSE /\ rangeNext' = FALSE /\ rangePrev' = can_prev /\ stage' = "idle"
               /\ UNCHANGED <<mergeVars, min, max, localMin, localMax, startType>>
     ELSE IF localMin > min THEN Make(min, max, localMin, startType) /\ UNCHANGED calls
          ELSE /\ rangePrev' = FALSE /\ rangeNext' = can_next /\ stage' = "idle"
               /\ UNCHANGED <<mergeVars, min, max, localMin, localMax, startType>>
  /\ UNCHANGED <<store, pivots, rangePlace>>

\* trunk_range_iterator_next and trunk_range_iterator_prev: the merge iterator
\* moves ...
RangeNext ==
  /\ stage = "idle" /\ rangeNext
  /\ MergeNext
  /\ stage' = "next"
  /\ rangePlace' = rangePlace + 1
  /\ UNCHANGED <<store, pivots, min, max, localMin, localMax, startType, rangePrev, rangeNext>>

RangePrev ==
  /\ stage = "idle" /\ rangePrev
  /\ Crossing \/ place > 1
  /\ MergePrev
  /\ stage' = "prev"
  /\ rangePlace' = rangePlace - 1
  /\ UNCHANGED <<store, pivots, min, max, localMin, localMax, startType, rangePrev, rangeNext>>

\* Mutant: the next leaf is not looked for at the end of a leaf.
MovedNextStays ==
  /\ stage = "next" /\ pc = "idle"
  /\ rangePrev' = TRUE /\ rangeNext' = can_next /\ stage' = "idle"
  /\ UNCHANGED <<mergeVars, min, max, localMin, localMax, startType>>
  /\ UNCHANGED <<store, pivots, rangePlace>>

\* ... and at the end of a leaf the iterator is made anew for the next leaf,
\* or the previous.
MovedNext ==
  /\ stage = "next" /\ pc = "idle"
  /\ IF ~can_next /\ localMax < max
     THEN Make(min, max, localMax, "not_less") /\ UNCHANGED calls
     ELSE /\ rangePrev' = TRUE /\ rangeNext' = can_next /\ stage' = "idle"
          /\ UNCHANGED <<mergeVars, min, max, localMin, localMax, startType>>
  /\ UNCHANGED <<store, pivots, rangePlace>>

MovedPrev ==
  /\ stage = "prev" /\ pc = "idle"
  /\ IF ~can_prev /\ localMin > min
     THEN Make(min, max, localMin, "less") /\ UNCHANGED calls
     ELSE /\ rangeNext' = TRUE /\ rangePrev' = can_prev /\ stage' = "idle"
          /\ UNCHANGED <<mergeVars, min, max, localMin, localMax, startType>>
  /\ UNCHANGED <<store, pivots, rangePlace>>

\* A leaf splits while the caller is between two calls.
SplitLeaf ==
  /\ stage = "idle"
  /\ \E k \in 1 .. MaxKey - 1 : k \notin pivots /\ pivots' = pivots \cup {k}
  /\ UNCHANGED <<store, min, max, localMin, localMax, startType, rangePrev, rangeNext,
                 stage, rangePlace, mergeVars>>

-----------------------------------------------------------------------------
(* Property.                                                               *)

InRange == Reference(Bounded(min, max), "full")

\* Between two calls the iterator is at the pair of the range that the caller
\* has moved it to, with next and prev, whatever leaves these are in.
OnItsPair ==
  (stage = "idle" /\ rangePlace \in DOMAIN InRange) => curr = InRange[rangePlace]

\* And it says that it can go on exactly until it is past the last, where, as
\* before the first, it has no pair.
WalksRange ==
  /\ OnItsPair
  /\ stage = "idle" =>
       /\ rangePlace \notin DOMAIN InRange => curr = Nothing
       /\ rangeNext <=> rangePlace <= Len(InRange)
=============================================================================
