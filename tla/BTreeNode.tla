------------------------------ MODULE BTreeNode ------------------------------
(***************************************************************************)
(* The nodes of a B-tree of btree.c and what is done to one of them: the   *)
(* search for a key, putting an entry into the bytes that are left,        *)
(* defragmenting and splitting.                                            *)
(*                                                                         *)
(* A node is                                                               *)
(*    [height, entries, used, next, prev, gen]                             *)
(* with its entries in the order of their keys (the offset table).  The    *)
(* entries' bytes grow from the end of the page towards the table; "used"  *)
(* counts what lies behind hdr->next_entry, dead bytes included, and the   *)
(* "off" of an entry says how far from the end it begins.  An entry of a   *)
(* leaf holds a message, one of an index the address of a child.  The      *)
(* table's own bytes are counted with the entries.                         *)
(*                                                                         *)
(* Positions are counted as in the code, from 0; -1 is "before the first". *)
(***************************************************************************)
EXTENDS Integers, SequencesExt, FiniteSetsExt

CONSTANTS
  KeySize,         \* [key -> bytes of an index entry with this pivot]
  LeafCap,         \* bytes of entries that fit in a leaf
  IndexCap,        \* bytes of entries that fit in an index node
  MaxKeySize,      \* what btree_index_is_full keeps free for one more pivot
  SplitThreshold,  \* with less live bytes a leaf is defragmented, not split
  IndexThreshold   \* the same for an index node (in the code half a page too)

BytesAssumption ==
  /\ LeafCap \in Nat /\ IndexCap \in Nat
  /\ MaxKeySize \in 1 .. IndexCap
  /\ \A k \in DOMAIN KeySize : k \in Nat /\ KeySize[k] \in 1 .. MaxKeySize
  /\ SplitThreshold <= LeafCap
  \* what is split has two entries at least; what is defragmented has room
  /\ IndexThreshold \in MaxKeySize + 1 .. IndexCap - MaxKeySize + 1

(***************************************************************************)
(* Messages: the operations merged into one, oldest first.  A put forgets  *)
(* what it is merged over; the bytes of updates add up.                    *)
(***************************************************************************)
Merged(old, new) ==
  IF new.put THEN new
  ELSE [ops |-> old.ops \o new.ops, put |-> old.put, size |-> old.size + new.size]

Entry(key, val, off) == [key |-> key, val |-> val, off |-> off]

EmptyNode == [height |-> 0, entries |-> <<>>, used |-> 0,
              next |-> 0, prev |-> 0, gen |-> 0]

NumEntries(n) == Len(n.entries)
KeyAt(n, i)   == n.entries[i + 1].key
ValAt(n, i)   == n.entries[i + 1].val

SizeOf(n, e) == IF n.height = 0 THEN e.val.size ELSE KeySize[e.key]
Capacity(n)  == IF n.height = 0 THEN LeafCap ELSE IndexCap
Bytes(n, entries) == FoldLeft(LAMBDA sum, e : sum + SizeOf(n, e), 0, entries)
MaxOff(entries)   == Max({0} \cup {entries[i].off : i \in DOMAIN entries})

(***************************************************************************)
(* The binary search of btree_find_pivot and btree_find_tuple: the last    *)
(* entry whose key is not greater than the target.                         *)
(***************************************************************************)
FindIdx(n, target) ==
  LET hi0 == NumEntries(n)
      search[lo \in 0 .. hi0, hi \in 0 .. hi0] ==
        LET mid == (lo + hi) \div 2
        IN IF lo >= hi THEN lo - 1
           ELSE IF KeyAt(n, mid) = target THEN mid
           ELSE IF KeyAt(n, mid) < target THEN search[mid + 1, hi]
           ELSE search[lo, mid]
  IN search[0, hi0]

Found(n, target) ==
  LET i == FindIdx(n, target) IN i >= 0 /\ KeyAt(n, i) = target

\* find_key_in_node(.., greater_than_or_equal)
FirstNotLess(n, target) ==
  FindIdx(n, target) + (IF Found(n, target) THEN 0 ELSE 1)

(***************************************************************************)
(* btree_set_index_entry at a position that is taken, btree_insert_*_entry *)
(* and btree_set_leaf_entry.                                               *)
(***************************************************************************)
\* The old entry's place is used when it is physically the first (then the
\* free bytes before it count too) or when the new one is not larger.
CanSetIndex(n, i, key) ==
  LET old == n.entries[i + 1]
  IN \/ n.used = old.off /\ n.used - KeySize[old.key] + KeySize[key] <= IndexCap
     \/ KeySize[key] <= KeySize[old.key]
     \/ n.used + KeySize[key] <= IndexCap

SetIndex(n, i, key) ==
  LET old  == n.entries[i + 1]
      base == IF /\ n.used = old.off
                 /\ n.used - KeySize[old.key] + KeySize[key] <= IndexCap
              THEN n.used - KeySize[old.key] ELSE n.used
      inPlace == base = n.used /\ KeySize[key] <= KeySize[old.key]
      end == IF inPlace THEN n.used ELSE base + KeySize[key]
  IN [n EXCEPT !.entries[i + 1] = Entry(key, @.val, IF inPlace THEN @.off ELSE end),
               !.used = end]

CanInsert(n, size) == n.used + size <= Capacity(n)

Insert(n, i, key, val) ==
  LET end == n.used + SizeOf(n, Entry(key, val, 0))
  IN [n EXCEPT !.entries = InsertAt(@, i + 1, Entry(key, val, end)), !.used = end]

CanSetLeaf(n, i, msg) == msg.size <= ValAt(n, i).size \/ CanInsert(n, msg.size)

SetLeaf(n, i, key, msg) ==
  IF msg.size <= ValAt(n, i).size
  THEN [n EXCEPT !.entries[i + 1] = Entry(key, msg, @.off)]
  ELSE LET end == n.used + msg.size
       IN [n EXCEPT !.entries[i + 1] = Entry(key, msg, end), !.used = end]

(***************************************************************************)
(* A node rebuilt with these entries only, without dead bytes.             *)
(***************************************************************************)
Rebuilt(n, entries) ==
  [n EXCEPT
     !.entries = [i \in DOMAIN entries |->
                    Entry(entries[i].key, entries[i].val,
                          Bytes(n, SubSeq(entries, 1, i)))],
     !.used = Bytes(n, entries)]

Truncated(n, count) ==
  LET kept == SubSeq(n.entries, 1, count)
  IN [n EXCEPT !.entries = kept, !.used = MaxOff(kept)]

(***************************************************************************)
(* leaf_incorporate_spec: where the key goes and what its message becomes. *)
(* "old" says whether the key has an entry: "absent", "exists", "removed". *)
(***************************************************************************)
NoSpec == [key |-> 0, msg |-> 0, idx |-> 0, old |-> "absent"]

CreateSpec(n, key, msg) ==
  IF Found(n, key)
  THEN [key |-> key, msg |-> Merged(ValAt(n, FindIdx(n, key)), msg),
        idx |-> FindIdx(n, key), old |-> "exists"]
  ELSE [key |-> key, msg |-> msg, idx |-> FindIdx(n, key) + 1, old |-> "absent"]

CanPerform(n, spec) ==
  IF spec.old = "exists" THEN CanSetLeaf(n, spec.idx, spec.msg)
  ELSE CanInsert(n, spec.msg.size)

Perform(n, spec) ==
  [IF spec.old = "exists" THEN SetLeaf(n, spec.idx, spec.key, spec.msg)
   ELSE Insert(n, spec.idx, spec.key, spec.msg) EXCEPT !.gen = @ + 1]

\* The entries that stay when the spec's old entry goes; positions from 0.
Others(n, spec, from, to) ==
  LET stays == {i \in from .. to - 1 : ~(spec.old = "exists" /\ i = spec.idx)}
  IN [j \in 1 .. Cardinality(stays) |->
        n.entries[1 + CHOOSE i \in stays :
                        Cardinality({h \in stays : h < i}) = j - 1]]

Removed(spec) ==
  IF spec.old = "exists" THEN [spec EXCEPT !.old = "removed"] ELSE spec

DefragmentLeaf(n, spec) == Rebuilt(n, Others(n, spec, 0, NumEntries(n)))

LiveBytes(n, spec) ==
  Bytes(n, Others(n, spec, 0, NumEntries(n))) + spec.msg.size

(***************************************************************************)
(* Where to split a leaf: as evenly by bytes as possible, with the new     *)
(* entry counted on the side it will be on.                                *)
(***************************************************************************)
MostOnLeft(total, left, size) == 2 * (left + size) < total + size

\* plan_move_more_entries_to_left: the first entry at or after "from", and
\* before "to", that does not go left
MoveMore(n, from, to, total, left) ==
  Min({i \in from .. to - 1 :
         ~MostOnLeft(total, left + Bytes(n, SubSeq(n.entries, from + 1, i)),
                     SizeOf(n, n.entries[i + 1]))} \cup {to})

Plan(n, spec) ==
  LET total == LiveBytes(n, spec)
      split == MoveMore(n, 0, spec.idx, total, 0)
      left  == Bytes(n, SubSeq(n.entries, 1, split))
      after == split + (IF spec.old = "exists" THEN 1 ELSE 0)
  IN IF split = spec.idx /\ MostOnLeft(total, left, spec.msg.size)
     THEN [split |-> MoveMore(n, after, NumEntries(n), total, left + spec.msg.size),
           goesLeft |-> TRUE]
     ELSE [split |-> split, goesLeft |-> FALSE]

\* Mutant: the new key is not thought of.
PivotOfOldEntry(n, spec, plan) == KeyAt(n, plan.split)

SplittingPivot(n, spec, plan) ==
  IF plan.split = spec.idx /\ spec.old # "exists" /\ ~plan.goesLeft
  THEN spec.key ELSE KeyAt(n, plan.split)

RightLeaf(n, leftAddr, spec, plan) ==
  LET bare == [Rebuilt(n, Others(n, spec, plan.split, NumEntries(n)))
                 EXCEPT !.gen = @ + 1, !.prev = leftAddr]
  IN IF plan.goesLeft THEN bare
     ELSE Perform(bare, [Removed(spec) EXCEPT !.idx = @ - plan.split])

LeftLeaf(n, rightAddr, spec, plan) ==
  LET cut  == [Truncated(n, plan.split) EXCEPT !.gen = @ + 1, !.next = rightAddr]
  IN IF ~plan.goesLeft THEN cut
     ELSE IF CanPerform(cut, spec) THEN Perform(cut, spec)
     ELSE Perform(DefragmentLeaf(cut, spec), Removed(spec))

(***************************************************************************)
(* Index nodes.                                                            *)
(***************************************************************************)
IndexIsFull(n) == IndexCap - n.used < MaxKeySize

ChooseIndexSplit(n) ==
  Min({t \in 0 .. NumEntries(n) :
         Bytes(n, SubSeq(n.entries, 1, t)) >= Bytes(n, n.entries) \div 2})

RightIndex(n, t) ==
  [Rebuilt(n, SubSeq(n.entries, t + 1, NumEntries(n))) EXCEPT !.gen = @ + 1]

\* btree_truncate_index, which defragments when less than a quarter is free
LeftIndex(n, t) ==
  LET cut == [Truncated(n, t) EXCEPT !.gen = @ + 1]
  IN IF IndexCap - cut.used < IndexCap \div 4
     THEN Rebuilt(cut, cut.entries) ELSE cut

(***************************************************************************)
(* btree_grow_root: the root keeps its address and becomes the parent of a *)
(* copy of itself.                                                         *)
(***************************************************************************)
GrownRoot(root, childAddr) ==
  [root EXCEPT !.height = @ + 1,
               !.entries = <<Entry(KeyAt(root, 0), childAddr, KeySize[KeyAt(root, 0)])>>,
               !.used = KeySize[KeyAt(root, 0)]]
=============================================================================
