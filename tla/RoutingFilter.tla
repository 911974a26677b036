---------------------------- MODULE RoutingFilter ----------------------------
(***************************************************************************)
(* The routing filter of routing_filter.c: for a fingerprint it says which *)
(* of a node's branches may have a key with it.  A filter is built from    *)
(* the one before it and the fingerprints of one more branch.  It is an    *)
(* array of indices of IndexSize buckets; a bucket is the leading bits of  *)
(* a fingerprint, and its entries are the remaining bits with the branch's *)
(* value behind them.  With more fingerprints there are more buckets, and  *)
(* an old index becomes several.                                           *)
(*                                                                         *)
(* Entries are numbers, packed as in the code; how an index is laid out on *)
(* pages, and the encoding of its buckets' sizes in bits, are left out.    *)
(***************************************************************************)
EXTENDS Integers, FiniteSets, Sequences, SequencesExt

CONSTANTS
  WordSize,         \* bits of an entry; in the code 32
  FingerprintSize,  \* bits of a fingerprint
  LogIndexSize,     \* log_index_size: bits of a bucket's place in its index
  Batches,          \* the fingerprints a branch may bring, in any order
  MaxValue          \* the bound on values, which grow from branch to branch

FilterAssumption ==
  /\ WordSize \in Nat /\ FingerprintSize \in 0 .. WordSize /\ LogIndexSize \in 0 .. FingerprintSize
  /\ MaxValue \in Nat
  /\ \A b \in Batches : \A j \in DOMAIN b : b[j] \in 0 .. 2^FingerprintSize - 1

IndexSize == 2^LogIndexSize
Fingerprints == 0 .. 2^FingerprintSize - 1

VARIABLES
  filter,   \* [num, unique, valueSize, indices]
  next,     \* the next branch's value
  added     \* history: the pairs <<fingerprint, value>> put in

vars == <<filter, next, added>>

\* An addr of 0: no filter.
NoFilter == [num |-> 0, unique |-> 0, valueSize |-> 0, indices |-> <<>>]

\* 31 - __builtin_clz(n)
Log(n) == CHOOSE e \in 0 .. n : 2^e <= n /\ n < 2^(e + 1)
BitsOf(value) == IF value = 0 THEN 0 ELSE Log(value) + 1

LogBuckets(num) ==
  IF num = 0 \/ Log(num) < LogIndexSize THEN LogIndexSize ELSE Log(num)
LogIndices(num) == LogBuckets(num) - LogIndexSize
RemainderSize(num) == FingerprintSize - LogBuckets(num)

\* routing_get_bucket and routing_get_index
Bucket(fp, bits) == fp \div 2^bits
IndexOf(fp, bits) == fp \div 2^(bits + LogIndexSize)

-----------------------------------------------------------------------------
(* routing_filter_add.                                                     *)

\* The new fingerprints, each with the value behind it, sorted (RadixSort) and
\* without duplicates.
NewEntries(fps, value, size) ==
  LET S == {fps[j] * 2^size + value : j \in DOMAIN fps}
  IN [n \in 1 .. Cardinality(S) |-> CHOOSE e \in S : Cardinality({x \in S : x < e}) = n - 1]

\* The entries of an old index as whole fingerprints, with room for the new
\* values.
OldEntries(old, n, size) ==
  LET bits == RemainderSize(old.num) + old.valueSize
      buckets == old.indices[n]
      whole == FlattenSeq([b \in 1 .. IndexSize |->
                 [j \in DOMAIN buckets[b] |->
                    ((n - 1) * IndexSize + b - 1) * 2^bits + buckets[b][j]]])
      value(e) == e % 2^old.valueSize
  IN [j \in DOMAIN whole |->
        (whole[j] - value(whole[j])) * 2^(size - old.valueSize) + value(whole[j])]

\* Old and new entries merged into one index, up to the bucket where the next
\* index begins.  The first entry of the next index counts as one more unique
\* fingerprint before the loop sees that it does not belong here.
RECURSIVE MergeIndex(_, _, _, _, _, _)
MergeIndex(old, new, endBucket, bits, size, sofar) ==
  IF old = <<>> /\ new = <<>> THEN [sofar EXCEPT !.old = old]
  ELSE LET isOld == new = <<>> \/ (old # <<>> /\ old[1] <= new[1])
           fp == IF isOld THEN old[1] ELSE new[1]
           unique == sofar.unique + (IF sofar.last \div 2^size # fp \div 2^size THEN 1 ELSE 0)
       IN IF Bucket(fp, bits) >= endBucket
          THEN [sofar EXCEPT !.old = old, !.unique = unique]
          ELSE MergeIndex(IF isOld THEN Tail(old) ELSE old, IF isOld THEN new ELSE Tail(new),
                          endBucket, bits, size,
                          [sofar EXCEPT !.unique = unique, !.last = fp,
                                        !.entries = Append(@, fp)])

\* The entries of an index, by bucket.
IntoBuckets(entries, n, bits) ==
  [b \in 1 .. IndexSize |->
     LET here == SelectSeq(entries, LAMBDA e : Bucket(e, bits) = (n - 1) * IndexSize + b - 1)
     IN [j \in DOMAIN here |-> here[j] % 2^bits]]

NoEntry == 2^WordSize - 1   \* UINT32_MAX

\* The new indices made of the old index n.
RECURSIVE MakeIndices(_, _, _, _, _, _)
MakeIndices(made, n, last, old, new, par) ==
  IF n > last THEN [made EXCEPT !.old = <<>>]
  ELSE LET mine == SelectSeq(new, LAMBDA e : IndexOf(e, par.bits) = n - 1)
           merged == MergeIndex(old, mine, n * IndexSize, par.bits, par.size,
                       [entries |-> <<>>, old |-> <<>>, last |-> NoEntry, unique |-> made.unique])
       IN MakeIndices([made EXCEPT !.unique = merged.unique,
                                   !.indices = Append(@, IntoBuckets(merged.entries, n, par.bits))],
                      n + 1, last, merged.old, new, par)

\* Mutant: the old values are not moved to where the new filter has them.
AddUnshifted(old, fps, value) ==
  LET num == old.num + Len(fps)
      size == BitsOf(value)
      bits == RemainderSize(num) + size
      per == 2^(LogIndices(num) - LogIndices(old.num))
      new == NewEntries(fps, value, size)
      made == FoldLeft(LAMBDA acc, n :
                MakeIndices(acc, (n - 1) * per + 1, n * per,
                            IF old = NoFilter THEN <<>> ELSE OldEntries(old, n, old.valueSize),
                            new, [bits |-> bits, size |-> size]),
                [unique |-> 0, indices |-> <<>>, old |-> <<>>],
                [n \in 1 .. 2^LogIndices(old.num) |-> n])
  IN [num |-> num, unique |-> made.unique, valueSize |-> size, indices |-> made.indices]

Add(old, fps, value) ==
  LET num == old.num + Len(fps)
      size == BitsOf(value)
      bits == RemainderSize(num) + size
      per == 2^(LogIndices(num) - LogIndices(old.num))
      new == NewEntries(fps, value, size)
      made == FoldLeft(LAMBDA acc, n :
                MakeIndices(acc, (n - 1) * per + 1, n * per,
                            IF old = NoFilter THEN <<>> ELSE OldEntries(old, n, size),
                            new, [bits |-> bits, size |-> size]),
                [unique |-> 0, indices |-> <<>>, old |-> <<>>],
                [n \in 1 .. 2^LogIndices(old.num) |-> n])
  IN [num |-> num, unique |-> made.unique, valueSize |-> size, indices |-> made.indices]

-----------------------------------------------------------------------------
\* routing_filter_lookup: the values of the entries with this remainder in the
\* fingerprint's bucket.
Lookup(f, fp) ==
  IF f = NoFilter THEN {}
  ELSE LET rest == RemainderSize(f.num)
           bits == rest + f.valueSize
           index == IndexOf(fp * 2^f.valueSize, bits)
           bucket == Bucket(fp * 2^f.valueSize, bits) % IndexSize
           entries == f.indices[index + 1][bucket + 1]
       IN {e % 2^f.valueSize : e \in {x \in ToSet(entries) :
             x \div 2^f.valueSize = fp % 2^rest}}

-----------------------------------------------------------------------------
Init == filter = NoFilter /\ next = 0 /\ added = {}

\* One more branch.  A branch none of whose keys are live leaves its value out.
AddBranch ==
  /\ next <= MaxValue /\ FingerprintSize + BitsOf(next) <= WordSize
  /\ \E fps \in Batches :
       /\ filter.num + Len(fps) <= 2^FingerprintSize
       /\ filter' = Add(filter, fps, next)
       /\ added' = added \cup {<<fps[j], next>> : j \in DOMAIN fps}
  /\ next' = next + 1

Skip == next <= MaxValue /\ next' = next + 1 /\ UNCHANGED <<filter, added>>

Next == AddBranch \/ Skip

Spec == Init /\ [][Next]_vars

-----------------------------------------------------------------------------
\* For every fingerprint the filter names the branches that brought it, all of
\* them and no other, whatever it has grown through; its entries are in order;
\* and the count of unique fingerprints is at most one too high for each index
\* that ends where an old index goes on.
NamesBranches ==
  /\ \A fp \in Fingerprints : Lookup(filter, fp) = {p[2] : p \in {q \in added : q[1] = fp}}
  /\ \A n \in DOMAIN filter.indices : \A b \in 1 .. IndexSize :
       LET es == filter.indices[n][b] IN \A j \in 1 .. Len(es) - 1 : es[j] < es[j + 1]
  /\ LET exact == Cardinality({p[1] : p \in added})
     IN filter.unique \in exact .. exact + Len(filter.indices)
=============================================================================
