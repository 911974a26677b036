------------------------------- MODULE TsCache -------------------------------
(***************************************************************************)
(* The timestamp cache of the TicToc family: an iceberg hash table that    *)
(* maps the keys of the running transactions to their timestamp_set, in    *)
(* front of a sketch that keeps an upper bound of the timestamps of every  *)
(* other key in a fixed number of cells (src/splinterdb/src/FPSketch and   *)
(* the callbacks of transaction_impl/transaction_tictoc_sketch.h).         *)
(*                                                                         *)
(* The operations run under the lock of the key's block, so each one is a  *)
(* single step here.  Reclaim selects what the build does when the last    *)
(* reference to a key goes away:                                           *)
(*   "eager"  the entry is moved to the sketch (TICTOC_COUNTER, _SKETCH)   *)
(*   "lazy"   it stays until the clock evicts it (the _LAZY modes)         *)
(*   "never"  there is no sketch and no entry is removed (TICTOC_MEMORY)   *)
(***************************************************************************)
EXTENDS Integers, FiniteSets

CONSTANTS
  Key,       \* user keys, as numbers in data_key_compare order
  Row,       \* rows of the sketch
  Col,       \* columns of the sketch
  Hash,      \* column of a key in each row (get_index_in_row)
  Reclaim,   \* "eager", "lazy" or "never"
  MaxKeys    \* max_num_keys, the load above which a lazy table evicts

ASSUME CacheAssumption ==
  /\ Key \subseteq Nat /\ IsFiniteSet(Key)
  /\ IsFiniteSet(Row) /\ Row # {}
  /\ Hash \in [Row -> [Key -> Col]]
  /\ Reclaim \in {"eager", "lazy", "never"}
  /\ MaxKeys \in Nat

VARIABLES
  cell,      \* the timestamp_set of each cached key
  cached,    \* the keys that have an entry in the table
  refs,      \* their reference counts
  sketch     \* the timestamps kept by each cell of the sketch

cacheVars == <<cell, cached, refs, sketch>>

\* timestamp_set: rts is stored as a distance from wts.
TimestampSet == [lock : BOOLEAN, wts : Nat, delta : Nat]
Rts(ts)      == ts.wts + ts.delta
ZeroTs       == [lock |-> FALSE, wts |-> 0, delta |-> 0]
Locked(ts)   == [lock |-> TRUE, wts |-> ts.wts, delta |-> ts.delta]
Unlocked(ts) == [lock |-> FALSE, wts |-> ts.wts, delta |-> ts.delta]
\* The read timestamp is moved to c.
Extended(ts, c) == [lock |-> ts.lock, wts |-> ts.wts, delta |-> c - ts.wts]

Larger(a, b)  == IF a < b THEN b ELSE a
Smallest(S)   == CHOOSE x \in S : \A y \in S : x <= y

\* sketch_insert_timestamp_set: the larger wts and the larger rts, apart.
MergeMax(ts, new) ==
  LET w == Larger(ts.wts, new.wts)
  IN  [lock |-> ts.lock, wts |-> w, delta |-> Larger(Rts(ts), Rts(new)) - w]

\* sketch_get with sketch_get_timestamp_set: the smallest wts and the smallest
\* rts over the rows, which may come from different rows.
SketchGet(k) ==
  LET w == Smallest({sketch[r][Hash[r][k]].wts : r \in Row})
      t == Smallest({Rts(sketch[r][Hash[r][k]]) : r \in Row})
  IN  [lock |-> FALSE, wts |-> w, delta |-> t - w]

\* Mutant: one row of the sketch is left out.
SketchInsertOneRow(k, ts) ==
  sketch' = [r \in Row |-> IF r # Smallest(Row) THEN sketch[r]
               ELSE [sketch[r] EXCEPT ![Hash[r][k]] = MergeMax(@, ts)]]

\* sketch_insert: every row's cell of the key takes the maximum.
SketchInsert(k, ts) ==
  sketch' = [r \in Row |-> [sketch[r] EXCEPT ![Hash[r][k]] = MergeMax(@, ts)]]

\* The cache when no transaction is running, after others have read the keys
\* up to rts: their timestamps are in the sketch, or still in a table that
\* drops nothing.
CacheInit(rts) ==
  /\ cached = IF Reclaim = "never" THEN {k \in Key : rts[k] > 0} ELSE {}
  /\ cell = [k \in Key |-> IF Reclaim = "never"
                          THEN [ZeroTs EXCEPT !.delta = rts[k]] ELSE ZeroTs]
  /\ refs = [k \in Key |-> IF k \in cached THEN 1 ELSE 0]
  /\ sketch \in [Row -> [Col -> {[ZeroTs EXCEPT !.delta = n] :
                                n \in {0} \cup {rts[k] : k \in Key}}]]
  /\ \A r \in Row, c \in Col :
       LET here == {k \in Key : Hash[r][k] = c}
       IN  /\ \A k \in here : rts[k] <= sketch[r][c].delta
           /\ sketch[r][c].delta \in {0} \cup {rts[k] : k \in here}

\* The callers that share entries for good (TICTOC_MEMORY) insert without
\* counting references, and find all timestamps at 0 when they come first.
InsertUncounted(k) ==
  /\ cached' = cached \cup {k}
  /\ refs' = [refs EXCEPT ![k] = 1]
  /\ UNCHANGED <<cell, sketch>>

\* iceberg_insert_and_get: pin the entry of k, creating it from the sketch.
InsertCounted(k) ==
  /\ refs' = [refs EXCEPT ![k] = @ + 1]
  /\ cached' = cached \cup {k}
  /\ cell' = IF k \in cached THEN cell
             ELSE [cell EXCEPT ![k] = MergeMax(ZeroTs, SketchGet(k))]
  /\ UNCHANGED sketch

InsertAndGet(k) ==
  IF Reclaim = "never" THEN InsertUncounted(k) ELSE InsertCounted(k)

\* After it took in a key that was not there, a lazy table looks at its load.
ChecksLoad(k) == Reclaim = "lazy" /\ k \notin cached
Overloaded    == Cardinality(cached) > MaxKeys

\* The entry of k leaves the table: its timestamps go to the sketch.
Forget(k) ==
  /\ SketchInsert(k, cell[k])
  /\ cell' = [cell EXCEPT ![k] = ZeroTs]
  /\ cached' = cached \ {k}
  /\ refs' = [refs EXCEPT ![k] = 0]

\* Mutant: the references of a lazy table are not given back.
ReleaseNone(k) ==
  IF Reclaim = "eager" /\ refs[k] = 1 THEN Forget(k) ELSE UNCHANGED cacheVars

\* iceberg_remove: drop one reference; the last one of an eager table moves
\* the entry to the sketch.
Release(k) ==
  IF Reclaim = "eager" /\ refs[k] = 1
  THEN Forget(k)
  ELSE /\ refs' = [refs EXCEPT ![k] = @ - 1]
       /\ UNCHANGED <<cell, cached, sketch>>

\* iceberg_evict: the clock hand found an entry nobody refers to.
Evict     == \E k \in cached : refs[k] = 0 /\ Forget(k)
Evictable == \E k \in cached : refs[k] = 0

\* What the cache would answer for k now: the timestamps a transaction that
\* touches k next starts from.  Where nothing is dropped, a key that is not in
\* the table is one that nobody has used.
Visible(k) == IF k \in cached \/ Reclaim = "never" THEN cell[k] ELSE SketchGet(k)

CacheTypeOK ==
  /\ cell \in [Key -> TimestampSet]
  /\ cached \in SUBSET Key
  /\ refs \in [Key -> Nat]
  /\ sketch \in [Row -> [Col -> TimestampSet]]
=============================================================================
