--------------------------------- MODULE Sto ---------------------------------
(***************************************************************************)
(* Strict timestamp ordering over a table of timestamp_sets: a transaction *)
(* takes its timestamp when it begins, reads and writes a key only if no   *)
(* later transaction has written it (or, to write it, read it), and holds  *)
(* the key's dirty bit from its first write to its end.  Three builds:     *)
(*   "memory"   transaction_sto_memory.h: the table keeps every key        *)
(*   "counter"  transaction_sto.h with a sketch of one cell: the last user *)
(*              of a key moves its timestamps to the cell                  *)
(*   "cache"    transaction_sto_disk_cache.h: timestamps live in the       *)
(*              tuple's header, and in the table until the clock evicts    *)
(* The load and the compare-and-swap of a try are one step, since the swap *)
(* fails, and the try counts as busy, when anything changed in between.    *)
(***************************************************************************)
EXTENDS Integers, Sequences, FiniteSets

CONSTANTS
  Thread,
  Key,
  Builds,    \* the builds considered
  Programs,  \* the transactions each thread begins, one after the other: for
             \* each, the programs it may run; their number is the bound
  MayAbort   \* the threads whose application may abort on its own

Op  == [op : {"lookup", "write"}, key : Key]

StoAssumption ==
  /\ IsFiniteSet(Thread) /\ IsFiniteSet(Key) /\ "clean" \notin Thread
  /\ Builds \subseteq {"memory", "counter", "cache"}
  /\ Programs \in [Thread -> Seq(SUBSET Seq(Op))]
  /\ MayAbort \subseteq Thread

VARIABLES
  build,
  global_ts,
  stamp,     \* the wts and rts of each key's timestamp_set
  dirty,     \* its dirty_bit: by whom it was set, or "clean"
  cached,    \* the keys that have an entry in the table
  refs,      \* their reference counts
  counter,   \* the one cell of the sketch
  header,    \* the timestamps in each key's tuple header
  db,        \* SplinterDB: the transactions that wrote each key, in order
  pc,        \* where each thread is
  count,     \* transactions each thread has begun
  ts,        \* the timestamp of its transaction
  calls,     \* calls its transaction has still to make
  order,     \* rw_entries: the keys of the transaction in order of first use
  writes,    \* the keys whose rw_entry has a message
  todo,      \* the entries left to the loop of commit, abort or deinit
  reads,     \* history: what the transaction's lookups returned
  hist       \* history: the transactions that committed

tableVars == <<stamp, dirty, cached, refs, counter, header>>
txnVars   == <<count, ts, calls, order, writes, reads>>
vars == <<build, global_ts, tableVars, db, pc, txnVars, todo, hist>>

Iso == INSTANCE Isolation

Zero   == [wts |-> 0, rts |-> 0]

Id(t)        == <<t, count[t]>>
Elems(s)     == {s[i] : i \in DOMAIN s}
Larger(a, b) == IF a < b THEN b ELSE a
Goto(t, label) == pc' = [pc EXCEPT ![t] = label]

\* sketch_insert_timestamp_set: the larger of each.
Merge(a, b) == [wts |-> Larger(a.wts, b.wts), rts |-> Larger(a.rts, b.rts)]

Init ==
  /\ build \in Builds
  /\ global_ts = 0
  /\ stamp = [k \in Key |-> Zero]
  /\ dirty = [k \in Key |-> "clean"]
  /\ cached = {}
  /\ refs = [k \in Key |-> 0]
  /\ counter = Zero
  /\ header = [k \in Key |-> Zero]
  /\ db = [k \in Key |-> <<>>]
  /\ pc = [t \in Thread |-> "idle"]
  /\ count = [t \in Thread |-> 0]
  /\ ts = [t \in Thread |-> 0]
  /\ calls = [t \in Thread |-> <<>>]
  /\ order = [t \in Thread |-> <<>>]
  /\ writes = [t \in Thread |-> {}]
  /\ todo = [t \in Thread |-> <<>>]
  /\ reads = [t \in Thread |-> {}]
  /\ hist = {}

-----------------------------------------------------------------------------
(* The table of timestamp_sets.                                            *)

\* The timestamps an entry of k starts from: zeroes merged with the sketch,
\* or what read_from_splinterdb finds in the tuple's header.
Loaded(k) == CASE build = "memory"  -> Zero
               [] build = "counter" -> Merge(Zero, counter)
               [] build = "cache"   -> header[k]

\* rw_entry_iceberg_insert of a new rw_entry.  "memory" never gives an entry
\* back, and does not care how many use it.
Pin(k) ==
  /\ refs' = [refs EXCEPT ![k] = IF build = "memory" THEN 1 ELSE @ + 1]
  /\ cached' = cached \cup {k}
  /\ stamp' = IF k \in cached THEN stamp ELSE [stamp EXCEPT ![k] = Loaded(k)]
  /\ UNCHANGED <<dirty, counter, header>>

\* iceberg_remove: in "counter" the last reference moves the timestamps to the
\* sketch; in "cache" the entry stays for the clock; "memory" never removes.
Unpin(k) ==
  /\ refs' = [refs EXCEPT ![k] = IF build = "memory" THEN 1 ELSE @ - 1]
  /\ IF build = "counter" /\ refs[k] = 1
     THEN /\ counter' = Merge(counter, stamp[k])
          /\ cached' = cached \ {k}
          /\ stamp' = [stamp EXCEPT ![k] = Zero]
     ELSE UNCHANGED <<counter, cached, stamp>>
  /\ UNCHANGED <<dirty, header>>

\* Mutant: only the write timestamp goes back to the tuple.
WriteBackWts(k) == header' = [header EXCEPT ![k].wts = stamp[k].wts]

\* update_timestamp_to_splinterdb: a header-only update of the tuple.
WriteBack(k) == header' = [header EXCEPT ![k] = stamp[k]]

\* iceberg_evict with post_remove, under the lock of the victim's block.
EvictEntry(k) ==
  /\ k \in cached /\ refs[k] = 0
  /\ WriteBack(k)
  /\ cached' = cached \ {k}
  /\ stamp' = [stamp EXCEPT ![k] = Zero]
  /\ UNCHANGED <<dirty, refs, counter>>

-----------------------------------------------------------------------------
(* Lookups and writes.                                                     *)

\* transactional_splinterdb_begin
Begin(t) ==
  /\ pc[t] = "idle" /\ count[t] < Len(Programs[t])
  /\ global_ts' = global_ts + 1
  /\ ts' = [ts EXCEPT ![t] = global_ts + 1]
  /\ count' = [count EXCEPT ![t] = @ + 1]
  /\ \E p \in Programs[t][count[t] + 1] : calls' = [calls EXCEPT ![t] = p]
  /\ order' = [order EXCEPT ![t] = <<>>]
  /\ writes' = [writes EXCEPT ![t] = {}]
  /\ reads' = [reads EXCEPT ![t] = {}]
  /\ Goto(t, "run")
  /\ UNCHANGED <<build, tableVars, db, todo, hist>>

Calling(t)  == pc[t] = "run" /\ calls[t] # <<>>
CallKey(t)  == Head(calls[t]).key
Writing(t)  == Head(calls[t]).op = "write"
Return(t)   == calls' = [calls EXCEPT ![t] = Tail(@)]

\* A key that has a message: a lookup reads it back, another write replaces it.
OwnWrite(t) ==
  /\ Calling(t) /\ CallKey(t) \in writes[t]
  /\ Return(t)
  /\ UNCHANGED <<build, global_ts, tableVars, db, pc, count, ts, order, writes,
                 reads, todo, hist>>

\* rw_entry_get and rw_entry_iceberg_insert: the first use of a key pins it.
\* A lazy table that took in a new key then looks at its approximate load.
Request(t) ==
  /\ Calling(t) /\ CallKey(t) \notin writes[t]
  /\ LET k == CallKey(t) IN
       IF k \in Elems(order[t]) THEN UNCHANGED <<tableVars, order>> /\ Goto(t, "lock")
       ELSE /\ Pin(k)
            /\ order' = [order EXCEPT ![t] = Append(@, k)]
            /\ Goto(t, IF build = "cache" /\ k \notin cached THEN "load" ELSE "lock")
  /\ UNCHANGED <<build, global_ts, db, count, ts, calls, writes, reads, todo, hist>>

\* tot_balls_aprox is off by what the threads have not added up yet: the table
\* may or may not find itself overloaded.  It is sized for more keys than the
\* transactions use, so an overloaded one has an entry to evict.
CheckLoad(t) ==
  /\ pc[t] = "load"
  /\ UNCHANGED tableVars \/ \E k \in Key : EvictEntry(k)
  /\ Goto(t, "lock")
  /\ UNCHANGED <<build, global_ts, db, txnVars, todo, hist>>

\* The timestamp-ordering rule, which a try checks first.
Late(t, k) == ts[t] < stamp[k].wts \/ (Writing(t) /\ ts[t] < stamp[k].rts)

\* rw_entry_try_read_lock, rw_entry_try_write_lock: set the dirty bit.
TryLock(t) ==
  /\ pc[t] = "lock"
  /\ LET k == CallKey(t) IN
       /\ ~Late(t, k) /\ dirty[k] = "clean"
       /\ dirty' = [dirty EXCEPT ![k] = t]
  /\ Goto(t, IF Writing(t) THEN "stamp" ELSE "get")
  /\ UNCHANGED <<build, global_ts, stamp, cached, refs, counter, header, db,
                 txnVars, todo, hist>>

\* rw_entry_read_lock, rw_entry_write_lock: a busy key is tried again.
Busy(t) ==
  /\ pc[t] = "lock" /\ ~Late(t, CallKey(t)) /\ dirty[CallKey(t)] # "clean"
  /\ UNCHANGED vars

\* The entries the loops of commit and abort unlock: those with a message.
Held(t) ==
  LET held[n \in 0 .. Len(order[t])] ==
        IF n = 0 THEN <<>>
        ELSE IF order[t][n] \in writes[t] THEN Append(held[n - 1], order[t][n])
        ELSE held[n - 1]
  IN  held[Len(order[t])]

\* The rule is broken: the transaction is aborted inside the call.
Refuse(t) ==
  /\ pc[t] = "lock" /\ Late(t, CallKey(t))
  /\ todo' = [todo EXCEPT ![t] = Held(t)]
  /\ Goto(t, "abort")
  /\ UNCHANGED <<build, global_ts, tableVars, db, txnVars, hist>>

\* local_write: "to prevent deadlocks", the write timestamp is raised now.
SetWts(t) ==
  /\ pc[t] = "stamp"
  /\ stamp' = [stamp EXCEPT ![CallKey(t)].wts = ts[t]]
  /\ writes' = [writes EXCEPT ![t] = @ \cup {CallKey(t)}]
  /\ Return(t)
  /\ Goto(t, "run")
  /\ UNCHANGED <<build, global_ts, dirty, cached, refs, counter, header, db,
                 count, ts, order, reads, todo, hist>>

\* The lookup itself, under the dirty bit.
Get(t) ==
  /\ pc[t] = "get"
  /\ reads' = [reads EXCEPT ![t] =
                 @ \cup {[key |-> CallKey(t), ver |-> Len(db[CallKey(t)])]}]
  /\ Goto(t, "raise")
  /\ UNCHANGED <<build, global_ts, tableVars, db, count, ts, calls, order, writes,
                 todo, hist>>

\* The read timestamp is raised by a plain store and the dirty bit cleared;
\* nobody can use the key in between.
RaiseRts(t) ==
  /\ pc[t] = "raise"
  /\ stamp' = [stamp EXCEPT ![CallKey(t)].rts = Larger(@, ts[t])]
  /\ dirty' = [dirty EXCEPT ![CallKey(t)] = "clean"]
  /\ Return(t)
  /\ Goto(t, "run")
  /\ UNCHANGED <<build, global_ts, cached, refs, counter, header, db, count, ts,
                 order, writes, reads, todo, hist>>

-----------------------------------------------------------------------------
(* The end of a transaction.                                               *)

CommitBegin(t) ==
  /\ pc[t] = "run" /\ calls[t] = <<>>
  /\ todo' = [todo EXCEPT ![t] = Held(t)]
  /\ hist' = hist \cup {[id |-> Id(t), cts |-> ts[t], reads |-> reads[t]]}
  /\ Goto(t, "install")
  /\ UNCHANGED <<build, global_ts, tableVars, db, txnVars>>

\* transactional_splinterdb_commit: store the next write; where the timestamps
\* are kept in the tuple, it carries the transaction's.
Install(t) ==
  /\ pc[t] = "install" /\ todo[t] # <<>>
  /\ LET k == Head(todo[t]) IN
       /\ db' = [db EXCEPT ![k] = Append(@, Id(t))]
       /\ header' = IF build = "cache"
                    THEN [header EXCEPT ![k] = [wts |-> ts[t], rts |-> ts[t]]]
                    ELSE header
  /\ Goto(t, "unlock")
  /\ UNCHANGED <<build, global_ts, stamp, dirty, cached, refs, counter, txnVars,
                 todo, hist>>

\* Mutant: an abort clears the bit of every entry it has.
AbortAll(t) ==
  /\ t \in MayAbort /\ Calling(t)
  /\ todo' = [todo EXCEPT ![t] = order[t]]
  /\ Goto(t, "abort")
  /\ UNCHANGED <<build, global_ts, tableVars, db, txnVars, hist>>

\* The application gives up before all its calls are made.
Abort(t) ==
  /\ t \in MayAbort /\ Calling(t)
  /\ todo' = [todo EXCEPT ![t] = Held(t)]
  /\ Goto(t, "abort")
  /\ UNCHANGED <<build, global_ts, tableVars, db, txnVars, hist>>

\* rw_entry_unlock, after a write was stored or in the loop of abort.
Unlock(t) ==
  /\ pc[t] = "unlock" \/ (pc[t] = "abort" /\ todo[t] # <<>>)
  /\ dirty' = [dirty EXCEPT ![Head(todo[t])] = "clean"]
  /\ todo' = [todo EXCEPT ![t] = Tail(@)]
  /\ Goto(t, IF pc[t] = "unlock" THEN "install" ELSE "abort")
  /\ UNCHANGED <<build, global_ts, stamp, cached, refs, counter, header, db,
                 txnVars, hist>>

\* transaction_deinit goes over all entries.
Deinit(t) ==
  /\ pc[t] \in {"install", "abort"} /\ todo[t] = <<>>
  /\ todo' = [todo EXCEPT ![t] = order[t]]
  /\ Goto(t, "deinit")
  /\ UNCHANGED <<build, global_ts, tableVars, db, txnVars, hist>>

\* rw_entry_iceberg_remove of the next one.
Remove(t) ==
  /\ pc[t] = "deinit"
  /\ IF todo[t] = <<>> THEN Goto(t, "idle") /\ UNCHANGED <<tableVars, todo>>
     ELSE /\ Unpin(Head(todo[t]))
          /\ todo' = [todo EXCEPT ![t] = Tail(@)]
          /\ UNCHANGED pc
  /\ UNCHANGED <<build, global_ts, db, txnVars, hist>>

-----------------------------------------------------------------------------
Step(t) ==
  \/ Begin(t) \/ OwnWrite(t) \/ Request(t) \/ CheckLoad(t) \/ TryLock(t)
  \/ Busy(t) \/ Refuse(t) \/ SetWts(t) \/ Get(t) \/ RaiseRts(t) \/ CommitBegin(t)
  \/ Install(t) \/ Unlock(t) \/ Deinit(t) \/ Remove(t)

Done == /\ \A t \in Thread : pc[t] = "idle" /\ count[t] = Len(Programs[t])
        /\ UNCHANGED vars

Next == (\E t \in Thread : Step(t) \/ Abort(t)) \/ Done

Spec == Init /\ [][Next]_vars

-----------------------------------------------------------------------------
(* Properties.                                                             *)

\* Timestamp ordering: the committed transactions are serializable in the
\* order of the timestamps they took when they began.  Writes of a key are
\* stored in that order, and a lookup of a committed transaction delivered the
\* write before its own timestamp, which nobody slipped in later.
SerialByTimestamp ==
  /\ Iso!InCommitOrder
  /\ \A h \in hist : \A r \in h.reads : Iso!ValidAt(h, r)

\* What a transaction asks for the timestamps of a key.
Visible(k) == IF k \in cached THEN stamp[k] ELSE Loaded(k)

\* Wherever a key's timestamps go, to the sketch, to the tuple or back, a
\* later transaction never finds smaller ones.
KeepsTimestamps ==
  \A k \in Key : /\ Visible(k).wts <= Visible(k)'.wts
                 /\ Visible(k).rts <= Visible(k)'.rts

\* A transaction's uncommitted writes are locked by it until it ends, so that
\* abort and commit clear bits of their own; and nobody else's bit is left
\* behind, so every dirty key has an owner that is in the middle of a call or
\* has written it.
DirtyOwned ==
  \A k \in Key, t \in Thread :
    dirty[k] = t <=>
      \/ pc[t] \in {"run", "load", "lock"} /\ k \in writes[t]
      \/ pc[t] \in {"stamp", "get", "raise"} /\ k \in writes[t] \cup {CallKey(t)}
      \/ pc[t] \in {"install", "unlock", "abort"} /\ k \in Elems(todo[t])

\* Every reference to an entry belongs to an rw_entry that will give it back.
PinsOwned ==
  build # "memory" =>
    \A k \in Key :
      refs[k] = Cardinality({t \in Thread :
                  \/ pc[t] \notin {"idle", "deinit"} /\ k \in Elems(order[t])
                  \/ pc[t] = "deinit" /\ k \in Elems(todo[t])})
=============================================================================
