-------------------------------- MODULE Mvcc --------------------------------
(***************************************************************************)
(* Multi-version timestamp ordering: a transaction reads the version of a  *)
(* key whose interval of write timestamps holds its own timestamp, and     *)
(* adds a version after the latest one if no later transaction has read    *)
(* that.  Four builds:                                                     *)
(*   "memory"   transaction_mvcc_memory.h: the version lists stay          *)
(*   "counter"  transaction_mvcc_sketch.h with a sketch of one cell: a     *)
(*              list is freed with its last user, and only the value of    *)
(*              the latest version is found again, under a key of its own  *)
(*   "cache"    transaction_mvcc_disk_cache.h: the same, with the latest   *)
(*              version's timestamps in its tuple until the clock evicts   *)
(*   "disk"     transaction_mvcc_disk.h: every version is a tuple with its *)
(*              timestamps, found by an iterator                           *)
(* The reads of a version's fields and the compare-and-swap of its lock    *)
(* are one step: they are looked at again under the lock, and every change *)
(* of them is made under it.                                               *)
(***************************************************************************)
EXTENDS Integers, Sequences, FiniteSets

CONSTANTS
  Thread,
  Key,       \* the keys, which all have a value at the start
  Builds,    \* the builds considered
  Programs,  \* the transactions each thread begins, one after the other: for
             \* each, the programs it may run; their number is the bound
  MayAbort,  \* the threads whose application may abort on its own
  Inf        \* MVCC_TIMESTAMP_INF, above every timestamp

Op  == [op : {"lookup", "write"}, key : Key]

MvccAssumption ==
  /\ IsFiniteSet(Thread) /\ IsFiniteSet(Key) /\ "free" \notin Thread
  /\ Builds \subseteq {"memory", "counter", "cache", "disk"}
  /\ Programs \in [Thread -> Seq(SUBSET Seq(Op))]
  /\ MayAbort \subseteq Thread
  /\ Inf \in Nat

VARIABLES
  build,
  global_ts,
  chain,     \* the versions of each key that can be found, oldest first
  refs,      \* references to each key's entry in the table of lists
  counter,   \* the one cell of the sketch
  latest,    \* what the key's LATEST tuple holds: a version, and timestamps
  db,        \* the transactions that wrote each key, in the order of versions
  pc,        \* where each thread is
  count,     \* transactions each thread has begun
  ts,        \* the timestamp of its transaction
  calls,     \* calls its transaction has still to make
  order,     \* rw_entries: the keys of the transaction in order of first use
  writes,    \* the keys whose rw_entry has a message
  at,        \* the version of each key the transaction looks at, by its place
  todo,      \* the entries left to the loop of commit, abort or deinit
  reads,     \* history: what the transaction's lookups returned
  hist,      \* history: the transactions that committed
  excused    \* history: the versions of keys whose read timestamp was taken
             \* back, or that replaced a later one as the latest

tableVars == <<chain, refs, counter, latest>>
txnVars   == <<count, ts, calls, order, writes, at, reads>>
vars == <<build, global_ts, tableVars, db, pc, txnVars, todo, hist, excused>>

Iso == INSTANCE Isolation

Zero    == [wts |-> 0, rts |-> 0]
Free    == [by |-> "free", holder |-> 0]

Id(t)        == <<t, count[t]>>
Elems(s)     == {s[i] : i \in DOMAIN s}
Larger(a, b) == IF a < b THEN b ELSE a
Merge(a, b)  == [wts |-> Larger(a.wts, b.wts), rts |-> Larger(a.rts, b.rts)]
Last(s)      == s[Len(s)]
Goto(t, label) == pc' = [pc EXCEPT ![t] = label]

\* The builds that keep a list only while it is used.
Forgets == build \in {"counter", "cache"}

\* list_node_init, and the header of a new tuple.  min and max are wts_min and
\* wts_max; top marks MVCC_VERSION_LATEST, whose value is in the LATEST tuple.
NewVersion(wts, rts, ver, top) ==
  [min |-> wts, max |-> Inf, rts |-> rts, ver |-> ver, top |-> top, lock |-> Free]

Init ==
  /\ build \in Builds
  /\ global_ts = 0
  /\ chain = [k \in Key |-> IF Forgets THEN <<>> ELSE <<NewVersion(0, 0, 0, FALSE)>>]
  /\ refs = [k \in Key |-> 0]
  /\ counter = Zero
  /\ latest = [k \in Key |-> [ver |-> 0, stamp |-> Zero]]
  /\ db = [k \in Key |-> <<>>]
  /\ pc = [t \in Thread |-> "idle"]
  /\ count = [t \in Thread |-> 0]
  /\ ts = [t \in Thread |-> 0]
  /\ calls = [t \in Thread |-> <<>>]
  /\ order = [t \in Thread |-> <<>>]
  /\ writes = [t \in Thread |-> {}]
  /\ at = [t \in Thread |-> [k \in Key |-> 0]]
  /\ todo = [t \in Thread |-> <<>>]
  /\ reads = [t \in Thread |-> {}]
  /\ hist = {}
  /\ excused = {}

-----------------------------------------------------------------------------
(* The table of version lists.                                             *)

\* The first version of a list that is made again: the timestamps come from
\* the sketch (sketch_merge_timestamps_to_cache) or from the LATEST tuple
\* (read_from_splinterdb), the value is the LATEST tuple's.
FirstVersion(k) ==
  LET s == IF build = "counter" THEN counter ELSE latest[k].stamp
  IN  NewVersion(s.wts, s.rts, latest[k].ver, TRUE)

\* rw_entry_iceberg_insert of a new rw_entry: whoever comes first makes the
\* list under its head_lock, the others wait for that.
Pin(k) ==
  /\ refs' = [refs EXCEPT ![k] = IF Forgets THEN @ + 1 ELSE @]
  /\ chain' = IF Forgets /\ chain[k] = <<>>
              THEN [chain EXCEPT ![k] = <<FirstVersion(k)>>] ELSE chain
  /\ UNCHANGED <<counter, latest>>

\* rw_entry_iceberg_remove: with the last reference sketch_insert_timestamps
\* saves the latest version's timestamps and free_version_list drops the list.
Unpin(k) ==
  /\ refs' = [refs EXCEPT ![k] = IF Forgets THEN @ - 1 ELSE @]
  /\ IF build = "counter" /\ refs[k] = 1
     THEN /\ counter' = Merge(counter, [wts |-> Last(chain[k]).min,
                                        rts |-> Last(chain[k]).rts])
          /\ chain' = [chain EXCEPT ![k] = <<>>]
     ELSE UNCHANGED <<chain, counter>>
  /\ UNCHANGED latest

\* iceberg_evict with update_timestamp_to_splinterdb.
Evict(k) ==
  /\ chain[k] # <<>> /\ refs[k] = 0
  /\ latest' = [latest EXCEPT ![k].stamp = [wts |-> Last(chain[k]).min,
                                            rts |-> Last(chain[k]).rts]]
  /\ chain' = [chain EXCEPT ![k] = <<>>]
  /\ UNCHANGED <<refs, counter>>

-----------------------------------------------------------------------------
(* Lookups and writes.                                                     *)

\* transactional_splinterdb_begin
Begin(t) ==
  /\ pc[t] = "idle" /\ count[t] < Len(Programs[t])
  /\ global_ts' = global_ts + 1
  /\ ts' = [ts EXCEPT ![t] = global_ts + 1]
  /\ count' = [count EXCEPT ![t] = @ + 1]
  /\ \E p \in Programs[t][count[t] + 1] : calls' = [calls EXCEPT ![t] = p]
  /\ order' = [order EXCEPT ![t] = <<>>]
  /\ writes' = [writes EXCEPT ![t] = {}]
  /\ reads' = [reads EXCEPT ![t] = {}]
  /\ Goto(t, "run")
  /\ UNCHANGED <<build, tableVars, db, at, todo, hist, excused>>

Calling(t) == pc[t] = "run" /\ calls[t] # <<>>
CallKey(t) == Head(calls[t]).key
Writing(t) == Head(calls[t]).op = "write"
Return(t)  == calls' = [calls EXCEPT ![t] = Tail(@)]

\* A key that has a message: a lookup reads it back, another write replaces it.
OwnWrite(t) ==
  /\ Calling(t) /\ CallKey(t) \in writes[t]
  /\ Return(t)
  /\ UNCHANGED <<build, global_ts, tableVars, db, pc, count, ts, order, writes, at,
                 reads, todo, hist, excused>>

\* rw_entry_get and rw_entry_iceberg_insert: the first use of a key pins its
\* list.  A lazy table that took in a new key then looks at its load.
Request(t) ==
  /\ Calling(t) /\ CallKey(t) \notin writes[t]
  /\ LET k == CallKey(t) IN
       IF k \in Elems(order[t]) THEN UNCHANGED <<tableVars, order>> /\ Goto(t, "find")
       ELSE /\ Pin(k)
            /\ order' = [order EXCEPT ![t] = Append(@, k)]
            /\ Goto(t, IF build = "cache" /\ chain[k] = <<>> THEN "load" ELSE "find")
  /\ UNCHANGED <<build, global_ts, db, count, ts, calls, writes, at, reads, todo,
                 hist, excused>>

\* tot_balls_aprox is off by what the threads have not added up yet: the table
\* may or may not find itself overloaded, and then has an unused entry.
CheckLoad(t) ==
  /\ pc[t] = "load"
  /\ UNCHANGED tableVars \/ \E k \in Key : Evict(k)
  /\ Goto(t, "find")
  /\ UNCHANGED <<build, global_ts, db, txnVars, todo, hist, excused>>

\* The versions a lookup can use.
Readable(t, k) == {i \in DOMAIN chain[k] :
                     chain[k][i].min <= ts[t] /\ ts[t] < chain[k][i].max}

\* Where the walk from the head of the list stops, 0 if it finds none.
Newest(S) == IF S = {} THEN 0 ELSE CHOOSE i \in S : \A j \in S : j <= i

\* local_write refuses a key whose latest version is closed by, or was read by,
\* a later transaction.
Passed(t, v) == (v.max # Inf /\ v.max > ts[t]) \/ v.rts > ts[t]

\* The entries the loops of commit and abort go over: those with a message.
Held(t) ==
  LET held[n \in 0 .. Len(order[t])] ==
        IF n = 0 THEN <<>>
        ELSE IF order[t][n] \in writes[t] THEN Append(held[n - 1], order[t][n])
        ELSE held[n - 1]
  IN  held[Len(order[t])]
Give(t) == Goto(t, "abort") /\ todo' = [todo EXCEPT ![t] = Held(t)]

\* The version to work on: for a lookup the newest one that holds ts, for a
\* write the latest.  None, or a refusal, aborts inside the call.
Find(t) ==
  /\ pc[t] = "find"
  /\ LET k == CallKey(t)
         i == IF Writing(t) THEN Len(chain[k]) ELSE Newest(Readable(t, k)) IN
       IF i = 0 \/ (Writing(t) /\ Passed(t, chain[k][i]))
       THEN Give(t) /\ UNCHANGED at
       ELSE /\ at' = [at EXCEPT ![t][k] = i]
            /\ Goto(t, "lock") /\ UNCHANGED todo
  /\ UNCHANGED <<build, global_ts, tableVars, db, count, ts, calls, order, writes,
                 reads, hist, excused>>

The(t, k) == chain[k][at[t][k]]

\* Mutant: everybody waits for everybody.
RefusedNoOrder(t, v) == Writing(t) /\ Passed(t, v)

\* VERSION_LOCK_STATUS_ABORT: passed by a later transaction, or locked by one,
\* for which nobody waits so that there are no deadlocks.
Refused(t, v) ==
  \/ Writing(t) /\ Passed(t, v)
  \/ v.lock # Free /\ v.lock.holder > ts[t]

\* VERSION_LOCK_STATUS_RETRY_VERSION: a newer version has to be found.
Outdated(t, v) == v.max # Inf /\ v.max < ts[t]

\* Mutant: who has found a version takes its lock.
TryLockAny(t) ==
  /\ pc[t] = "lock"
  /\ LET k == CallKey(t)
         v == The(t, k) IN
       /\ ~Refused(t, v) /\ v.lock = Free
       /\ chain' = [chain EXCEPT ![k][at[t][k]].lock =
                      [by |-> t, holder |-> IF Writing(t) THEN ts[t] ELSE 0]]
       /\ writes' = IF Writing(t) THEN [writes EXCEPT ![t] = @ \cup {k}] ELSE writes
  /\ IF Writing(t) THEN Return(t) /\ Goto(t, "run") ELSE Goto(t, "get") /\ UNCHANGED calls
  /\ UNCHANGED <<build, global_ts, refs, counter, latest, db, count, ts, order, at,
                 reads, todo, hist, excused>>

\* version_meta_try_wrlock, version_meta_try_rdlock: a reader locks as
\* holder 0, for which everybody waits.
TryLock(t) ==
  /\ pc[t] = "lock"
  /\ LET k == CallKey(t)
         v == The(t, k) IN
       /\ ~Refused(t, v) /\ ~Outdated(t, v) /\ v.lock = Free
       /\ chain' = [chain EXCEPT ![k][at[t][k]].lock =
                      [by |-> t, holder |-> IF Writing(t) THEN ts[t] ELSE 0]]
       /\ writes' = IF Writing(t) THEN [writes EXCEPT ![t] = @ \cup {k}] ELSE writes
  /\ IF Writing(t) THEN Return(t) /\ Goto(t, "run") ELSE Goto(t, "get") /\ UNCHANGED calls
  /\ UNCHANGED <<build, global_ts, refs, counter, latest, db, count, ts, order, at,
                 reads, todo, hist, excused>>

Busy(t) ==
  /\ pc[t] = "lock"
  /\ LET v == The(t, CallKey(t))
     IN  ~Refused(t, v) /\ ~Outdated(t, v) /\ v.lock # Free
  /\ UNCHANGED vars

Refuse(t) ==
  /\ pc[t] = "lock"
  /\ Refused(t, The(t, CallKey(t)))
  /\ Give(t)
  /\ UNCHANGED <<build, global_ts, tableVars, db, txnVars, hist, excused>>

Retry(t) ==
  /\ pc[t] = "lock"
  /\ LET v == The(t, CallKey(t)) IN ~Refused(t, v) /\ Outdated(t, v)
  /\ Goto(t, "find")
  /\ UNCHANGED <<build, global_ts, tableVars, db, txnVars, todo, hist, excused>>

\* The read timestamp a lookup leaves: merge_mvcc_tuple takes the larger one,
\* the others store their own.
NewRts(t, v) == IF build = "disk" THEN Larger(v.rts, ts[t]) ELSE ts[t]

\* The lookup under the version's lock, its read timestamp and the unlock.
\* An older reader of a version takes the timestamp of a later one back: of
\* version n, which is what r should be.
Get(t) ==
  /\ pc[t] = "get"
  /\ LET k == CallKey(t)
         v == The(t, k)
         r == [key |-> k, ver |-> IF v.top THEN latest[k].ver ELSE v.ver]
         n == [key |-> k, ver |-> IF v.top THEN Len(db[k]) ELSE v.ver] IN
       /\ reads' = [reads EXCEPT ![t] = @ \cup {r}]
       /\ chain' = [chain EXCEPT ![k][at[t][k]].rts = NewRts(t, v),
                                 ![k][at[t][k]].lock = Free]
       /\ excused' = IF NewRts(t, v) < v.rts THEN excused \cup {n} ELSE excused
  /\ Return(t)
  /\ Goto(t, "run")
  /\ UNCHANGED <<build, global_ts, refs, counter, latest, db, count, ts, order,
                 writes, at, todo, hist>>

-----------------------------------------------------------------------------
(* The end of a transaction.                                               *)

CommitBegin(t) ==
  /\ pc[t] = "run" /\ calls[t] = <<>>
  /\ todo' = [todo EXCEPT ![t] = Held(t)]
  /\ hist' = hist \cup {[id |-> Id(t), cts |-> ts[t], reads |-> reads[t]]}
  /\ Goto(t, "publish")
  /\ UNCHANGED <<build, global_ts, tableVars, db, txnVars, excused>>

\* The application gives up before all its calls are made.
Abort(t) ==
  /\ t \in MayAbort /\ Calling(t)
  /\ Give(t)
  /\ UNCHANGED <<build, global_ts, tableVars, db, txnVars, hist, excused>>

\* The tuple of the new version is stored and, where versions are found in a
\* list, its node put at the head.
Publish(t) ==
  /\ pc[t] = "publish" /\ todo[t] # <<>>
  /\ LET k == Head(todo[t]) IN
       /\ db' = [db EXCEPT ![k] = Append(@, Id(t))]
       /\ chain' = [chain EXCEPT ![k] =
                      Append(@, NewVersion(ts[t], ts[t], Len(db[k]) + 1, FALSE))]
  /\ Goto(t, "close")
  /\ UNCHANGED <<build, global_ts, refs, counter, latest, txnVars, todo, hist, excused>>

\* The previous version ends where the new one begins.  One that was found
\* under the LATEST key is about to be overwritten, and ends at once.
Close(t) ==
  /\ pc[t] = "close"
  /\ LET k == Head(todo[t]) IN
       chain' = [chain EXCEPT ![k][at[t][k]].max =
                   IF The(t, k).top THEN 0 ELSE ts[t]]
  /\ Goto(t, IF Forgets THEN "latest" ELSE "unlock")
  /\ UNCHANGED <<build, global_ts, refs, counter, latest, db, txnVars, todo, hist,
                 excused>>

\* Somebody has a version of k to store under LATEST still.
Storing(S, k) == \E u \in S : pc[u] \in {"close", "latest"} /\ Head(todo[u]) = k

\* The builds that forget versions store the value a second time, under LATEST.
\* Nothing orders this with the next writer, who had only to find the new
\* version: the older value may come last, and is then what the next list
\* begins with.
InsertLatest(t) ==
  /\ pc[t] = "latest"
  /\ LET k == Head(todo[t])
         v == chain[k][at[t][k] + 1].ver IN
       /\ latest' = [latest EXCEPT ![k] = [ver |-> v, stamp |-> [wts |-> ts[t], rts |-> ts[t]]]]
       /\ excused' = IF v < Len(db[k]) /\ ~Storing(Thread \ {t}, k)
                     THEN excused \cup {[key |-> k, ver |-> v]} ELSE excused
  /\ Goto(t, "unlock")
  /\ UNCHANGED <<build, global_ts, chain, refs, counter, db, txnVars, todo, hist>>

\* version_meta_unlock: after the version was closed, or in the loop of abort.
Unlock(t) ==
  /\ pc[t] = "unlock" \/ (pc[t] = "abort" /\ todo[t] # <<>>)
  /\ LET k == Head(todo[t]) IN
       chain' = IF pc[t] = "abort" /\ The(t, k).lock.holder # ts[t] THEN chain
                ELSE [chain EXCEPT ![k][at[t][k]].lock = Free]
  /\ todo' = [todo EXCEPT ![t] = Tail(@)]
  /\ Goto(t, IF pc[t] = "unlock" THEN "publish" ELSE "abort")
  /\ UNCHANGED <<build, global_ts, refs, counter, latest, db, txnVars, hist, excused>>

\* transaction_deinit goes over all entries; where no list is forgotten, that
\* changes nothing others see.
Deinit(t) ==
  /\ pc[t] \in {"publish", "abort"} /\ todo[t] = <<>>
  /\ todo' = [todo EXCEPT ![t] = IF Forgets THEN order[t] ELSE <<>>]
  /\ Goto(t, "deinit")
  /\ UNCHANGED <<build, global_ts, tableVars, db, txnVars, hist, excused>>

\* rw_entry_iceberg_remove of the next one.
Remove(t) ==
  /\ pc[t] = "deinit"
  /\ IF todo[t] = <<>> THEN Goto(t, "idle") /\ UNCHANGED <<tableVars, todo>>
     ELSE /\ Unpin(Head(todo[t]))
          /\ todo' = [todo EXCEPT ![t] = Tail(@)]
          /\ UNCHANGED pc
  /\ UNCHANGED <<build, global_ts, db, txnVars, hist, excused>>

-----------------------------------------------------------------------------
Step(t) ==
  \/ Begin(t) \/ OwnWrite(t) \/ Request(t) \/ CheckLoad(t) \/ Find(t)
  \/ TryLock(t) \/ Busy(t) \/ Refuse(t) \/ Retry(t) \/ Get(t)
  \/ CommitBegin(t) \/ Publish(t) \/ Close(t) \/ InsertLatest(t) \/ Unlock(t)
  \/ Deinit(t) \/ Remove(t)

Done == /\ \A t \in Thread : pc[t] = "idle" /\ count[t] = Len(Programs[t])
        /\ UNCHANGED vars

Next == (\E t \in Thread : Step(t) \/ Abort(t)) \/ Done

Spec == Init /\ [][Next]_vars

-----------------------------------------------------------------------------
(* Properties.                                                             *)

\* The committed transactions are serializable in the order of the timestamps
\* they took when they began: versions are in that order, and a lookup of a
\* committed transaction delivered the one before its own timestamp, between
\* which and itself nobody wrote later, or wrote later only after an older
\* reader had taken the read timestamp back, or an older write had become
\* the latest.
SerialByTimestamp ==
  /\ Iso!InCommitOrder
  /\ \A h \in hist : \A r \in h.reads : r \in excused \/ Iso!ValidAt(h, r)

\* The versions of a key divide time: each begins after the one before, and
\* that one ends where it begins, or at once if its value is gone; only while
\* the writer of the next is on its way is it still open.
VersionsPartitionTime ==
  \A k \in Key : \A i \in 1 .. Len(chain[k]) - 1 :
    LET v == chain[k][i]
        n == chain[k][i + 1] IN
      /\ v.min < n.min
      /\ \/ v.max = (IF v.top THEN 0 ELSE n.min)
         \/ v.max = Inf /\ \E t \in Thread :
              pc[t] = "close" /\ Head(todo[t]) = k /\ at[t][k] = i /\ ts[t] = n.min

\* The lock of a version is held by a transaction that is writing the next one
\* or reading it, and by nobody who has ended.
LocksOwned ==
  \A k \in Key, t \in Thread :
    {i \in DOMAIN chain[k] : chain[k][i].lock.by = t} =
      (IF \/ pc[t] \in {"run", "load", "find", "lock", "get"} /\ k \in writes[t]
          \/ pc[t] \in {"publish", "close", "latest", "unlock", "abort"} /\ k \in Elems(todo[t])
          \/ pc[t] = "get" /\ k = CallKey(t)
       THEN {at[t][k]} ELSE {})

\* A list is there while somebody uses it, and each reference to it belongs to
\* an rw_entry that will give it back.
PinsOwned ==
  Forgets =>
    \A k \in Key :
      /\ refs[k] = Cardinality({t \in Thread :
                     \/ pc[t] \notin {"idle", "deinit"} /\ k \in Elems(order[t])
                     \/ pc[t] = "deinit" /\ k \in Elems(todo[t])})
      /\ refs[k] > 0 => chain[k] # <<>>
=============================================================================
