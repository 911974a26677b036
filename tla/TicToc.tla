------------------------------- MODULE TicToc -------------------------------
(***************************************************************************)
(* The TicToc concurrency control of transaction_tictoc_sketch.h (and of   *)
(* transaction_tictoc_memory.h, the same code over a table that keeps      *)
(* every key): lookup, the write set, and the commit that locks the write  *)
(* set, chooses a commit timestamp, validates the read set and installs.   *)
(*                                                                         *)
(* A step is one access to shared memory: one load or compare-and-swap of  *)
(* a timestamp_set, one operation of the timestamp cache (TsCache) or one  *)
(* operation of SplinterDB, which is an atomic map here.  A transaction's  *)
(* calls are the program its thread picks from Programs.                   *)
(***************************************************************************)
EXTENDS TsCache, Sequences

CONSTANTS
  Thread,
  Programs,  \* the transactions each thread begins, one after the other: for
             \* each, the programs it may run; their number is the bound
  MayAbort,  \* the threads whose application may abort on its own
  StartRts   \* read timestamp of each key, left by earlier transactions

Op  == [op : {"lookup", "write"}, key : Key]
Txn == Thread \X Nat

ASSUME TicTocAssumption ==
  /\ IsFiniteSet(Thread)
  /\ Programs \in [Thread -> Seq(SUBSET Seq(Op))]
  /\ MayAbort \subseteq Thread
  /\ StartRts \in [Key -> Nat]

VARIABLES
  db,        \* SplinterDB: the transactions that wrote each key, in order
  pc,        \* where each thread is
  back,      \* where a thread that is evicting goes next
  count,     \* transactions each thread has begun
  calls,     \* calls its transaction has still to make
  order,     \* rw_entries: the keys of the transaction in order of first use
  ent,       \* their rw_entry
  todo,      \* keys left to the loop the thread is in
  cts,       \* commit_ts
  v1,        \* the timestamp_set the thread loaded last
  got,       \* what the lookup in progress has put into its result
  reads,     \* history: what the transaction's lookups returned
  hist       \* history: the transactions that passed validation

txnVars    == <<count, calls, order, ent, got, reads>>
commitVars == <<todo, cts, v1>>
vars == <<cacheVars, db, pc, back, txnVars, commitVars, hist>>

Iso == INSTANCE Isolation

\* rw_entry; held says that tuple_ts is set.
Entry   == [rd : BOOLEAN, wr : BOOLEAN, held : BOOLEAN, wts : Nat, rts : Nat]
NoEntry == [rd |-> FALSE, wr |-> FALSE, held |-> FALSE, wts |-> 0, rts |-> 0]

\* What a lookup delivers: the number of writes SplinterDB had taken for the
\* key, the transaction's own write, or nothing at all.
Own     == -1
Nothing == -2
\* locked: the timestamps recorded with the read had their lock bit set.
Read    == [key : Key, ver : Nat \cup {Nothing}, locked : BOOLEAN]
Commit  == [id : Txn, cts : Nat, reads : SUBSET Read]

Id(t)       == <<t, count[t]>>
WriteSet(t) == {k \in Key : ent[t][k].wr}
ReadSet(t)  == {k \in Key : ent[t][k].rd}
\* The entries transaction_deinit gives back to the table.
Pinned(t)   == {k \in Key : ent[t][k].held /\ Reclaim # "never"}
First(t, S) == order[t][Smallest({i \in DOMAIN order[t] : order[t][i] \in S})]

Goto(t, label) == pc' = [pc EXCEPT ![t] = label]

Init ==
  /\ CacheInit(StartRts)
  /\ db = [k \in Key |-> <<>>]
  /\ pc = [t \in Thread |-> "idle"]
  /\ back = [t \in Thread |-> "idle"]
  /\ count = [t \in Thread |-> 0]
  /\ calls = [t \in Thread |-> <<>>]
  /\ order = [t \in Thread |-> <<>>]
  /\ ent = [t \in Thread |-> [k \in Key |-> NoEntry]]
  /\ todo = [t \in Thread |-> {}]
  /\ cts = [t \in Thread |-> 0]
  /\ v1 = [t \in Thread |-> ZeroTs]
  /\ got = [t \in Thread |-> Nothing]
  /\ reads = [t \in Thread |-> {}]
  /\ hist = {}

-----------------------------------------------------------------------------
(* The calls of a transaction before it commits.                           *)

\* transactional_splinterdb_begin.  The transaction it clears is clear here:
\* Finish wipes it as soon as its content is dead.
Begin(t) ==
  /\ pc[t] = "idle" /\ count[t] < Len(Programs[t])
  /\ count' = [count EXCEPT ![t] = @ + 1]
  /\ \E p \in Programs[t][count[t] + 1] : calls' = [calls EXCEPT ![t] = p]
  /\ Goto(t, "run")
  /\ UNCHANGED <<cacheVars, db, back, order, ent, got, reads, commitVars, hist>>

Calling(t, op) == pc[t] = "run" /\ calls[t] # <<>> /\ Head(calls[t]).op = op
CallKey(t)     == Head(calls[t]).key
Return(t)      == calls' = [calls EXCEPT ![t] = Tail(@)]

\* rw_entry_get: the entry of the key, appended when it is new.
AddEntry(t, k) ==
  order' = IF \E i \in DOMAIN order[t] : order[t][i] = k THEN order
           ELSE [order EXCEPT ![t] = Append(@, k)]

\* local_write: insert, update and delete only touch the transaction.
LocalWrite(t) ==
  /\ Calling(t, "write")
  /\ AddEntry(t, CallKey(t))
  /\ ent' = [ent EXCEPT ![t][CallKey(t)].wr = TRUE]
  /\ Return(t)
  /\ UNCHANGED <<cacheVars, db, pc, back, count, got, reads, commitVars, hist>>

\* Mutant: a second use of the key takes a second reference.
PinTwice(t, k, label) ==
  /\ InsertAndGet(k)
  /\ Goto(t, IF ChecksLoad(k) THEN "check_load" ELSE label)
  /\ back' = [back EXCEPT ![t] = label]

\* rw_entry_iceberg_insert for an entry whose tuple_ts may be set already;
\* a lazy table that took the key in goes through its load check first.
Pin(t, k, label) ==
  IF ent[t][k].held
  THEN /\ Goto(t, label)
       /\ UNCHANGED <<cacheVars, back>>
  ELSE /\ InsertAndGet(k)
       /\ Goto(t, IF ChecksLoad(k) THEN "check_load" ELSE label)
       /\ back' = [back EXCEPT ![t] = label]

\* transactional_splinterdb_lookup up to its loop
LookupPin(t) ==
  /\ Calling(t, "lookup")
  /\ LET k == CallKey(t) IN
       /\ AddEntry(t, k)
       /\ Pin(t, k, "load")
       /\ ent' = [ent EXCEPT ![t][k].rd = TRUE, ![t][k].held = TRUE]
  /\ got' = [got EXCEPT ![t] = Nothing]
  /\ UNCHANGED <<db, count, calls, reads, commitVars, hist>>

\* The load at the head of lookup's loop.  Under a lock the code continues,
\* which in a do-while is a jump to the loop's condition.
LookupLoad(t) ==
  /\ pc[t] = "load"
  /\ LET ts == cell[CallKey(t)] IN
       /\ v1' = [v1 EXCEPT ![t] = ts]
       /\ Goto(t, IF ts.lock THEN "confirm" ELSE "read")
  /\ UNCHANGED <<cacheVars, db, back, txnVars, todo, cts, hist>>

\* The value: the transaction's own write, or what SplinterDB holds.
LookupRead(t) ==
  /\ pc[t] = "read"
  /\ LET k == CallKey(t) IN
       got' = [got EXCEPT ![t] = IF ent[t][k].wr THEN Own ELSE Len(db[k])]
  /\ Goto(t, "confirm")
  /\ UNCHANGED <<cacheVars, db, back, count, calls, order, ent, reads,
                 commitVars, hist>>

\* The loop's condition, a compare-and-swap of v1 with itself: the entry keeps
\* the timestamps of v1 when they are still there, and the loop runs again
\* when they are not.
LookupConfirm(t) ==
  /\ pc[t] = "confirm"
  /\ UNCHANGED <<cacheVars, db, back, count, order, got, commitVars, hist>>
  /\ LET k == CallKey(t) IN
       \/ /\ cell[k] = v1[t]
          /\ ent' = [ent EXCEPT ![t][k].wts = v1[t].wts,
                                ![t][k].rts = Rts(v1[t])]
          /\ reads' = IF got[t] = Own THEN reads
                      ELSE [reads EXCEPT ![t] = @ \cup
                        {[key |-> k, ver |-> got[t], locked |-> v1[t].lock]}]
          /\ Return(t)
          /\ Goto(t, "run")
       \/ /\ cell[k] # v1[t]
          /\ Goto(t, "load")
          /\ UNCHANGED <<calls, ent, reads>>

-----------------------------------------------------------------------------
(* The load check and the eviction of a lazy table.                        *)

CheckLoad(t) ==
  /\ pc[t] = "check_load"
  /\ Goto(t, IF Overloaded THEN "evict" ELSE back[t])
  /\ UNCHANGED <<cacheVars, db, back, txnVars, commitVars, hist>>

\* iceberg_evict turns the clock until it has evicted one entry.
EvictOne(t) ==
  /\ pc[t] = "evict"
  /\ \/ Evict /\ Goto(t, back[t])
     \/ ~Evictable /\ UNCHANGED <<cacheVars, pc>>
  /\ UNCHANGED <<db, back, txnVars, commitVars, hist>>

-----------------------------------------------------------------------------
(* transactional_splinterdb_commit, and abort.                             *)

\* commit_ts starts at the largest wts the transaction read.
CommitBegin(t) ==
  /\ pc[t] = "run" /\ calls[t] = <<>>
  /\ cts' = [cts EXCEPT ![t] =
                CHOOSE w \in {0} \cup {ent[t][k].wts : k \in ReadSet(t)} :
                  \A k \in ReadSet(t) : ent[t][k].wts <= w]
  /\ todo' = [todo EXCEPT ![t] = WriteSet(t)]
  /\ Goto(t, "lock")
  /\ UNCHANGED <<cacheVars, db, back, txnVars, v1, hist>>

\* The lock loop takes the write set in key order.
LockPin(t) ==
  /\ pc[t] = "lock" /\ todo[t] # {}
  /\ LET k == Smallest(todo[t]) IN
       /\ ~ent[t][k].held
       /\ Pin(t, k, "lock")
       /\ ent' = [ent EXCEPT ![t][k].held = TRUE]
  /\ UNCHANGED <<db, count, calls, order, got, reads, commitVars, hist>>

\* Mutant: the locks taken so far are kept for the next try.
BackOffHolding(t, k) ==
  /\ todo' = [todo EXCEPT ![t] = {}]
  /\ Goto(t, "backoff")

\* A failed rw_entry_try_lock gives back the locks taken so far.
BackOff(t, k) ==
  /\ todo' = [todo EXCEPT ![t] = {w \in WriteSet(t) : w < k}]
  /\ Goto(t, "backoff")

\* rw_entry_try_lock: the load
LockLoad(t) ==
  /\ pc[t] = "lock" /\ todo[t] # {}
  /\ LET k == Smallest(todo[t]) IN
       /\ ent[t][k].held
       /\ v1' = [v1 EXCEPT ![t] = cell[k]]
       /\ IF cell[k].lock THEN BackOff(t, k)
                          ELSE Goto(t, "lock_cas") /\ UNCHANGED todo
  /\ UNCHANGED <<cacheVars, db, back, txnVars, cts, hist>>

\* rw_entry_try_lock: the compare-and-swap
LockCas(t) ==
  /\ pc[t] = "lock_cas"
  /\ UNCHANGED <<cached, refs, sketch, db, back, txnVars, cts, v1, hist>>
  /\ LET k == Smallest(todo[t]) IN
       \/ /\ cell[k] = v1[t]
          /\ cell' = [cell EXCEPT ![k] = Locked(v1[t])]
          /\ todo' = [todo EXCEPT ![t] = @ \ {k}]
          /\ Goto(t, "lock")
       \/ /\ cell[k] # v1[t]
          /\ BackOff(t, k)
          /\ UNCHANGED cell

\* rw_entry_unlock: its load and compare-and-swap loop ends by clearing the
\* lock bit of whatever timestamps are there.
Unlock(t, k) ==
  /\ cell' = [cell EXCEPT ![k] = Unlocked(@)]
  /\ todo' = [todo EXCEPT ![t] = @ \ {k}]

BackOffUnlock(t) ==
  /\ pc[t] = "backoff" /\ todo[t] # {}
  /\ Unlock(t, Smallest(todo[t]))
  /\ UNCHANGED <<cached, refs, sketch, db, pc, back, txnVars, cts, v1, hist>>

\* goto RETRY_LOCK_WRITE_SET
LockRetry(t) ==
  /\ pc[t] = "backoff" /\ todo[t] = {}
  /\ todo' = [todo EXCEPT ![t] = WriteSet(t)]
  /\ Goto(t, "lock")
  /\ UNCHANGED <<cacheVars, db, back, txnVars, cts, v1, hist>>

LockDone(t) ==
  /\ pc[t] = "lock" /\ todo[t] = {}
  /\ todo' = [todo EXCEPT ![t] = WriteSet(t)]
  /\ Goto(t, "stamp")
  /\ UNCHANGED <<cacheVars, db, back, txnVars, cts, v1, hist>>

\* Mutant: commit_ts may equal the read timestamp of what is overwritten.
StampAtRts(t) ==
  /\ pc[t] = "stamp" /\ todo[t] # {}
  /\ LET k == Smallest(todo[t]) IN
       /\ cts' = [cts EXCEPT ![t] = Larger(@, Rts(cell[k]))]
       /\ todo' = [todo EXCEPT ![t] = @ \ {k}]
  /\ UNCHANGED <<cacheVars, db, pc, back, txnVars, v1, hist>>

\* commit_ts has to be later than every read of what is overwritten.
Stamp(t) ==
  /\ pc[t] = "stamp" /\ todo[t] # {}
  /\ LET k == Smallest(todo[t]) IN
       /\ cts' = [cts EXCEPT ![t] = Larger(@, Rts(cell[k]) + 1)]
       /\ todo' = [todo EXCEPT ![t] = @ \ {k}]
  /\ UNCHANGED <<cacheVars, db, pc, back, txnVars, v1, hist>>

\* Mutant: only the keys that are also written are validated.
StampDoneWritten(t) ==
  /\ pc[t] = "stamp" /\ todo[t] = {}
  /\ todo' = [todo EXCEPT ![t] =
       {k \in ReadSet(t) : ent[t][k].rts < cts[t] /\ ent[t][k].wr}]
  /\ Goto(t, "validate")
  /\ UNCHANGED <<cacheVars, db, back, txnVars, cts, v1, hist>>

\* Only the reads that are not known to be valid at commit_ts are looked at.
StampDone(t) ==
  /\ pc[t] = "stamp" /\ todo[t] = {}
  /\ todo' = [todo EXCEPT ![t] = {k \in ReadSet(t) : ent[t][k].rts < cts[t]}]
  /\ Goto(t, "validate")
  /\ UNCHANGED <<cacheVars, db, back, txnVars, cts, v1, hist>>

GiveUp(t) ==
  /\ todo' = [todo EXCEPT ![t] = WriteSet(t)]
  /\ Goto(t, "unlock")

\* The load of the validation loop, and its decision when rts > commit_ts.
ValidateLoad(t) ==
  /\ pc[t] = "validate" /\ todo[t] # {}
  /\ LET k == First(t, todo[t]) IN
       /\ v1' = [v1 EXCEPT ![t] = cell[k]]
       /\ CASE Rts(cell[k]) <= cts[t] ->
                 Goto(t, "validate_bit") /\ UNCHANGED todo
            [] Rts(cell[k]) > cts[t] /\ ent[t][k].wts # cell[k].wts ->
                 GiveUp(t)
            [] OTHER ->
                 todo' = [todo EXCEPT ![t] = @ \ {k}] /\ UNCHANGED pc
  /\ UNCHANGED <<cacheVars, db, back, txnVars, cts, hist>>

\* is_locked_by_another looks at the tuple's lock bit, not at the one loaded.
ValidateBit(t) ==
  /\ pc[t] = "validate_bit"
  /\ LET k == First(t, todo[t]) IN
       IF \/ ent[t][k].wts # v1[t].wts
          \/ cell[k].lock /\ ~ent[t][k].wr
       THEN GiveUp(t)
       ELSE Goto(t, "validate_cas") /\ UNCHANGED todo
  /\ UNCHANGED <<cacheVars, db, back, txnVars, cts, v1, hist>>

\* Extend the read timestamp to commit_ts, over the timestamps first loaded.
ValidateCas(t) ==
  /\ pc[t] = "validate_cas"
  /\ Goto(t, "validate")
  /\ LET k == First(t, todo[t]) IN
       \/ /\ cell[k] = v1[t]
          /\ cell' = [cell EXCEPT ![k] = Extended(v1[t], cts[t])]
          /\ todo' = [todo EXCEPT ![t] = @ \ {k}]
       \/ /\ cell[k] # v1[t]
          /\ UNCHANGED <<cell, todo>>
  /\ UNCHANGED <<cached, refs, sketch, db, back, txnVars, cts, v1, hist>>

\* Every read is valid: the transaction commits.
ValidateDone(t) ==
  /\ pc[t] = "validate" /\ todo[t] = {}
  /\ hist' = hist \cup {[id |-> Id(t), cts |-> cts[t], reads |-> reads[t]]}
  /\ todo' = [todo EXCEPT ![t] = WriteSet(t)]
  /\ Goto(t, "install")
  /\ UNCHANGED <<cacheVars, db, back, txnVars, cts, v1>>

\* splinterdb_insert, splinterdb_update or splinterdb_delete
Install(t) ==
  /\ pc[t] = "install" /\ todo[t] # {}
  /\ db' = [db EXCEPT ![Smallest(todo[t])] = Append(@, Id(t))]
  /\ Goto(t, "publish")
  /\ UNCHANGED <<cacheVars, back, txnVars, commitVars, hist>>

\* The loop that sets wts to commit_ts, delta to 0 and clears the lock bit.
Publish(t) ==
  /\ pc[t] = "publish"
  /\ LET k == Smallest(todo[t]) IN
       /\ cell' = [cell EXCEPT ![k] = [lock |-> FALSE, wts |-> cts[t], delta |-> 0]]
       /\ todo' = [todo EXCEPT ![t] = @ \ {k}]
  /\ Goto(t, "install")
  /\ UNCHANGED <<cached, refs, sketch, db, back, txnVars, cts, v1, hist>>

\* A transaction whose validation failed unlocks its write set.
AbortUnlock(t) ==
  /\ pc[t] = "unlock" /\ todo[t] # {}
  /\ Unlock(t, Smallest(todo[t]))
  /\ UNCHANGED <<cached, refs, sketch, db, pc, back, txnVars, cts, v1, hist>>

\* transactional_splinterdb_abort
Abort(t) ==
  /\ pc[t] = "run" /\ t \in MayAbort
  /\ todo' = [todo EXCEPT ![t] = Pinned(t)]
  /\ Goto(t, "unpin")
  /\ UNCHANGED <<cacheVars, db, back, txnVars, cts, v1, hist>>

\* Mutant: only the entries that were read are given back.
CommitEndReads(t) ==
  /\ pc[t] \in {"install", "unlock"} /\ todo[t] = {}
  /\ todo' = [todo EXCEPT ![t] = Pinned(t) \cap ReadSet(t)]
  /\ Goto(t, "unpin")
  /\ UNCHANGED <<cacheVars, db, back, txnVars, cts, v1, hist>>

\* Both ends of commit call transaction_deinit.
CommitEnd(t) ==
  /\ pc[t] \in {"install", "unlock"} /\ todo[t] = {}
  /\ todo' = [todo EXCEPT ![t] = Pinned(t)]
  /\ Goto(t, "unpin")
  /\ UNCHANGED <<cacheVars, db, back, txnVars, cts, v1, hist>>

\* transaction_deinit: rw_entry_iceberg_remove of every entry
Unpin(t) ==
  /\ pc[t] = "unpin" /\ todo[t] # {}
  /\ LET k == First(t, todo[t]) IN
       /\ Release(k)
       /\ ent' = [ent EXCEPT ![t][k].held = FALSE]
       /\ todo' = [todo EXCEPT ![t] = @ \ {k}]
  /\ UNCHANGED <<db, pc, back, count, calls, order, got, reads, cts, v1, hist>>

\* The entries are freed and the call returns.
Finish(t) ==
  /\ pc[t] = "unpin" /\ todo[t] = {}
  /\ Goto(t, "idle")
  /\ calls' = [calls EXCEPT ![t] = <<>>]
  /\ order' = [order EXCEPT ![t] = <<>>]
  /\ ent' = [ent EXCEPT ![t] = [k \in Key |-> NoEntry]]
  /\ got' = [got EXCEPT ![t] = Nothing]
  /\ reads' = [reads EXCEPT ![t] = {}]
  /\ cts' = [cts EXCEPT ![t] = 0]
  /\ v1' = [v1 EXCEPT ![t] = ZeroTs]
  /\ UNCHANGED <<cacheVars, db, back, count, todo, hist>>

-----------------------------------------------------------------------------
Calls(t)  == LocalWrite(t) \/ LookupPin(t) \/ LookupLoad(t) \/ LookupRead(t)
               \/ LookupConfirm(t) \/ CheckLoad(t) \/ EvictOne(t)
Locking(t) == CommitBegin(t) \/ LockPin(t) \/ LockLoad(t) \/ LockCas(t)
               \/ BackOffUnlock(t) \/ LockRetry(t) \/ LockDone(t)
Deciding(t) == Stamp(t) \/ StampDone(t) \/ ValidateLoad(t) \/ ValidateBit(t)
               \/ ValidateCas(t) \/ ValidateDone(t)
Ending(t) == Install(t) \/ Publish(t) \/ AbortUnlock(t) \/ CommitEnd(t)
               \/ Unpin(t) \/ Finish(t)
\* What a thread does of its own once it has begun a transaction.
Step(t) == Calls(t) \/ Locking(t) \/ Deciding(t) \/ Ending(t)

\* Every thread has used up its transactions.
Finished ==
  /\ \A t \in Thread : pc[t] = "idle" /\ count[t] = Len(Programs[t])
  /\ UNCHANGED vars

Next == Finished \/ \E t \in Thread : Begin(t) \/ Step(t) \/ Abort(t)

Spec     == Init /\ [][Next]_vars
\* The operating system keeps running every thread.
FairSpec == Spec /\ \A t \in Thread : WF_vars(Step(t))
-----------------------------------------------------------------------------
(* What the locks and the pins of a thread are, from where it is.          *)

Phase(t) == IF pc[t] \in {"check_load", "evict"} THEN back[t] ELSE pc[t]

LockSet(t) ==
  CASE Phase(t) \in {"lock", "lock_cas"} -> WriteSet(t) \ todo[t]
    [] Phase(t) \in {"stamp", "validate", "validate_bit", "validate_cas"} ->
         WriteSet(t)
    [] Phase(t) \in {"backoff", "install", "publish", "unlock"} -> todo[t]
    [] OTHER -> {}

-----------------------------------------------------------------------------
(* Properties.                                                             *)

Label == {"idle", "run", "load", "read", "confirm", "check_load", "evict",
          "lock", "lock_cas", "backoff", "stamp", "validate", "validate_bit",
          "validate_cas", "install", "publish", "unlock", "unpin"}

\* Every variable keeps its type; a thread's program counter is a label.
TypeOK ==
  /\ CacheTypeOK
  /\ db \in [Key -> Seq(Txn)]
  /\ pc \in [Thread -> Label]
  /\ back \in [Thread -> {"idle", "load", "lock"}]
  /\ count \in [Thread -> Nat]
  /\ calls \in [Thread -> Seq(Op)]
  /\ order \in [Thread -> Seq(Key)]
  /\ ent \in [Thread -> [Key -> Entry]]
  /\ todo \in [Thread -> SUBSET Key]
  /\ cts \in [Thread -> Nat]
  /\ v1 \in [Thread -> TimestampSet]
  /\ got \in [Thread -> Nat \cup {Own, Nothing}]
  /\ reads \in [Thread -> SUBSET Read]
  /\ hist \in SUBSET Commit

\* A tuple's lock bit is set exactly while one thread's commit owns it: locks
\* survive retries, aborts and the timestamp updates of validating readers.
LockOwnership ==
  /\ \A k \in Key : cell[k].lock <=> \E t \in Thread : k \in LockSet(t)
  /\ \A t, u \in Thread : t # u => LockSet(t) \cap LockSet(u) = {}

\* What a thread's own variables say of one another: the loops of a call run
\* over entries that are pinned, the locks taken so far are the keys of the
\* write set below those left, and every read is pinned until the end.
Bookkeeping(t) ==
  /\ \A k \in Key : ent[t][k].rd \/ ent[t][k].wr \/ ent[t][k].held =>
       \E i \in DOMAIN order[t] : order[t][i] = k
  /\ pc[t] # "unpin" => \A k \in ReadSet(t) : ent[t][k].held
  /\ pc[t] = "unpin" => todo[t] = Pinned(t)
  /\ pc[t] \in {"check_load", "evict"} =>
       Reclaim = "lazy" /\ back[t] \in {"load", "lock"}
  /\ Phase(t) \in {"load", "read", "confirm"} =>
       calls[t] # <<>> /\ ent[t][CallKey(t)].held
  /\ Phase(t) \in {"lock", "lock_cas"} =>
       /\ todo[t] \subseteq WriteSet(t)
       /\ \A w \in WriteSet(t) \ todo[t], k \in todo[t] : w < k
  /\ pc[t] = "lock_cas" =>
       todo[t] # {} /\ ent[t][Smallest(todo[t])].held /\ ~v1[t].lock
  /\ pc[t] \in {"stamp", "backoff", "install", "publish", "unlock"} =>
       todo[t] \subseteq WriteSet(t)
  /\ pc[t] \in {"validate", "validate_bit", "validate_cas"} =>
       todo[t] \subseteq ReadSet(t)
  /\ pc[t] \in {"validate_bit", "validate_cas"} =>
       todo[t] # {} /\ Rts(v1[t]) <= cts[t]
  /\ pc[t] = "publish" => todo[t] # {}
  /\ \A k \in LockSet(t) : ent[t][k].held

LoopsOverPinnedEntries == \A t \in Thread : Bookkeeping(t)

\* The pointer a transaction keeps into the table stays valid: the count of a
\* key is the number of transactions that hold it, so no eviction or removal
\* reaches an entry in use and none is left behind pinned.
RefsCountHolders ==
  \A k \in Key :
    /\ Reclaim # "never" => refs[k] = Cardinality({t \in Thread : ent[t][k].held})
    /\ k \notin cached => \A t \in Thread : ~ent[t][k].held

\* The writes of a key reach SplinterDB in the order of their transactions'
\* commit timestamps.
VersionsInCommitOrder == Iso!InCommitOrder

\* A lookup of an unlocked tuple returns a version whose writer is no later
\* than the wts recorded with it, and any transaction that overwrites it gets
\* a commit timestamp beyond the rts recorded with it.
ReadUnderTimestamps ==
  \A t \in Thread : \A r \in reads[t] :
    ~r.locked /\ {q \in reads[t] : q.key = r.key} = {r} =>
      LET k == r.key IN
        /\ r.ver > 0 => Iso!TsOf(db[k][r.ver]) <= ent[t][k].wts
        /\ r.ver < Len(db[k]) => Iso!TsOf(db[k][r.ver + 1]) > ent[t][k].rts

\* A committed transaction's reads are valid at its commit timestamp: what it
\* read was written no later, and overwritten (by another) only later.
ReadsValidAtCommit ==
  \A h \in hist : \A r \in h.reads : ~r.locked => Iso!ValidAt(h, r)

\* Isolation, for the reads that were delivered from an unlocked tuple: what a
\* lookup returns is what its recorded timestamps promise, it is valid at the
\* commit timestamp, and what committed has a serial order.
UnlockedReadsSerializable ==
  /\ ReadUnderTimestamps
  /\ ReadsValidAtCommit
  /\ Iso!Acyclic(LAMBDA h : {r \in h.reads : ~r.locked})

\* The timestamps a key is known by, in the table or in the sketch, never go
\* back, whatever is evicted and taken in again.
TimestampsForward ==
  [][\A k \in Key : /\ Visible(k)'.wts >= Visible(k).wts
                    /\ Rts(Visible(k))' >= Rts(Visible(k))]_vars

\* Every transaction comes to an end: no-wait locking in key order does not
\* livelock, the lookup and validation loops terminate, evictions are found.
\* It needs that no transaction reads a key below one that it writes: others
\* that wait for the key it has locked lock and unlock the lower one again and
\* again, which can fail its validation's compare-and-swap every time.
TransactionEnds ==
  \A t \in Thread : pc[t] # "idle" ~> pc[t] = "idle"
=============================================================================
