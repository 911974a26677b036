----------------------------- MODULE TicTocDisk -----------------------------
(***************************************************************************)
(* TicToc with the timestamps in the stored tuples and a lock table, as in *)
(* transaction_tictoc_disk_ext.h, the build's default mode.  Forgiving     *)
(* selects it; without it this is transaction_tictoc_disk.h, the same code *)
(* without the history of recent writes.                                   *)
(*                                                                         *)
(* A lookup gets value and timestamps in one operation of SplinterDB.  A   *)
(* read timestamp is moved by a message that is merged into the tuple.     *)
(* While transactions use a key, the commit timestamps of its writes are   *)
(* logged, and a validation that finds a version too new for its commit    *)
(* timestamp asks the log whether any came in between.                     *)
(*                                                                         *)
(* A step is one operation of SplinterDB, of the lock table or of the      *)
(* history cache, or one section under a history entry's mutex.            *)
(***************************************************************************)
EXTENDS LockTable, Sequences, FiniteSets

CONSTANTS
  Forgiving, \* the history is kept, and validation asks it
  MaxLog,    \* EXT_HIST_MAX_WRITES
  Programs,  \* the transactions each thread begins, one after the other: for
             \* each, the programs it may run; their number is the bound
  MayAbort,  \* the threads whose application may abort on its own
  StartTuple \* what is stored of each key

\* A tuple_header with its value; a key with no tuple; and a read timestamp
\* that has been stored for such a key.  No rts is before the wts.
Absent == [kind |-> "absent", wts |-> 0, rts |-> 0]
Orphan == [kind |-> "orphan", wts |-> 0, rts |-> 0]
Tuple  == {Absent, Orphan} \cup
          {u \in [kind : {"value"}, wts : Nat, rts : Nat] : u.wts <= u.rts}

Op  == [op : {"lookup", "write", "delete"}, key : Key]
Txn == Thread \X Nat

ASSUME TicTocDiskAssumption ==
  /\ IsFiniteSet(Key) /\ IsFiniteSet(Thread)
  /\ Forgiving \in BOOLEAN
  /\ MaxLog \in Nat
  /\ Programs \in [Thread -> Seq(SUBSET Seq(Op))]
  /\ MayAbort \subseteq Thread
  /\ StartTuple \in [Key -> Tuple \ {Orphan}]

VARIABLES
  tuple,     \* SplinterDB: the tuple of each key
  db,        \* history: the transactions that wrote each key, in order
  log,       \* wts_list of each key's entry in the history cache
  refs,      \* reference counts of these entries
  ready,     \* the keys whose entry has its tictoc_hist_entry
  pc,        \* where each thread is
  back,      \* where a thread that is pinning a history entry goes next
  count,     \* transactions each thread has begun
  calls,     \* calls its transaction has still to make
  order,     \* rw_entries: the keys of the transaction in order of first use
  ent,       \* their rw_entry
  todo,      \* keys left to the loop the thread is in
  cts,       \* commit_ts
  rc,        \* lock_rc of the read being validated
  seen,      \* the timestamps the thread read last
  got,       \* what the lookup in progress has put into its result
  reads,     \* history: what the transaction's lookups returned
  hist       \* history: the transactions that passed validation

histVars   == <<log, refs, ready>>
txnVars    == <<count, calls, order, ent, got, reads>>
commitVars == <<todo, cts, rc, seen>>
vars == <<lockVars, tuple, db, histVars, pc, back, txnVars, commitVars, hist>>

Iso == INSTANCE Isolation

\* rw_entry; held says that hist_entry is set, and the lock is LockTable's.
Entry   == [rd : BOOLEAN, wr : {"none", "write", "delete"}, held : BOOLEAN,
            wts : Nat, rts : Nat]
NoEntry == [rd |-> FALSE, wr |-> "none", held |-> FALSE, wts |-> 0, rts |-> 0]

\* What a lookup delivers: the number of writes the key had seen, or the
\* transaction's own write.
Own     == -1
Read    == [key : Key, ver : Nat]
Commit  == [id : Txn, cts : Nat, reads : SUBSET Read]

Id(t)       == <<t, count[t]>>
WriteSet(t) == {k \in Key : ent[t][k].wr # "none"}
ReadSet(t)  == {k \in Key : ent[t][k].rd}
Pinned(t)   == {k \in Key : ent[t][k].held}

Smallest(S)  == CHOOSE x \in S : \A y \in S : x <= y
Largest(S)   == CHOOSE x \in S : \A y \in S : y <= x
First(t, S)  == order[t][Smallest({i \in DOMAIN order[t] : order[t][i] \in S})]

Goto(t, label) == pc' = [pc EXCEPT ![t] = label]

Init ==
  /\ LockInit
  /\ tuple = StartTuple
  /\ db = [k \in Key |-> <<>>]
  /\ log = [k \in Key |-> <<>>]
  /\ refs = [k \in Key |-> 0]
  /\ ready = {}
  /\ pc = [t \in Thread |-> "idle"]
  /\ back = [t \in Thread |-> "idle"]
  /\ count = [t \in Thread |-> 0]
  /\ calls = [t \in Thread |-> <<>>]
  /\ order = [t \in Thread |-> <<>>]
  /\ ent = [t \in Thread |-> [k \in Key |-> NoEntry]]
  /\ todo = [t \in Thread |-> {}]
  /\ cts = [t \in Thread |-> 0]
  /\ rc = [t \in Thread |-> "ok"]
  /\ seen = [t \in Thread |-> Absent]
  /\ got = [t \in Thread |-> Own]
  /\ reads = [t \in Thread |-> {}]
  /\ hist = {}

-----------------------------------------------------------------------------
(* The stored tuples.                                                      *)

\* splinterdb_lookup ends by merging what it found: a read timestamp without
\* a tuple under it fails merge_tictoc_tuple_final's assertion.
Mergeable(k) == tuple[k].kind # "orphan"

\* A read-timestamp message, merged into the tuple below it.
MoveRts(k, c) ==
  tuple' = [tuple EXCEPT ![k] = IF @.kind = "value" THEN [@ EXCEPT !.rts = c]
                                ELSE Orphan]

\* splinterdb_insert, _update or _delete of a tuple stamped with c.
Store(k, wr, c) ==
  tuple' = [tuple EXCEPT ![k] =
    IF wr = "delete" THEN Absent ELSE [kind |-> "value", wts |-> c, rts |-> c]]

-----------------------------------------------------------------------------
(* The history cache.                                                      *)

\* rw_entry_histcache_insert: the thread that creates the entry goes on to
\* allocate what it points to, the others wait for the pointer.
Pin(t, k, label) ==
  /\ refs' = [refs EXCEPT ![k] = @ + 1]
  /\ back' = [back EXCEPT ![t] = label]
  /\ Goto(t, IF refs[k] = 0 THEN "alloc" ELSE "spin")
  /\ UNCHANGED <<log, ready>>

\* rw_entry_histcache_remove: the last reference frees the entry.
Unpin1(k) ==
  /\ refs' = [refs EXCEPT ![k] = @ - 1]
  /\ IF refs[k] = 1
     THEN log' = [log EXCEPT ![k] = <<>>] /\ ready' = ready \ {k}
     ELSE UNCHANGED <<log, ready>>

CallKey(t) == Head(calls[t]).key
PinKey(t)  == IF back[t] = "lock" THEN Smallest(todo[t]) ELSE CallKey(t)

HistAlloc(t) ==
  /\ pc[t] = "alloc"
  /\ ready' = ready \cup {PinKey(t)}
  /\ Goto(t, back[t])
  /\ UNCHANGED <<lockVars, tuple, db, log, refs, back, txnVars, commitVars, hist>>

HistSpin(t) ==
  /\ pc[t] = "spin" /\ PinKey(t) \in ready
  /\ Goto(t, back[t])
  /\ UNCHANGED <<lockVars, tuple, db, histVars, back, txnVars, commitVars, hist>>

-----------------------------------------------------------------------------
(* The calls of a transaction before it commits.                           *)

\* transactional_splinterdb_begin.  The transaction it clears is clear here:
\* Finish wipes it as soon as its content is dead.
Begin(t) ==
  /\ pc[t] = "idle" /\ count[t] < Len(Programs[t])
  /\ count' = [count EXCEPT ![t] = @ + 1]
  /\ \E p \in Programs[t][count[t] + 1] : calls' = [calls EXCEPT ![t] = p]
  /\ Goto(t, "run")
  /\ UNCHANGED <<lockVars, tuple, db, histVars, back, order, ent, got, reads,
                 commitVars, hist>>

Calling(t, ops) == pc[t] = "run" /\ calls[t] # <<>> /\ Head(calls[t]).op \in ops
Return(t)       == calls' = [calls EXCEPT ![t] = Tail(@)]

\* rw_entry_get: the entry of the key, appended when it is new.
AddEntry(t, k) ==
  order' = IF \E i \in DOMAIN order[t] : order[t][i] = k THEN order
           ELSE [order EXCEPT ![t] = Append(@, k)]

\* local_write: the last definitive message of a key is the one that counts.
LocalWrite(t) ==
  /\ Calling(t, {"write", "delete"})
  /\ AddEntry(t, CallKey(t))
  /\ ent' = [ent EXCEPT ![t][CallKey(t)].wr = Head(calls[t]).op]
  /\ Return(t)
  /\ UNCHANGED <<lockVars, tuple, db, histVars, pc, back, count, got, reads,
                 commitVars, hist>>

\* transactional_splinterdb_lookup up to where it reads
Lookup(t) ==
  /\ Calling(t, {"lookup"})
  /\ LET k    == CallKey(t)
         next == IF k \in WriteSet(t) THEN "own" ELSE "read"
     IN  /\ AddEntry(t, k)
         /\ ent' = [ent EXCEPT ![t][k].rd = TRUE, ![t][k].held = Forgiving]
         /\ IF Forgiving /\ ~ent[t][k].held
            THEN Pin(t, k, next)
            ELSE Goto(t, next) /\ UNCHANGED <<histVars, back>>
  /\ UNCHANGED <<lockVars, tuple, db, count, calls, got, reads, commitVars, hist>>

\* A key the transaction has written: its value is returned, and the stored
\* timestamps are recorded if there are any.
LookupOwn(t) ==
  /\ pc[t] = "own"
  /\ LET k == CallKey(t) IN
       /\ Mergeable(k)
       /\ ent' = IF tuple[k].kind = "absent" THEN ent
                 ELSE [ent EXCEPT ![t][k].wts = tuple[k].wts,
                                  ![t][k].rts = tuple[k].rts]
  /\ got' = [got EXCEPT ![t] = Own]
  /\ Return(t)
  /\ Goto(t, "run")
  /\ UNCHANGED <<lockVars, tuple, db, histVars, back, count, order, reads,
                 commitVars, hist>>

\* splinterdb_lookup
LookupRead(t) ==
  /\ pc[t] = "read"
  /\ LET k == CallKey(t) IN
       /\ Mergeable(k)
       /\ got' = [got EXCEPT ![t] = Len(db[k])]
       /\ seen' = [seen EXCEPT ![t] = tuple[k]]
  /\ Goto(t, "check")
  /\ UNCHANGED <<lockVars, tuple, db, histVars, back, count, calls, order, ent,
                 reads, todo, cts, rc, hist>>

\* The loop's condition, and what the lookup records.
LookupCheck(t) ==
  /\ pc[t] = "check"
  /\ LET k == CallKey(t) IN
       \/ /\ Busy(k)
          /\ Goto(t, "read")
          /\ UNCHANGED <<calls, ent, reads>>
       \/ /\ ~Busy(k)
          /\ ent' = [ent EXCEPT ![t][k].wts = seen[t].wts,
                                ![t][k].rts = seen[t].rts]
          /\ reads' = [reads EXCEPT ![t] = @ \cup {[key |-> k, ver |-> got[t]]}]
          /\ Return(t)
          /\ Goto(t, "run")
  /\ UNCHANGED <<lockVars, tuple, db, histVars, back, count, order, got,
                 commitVars, hist>>

-----------------------------------------------------------------------------
(* transactional_splinterdb_commit, and abort.                             *)

\* commit_ts starts at the largest wts the transaction read.
CommitBegin(t) ==
  /\ pc[t] = "run" /\ calls[t] = <<>>
  /\ cts' = [cts EXCEPT ![t] = Largest({0} \cup {ent[t][k].wts : k \in ReadSet(t)})]
  /\ todo' = [todo EXCEPT ![t] = WriteSet(t)]
  /\ Goto(t, "lock")
  /\ UNCHANGED <<lockVars, tuple, db, histVars, back, txnVars, rc, seen, hist>>

\* The lock loop takes the write set in key order; each entry needs its
\* history entry first.
LockPin(t) ==
  /\ pc[t] = "lock" /\ todo[t] # {} /\ Forgiving
  /\ LET k == Smallest(todo[t]) IN
       /\ ~ent[t][k].held
       /\ Pin(t, k, "lock")
       /\ ent' = [ent EXCEPT ![t][k].held = TRUE]
  /\ UNCHANGED <<lockVars, tuple, db, count, calls, order, got, reads,
                 commitVars, hist>>

\* Mutant: they are kept for the next try.
BackOffHolding(t, k) ==
  /\ todo' = [todo EXCEPT ![t] = {}]
  /\ Goto(t, "backoff")

\* The locks taken so far, when that of k is busy, are given back.
BackOff(t, k) ==
  /\ todo' = [todo EXCEPT ![t] = {w \in WriteSet(t) : w < k}]
  /\ Goto(t, "backoff")

LockTry(t) ==
  /\ pc[t] = "lock" /\ todo[t] # {}
  /\ LET k == Smallest(todo[t]) IN
       /\ Forgiving => ent[t][k].held
       /\ AcquireRc(t, k) # "deadlk"
       /\ TryAcquire(t, k)
       /\ IF AcquireRc(t, k) = "busy" THEN BackOff(t, k)
          ELSE todo' = [todo EXCEPT ![t] = @ \ {k}] /\ UNCHANGED pc
  /\ UNCHANGED <<tuple, db, histVars, back, txnVars, cts, rc, seen, hist>>

\* lock_table_release_entry_lock of the next key of a loop
ReleaseNext(t) ==
  /\ ReleaseLock(t, Smallest(todo[t]))
  /\ todo' = [todo EXCEPT ![t] = @ \ {Smallest(todo[t])}]

BackOffUnlock(t) ==
  /\ pc[t] = "backoff" /\ todo[t] # {}
  /\ ReleaseNext(t)
  /\ UNCHANGED <<tuple, db, histVars, pc, back, txnVars, cts, rc, seen, hist>>

\* goto RETRY_LOCK_WRITE_SET
LockRetry(t) ==
  /\ pc[t] = "backoff" /\ todo[t] = {}
  /\ todo' = [todo EXCEPT ![t] = WriteSet(t)]
  /\ Goto(t, "lock")
  /\ UNCHANGED <<lockVars, tuple, db, histVars, back, txnVars, cts, rc, seen, hist>>

LockDone(t) ==
  /\ pc[t] = "lock" /\ todo[t] = {}
  /\ todo' = [todo EXCEPT ![t] = WriteSet(t)]
  /\ Goto(t, "stamp")
  /\ UNCHANGED <<lockVars, tuple, db, histVars, back, txnVars, cts, rc, seen, hist>>

\* commit_ts has to be later than every read of what is overwritten.
Stamp(t) ==
  /\ pc[t] = "stamp" /\ todo[t] # {}
  /\ LET k == Smallest(todo[t]) IN
       /\ Mergeable(k)
       /\ cts' = [cts EXCEPT ![t] = Largest({@, tuple[k].rts + 1})]
       /\ todo' = [todo EXCEPT ![t] = @ \ {k}]
  /\ UNCHANGED <<lockVars, tuple, db, histVars, pc, back, txnVars, rc, seen, hist>>

\* Only the reads that are not known to be valid at commit_ts are looked at.
StampDone(t) ==
  /\ pc[t] = "stamp" /\ todo[t] = {}
  /\ todo' = [todo EXCEPT ![t] = {k \in ReadSet(t) : ent[t][k].rts < cts[t]}]
  /\ Goto(t, "validate")
  /\ UNCHANGED <<lockVars, tuple, db, histVars, back, txnVars, cts, rc, seen, hist>>

\* The read that is being validated.
Validated(t) == First(t, todo[t])

ValidateLock(t) ==
  /\ pc[t] = "validate" /\ todo[t] # {}
  /\ rc' = [rc EXCEPT ![t] = AcquireRc(t, Validated(t))]
  /\ TryAcquire(t, Validated(t))
  /\ Goto(t, "stamps")
  /\ UNCHANGED <<tuple, db, histVars, back, txnVars, todo, cts, seen, hist>>

\* is_abort = TRUE, and out of the loop.
GiveUp(t) ==
  /\ todo' = [todo EXCEPT ![t] = WriteSet(t)]
  /\ Goto(t, "unlock")

\* Mutant: rts is moved without looking at where it is.
ValidateStampsMoving(t) ==
  /\ pc[t] = "stamps"
  /\ LET k == Validated(t) IN
       /\ Mergeable(k)
       /\ seen' = [seen EXCEPT ![t] = tuple[k]]
       /\ IF tuple[k].wts = ent[t][k].wts /\ rc[t] = "busy"
          THEN GiveUp(t)
          ELSE /\ Goto(t, IF tuple[k].wts # ent[t][k].wts THEN "differs" ELSE "extend")
               /\ UNCHANGED todo
  /\ UNCHANGED <<lockVars, tuple, db, histVars, back, txnVars, cts, rc, hist>>

\* get_global_timestamps, and what it decides.
ValidateStamps(t) ==
  /\ pc[t] = "stamps"
  /\ LET k   == Validated(t)
         now == tuple[k]
     IN  /\ Mergeable(k)
         /\ seen' = [seen EXCEPT ![t] = now]
         /\ IF now.wts = ent[t][k].wts /\ now.rts <= cts[t] /\ rc[t] = "busy"
            THEN GiveUp(t)
            ELSE /\ Goto(t, CASE now.wts # ent[t][k].wts -> "differs"
                              [] now.wts = ent[t][k].wts /\ now.rts < cts[t] -> "extend"
                              [] OTHER -> "next")
                 /\ UNCHANGED todo
  /\ UNCHANGED <<lockVars, tuple, db, histVars, back, txnVars, cts, rc, hist>>

\* The lock taken for a validation is given back.
ReleaseIfTaken(t) ==
  IF rc[t] = "ok" THEN ReleaseLock(t, Validated(t)) ELSE UNCHANGED lockVars

\* Another version is there: a hard abort if it is in the commit window.
ValidateDiffers(t) ==
  /\ pc[t] = "differs"
  /\ ReleaseIfTaken(t)
  /\ IF Forgiving /\ seen[t].wts > cts[t] THEN Goto(t, "ask") /\ UNCHANGED todo
                                          ELSE GiveUp(t)
  /\ UNCHANGED <<tuple, db, histVars, back, txnVars, cts, rc, seen, hist>>

\* Mutant: a write at commit_ts itself is overlooked.
IntermediateBefore(t, k) ==
  \E i \in DOMAIN log[k] : ent[t][k].wts < log[k][i] /\ log[k][i] < cts[t]

\* Under the mutex of the history entry: was there a write in the window?
Intermediate(t, k) ==
  \E i \in DOMAIN log[k] : ent[t][k].wts < log[k][i] /\ log[k][i] <= cts[t]

ValidateAsk(t) ==
  /\ pc[t] = "ask"
  /\ IF Intermediate(t, Validated(t)) THEN GiveUp(t)
     ELSE /\ todo' = [todo EXCEPT ![t] = @ \ {Validated(t)}]
          /\ Goto(t, "validate")
  /\ UNCHANGED <<lockVars, tuple, db, histVars, back, txnVars, cts, rc, seen, hist>>

\* splinterdb_update with the four bytes of commit_ts.
ValidateExtend(t) ==
  /\ pc[t] = "extend"
  /\ MoveRts(Validated(t), cts[t])
  /\ Goto(t, "next")
  /\ UNCHANGED <<lockVars, db, histVars, back, txnVars, commitVars, hist>>

ValidateNext(t) ==
  /\ pc[t] = "next"
  /\ ReleaseIfTaken(t)
  /\ todo' = [todo EXCEPT ![t] = @ \ {Validated(t)}]
  /\ Goto(t, "validate")
  /\ UNCHANGED <<tuple, db, histVars, back, txnVars, cts, rc, seen, hist>>

\* Every read is valid: the transaction commits.
ValidateDone(t) ==
  /\ pc[t] = "validate" /\ todo[t] = {}
  /\ hist' = hist \cup {[id |-> Id(t), cts |-> cts[t], reads |-> reads[t]]}
  /\ todo' = [todo EXCEPT ![t] = WriteSet(t)]
  /\ Goto(t, "install")
  /\ UNCHANGED <<lockVars, tuple, db, histVars, back, txnVars, cts, rc, seen>>

Install(t) ==
  /\ pc[t] = "install" /\ todo[t] # {}
  /\ LET k == Smallest(todo[t]) IN
       /\ Store(k, ent[t][k].wr, cts[t])
       /\ db' = [db EXCEPT ![k] = Append(@, Id(t))]
  /\ Goto(t, IF Forgiving THEN "record" ELSE "release")
  /\ UNCHANGED <<lockVars, histVars, back, txnVars, commitVars, hist>>

\* Mutant: the version that was replaced is logged.
RecordReplaced(t) ==
  /\ pc[t] = "record"
  /\ LET k == Smallest(todo[t]) IN
       log' = IF Len(log[k]) < MaxLog THEN [log EXCEPT ![k] = Append(@, ent[t][k].wts)]
                                      ELSE log
  /\ Goto(t, "release")
  /\ UNCHANGED <<lockVars, tuple, db, refs, ready, back, txnVars, commitVars, hist>>

\* Under the mutex of the history entry: the write is logged if it fits.
Record(t) ==
  /\ pc[t] = "record"
  /\ LET k == Smallest(todo[t]) IN
       log' = IF Len(log[k]) < MaxLog THEN [log EXCEPT ![k] = Append(@, cts[t])]
                                      ELSE log
  /\ Goto(t, "release")
  /\ UNCHANGED <<lockVars, tuple, db, refs, ready, back, txnVars, commitVars, hist>>

Release(t) ==
  /\ pc[t] = "release"
  /\ ReleaseNext(t)
  /\ Goto(t, "install")
  /\ UNCHANGED <<tuple, db, histVars, back, txnVars, cts, rc, seen, hist>>

\* A transaction whose validation failed unlocks its write set.
AbortUnlock(t) ==
  /\ pc[t] = "unlock" /\ todo[t] # {}
  /\ ReleaseNext(t)
  /\ UNCHANGED <<tuple, db, histVars, pc, back, txnVars, cts, rc, seen, hist>>

\* transactional_splinterdb_abort
Abort(t) ==
  /\ pc[t] = "run" /\ t \in MayAbort
  /\ todo' = [todo EXCEPT ![t] = Pinned(t)]
  /\ Goto(t, "unpin")
  /\ UNCHANGED <<lockVars, tuple, db, histVars, back, txnVars, cts, rc, seen, hist>>

\* Both ends of commit call transaction_deinit.
CommitEnd(t) ==
  /\ pc[t] \in {"install", "unlock"} /\ todo[t] = {}
  /\ todo' = [todo EXCEPT ![t] = Pinned(t)]
  /\ Goto(t, "unpin")
  /\ UNCHANGED <<lockVars, tuple, db, histVars, back, txnVars, cts, rc, seen, hist>>

\* transaction_deinit: rw_entry_histcache_remove of every entry
Unpin(t) ==
  /\ pc[t] = "unpin" /\ todo[t] # {}
  /\ LET k == First(t, todo[t]) IN
       /\ Unpin1(k)
       /\ ent' = [ent EXCEPT ![t][k].held = FALSE]
       /\ todo' = [todo EXCEPT ![t] = @ \ {k}]
  /\ UNCHANGED <<lockVars, tuple, db, pc, back, count, calls, order, got, reads,
                 cts, rc, seen, hist>>

\* The entries are freed and the call returns.
Finish(t) ==
  /\ pc[t] = "unpin" /\ todo[t] = {}
  /\ Goto(t, "idle")
  /\ calls' = [calls EXCEPT ![t] = <<>>]
  /\ order' = [order EXCEPT ![t] = <<>>]
  /\ ent' = [ent EXCEPT ![t] = [k \in Key |-> NoEntry]]
  /\ got' = [got EXCEPT ![t] = Own]
  /\ reads' = [reads EXCEPT ![t] = {}]
  /\ cts' = [cts EXCEPT ![t] = 0]
  /\ rc' = [rc EXCEPT ![t] = "ok"]
  /\ seen' = [seen EXCEPT ![t] = Absent]
  /\ UNCHANGED <<lockVars, tuple, db, histVars, back, count, todo, hist>>

-----------------------------------------------------------------------------
Calls(t)    == HistAlloc(t) \/ HistSpin(t) \/ LocalWrite(t) \/ Lookup(t)
                 \/ LookupOwn(t) \/ LookupRead(t) \/ LookupCheck(t)
Locking(t)  == CommitBegin(t) \/ LockPin(t) \/ LockTry(t) \/ BackOffUnlock(t)
                 \/ LockRetry(t) \/ LockDone(t) \/ Stamp(t) \/ StampDone(t)
Deciding(t) == ValidateLock(t) \/ ValidateStamps(t) \/ ValidateDiffers(t)
                 \/ ValidateAsk(t) \/ ValidateExtend(t) \/ ValidateNext(t)
                 \/ ValidateDone(t)
Ending(t)   == Install(t) \/ Record(t) \/ Release(t) \/ AbortUnlock(t)
                 \/ CommitEnd(t) \/ Unpin(t) \/ Finish(t)
\* What a thread does of its own once it has begun a transaction.
Step(t) == Calls(t) \/ Locking(t) \/ Deciding(t) \/ Ending(t)

\* Every thread has used up its transactions.
Finished ==
  /\ \A t \in Thread : pc[t] = "idle" /\ count[t] = Len(Programs[t])
  /\ UNCHANGED vars

Next == Finished \/ \E t \in Thread : Begin(t) \/ Step(t) \/ Abort(t)

Spec     == Init /\ [][Next]_vars

-----------------------------------------------------------------------------
(* What a thread has locked, and what it reads, from where it is.          *)

Phase(t) == IF pc[t] \in {"alloc", "spin"} THEN back[t] ELSE pc[t]

LockSet(t) ==
  CASE Phase(t) = "lock" -> WriteSet(t) \ todo[t]
    [] pc[t] \in {"stamp", "validate", "ask"} -> WriteSet(t)
    [] pc[t] \in {"stamps", "differs", "extend", "next"} ->
         IF rc[t] = "ok" THEN WriteSet(t) \cup {Validated(t)} ELSE WriteSet(t)
    [] pc[t] \in {"backoff", "install", "record", "release", "unlock"} -> todo[t]
    [] OTHER -> {}

\* The keys whose history entry a thread may use.
Uses(t) == IF pc[t] \in {"alloc", "spin"} THEN Pinned(t) \ {PinKey(t)} ELSE Pinned(t)

-----------------------------------------------------------------------------
(* Properties.                                                             *)

Label == {"idle", "run", "alloc", "spin", "own", "read", "check", "lock",
          "backoff", "stamp", "validate", "stamps", "differs", "ask", "extend",
          "next", "install", "record", "release", "unlock", "unpin"}

\* Every variable keeps its type.
TypeOK ==
  /\ LockTypeOK
  /\ tuple \in [Key -> Tuple]
  /\ db \in [Key -> Seq(Txn)]
  /\ log \in [Key -> Seq(Nat)]
  /\ refs \in [Key -> Nat]
  /\ ready \in SUBSET Key
  /\ pc \in [Thread -> Label]
  /\ back \in [Thread -> {"idle", "own", "read", "lock"}]
  /\ count \in [Thread -> Nat]
  /\ calls \in [Thread -> Seq(Op)]
  /\ order \in [Thread -> Seq(Key)]
  /\ ent \in [Thread -> [Key -> Entry]]
  /\ todo \in [Thread -> SUBSET Key]
  /\ cts \in [Thread -> Nat]
  /\ rc \in [Thread -> {"ok", "busy", "deadlk"}]
  /\ seen \in [Thread -> Tuple]
  /\ got \in [Thread -> Nat \cup {Own}]
  /\ reads \in [Thread -> SUBSET Read]
  /\ hist \in SUBSET Commit

\* The lock table has an entry exactly for what some thread's commit owns, by
\* its write set or for the read it is validating, and no two own the same:
\* every release meets the two assertions of lock_table.c.
LockOwnership ==
  /\ TypeOK
  /\ \A t \in Thread : mine[t] = LockSet(t)
  /\ locked = UNION {mine[t] : t \in Thread}
  /\ \A t, u \in Thread : t # u => mine[t] \cap mine[u] = {}

\* The count of a key's history entry is the number of transactions that hold
\* it, and what they hold has been allocated and is not freed under them.
HistoryCounted ==
  \A k \in Key :
    /\ refs[k] = Cardinality({t \in Thread : ent[t][k].held})
    /\ \A t \in Thread : k \in Uses(t) => k \in ready
    /\ refs[k] = 0 => k \notin ready /\ log[k] = <<>>

\* What a forgiven validation relies on: the history entry is there while a
\* transaction that read the key is running, and every write of the key since
\* it was read is in the log, up to the one being installed.
HistoryComplete ==
  /\ HistoryCounted
  /\ \A t \in Thread : pc[t] # "unpin" => \A r \in reads[t] :
       \A j \in r.ver + 1 .. Len(db[r.key]) :
         \/ \E i \in DOMAIN log[r.key] : log[r.key][i] = Iso!TsOf(db[r.key][j])
         \/ \E u \in Thread : /\ pc[u] = "record" /\ Smallest(todo[u]) = r.key
                               /\ db[r.key][j] = Id(u)

\* The writes of a key are stored in the order of their transactions' commit
\* timestamps.
VersionsInCommitOrder == Iso!InCommitOrder

\* TRANSACTION_ISOLATION_LEVEL_SERIALIZABLE: what committed has a serial order.
Serializable == Iso!Acyclic(LAMBDA h : h.reads)

\* What committed has a serial order, and versions are stored in the order of
\* the commit timestamps.
SerialInTimestampOrder == Serializable /\ VersionsInCommitOrder

\* A key's timestamps never go back, whoever moves them.
TimestampsForward ==
  [][\A k \in Key : /\ tuple'[k].wts >= tuple[k].wts
                    /\ tuple'[k].rts >= tuple[k].rts]_vars
=============================================================================
