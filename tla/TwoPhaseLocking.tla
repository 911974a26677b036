--------------------------- MODULE TwoPhaseLocking ---------------------------
(***************************************************************************)
(* Strict two-phase locking with read and write locks, as in               *)
(* transaction_2pl.h, under its three policies for a lock that is not to   *)
(* be had: "no_wait" refuses, "wait_die" lets a transaction wait for       *)
(* younger ones only, "wound_wait" lets it wait and marks the younger      *)
(* owners, which are refused at their next request.  A refused request     *)
(* aborts its transaction.                                                 *)
(*                                                                         *)
(* The lock entries live in an iceberg table with reference counts.  A     *)
(* step is one section under an entry's latch, one operation of the table, *)
(* or one of SplinterDB.                                                   *)
(***************************************************************************)
EXTENDS Integers, Sequences, FiniteSets

CONSTANTS
  Thread,
  Key,
  Policies,  \* the builds considered: EXPERIMENTAL_MODE_2PL_*
  Programs,  \* the transactions each thread begins, one after the other: for
             \* each, the programs it may run; their number is the bound
  MayAbort   \* the threads whose application may abort on its own

Op  == [op : {"lookup", "write"}, key : Key]
Txn == Thread \X Nat

ASSUME TwoPhaseAssumption ==
  /\ IsFiniteSet(Thread) /\ IsFiniteSet(Key)
  /\ Policies \subseteq {"no_wait", "wait_die", "wound_wait"}
  /\ Programs \in [Thread -> Seq(SUBSET Seq(Op))]
  /\ MayAbort \subseteq Thread

VARIABLES
  policy,    \* the build
  global_ts,
  ts,        \* the timestamp of each thread's transaction
  wounded,   \* txn->wounded
  owners,    \* each key's list of lock_reqs, by the transaction: its lt or "free"
  refs,      \* references to each key's entry in the lock table
  db,        \* SplinterDB: the transactions that wrote each key, in order
  pc,        \* where each thread is
  count,     \* transactions each thread has begun
  calls,     \* calls its transaction has still to make
  order,     \* rw_entries: the keys of the transaction in order of first use
  writes,    \* the keys whose rw_entry has a message
  todo,      \* the entries left to the loop of commit or abort
  ending,    \* which of them it is
  reads,     \* history: what the transaction's lookups returned
  hist       \* history: the transactions that committed

lockVars == <<owners, refs>>
txnVars  == <<ts, wounded, count, calls, order, writes, reads>>
vars == <<policy, global_ts, lockVars, db, pc, txnVars, todo, ending, hist>>

Iso == INSTANCE Isolation
Abs == INSTANCE SharedExclusive WITH Owner <- Thread, mode <- owners

Read   == [key : Key, ver : Nat]
Commit == [id : Txn, cts : Nat, reads : SUBSET Read]

Id(t)     == <<t, count[t]>>
Elems(s)  == {s[i] : i \in DOMAIN s}
Active(t) == pc[t] # "idle"

Goto(t, label) == pc' = [pc EXCEPT ![t] = label]

Init ==
  /\ policy \in Policies
  /\ global_ts = 0
  /\ ts = [t \in Thread |-> 0]
  /\ wounded = [t \in Thread |-> FALSE]
  /\ owners = [k \in Key |-> [t \in Thread |-> "free"]]
  /\ refs = [k \in Key |-> 0]
  /\ db = [k \in Key |-> <<>>]
  /\ pc = [t \in Thread |-> "idle"]
  /\ count = [t \in Thread |-> 0]
  /\ calls = [t \in Thread |-> <<>>]
  /\ order = [t \in Thread |-> <<>>]
  /\ writes = [t \in Thread |-> {}]
  /\ todo = [t \in Thread |-> <<>>]
  /\ ending = [t \in Thread |-> "commit"]
  /\ reads = [t \in Thread |-> {}]
  /\ hist = {}

-----------------------------------------------------------------------------
(* The calls of a transaction.                                             *)

\* transactional_splinterdb_begin: ts is the next global_ts; the memset takes
\* the wounds of the thread's last transaction away.
Begin(t) ==
  /\ ~Active(t) /\ count[t] < Len(Programs[t])
  /\ global_ts' = global_ts + 1
  /\ ts' = [ts EXCEPT ![t] = global_ts + 1]
  /\ wounded' = [wounded EXCEPT ![t] = FALSE]
  /\ count' = [count EXCEPT ![t] = @ + 1]
  /\ \E p \in Programs[t][count[t] + 1] : calls' = [calls EXCEPT ![t] = p]
  /\ order' = [order EXCEPT ![t] = <<>>]
  /\ writes' = [writes EXCEPT ![t] = {}]
  /\ reads' = [reads EXCEPT ![t] = {}]
  /\ Goto(t, "run")
  /\ UNCHANGED <<policy, lockVars, db, todo, ending, hist>>

Calling(t) == pc[t] = "run" /\ calls[t] # <<>>
CallKey(t) == Head(calls[t]).key
Asked(t)   == IF Head(calls[t]).op = "write" THEN "write" ELSE "read"
Return(t)  == calls' = [calls EXCEPT ![t] = Tail(@)]

\* A key that has a message needs no lock: a lookup reads it back, and another
\* write replaces or merges it.
OwnWrite(t) ==
  /\ Calling(t) /\ CallKey(t) \in writes[t]
  /\ Return(t)
  /\ UNCHANGED <<policy, global_ts, lockVars, db, pc, ts, wounded, count, order,
                 writes, reads, todo, ending, hist>>

\* Mutant: an entry that is there is used without counting its new user.
RequestUncounted(t) ==
  /\ Calling(t) /\ CallKey(t) \notin writes[t]
  /\ LET k == CallKey(t) IN
       IF k \in Elems(order[t]) THEN UNCHANGED <<refs, order>>
       ELSE /\ refs' = [refs EXCEPT ![k] = IF @ = 0 THEN 1 ELSE @]
            /\ order' = [order EXCEPT ![t] = Append(@, k)]
  /\ Goto(t, "lock")
  /\ UNCHANGED <<policy, global_ts, owners, db, ts, wounded, count, calls,
                 writes, reads, todo, ending, hist>>

\* rw_entry_get, and for a new rw_entry a reference to the key's lock entry,
\* which is put into the table if it is not there.
Request(t) ==
  /\ Calling(t) /\ CallKey(t) \notin writes[t]
  /\ LET k == CallKey(t) IN
       IF k \in Elems(order[t]) THEN UNCHANGED <<refs, order>>
       ELSE /\ refs' = [refs EXCEPT ![k] = @ + 1]
            /\ order' = [order EXCEPT ![t] = Append(@, k)]
  /\ Goto(t, "lock")
  /\ UNCHANGED <<policy, global_ts, owners, db, ts, wounded, count, calls,
                 writes, reads, todo, ending, hist>>

-----------------------------------------------------------------------------
(* _lock: each turn of its loop is one section under the entry's latch.    *)

\* The transactions on the list other than t's.
Rivals(t, k)  == {u \in Thread \ {t} : owners[k][u] # "free"}
Older(t, k)   == {u \in Rivals(t, k) : ts[u] < ts[t]}

\* Mutant: readers are not wounded.
YoungerWriters(t, k) == {u \in Rivals(t, k) : owners[k][u] = "write" /\ ts[u] > ts[t]}

Younger(t, k) == {u \in Rivals(t, k) : ts[u] > ts[t]}

\* Mutant: a reader becomes the writer beside other readers.
CompatibleUpgrade(t, k) ==
  \/ owners[k][t] = "read"
  \/ \A u \in Rivals(t, k) : owners[k][u] = "read" /\ Asked(t) = "read"

\* The list is empty or holds t's request alone, or everyone reads.
Compatible(t, k) ==
  \A u \in Rivals(t, k) : owners[k][u] = "read" /\ Asked(t) = "read"

\* wound_wait looks at its wound before anything else.
Stops(t) == policy = "wound_wait" /\ wounded[t]

\* What the transaction then has: a write lock stays one.
Taken(t, k) == IF owners[k][t] = "write" THEN "write" ELSE Asked(t)

\* RC_OK: local_write sets the message, lookup goes on to read.
Grant(t) ==
  /\ pc[t] = "lock"
  /\ LET k == CallKey(t) IN
       /\ ~Stops(t) /\ Compatible(t, k)
       /\ owners' = [owners EXCEPT ![k][t] = Taken(t, k)]
       /\ IF Asked(t) = "read"
          THEN Goto(t, "read") /\ UNCHANGED <<calls, writes>>
          ELSE /\ writes' = [writes EXCEPT ![t] = @ \cup {k}]
               /\ Return(t)
               /\ Goto(t, "run")
  /\ UNCHANGED <<policy, global_ts, refs, db, ts, wounded, count, order, reads,
                 todo, ending, hist>>

\* Mutant: a transaction dies for a younger owner, and waits for an older one.
DiesYoung(t, k) ==
  CASE policy = "no_wait"    -> ~Compatible(t, k)
    [] policy = "wait_die"   -> ~Compatible(t, k) /\ Younger(t, k) # {}
    [] policy = "wound_wait" -> wounded[t]

\* wait_die compares with the head of the list, the oldest owner.
Dies(t, k) ==
  CASE policy = "no_wait"    -> ~Compatible(t, k)
    [] policy = "wait_die"   -> ~Compatible(t, k) /\ Older(t, k) # {}
    [] policy = "wound_wait" -> wounded[t]

\* The loop of commit or of abort over the entries in s, at its next entry;
\* after the last one transaction_deinit frees what is the thread's own.
Loop(t, s, e) ==
  /\ todo' = [todo EXCEPT ![t] = s]
  /\ ending' = [ending EXCEPT ![t] = e]
  /\ Goto(t, IF s = <<>> THEN "idle"
             ELSE IF e = "commit" /\ Head(s) \in writes[t] THEN "install"
             ELSE "unlock")

\* RC_BUSY: the call aborts the transaction.
Refuse(t) ==
  /\ pc[t] = "lock" /\ Dies(t, CallKey(t))
  /\ Loop(t, order[t], "abort")
  /\ UNCHANGED <<policy, global_ts, lockVars, db, txnVars, hist>>

\* The condition variable; wound_wait wounds the younger owners first.
Wait(t) ==
  /\ pc[t] = "lock"
  /\ LET k == CallKey(t) IN
       /\ ~Compatible(t, k) /\ ~Dies(t, k)
       /\ wounded' = [u \in Thread |->
            wounded[u] \/ (policy = "wound_wait" /\ u \in Younger(t, k))]
  /\ Goto(t, "wait")
  /\ UNCHANGED <<policy, global_ts, lockVars, db, ts, count, calls, order,
                 writes, reads, todo, ending, hist>>

\* wound_wait's wait has a timeout.
TimedOut(t) ==
  /\ pc[t] = "wait" /\ policy = "wound_wait"
  /\ Goto(t, "lock")
  /\ UNCHANGED <<policy, global_ts, lockVars, db, txnVars, todo, ending, hist>>

\* splinterdb_lookup, under the lock
LookupRead(t) ==
  /\ pc[t] = "read"
  /\ LET k == CallKey(t) IN
       reads' = [reads EXCEPT ![t] = @ \cup {[key |-> k, ver |-> Len(db[k])]}]
  /\ Return(t)
  /\ Goto(t, "run")
  /\ UNCHANGED <<policy, global_ts, lockVars, db, ts, wounded, count, order,
                 writes, todo, ending, hist>>

-----------------------------------------------------------------------------
(* transactional_splinterdb_commit and transactional_splinterdb_abort.     *)

\* A commit cannot fail: nothing looks at the wounds any more.
CommitBegin(t) ==
  /\ pc[t] = "run" /\ calls[t] = <<>>
  /\ Loop(t, order[t], "commit")
  /\ hist' = hist \cup {[id |-> Id(t), cts |-> ts[t], reads |-> reads[t]]}
  /\ UNCHANGED <<policy, global_ts, lockVars, db, txnVars>>

\* The application aborts a transaction whose calls have all succeeded.
Abort(t) ==
  /\ t \in MayAbort /\ pc[t] = "run"
  /\ Loop(t, order[t], "abort")
  /\ UNCHANGED <<policy, global_ts, lockVars, db, txnVars, hist>>

\* splinterdb_insert, _update or _delete
Install(t) ==
  /\ pc[t] = "install"
  /\ db' = [db EXCEPT ![Head(todo[t])] = Append(@, Id(t))]
  /\ Goto(t, "unlock")
  /\ UNCHANGED <<policy, global_ts, lockVars, txnVars, todo, ending, hist>>

\* Mutant: both loops release every entry as a read lock.
ReleaseAsRead(t, k) == "read"

\* The lock type the loops release an entry with.
ReleaseType(t, k) == IF k \in writes[t] THEN "write" ELSE "read"

\* The threads at their condition variable that a broadcast for k wakes.
Woken(k) == {u \in Thread : pc[u] = "wait" /\ CallKey(u) = k}

\* _unlock: a request of this lock type is taken off the list, and everyone
\* who waits is told.  Otherwise the entry keeps its reference to the table.
Unlock(t) ==
  /\ pc[t] = "unlock"
  /\ UNCHANGED <<policy, global_ts, refs, db, txnVars, hist>>
  /\ LET k == Head(todo[t]) IN
       \/ /\ owners[k][t] = ReleaseType(t, k)
          /\ owners' = [owners EXCEPT ![k][t] = "free"]
          /\ pc' = [u \in Thread |-> IF u = t THEN "remove"
                                ELSE IF u \in Woken(k) THEN "lock" ELSE pc[u]]
          /\ UNCHANGED <<todo, ending>>
       \/ /\ owners[k][t] # ReleaseType(t, k)
          /\ Loop(t, Tail(todo[t]), ending[t])
          /\ UNCHANGED owners

\* iceberg_remove, and lock_entry_destroy with the last reference.
Remove(t) ==
  /\ pc[t] = "remove"
  /\ LET k == Head(todo[t]) IN
       refs' = [refs EXCEPT ![k] = @ - 1]
  /\ Loop(t, Tail(todo[t]), ending[t])
  /\ UNCHANGED <<policy, global_ts, owners, db, txnVars, hist>>

-----------------------------------------------------------------------------
\* What a thread does of its own once it has begun a transaction.
Step(t) ==
  \/ OwnWrite(t) \/ Request(t) \/ Grant(t) \/ Refuse(t) \/ Wait(t)
  \/ TimedOut(t) \/ LookupRead(t) \/ CommitBegin(t)
  \/ Install(t) \/ Unlock(t) \/ Remove(t)

\* Every thread has used up its transactions.
Finished ==
  /\ \A t \in Thread : ~Active(t) /\ count[t] = Len(Programs[t])
  /\ UNCHANGED vars

Next == Finished \/ \E t \in Thread : Begin(t) \/ Step(t) \/ Abort(t)

Spec     == Init /\ [][Next]_vars
\* The operating system keeps running every thread, and timeouts expire.
FairSpec == Spec /\ \A t \in Thread : WF_vars(Step(t))
-----------------------------------------------------------------------------
(* Properties.                                                             *)

Label == {"idle", "run", "lock", "wait", "read", "install", "unlock", "remove"}

\* Every variable keeps its type.
TypeOK ==
  /\ policy \in Policies
  /\ global_ts \in Nat
  /\ ts \in [Thread -> Nat]
  /\ wounded \in [Thread -> BOOLEAN]
  /\ owners \in [Key -> [Thread -> {"free", "read", "write"}]]
  /\ refs \in [Key -> Nat]
  /\ db \in [Key -> Seq(Txn)]
  /\ pc \in [Thread -> Label]
  /\ count \in [Thread -> Nat]
  /\ calls \in [Thread -> Seq(Op)]
  /\ order \in [Thread -> Seq(Key)]
  /\ writes \in [Thread -> SUBSET Key]
  /\ todo \in [Thread -> Seq(Key)]
  /\ ending \in [Thread -> {"commit", "abort"}]
  /\ reads \in [Thread -> SUBSET Read]
  /\ hist \in SUBSET Commit

Ending(t) == pc[t] \in {"install", "unlock", "remove"}

\* The keys whose lock entry the thread has a pointer to and will still use.
Entries(t) == IF Ending(t) THEN Elems(todo[t])
              ELSE IF Active(t) THEN Elems(order[t]) ELSE {}

\* The key of a request that is undecided or may have been refused.
Undecided(t) ==
  IF pc[t] \in {"lock", "wait"} \/ (Ending(t) /\ ending[t] = "abort" /\ calls[t] # <<>>)
  THEN {CallKey(t)} ELSE {}

\* The entries a thread must own the lock of.
Held(t) == (IF pc[t] = "remove" THEN Elems(Tail(todo[t])) ELSE Entries(t)) \ Undecided(t)

\* What a thread's variables say of one another: an unfinished call is there,
\* a loop has an entry left, and no key has two entries.
Distinct(s) == \A i, j \in DOMAIN s : s[i] = s[j] => i = j
Bookkeeping(t) ==
  /\ pc[t] \in {"lock", "wait", "read"} => calls[t] # <<>>
  /\ pc[t] \in {"lock", "wait"} => CallKey(t) \in Elems(order[t]) \ writes[t]
  /\ Ending(t) => todo[t] # <<>>
  /\ Distinct(order[t]) /\ Distinct(todo[t])

\* What the loops of commit and abort will release is what was granted, key by
\* key and as the same type of lock: no _unlock finds another type, none finds
\* nothing but for a request that was refused, and no lock outlives its
\* transaction.
LocksMatch(t) ==
  \A k \in Key :
    /\ k \in Held(t) => owners[k][t] = ReleaseType(t, k)
    /\ owners[k][t] # "free" => /\ k \in Entries(t)
                                /\ owners[k][t] = ReleaseType(t, k)
                                /\ ~(pc[t] = "remove" /\ k = Head(todo[t]))
LocksReleasable == \A t \in Thread : Bookkeeping(t) /\ LocksMatch(t)

\* A lock entry is not freed while some transaction points to it.
Users(k)       == {t \in Thread : k \in Entries(t)}
EntriesCounted == \A k \in Key : refs[k] >= Cardinality(Users(k))

\* TRANSACTION_ISOLATION_LEVEL_SERIALIZABLE: what committed has a serial order.
Serializable == Iso!Acyclic(LAMBDA h : h.reads)

\* The lock entries behave as shared-exclusive locks: the assertion of _lock
\* that a write lock has one owner, at every step and not at a request only.
LocksImplement == Abs!Spec

\* No policy that lets transactions wait aborts the oldest of those running,
\* or wounds it: what deadlock prevention costs, the younger ones pay.  A wound
\* from an older transaction that has ended since still counts.
Oldest(t) == Active(t) /\ \A u \in Thread : Active(u) => ts[t] <= ts[u]
OldestSurvives ==
  [][policy # "no_wait" => \A t \in Thread :
       Oldest(t) /\ ~wounded[t] => ~wounded'[t] /\ ~Refuse(t)]_vars

\* Every transaction comes to an end: waiting makes no cycle that is not
\* broken, by a refusal or by a wound, and no broadcast comes too early.
TransactionEnds == \A t \in Thread : Active(t) ~> ~Active(t)
=============================================================================
