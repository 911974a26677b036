-------------------------------- MODULE KrOcc --------------------------------
(***************************************************************************)
(* Kung and Robinson's optimistic concurrency control                      *)
(* (transaction_kr_occ.h): a transaction remembers the last one committed  *)
(* when it begins, keeps its writes to itself, and at its commit compares  *)
(* what it read with what those after that one wrote.  Two builds: in      *)
(* "serial" a commit holds the mutex from its check to its last write; in  *)
(* "parallel" it checks and writes without it, and compares itself with    *)
(* the transactions that were committing when its own commit began.        *)
(* Committed transactions wait in a list for those that may have to look   *)
(* at them; the list starts with a node that belongs to none.              *)
(***************************************************************************)
EXTENDS Integers, Sequences, FiniteSets

CONSTANTS
  Thread,
  Key,
  Builds,    \* the builds considered
  Programs,  \* the transactions each thread begins, one after the other: for
             \* each, the programs it may run; their number is the bound
  MayAbort,  \* the threads whose application may abort on its own
  Loaded     \* the keys that have a value at the start

Op  == [op : {"lookup", "insert", "delete"}, key : Key]

HeadNode == <<"head", 0>>

KrOccAssumption ==
  /\ IsFiniteSet(Thread) /\ IsFiniteSet(Key) /\ Loaded \subseteq Key
  /\ Builds \subseteq {"serial", "parallel"}
  /\ Programs \in [Thread -> Seq(SUBSET Seq(Op))]
  /\ MayAbort \subseteq Thread
  /\ "free" \notin Thread

VARIABLES
  build,
  lock,       \* the mutex: its holder, or "free"
  all,        \* all_transactions after its head: [id, ws] in commit order
  active,     \* active_transactions: the same of those that are committing
  refs,       \* the ref_count of the list's nodes, and of those it had
  db,         \* SplinterDB: the transactions that wrote each key, in order
  gone,       \* the writes that were deletes: <<transaction, key>>
  pc,
  count,      \* transactions each thread has begun
  calls,      \* calls its transaction has still to make
  start,      \* start_txn
  rs,         \* its read set
  ws,         \* its write set: a message for each key of it
  finish,     \* finish_active_transactions
  cursor,     \* the node its check has come to
  todo,       \* the writes it has still to store
  since,      \* history: how many had committed when it began
  reads,      \* history: what the transaction's lookups found
  aborted,    \* history: the start nodes of those the application aborted
  hist        \* history: the transactions that committed

txnVars == <<count, calls, start, rs, ws, since, reads>>
vars == <<build, lock, all, active, refs, db, gone, pc, txnVars, finish, cursor,
          todo, aborted, hist>>

Iso == INSTANCE Isolation

Id(t) == <<t, count[t]>>
Mine(t) == [id |-> Id(t), ws |-> DOMAIN ws[t]]
Goto(t, label) == pc' = [pc EXCEPT ![t] = label]
Free == lock = "free"

\* The function that is f, but for x.
With(f, x, v) == [y \in {x} \cup DOMAIN f |-> IF y = x THEN v ELSE f[y]]

\* Where a node is in the list, its head being 0.
Position(n) == IF n = HeadNode THEN 0 ELSE CHOOSE i \in DOMAIN all : all[i].id = n
Last_ == IF all = <<>> THEN HeadNode ELSE all[Len(all)].id

Init ==
  /\ build \in Builds
  /\ lock = "free" /\ all = <<>> /\ active = {}
  /\ refs = [n \in {HeadNode} |-> 0]
  /\ db = [k \in Key |-> <<>>]
  /\ gone = {}
  /\ pc = [t \in Thread |-> "idle"]
  /\ count = [t \in Thread |-> 0]
  /\ calls = [t \in Thread |-> <<>>]
  /\ start = [t \in Thread |-> HeadNode]
  /\ rs = [t \in Thread |-> {}]
  /\ ws = [t \in Thread |-> <<>>]
  /\ finish = [t \in Thread |-> {}]
  /\ cursor = [t \in Thread |-> HeadNode]
  /\ todo = [t \in Thread |-> {}]
  /\ since = [t \in Thread |-> 0]
  /\ reads = [t \in Thread |-> {}]
  /\ aborted = <<>> /\ hist = {}

-----------------------------------------------------------------------------
(* The calls of a transaction.                                             *)

\* transactional_splinterdb_begin: what commits from now on comes after start.
Begin(t) ==
  /\ pc[t] = "idle" /\ count[t] < Len(Programs[t]) /\ Free
  /\ count' = [count EXCEPT ![t] = @ + 1]
  /\ \E p \in Programs[t][count[t] + 1] : calls' = [calls EXCEPT ![t] = p]
  /\ start' = [start EXCEPT ![t] = Last_]
  /\ refs' = [refs EXCEPT ![Last_] = @ + 1]
  /\ rs' = [rs EXCEPT ![t] = {}]
  /\ ws' = [ws EXCEPT ![t] = <<>>]
  /\ since' = [since EXCEPT ![t] = Cardinality(hist)]
  /\ reads' = [reads EXCEPT ![t] = {}]
  /\ Goto(t, "run")
  /\ UNCHANGED <<build, lock, all, active, db, gone, finish, cursor, todo, aborted, hist>>

Calling(t) == pc[t] = "run" /\ calls[t] # <<>>
Call(t)    == Head(calls[t])
Return(t)  == calls' = [calls EXCEPT ![t] = Tail(@)]

\* transactional_splinterdb_insert and delete, insert_into_write_set: the last
\* message of a key is the one that counts.
Write(t) ==
  /\ Calling(t) /\ Call(t).op # "lookup"
  /\ ws' = [ws EXCEPT ![t] = With(ws[t], Call(t).key, Call(t).op)]
  /\ Return(t)
  /\ UNCHANGED <<build, lock, all, active, refs, db, gone, pc, count, start, rs,
                 since, reads, finish, cursor, todo, aborted, hist>>

\* Whether SplinterDB has a value for k.
Present(k) == IF db[k] = <<>> THEN k \in Loaded ELSE <<db[k][Len(db[k])], k>> \notin gone

\* transactional_splinterdb_lookup: a key of the write set is read back from
\* it; a key that is not there does not get into the read set.
Lookup(t) ==
  /\ Calling(t) /\ Call(t).op = "lookup"
  /\ LET k == Call(t).key
         own == k \in DOMAIN ws[t] IN
       /\ rs' = [rs EXCEPT ![t] = IF own \/ Present(k) THEN @ \cup {k} ELSE @]
       /\ reads' = [reads EXCEPT ![t] =
                      IF own \/ ~Present(k) THEN @
                      ELSE @ \cup {[key |-> k, ver |-> Len(db[k])]}]
  /\ Return(t)
  /\ UNCHANGED <<build, lock, all, active, refs, db, gone, pc, count, start, ws,
                 since, finish, cursor, todo, aborted, hist>>

\* transactional_splinterdb_abort forgets the transaction; the node it started
\* from keeps its reference.
Abort(t) ==
  /\ t \in MayAbort /\ Calling(t)
  /\ aborted' = Append(aborted, start[t])
  /\ Goto(t, "idle")
  /\ UNCHANGED <<build, lock, all, active, refs, db, gone, txnVars, finish, cursor,
                 todo, hist>>

-----------------------------------------------------------------------------
(* Commit.                                                                 *)

\* Serial: with the mutex.  Parallel: it joins the active ones, and remembers
\* those that were there.
CommitBegin(t) ==
  /\ pc[t] = "run" /\ calls[t] = <<>> /\ Free
  /\ cursor' = [cursor EXCEPT ![t] = start[t]]
  /\ IF build = "serial" THEN lock' = t /\ UNCHANGED <<active, finish>>
     ELSE /\ finish' = [finish EXCEPT ![t] = active]
          /\ active' = active \cup {Mine(t)}
          /\ UNCHANGED lock
  /\ Goto(t, "check")
  /\ UNCHANGED <<build, all, refs, db, gone, txnVars, todo, aborted, hist>>

\* Whether a transaction writes a key the committing one has read.
Overwrites(e, t) == e.ws \cap rs[t] # {}

\* transaction_check_for_conflict goes from node to node; "parallel" without
\* the mutex, so that the list may grow under it.
CheckNext(t) ==
  /\ pc[t] = "check" /\ Position(cursor[t]) < Len(all)
  /\ LET e == all[Position(cursor[t]) + 1] IN
       /\ cursor' = [cursor EXCEPT ![t] = e.id]
       /\ Goto(t, IF Overwrites(e, t) THEN "fail" ELSE "check")
  /\ UNCHANGED <<build, lock, all, active, refs, db, gone, txnVars, finish, todo,
                 aborted, hist>>

\* Mutant: the active transactions are not looked at.
ClashesNever(t) == FALSE

\* transaction_check_for_conflict_with_active_transactions
Clashes(t) == \E e \in finish[t] : Overwrites(e, t) \/ e.ws \cap DOMAIN ws[t] # {}

\* The list is at its end: the active ones are next, then the writes.
CheckEnd(t) ==
  /\ pc[t] = "check" /\ Position(cursor[t]) = Len(all)
  /\ todo' = [todo EXCEPT ![t] = DOMAIN ws[t]]
  /\ finish' = [finish EXCEPT ![t] = {}]
  /\ Goto(t, IF Clashes(t) THEN "fail" ELSE "write")
  /\ UNCHANGED <<build, lock, all, active, refs, db, gone, txnVars, cursor, aborted, hist>>

\* write_into_splinterdb, one write after the other, in the order of first use,
\* which the model leaves open.
Store(t) ==
  /\ pc[t] = "write"
  /\ \E k \in todo[t] :
       /\ db' = [db EXCEPT ![k] = Append(@, Id(t))]
       /\ gone' = IF ws[t][k] = "delete" THEN gone \cup {<<Id(t), k>>} ELSE gone
       /\ todo' = [todo EXCEPT ![t] = @ \ {k}]
  /\ UNCHANGED <<build, lock, all, active, refs, pc, txnVars, finish, cursor, aborted, hist>>

\* transaction_gc: what is left of the list when the nodes before the first
\* that is referenced are freed; nothing is, while the head is referenced.
Collected(list, r) ==
  LET kept == {i \in DOMAIN list : r[list[i].id] > 0} IN
  IF r[HeadNode] > 0 THEN list
  ELSE IF kept = {} THEN <<>>
  ELSE SubSeq(list, CHOOSE i \in kept : \A j \in kept : i <= j, Len(list))

\* A valid commit, once its writes are stored, under the mutex.
Finish(t) ==
  /\ pc[t] = "write" /\ todo[t] = {} /\ (build = "parallel" => Free)
  /\ LET r == [With(refs, Id(t), 0) EXCEPT ![start[t]] = @ - 1] IN
       /\ refs' = r
       /\ all' = Collected(Append(all, Mine(t)), r)
  /\ active' = active \ {Mine(t)}
  /\ lock' = "free"
  /\ hist' = hist \cup {[id |-> Id(t), cts |-> Cardinality(hist), reads |-> reads[t]]}
  /\ Goto(t, "idle")
  /\ UNCHANGED <<build, db, gone, txnVars, finish, cursor, todo, aborted>>

\* A commit that found a conflict; only "serial" collects here.
Fail(t) ==
  /\ pc[t] = "fail" /\ (build = "parallel" => Free)
  /\ LET r == [refs EXCEPT ![start[t]] = @ - 1] IN
       /\ refs' = r
       /\ all' = IF build = "serial" THEN Collected(all, r) ELSE all
  /\ active' = active \ {Mine(t)}
  /\ finish' = [finish EXCEPT ![t] = {}]
  /\ lock' = "free"
  /\ Goto(t, "idle")
  /\ UNCHANGED <<build, db, gone, txnVars, cursor, todo, aborted, hist>>

-----------------------------------------------------------------------------
Step(t) == \/ Begin(t) \/ Write(t) \/ Lookup(t) \/ CommitBegin(t) \/ CheckNext(t)
           \/ CheckEnd(t) \/ Store(t) \/ Finish(t) \/ Fail(t)

Done == /\ \A t \in Thread : pc[t] = "idle" /\ count[t] = Len(Programs[t])
        /\ UNCHANGED vars

Next == (\E t \in Thread : Step(t) \/ Abort(t)) \/ Done

Spec == Init /\ [][Next]_vars

-----------------------------------------------------------------------------
(* Properties.                                                             *)

\* The committed transactions are serializable, as far as what they found
\* goes: a check, of a list that changes under it and of the transactions that
\* were committing, misses nobody.
FoundSerializable == LET Found(h) == h.reads IN Iso!Acyclic(Found)

\* The nodes that running or aborted transactions start from.
StartedAt(n) ==
  Cardinality({t \in Thread : pc[t] # "idle" /\ start[t] = n})
    + Cardinality({i \in DOMAIN aborted : aborted[i] = n})

\* What a check will go over is there: the node a transaction starts from, the
\* one it has come to and every transaction that committed since are in the
\* list, though others collect it; and each node counts who starts from it.
StartsKept ==
  LET listed == {all[i].id : i \in DOMAIN all} IN
  /\ \A t \in Thread :
       pc[t] # "idle" =>
         /\ start[t] \in {HeadNode} \cup listed
         /\ pc[t] = "check" => cursor[t] \in {HeadNode} \cup listed
         /\ \A h \in hist : h.cts >= since[t] => h.id \in listed
  /\ \A n \in {HeadNode} \cup listed : refs[n] = StartedAt(n)
=============================================================================
