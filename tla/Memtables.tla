------------------------------ MODULE Memtables ------------------------------
(***************************************************************************)
(* The memtables of memtable.c and how trunk.c fills, compacts and         *)
(* incorporates them: inserters rotate to the next memtable when theirs is *)
(* full and enqueue the full one as a task; whoever takes the task         *)
(* compacts it and, when it is its turn, makes it part of the trunk; a     *)
(* lookup reads the memtables from the newest to the last one retired and  *)
(* then the trunk.  All inserts are of one key: what a tree holds is the   *)
(* set of the inserts that are in it, numbered in the order btree_insert   *)
(* took them, and the trunk is the set of those incorporated.  The two     *)
(* locks of the batch are SharedExclusive locks with a claim (BatchRwLock  *)
(* shows it); a section under a mutex is one step.                         *)
(***************************************************************************)
EXTENDS Integers, Sequences, FiniteSets

CONSTANTS
  Inserter, Worker, Reader, Closer,  \* threads; Closer has at most one
  Tables,        \* TRUNK_NUM_MEMTABLES, cfg.max_memtables
  Capacity,      \* inserts that fill a memtable
  Calls,         \* bound: the calls each inserter and each reader makes
  ClosesIdle     \* the application waits for the tasks to end before it closes

Thread == Inserter \cup Worker \cup Reader \cup Closer
Slot   == 0 .. (Tables - 1)
Insert == Nat \ {0}
Noone  == "noone"

ASSUME MemtablesAssumption ==
  /\ Tables \in Nat \ {0, 1} /\ Capacity \in Nat \ {0}
  /\ Calls \in [Inserter \cup Reader -> Nat]
  /\ ClosesIdle \in BOOLEAN
  /\ Noone \notin Thread /\ IsFiniteSet(Thread)
  /\ \A c, d \in Closer : c = d
  /\ Inserter \cap (Worker \cup Reader \cup Closer) = {}
  /\ Worker \cap (Reader \cup Closer) = {} /\ Reader \cap Closer = {}

VARIABLES
  ctxt,      \* memtable_context: generation, generation_to_incorporate,
             \* generation_retired, is_empty
  mt,        \* ctxt->mt: each memtable's state and generation, its tree and
             \* the references to it
  branch,    \* spl->compacted_memtable[].branch: what was packed
  root,      \* the trunk: the inserts that lookups find under spl->root_addr
  claimed,   \* who has claimed the root to make its next version
  locks,     \* the insert lock and the lookup lock: readers, claim, writer
  tasks,     \* the queue of memtable tasks: generations
  executing, \* the memtable group's current_executing_tasks
  pc,        \* where each thread is
  at,        \* and its locals
  inserted,  \* inserts btree_insert has taken
  count      \* the calls each inserter and each reader has begun

data  == <<ctxt, mt, branch, root, claimed>>
queue == <<tasks, executing>>
vars  == <<data, locks, queue, pc, at, inserted, count>>

States == {"READY", "FINALIZED", "COMPACTING", "COMPACTED", "INCORPORATION_ASSIGNED",
           "INCORPORATING", "INCORPORATED"}

Idle == [gen |-> 0, last |-> 0, new |-> {}, seen |-> {}, floor |-> 0, from |-> "",
         held |-> {}, scan |-> FALSE, back |-> "idle"]

Free == [readers |-> {}, claim |-> Noone, writer |-> Noone]

\* memtable_context_create
Init ==
  /\ ctxt = [generation |-> 0, to_incorporate |-> 0, retired |-> -1, is_empty |-> TRUE]
  /\ mt = [s \in Slot |-> [state |-> "READY", generation |-> s, tree |-> {}, refs |-> 1]]
  /\ branch = [s \in Slot |-> {}]
  /\ root = {}
  /\ claimed = Noone
  /\ locks = [l \in {"insert", "lookup"} |-> Free]
  /\ tasks = <<>> /\ executing = 0
  /\ pc = [t \in Thread |-> "idle"]
  /\ at = [t \in Thread |-> Idle]
  /\ inserted = 0
  /\ count = [t \in Inserter \cup Reader |-> 0]

Of(g)           == g % Tables
Goto(t, label)  == pc' = [pc EXCEPT ![t] = label]
At(t, label)    == pc[t] = label
Transition(s, from, to) == mt[s].state = from /\ mt' = [mt EXCEPT ![s].state = to]

CanRead(l)  == locks[l].writer = Noone
Get(t, l)   == CanRead(l) /\ locks' = [locks EXCEPT ![l].readers = @ \cup {t}]
Unget(t, l) == locks' = [locks EXCEPT ![l].readers = @ \ {t}]
-----------------------------------------------------------------------------
(* Tasks (task.c): a queue that background workers and, when they have     *)
(* nothing better to do, inserters take from.                              *)

\* task_group_get_next_task, under the group's lock.
Take(t, back) ==
  /\ tasks # <<>>
  /\ tasks' = Tail(tasks)
  /\ executing' = executing + 1
  /\ at' = [at EXCEPT ![t].gen = Head(tasks), ![t].back = back]
  /\ Goto(t, "compact")
  /\ UNCHANGED <<data, locks, inserted, count>>

\* task_group_perform_one and task_worker_thread after the task.
TaskDone(t) ==
  /\ At(t, "done")
  /\ executing' = executing - 1
  /\ Goto(t, at[t].back)
  /\ at' = [at EXCEPT ![t] = Idle]
  /\ UNCHANGED <<data, locks, tasks, inserted, count>>

WorkerTakes(t) == t \in Worker /\ At(t, "idle") /\ Take(t, "idle")
-----------------------------------------------------------------------------
(* trunk_memtable_insert                                                   *)

BeginInsert(t) ==
  /\ t \in Inserter /\ At(t, "idle") /\ count[t] < Calls[t]
  /\ \A u \in Closer : pc[u] = "idle"
  /\ count' = [count EXCEPT ![t] = @ + 1]
  /\ Get(t, "insert")
  /\ Goto(t, "check")
  /\ UNCHANGED <<data, queue, at, inserted>>

\* The loop of memtable_maybe_rotate_and_begin_insert starts over.
BeginAgain(t) ==
  /\ At(t, "begin")
  /\ Get(t, "insert")
  /\ Goto(t, "check")
  /\ UNCHANGED <<data, queue, at, inserted, count>>

Current == Of(ctxt.generation)
Full(s) == Cardinality(mt[s].tree) >= Capacity

HasRoom(t) ==
  /\ At(t, "check")
  /\ mt[Current].state = "READY" /\ ~Full(Current)
  /\ at' = [at EXCEPT ![t].gen = ctxt.generation]
  /\ Goto(t, "insert")
  /\ UNCHANGED <<data, locks, queue, inserted, count>>

\* Full, and the next memtable is not ready: STATUS_BUSY.
Busy(t) ==
  /\ At(t, "check")
  /\ mt[Current].state = "READY" /\ Full(Current)
  /\ mt[Of(ctxt.generation + 1)].state # "READY"
  /\ Unget(t, "insert")
  /\ Goto(t, "busy")
  /\ UNCHANGED <<data, queue, at, inserted, count>>

\* task_perform_one_if_needed, and try again.
BusyWorks(t) == At(t, "busy") /\ Take(t, "begin")
BusyWaits(t) ==
  /\ At(t, "busy")
  /\ tasks = <<>>
  /\ Goto(t, "begin")
  /\ UNCHANGED <<data, locks, queue, at, inserted, count>>

\* memtable_try_begin_insert_rotation: claim the insert lock and stop reading.
Rotating(t) ==
  /\ At(t, "check")
  /\ mt[Current].state = "READY" /\ Full(Current)
  /\ mt[Of(ctxt.generation + 1)].state = "READY"
  /\ IF locks["insert"].claim = Noone
       THEN /\ locks' = [locks EXCEPT !["insert"] =
                           [readers |-> @.readers \ {t}, claim |-> t, writer |-> t]]
            /\ Goto(t, "rotate")
       ELSE /\ Unget(t, "insert")
            /\ Goto(t, "begin")
  /\ at' = [at EXCEPT ![t].gen = ctxt.generation]
  /\ UNCHANGED <<data, queue, inserted, count>>

\* With the lock to itself: finalize the memtable and move on to the next.
Rotate(t) ==
  /\ At(t, "rotate")
  /\ locks["insert"].readers = {}
  /\ Transition(Current, "READY", "FINALIZED")
  /\ ctxt' = [ctxt EXCEPT !.generation = @ + 1, !.is_empty = TRUE]
  /\ locks' = [locks EXCEPT !["insert"] = Free]
  /\ Goto(t, "process")
  /\ UNCHANGED <<branch, root, claimed, queue, at, inserted, count>>

\* memtable_process: trunk_memtable_flush enqueues the task at the tail.
Process(t) ==
  /\ At(t, "process")
  /\ tasks' = Append(tasks, at[t].gen)
  /\ Goto(t, IF t \in Closer THEN "drain" ELSE "begin")
  /\ UNCHANGED <<data, locks, executing, at, inserted, count>>

\* memtable_insert, and the end of the section under the insert lock.
TreeInsert(t) ==
  /\ At(t, "insert")
  /\ inserted' = inserted + 1
  /\ mt' = [mt EXCEPT ![Of(at[t].gen)].tree = @ \cup {inserted'}]
  /\ Goto(t, "inserted")
  /\ UNCHANGED <<ctxt, branch, root, claimed, locks, queue, at, count>>
EndInsert(t) ==
  /\ At(t, "inserted")
  /\ ctxt' = [ctxt EXCEPT !.is_empty = FALSE]
  /\ Unget(t, "insert")
  /\ at' = [at EXCEPT ![t] = Idle]
  /\ \E next \in {"idle"} \cup (IF tasks # <<>> THEN {"after"} ELSE {}) : Goto(t, next)
  /\ UNCHANGED <<mt, branch, root, claimed, queue, inserted, count>>

\* trunk_insert performs a task if enough of them wait.
AfterWorks(t) == At(t, "after") /\ Take(t, "idle")
AfterWaits(t) ==
  /\ At(t, "after")
  /\ tasks = <<>>
  /\ Goto(t, "idle")
  /\ UNCHANGED <<data, locks, queue, at, inserted, count>>
-----------------------------------------------------------------------------
(* trunk_memtable_flush_internal, run by whoever took the task             *)

Mine(t) == Of(at[t].gen)

Compact(t) ==
  /\ At(t, "compact")
  /\ Transition(Mine(t), "FINALIZED", "COMPACTING")
  /\ branch' = [branch EXCEPT ![Mine(t)] = mt[Mine(t)].tree]
  /\ Goto(t, "packed")
  /\ UNCHANGED <<ctxt, root, claimed, locks, queue, at, inserted, count>>
EndCompact(t) ==
  /\ At(t, "packed")
  /\ Transition(Mine(t), "COMPACTING", "COMPACTED")
  /\ Goto(t, "start")
  /\ UNCHANGED <<ctxt, branch, root, claimed, locks, queue, at, inserted, count>>

\* Mutant: whoever has compacted a memtable incorporates it, in whatever order.
TryStartAnyTurn(t) ==
  /\ At(t, "start")
  /\ Transition(Mine(t), "COMPACTED", "INCORPORATION_ASSIGNED")
  /\ Goto(t, "copy")
  /\ UNCHANGED <<ctxt, branch, root, claimed, locks, queue, at, inserted, count>>

\* trunk_try_start_incorporate
TryStart(t) ==
  /\ At(t, "start")
  /\ IF /\ mt[Mine(t)].generation = at[t].gen
        /\ at[t].gen = ctxt.to_incorporate
        /\ mt[Mine(t)].state = "COMPACTED"
       THEN /\ Transition(Mine(t), "COMPACTED", "INCORPORATION_ASSIGNED")
            /\ Goto(t, "copy")
       ELSE Goto(t, "done") /\ UNCHANGED mt
  /\ UNCHANGED <<ctxt, branch, root, claimed, locks, queue, at, inserted, count>>

\* trunk_memtable_incorporate_and_flush: claim the root and make the next one
\* from it, which has the branch.
CopyRoot(t) ==
  /\ At(t, "copy")
  /\ claimed = Noone
  /\ claimed' = t
  /\ at' = [at EXCEPT ![t].new = root \cup branch[Mine(t)]]
  /\ Goto(t, "block")
  /\ UNCHANGED <<ctxt, mt, branch, root, locks, queue, inserted, count>>

\* memtable_block_lookups
BlockLookups(t) ==
  /\ At(t, "block")
  /\ locks["lookup"].claim = Noone
  /\ locks' = [locks EXCEPT !["lookup"].claim = t, !["lookup"].writer = t]
  /\ Goto(t, "retire")
  /\ UNCHANGED <<data, queue, at, inserted, count>>

\* Mutant: readers are let in before the root has been switched.
RetireAndUnblock(t) ==
  /\ At(t, "retire")
  /\ locks["lookup"].readers = {}
  /\ Transition(Mine(t), "INCORPORATION_ASSIGNED", "INCORPORATED")
  /\ ctxt' = [ctxt EXCEPT !.retired = @ + 1]
  /\ locks' = [locks EXCEPT !["lookup"] = Free]
  /\ Goto(t, "switch")
  /\ UNCHANGED <<branch, root, claimed, queue, at, inserted, count>>

Retire(t) ==
  /\ At(t, "retire")
  /\ locks["lookup"].readers = {}
  /\ Transition(Mine(t), "INCORPORATION_ASSIGNED", "INCORPORATED")
  /\ ctxt' = [ctxt EXCEPT !.retired = @ + 1]
  /\ Goto(t, "switch")
  /\ UNCHANGED <<branch, root, claimed, locks, queue, at, inserted, count>>
SwitchRoot(t) ==
  /\ At(t, "switch")
  /\ root' = at[t].new
  /\ claimed' = Noone
  /\ Goto(t, "unblock")
  /\ UNCHANGED <<ctxt, mt, branch, locks, queue, at, inserted, count>>
UnblockLookups(t) ==
  /\ At(t, "unblock")
  /\ locks' = [locks EXCEPT !["lookup"].claim = Noone, !["lookup"].writer = Noone]
  /\ Goto(t, "decref")
  /\ UNCHANGED <<data, queue, at, inserted, count>>

\* memtable_dec_ref_maybe_recycle: the last reference makes the memtable new.
After(t) == IF t \in Reader THEN "release" ELSE "continue"
DecRef(t) ==
  /\ At(t, "decref")
  /\ mt' = [mt EXCEPT ![Mine(t)].refs = @ - 1]
  /\ Goto(t, IF mt[Mine(t)].refs = 1 THEN "recycle" ELSE After(t))
  /\ UNCHANGED <<ctxt, branch, root, claimed, locks, queue, at, inserted, count>>
Recycle(t) ==
  /\ At(t, "recycle")
  /\ mt[Mine(t)].state = "INCORPORATED"
  /\ mt' = [mt EXCEPT ![Mine(t)].tree = {}, ![Mine(t)].refs = 1, ![Mine(t)].generation = @ + Tables]
  /\ Goto(t, "ready")
  /\ UNCHANGED <<ctxt, branch, root, claimed, locks, queue, at, inserted, count>>
Ready(t) ==
  /\ At(t, "ready")
  /\ Transition(Mine(t), "INCORPORATED", "READY")
  /\ Goto(t, After(t))
  /\ UNCHANGED <<ctxt, branch, root, claimed, locks, queue, at, inserted, count>>

\* Mutant: the turn passes on only to a memtable that is compacted already.
TryContinueForgets(t) ==
  /\ At(t, "continue")
  /\ LET next == at[t].gen + 1
         s    == Of(next)
     IN IF mt[s].generation = next /\ mt[s].state = "COMPACTED"
          THEN /\ ctxt' = [ctxt EXCEPT !.to_incorporate = next]
               /\ Transition(s, "COMPACTED", "INCORPORATION_ASSIGNED")
               /\ at' = [at EXCEPT ![t].gen = next]
               /\ Goto(t, "copy")
          ELSE Goto(t, "done") /\ UNCHANGED <<ctxt, mt, at>>
  /\ UNCHANGED <<branch, root, claimed, locks, queue, inserted, count>>

\* trunk_try_continue_incorporate: the next memtable, if it waits for us.
TryContinue(t) ==
  /\ At(t, "continue")
  /\ LET next == at[t].gen + 1
         s    == Of(next)
     IN IF mt[s].generation # next
          THEN Goto(t, "done") /\ UNCHANGED <<ctxt, mt, at>>
          ELSE /\ ctxt' = [ctxt EXCEPT !.to_incorporate = next]
               /\ IF mt[s].state = "COMPACTED"
                    THEN /\ Transition(s, "COMPACTED", "INCORPORATION_ASSIGNED")
                         /\ at' = [at EXCEPT ![t].gen = next]
                         /\ Goto(t, "copy")
                    ELSE Goto(t, "done") /\ UNCHANGED <<mt, at>>
  /\ UNCHANGED <<branch, root, claimed, locks, queue, inserted, count>>
-----------------------------------------------------------------------------
(* trunk_lookup and trunk_range_iterator_init                              *)

BeginLookup(t) ==
  /\ t \in Reader /\ At(t, "idle") /\ count[t] < Calls[t]
  /\ \A u \in Closer : pc[u] = "idle"
  /\ Get(t, "lookup")
  /\ count' = [count EXCEPT ![t] = @ + 1]
  /\ \E scan \in BOOLEAN :
       at' = [at EXCEPT ![t] = [Idle EXCEPT !.floor = inserted, !.scan = scan]]
  /\ Goto(t, "gens")
  /\ UNCHANGED <<data, queue, inserted>>

ReadGenerations(t) ==
  /\ At(t, "gens")
  /\ at' = [at EXCEPT ![t].gen = ctxt.generation, ![t].last = ctxt.retired]
  /\ Goto(t, "tables")
  /\ UNCHANGED <<data, locks, queue, inserted, count>>

\* memtable_ok_to_lookup_compacted
Compacted(s) == mt[s].state \in {"COMPACTED", "INCORPORATION_ASSIGNED"}

\* trunk_memtable_root_addr_for_lookup: the packed branch, or the memtable.
PickTable(t) ==
  /\ At(t, "tables") /\ ~at[t].scan
  /\ at[t].gen # at[t].last
  /\ at' = [at EXCEPT ![t].from = IF Compacted(Mine(t)) THEN "branch" ELSE "memtable"]
  /\ Goto(t, "read")
  /\ UNCHANGED <<data, locks, queue, inserted, count>>

\* trunk_memtable_lookup: an insert is definitive and ends the lookup.
ReadTable(t) ==
  /\ At(t, "read")
  /\ LET found == IF at[t].from = "branch" THEN branch[Mine(t)] ELSE mt[Mine(t)].tree
     IN IF found # {}
          THEN /\ at' = [at EXCEPT ![t].seen = found, ![t].from = ""]
               /\ Unget(t, "lookup")
               /\ Goto(t, "found")
          ELSE /\ at' = [at EXCEPT ![t].gen = @ - 1, ![t].from = ""]
               /\ Goto(t, "tables")
               /\ UNCHANGED locks
  /\ UNCHANGED <<data, queue, inserted, count>>

\* An iterator keeps what it will read: a branch cannot go away (its dec_ref
\* is blocked), a memtable is given a reference.
KeepTable(t) ==
  /\ At(t, "tables") /\ at[t].scan
  /\ at[t].gen # at[t].last
  /\ IF Compacted(Mine(t))
       THEN /\ at' = [at EXCEPT ![t].gen = @ - 1, ![t].seen = @ \cup branch[Mine(t)]]
            /\ UNCHANGED mt
       ELSE /\ mt' = [mt EXCEPT ![Mine(t)].refs = @ + 1]
            /\ at' = [at EXCEPT ![t].gen = @ - 1, ![t].held = @ \cup {at[t].gen}]
  /\ UNCHANGED <<ctxt, branch, root, claimed, locks, queue, pc, inserted, count>>

\* trunk_root_get, and the end of the section under the lookup lock.  What is
\* under that root does not change.
ReadRoot(t) ==
  /\ At(t, "tables")
  /\ at[t].gen = at[t].last
  /\ at' = [at EXCEPT ![t].seen = @ \cup root]
  /\ Unget(t, "lookup")
  /\ Goto(t, IF at[t].scan THEN "scan" ELSE "found")
  /\ UNCHANGED <<data, queue, inserted, count>>

\* The iterator reads the memtables it has kept.
Scan(t) ==
  /\ At(t, "scan")
  /\ at' = [at EXCEPT ![t].seen = @ \cup UNION {mt[Of(g)].tree : g \in at[t].held}]
  /\ Goto(t, "found")
  /\ UNCHANGED <<data, locks, queue, inserted, count>>

Found(t) ==
  /\ At(t, "found")
  /\ Goto(t, "release")
  /\ at' = [at EXCEPT ![t].seen = {}, ![t].floor = 0]
  /\ UNCHANGED <<data, locks, queue, inserted, count>>

\* trunk_range_iterator_deinit: give the references back, newest first.
Release(t) ==
  /\ At(t, "release")
  /\ IF at[t].held = {}
       THEN Goto(t, "idle") /\ at' = [at EXCEPT ![t] = Idle]
       ELSE /\ \E g \in at[t].held :
                 /\ \A h \in at[t].held : h <= g
                 /\ at' = [at EXCEPT ![t].gen = g, ![t].held = @ \ {g}]
            /\ Goto(t, "decref")
  /\ UNCHANGED <<data, locks, queue, inserted, count>>
-----------------------------------------------------------------------------
(* trunk_prepare_for_shutdown                                              *)

\* The other calls have returned; whether the tasks have ended too is up to
\* the application.
Close(t) ==
  /\ t \in Closer /\ At(t, "idle")
  /\ \A u \in Inserter \cup Reader : pc[u] = "idle"
  /\ ClosesIdle => tasks = <<>> /\ executing = 0
  /\ Goto(t, IF ctxt.is_empty THEN "drain" ELSE "finalize")
  /\ UNCHANGED <<data, locks, queue, at, inserted, count>>

\* memtable_force_finalize, which does not look at the next memtable.
ForceFinalize(t) ==
  /\ At(t, "finalize")
  /\ Transition(Current, "READY", "FINALIZED")
  /\ ctxt' = [ctxt EXCEPT !.generation = @ + 1, !.is_empty = TRUE]
  /\ at' = [at EXCEPT ![t].gen = ctxt.generation]
  /\ Goto(t, "process")
  /\ UNCHANGED <<branch, root, claimed, locks, queue, inserted, count>>

\* task_perform_until_quiescent
DrainOne(t) == At(t, "drain") /\ Take(t, "drain")

Quiescent   == tasks = <<>> /\ executing = 0
Closed(t) ==
  /\ At(t, "drain")
  /\ Quiescent
  /\ Goto(t, "closed")
  /\ UNCHANGED <<data, locks, queue, at, inserted, count>>
-----------------------------------------------------------------------------
InsertStep(t) ==
  \/ BeginAgain(t) \/ HasRoom(t) \/ Busy(t) \/ BusyWorks(t) \/ BusyWaits(t)
  \/ Rotating(t) \/ Rotate(t) \/ Process(t) \/ TreeInsert(t) \/ EndInsert(t)
  \/ AfterWorks(t) \/ AfterWaits(t)
FlushStep(t) ==
  \/ WorkerTakes(t) \/ TaskDone(t) \/ Compact(t) \/ EndCompact(t)
  \/ TryStart(t) \/ CopyRoot(t) \/ BlockLookups(t) \/ Retire(t) \/ SwitchRoot(t)
  \/ UnblockLookups(t) \/ DecRef(t) \/ Recycle(t) \/ Ready(t) \/ TryContinue(t)
ReadStep(t) ==
  \/ ReadGenerations(t) \/ PickTable(t) \/ ReadTable(t) \/ KeepTable(t) \/ ReadRoot(t)
  \/ Scan(t) \/ Found(t) \/ Release(t)
CloseStep(t) == ForceFinalize(t) \/ DrainOne(t) \/ Closed(t)

\* What a thread does once it has begun, and a worker whenever it can.
Step(t) == InsertStep(t) \/ FlushStep(t) \/ ReadStep(t) \/ CloseStep(t)

Next == \E t \in Thread : BeginInsert(t) \/ BeginLookup(t) \/ Close(t) \/ Step(t)

Spec     == Init /\ [][Next]_vars

-----------------------------------------------------------------------------
Label == {"idle", "begin", "check", "busy", "rotate", "process", "insert", "inserted", "after",
          "compact", "packed", "start", "copy", "block", "retire", "switch", "unblock",
          "decref", "recycle", "ready", "continue", "done", "gens", "tables", "read", "scan",
          "found", "release", "finalize", "drain", "closed"}

\* Every variable keeps its type.
TypeOK ==
  /\ ctxt \in [generation : Nat, to_incorporate : Nat, retired : Nat \cup {-1}, is_empty : BOOLEAN]
  /\ mt \in [Slot -> [state : States, generation : Nat, tree : SUBSET Insert, refs : Nat]]
  /\ branch \in [Slot -> SUBSET Insert]
  /\ root \in SUBSET Insert
  /\ claimed \in Thread \cup {Noone}
  /\ locks \in [{"insert", "lookup"} ->
                [readers : SUBSET Thread, claim : Thread \cup {Noone}, writer : Thread \cup {Noone}]]
  /\ tasks \in Seq(Nat) /\ executing \in Nat
  /\ pc \in [Thread -> Label]
  /\ at \in [Thread -> [gen : Nat \cup {-1}, last : Nat \cup {-1}, new : SUBSET Insert,
                       seen : SUBSET Insert, floor : Nat, from : {"", "branch", "memtable"},
                       held : SUBSET Nat, scan : BOOLEAN, back : {"idle", "begin", "drain"}]]
  /\ inserted \in Nat
  /\ count \in [Inserter \cup Reader -> Nat]

\* The assertions of trunk_get_memtable and trunk_memtable_root_addr_for_lookup:
\* while somebody reads under the lookup lock, every memtable of the window it
\* read has its generation and has not been incorporated.
WindowThere ==
  \A r \in Reader : At(r, "tables") =>
    \A g \in (at[r].last + 1) .. at[r].gen :
      /\ mt[Of(g)].generation = g
      /\ mt[Of(g)].state \notin {"INCORPORATING", "INCORPORATED"}

\* The tables a reader looks at are there, and a lookup or an iterator returns,
\* or has in what it keeps, the newest of the inserts that were in a tree when
\* it began (trunk_lookup, 7030-7110).
ReadsFresh ==
  /\ WindowThere
  /\ \A r \in Reader : At(r, "found") /\ at[r].floor > 0 =>
       \E n \in at[r].seen : n >= at[r].floor

\* memtable.c:276: "generation - generation_retired <= max_memtables": no two
\* generations of the window share a memtable.
WindowFits == ctxt.generation - ctxt.retired <= Tables

\* Whoever has the insert lock finds the current memtable ready, so that the
\* back-off of memtable_maybe_rotate_and_begin_insert (memtable.c:126) is never
\* taken and is no action here: a rotation looks at the next memtable first.
CurrentReady == \A t \in Thread : At(t, "check") => mt[Current].state = "READY"

\* Whatever has been inserted is in the trunk or in a memtable of the window,
\* and the trunk has the oldest inserts without a gap: memtables are
\* incorporated in the order of their generations, once.
NothingLost ==
  /\ TypeOK /\ WindowFits /\ CurrentReady
  /\ root = 1 .. Cardinality(root)
  /\ (\A t \in Thread : ~At(t, "switch")) =>
       root \cup UNION {mt[Of(g)].tree : g \in (ctxt.retired + 1) .. ctxt.generation} = 1 .. inserted

\* Whoever ends its task hands the turn on: when no task waits or runs, every
\* memtable that was finalized has been incorporated, and a database that has
\* been closed has all its inserts in the trunk.
HandedOn ==
  /\ Quiescent /\ (\A t \in Thread : ~At(t, "process")) => ctxt.retired = ctxt.generation - 1
  /\ \A t \in Closer : At(t, "closed") => root = 1 .. inserted
=============================================================================
