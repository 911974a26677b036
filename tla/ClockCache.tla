------------------------------ MODULE ClockCache ------------------------------
(***************************************************************************)
(* clockcache.c: pages of the disk in the entries of a cache.  A thread    *)
(* that misses takes a free entry from the batch it owns; when there is    *)
(* none it moves the clock hand, which writes back the dirty entries of a  *)
(* batch further on and evicts the entries of the next batch.  Entries are *)
(* guarded by the flags of their status, changed by single atomic          *)
(* instructions, and by reference counts that threads share by their       *)
(* number.                                                                 *)
(*                                                                         *)
(* A batch is one entry here (CC_ENTRIES_PER_BATCH).  What a page holds is *)
(* abstracted to whether it is the last thing written to its address.      *)
(***************************************************************************)
EXTENDS Integers, Sequences, FiniteSets

CONSTANTS
  Thread,      \* numbers of threads
  Width,       \* CC_RC_WIDTH: counters of each entry
  Entry,       \* 0 .. N - 1, the order of the clock hand
  Addr,        \* the addresses of pages
  Extent,      \* the extent of each
  CleanerGap,  \* how far the cleaner is ahead of the evictor
  MaxPasses,   \* passes for a free page of a lookup that does not wait
  Queue,       \* requests the disk takes at a time
  Programs,    \* for each thread, the sets of jobs to choose from one after the other
  Loaded       \* the pages on the disk at the start

None == -1
Op   == {"read", "write", "async", "alloc", "pinned", "discard", "prefetch", "flush"}
Job  == [op : Op, addr : Addr]
Flag == {"free", "accessed", "clean", "writeback", "loading", "locked", "claimed"}
Slot == 0 .. Width - 1

CacheAssumption ==
  /\ Thread \subseteq Nat /\ IsFiniteSet(Thread) /\ Width \in Nat \ {0}
  /\ IsFiniteSet(Entry) /\ Entry = 0 .. Cardinality(Entry) - 1 /\ Entry # {}
  /\ Addr \subseteq Nat /\ Loaded \subseteq Addr /\ Extent \in [Addr -> Nat]
  /\ CleanerGap \in Nat /\ MaxPasses \in Nat /\ Queue \in Nat \ {0}
  /\ Programs \in [Thread -> Seq(SUBSET Job)]

VARIABLES
  status,   \* the flags of each entry
  at,       \* page.disk_addr of each entry
  lookup,   \* the entry of each address
  refs,     \* reference counts, by entry and counter
  pins,     \* pincount
  busy,     \* batch_busy: the batches that a thread owns or cleans
  hand,     \* evict_hand
  io,       \* the requests the disk has
  fresh,    \* the entries that hold the last thing written to their address
  stored,   \* the addresses for which the disk does
  live,     \* the pages allocated by the users of the cache
  th        \* what each thread does

entryVars == <<status, at, lookup, refs, pins>>
sweepVars == <<busy, hand>>
dataVars  == <<fresh, stored, live>>
vars == <<entryVars, sweepVars, io, dataVars, th>>

\* A thread and its job; then the locals of the job: the addresses left to it,
\* the entry it looks at (to evict it?) and what it has seen of it, the passes of
\* its search for a free page, the batches it evicts and cleans, the dirty pages
\* around the one it cleans, and those of its next request.
Begun == [pc |-> "idle", job |-> [op |-> "read", addr |-> None], done |-> 0, own |-> None,
          todo |-> {}, ent |-> None, evicting |-> FALSE, seen |-> FALSE,
          passes |-> 0, max |-> None, victim |-> None, batch |-> None,
          lo |-> 0, hi |-> 0, run |-> {}]

Init ==
  /\ status = [e \in Entry |-> {"free"}]
  /\ at = [e \in Entry |-> None]
  /\ lookup = [a \in Addr |-> None]
  /\ refs = [e \in Entry |-> [c \in Slot |-> 0]]
  /\ pins = [e \in Entry |-> 0]
  /\ busy = {} /\ hand = 0 /\ io = {} /\ fresh = {}
  /\ stored = Loaded /\ live = Loaded
  /\ th = [t \in Thread |-> Begun]

At(t, label) == th[t].pc = label
Become(t, r) == th' = [th EXCEPT ![t] = r]
From(t, label) == [th[t] EXCEPT !.pc = label]
Goto(t, label) == Become(t, From(t, label))

\* The job is done; the thread keeps its batch.
Idle(t) == [Begun EXCEPT !.job = th[t].job, !.done = th[t].done, !.own = th[t].own]

OpOf(t) == th[t].job.op
Ent(t)  == th[t].ent
Page(t) == CHOOSE a \in th[t].todo : \A b \in th[t].todo : a <= b
Has(e, flag) == flag \in status[e]
Set(e, flags)   == status' = [status EXCEPT ![e] = @ \cup flags]
Clear(e, flags) == status' = [status EXCEPT ![e] = @ \ flags]
Counter(t) == t % Width
Count(t, e, n) == refs' = [refs EXCEPT ![e][Counter(t)] = @ + n]
Drop(t) == Count(t, Ent(t), -1)

-----------------------------------------------------------------------------
(* The users of the cache.  An extent has a reference for every user, is   *)
(* discarded by the last one, and only then allocated again; the cache is  *)
(* flushed when nobody uses it.                                            *)

Pages(x) == {a \in Addr : Extent[a] = x}
Allocs == {"alloc", "pinned"}

Allowed(t, j) ==
  LET x == Extent[j.addr]
      others == {u \in Thread \ {t} : ~At(u, "idle") /\ Extent[th[u].job.addr] = x} IN
    CASE j.op \in Allocs   -> /\ j.addr \notin live
                              /\ \A u \in others : /\ th[u].job.addr # j.addr
                                                   /\ OpOf(u) \notin {"discard", "prefetch"}
      [] j.op = "discard"  -> Pages(x) \cap live # {} /\ others = {}
      [] j.op = "prefetch" -> Pages(x) \subseteq live /\ \A u \in others : OpOf(u) # "discard"
      [] j.op = "flush"    -> \A u \in Thread : At(u, "idle")
      [] OTHER             -> j.addr \in live /\ \A u \in others : OpOf(u) # "discard"

ForFree(r) == [r EXCEPT !.pc = "free", !.passes = 0, !.max = r.own]

Start(t) ==
  /\ At(t, "idle") /\ th[t].done < Len(Programs[t])
  /\ \A u \in Thread \ {t} : At(u, "idle") \/ OpOf(u) # "flush"
  /\ \E j \in Programs[t][th[t].done + 1] :
       /\ Allowed(t, j)
       /\ LET r == [th[t] EXCEPT !.job = j, !.done = @ + 1,
                                 !.todo = IF j.op \in {"discard", "prefetch"}
                                          THEN Pages(Extent[j.addr]) ELSE {j.addr}] IN
            Become(t, IF j.op \in Allocs THEN ForFree(r)
                      ELSE [r EXCEPT !.pc = IF j.op = "flush" THEN "drain" ELSE "lookup"])
       /\ live' = IF j.op = "discard" THEN live \ Pages(Extent[j.addr]) ELSE live
  /\ UNCHANGED <<entryVars, sweepVars, io, fresh, stored>>

\* A user may also do nothing more.
Leave(t) ==
  /\ At(t, "idle") /\ th[t].done < Len(Programs[t])
  /\ Become(t, [th[t] EXCEPT !.done = Len(Programs[t])])
  /\ UNCHANGED <<entryVars, sweepVars, io, dataVars>>

\* What is left of the job: the next page, or nothing.  A prefetch issues the
\* pages it has collected before a page that is in the cache, and at the end.
Rest(t) ==
  IF th[t].todo # {Page(t)}
  THEN [th[t] EXCEPT !.pc = "lookup", !.todo = @ \ {Page(t)}, !.ent = None, !.run = {}]
  ELSE Idle(t)

Request(write, run) == io' = io \cup {[write |-> write, pages |-> run]}

Issue(t) == IF th[t].run = {} THEN UNCHANGED io ELSE Request(FALSE, th[t].run)

-----------------------------------------------------------------------------
(* clockcache_try_get_read                                                 *)

Lookup(t) ==
  /\ At(t, "lookup")
  /\ LET e == lookup[Page(t)] IN
       Become(t, IF e # None THEN [From(t, "test") EXCEPT !.ent = e]
                 ELSE IF OpOf(t) = "discard" THEN Rest(t) ELSE ForFree(th[t]))
  /\ UNCHANGED <<entryVars, sweepVars, io, dataVars>>

\* What it means to a caller that the entry is write locked: the evictor
\* passes, a prefetch and a lookup that does not wait give up, others wait.
Conflict(t) ==
  CASE th[t].evicting            -> Goto(t, "swept") /\ UNCHANGED io
    [] OpOf(t) = "prefetch"      -> Become(t, Rest(t)) /\ Issue(t)
    [] OpOf(t) = "async"         -> Become(t, Rest(t)) /\ UNCHANGED io
    [] OTHER                     -> Goto(t, "test") /\ UNCHANGED io

\* What it means that the entry was evicted.
Evicted(t) ==
  CASE th[t].evicting            -> Goto(t, "swept")
    [] OpOf(t) = "prefetch"      -> Become(t, ForFree(th[t]))
    [] OpOf(t) = "async"         -> Become(t, Rest(t))
    [] OTHER                     -> Goto(t, "lookup")

Test(t) ==
  /\ At(t, "test")
  /\ IF Has(Ent(t), "locked")
     THEN /\ th[t].evicting \/ OpOf(t) \in {"prefetch", "async"}
          /\ Conflict(t)
     ELSE Goto(t, "ref") /\ UNCHANGED io
  /\ UNCHANGED <<entryVars, sweepVars, dataVars>>

Ref(t) ==
  /\ At(t, "ref")
  /\ Count(t, Ent(t), 1)
  /\ Goto(t, "isfree")
  /\ UNCHANGED <<status, at, lookup, pins, sweepVars, io, dataVars>>

IsFree(t) ==
  /\ At(t, "isfree")
  /\ Become(t, [From(t, "islocked") EXCEPT !.seen = Has(Ent(t), "free")])
  /\ UNCHANGED <<entryVars, sweepVars, io, dataVars>>

\* Mutant: the reference is kept where the entry is locked.
IsLockedKeeping(t) ==
  /\ At(t, "islocked")
  /\ IF ~th[t].seen /\ ~Has(Ent(t), "locked")
     THEN Goto(t, IF th[t].evicting THEN "claim" ELSE "access") /\ UNCHANGED <<refs, io>>
     ELSE IF th[t].seen THEN Drop(t) /\ Evicted(t) /\ UNCHANGED io
          ELSE Conflict(t) /\ UNCHANGED refs
  /\ UNCHANGED <<status, at, lookup, pins, sweepVars, dataVars>>

IsLocked(t) ==
  /\ At(t, "islocked")
  /\ IF ~th[t].seen /\ ~Has(Ent(t), "locked")
     THEN Goto(t, IF th[t].evicting THEN "claim" ELSE "access") /\ UNCHANGED <<refs, io>>
     ELSE Drop(t) /\ IF th[t].seen THEN Evicted(t) /\ UNCHANGED io ELSE Conflict(t)
  /\ UNCHANGED <<status, at, lookup, pins, sweepVars, dataVars>>

\* The access bit, and what the caller does with its reference.
Access(t) ==
  /\ At(t, "access")
  /\ Set(Ent(t), {"accessed"})
  /\ Goto(t, CASE OpOf(t) = "prefetch" -> "skip"
               [] OpOf(t) = "discard"  -> "loading"
               [] OTHER                -> "match")
  /\ UNCHANGED <<at, lookup, refs, pins, sweepVars, io, dataVars>>

\* A page that is in the cache is not prefetched.
Skip(t) ==
  /\ At(t, "skip")
  /\ Drop(t) /\ Become(t, Rest(t)) /\ Issue(t)
  /\ UNCHANGED <<status, at, lookup, pins, sweepVars, dataVars>>

Matched(t) == IF OpOf(t) = "discard" THEN "claim" ELSE "loading"

\* Mutant: the address of the entry is not looked at again.
MatchAny(t) ==
  /\ At(t, "match")
  /\ Goto(t, Matched(t))
  /\ UNCHANGED <<entryVars, sweepVars, io, dataVars>>

\* The entry may hold another page by now.
Match(t) ==
  /\ At(t, "match")
  /\ IF at[Ent(t)] = Page(t)
     THEN Goto(t, Matched(t)) /\ UNCHANGED refs
     ELSE Drop(t) /\ Evicted(t)
  /\ UNCHANGED <<status, at, lookup, pins, sweepVars, io, dataVars>>

\* Another thread reads the page: wait, or give up.  A discard looks at the
\* address after the wait, a lookup has looked before it.
Loading(t) ==
  /\ At(t, "loading")
  /\ IF Has(Ent(t), "loading")
     THEN OpOf(t) = "async" /\ Drop(t) /\ Become(t, Rest(t))
     ELSE /\ UNCHANGED refs
          /\ Goto(t, CASE OpOf(t) = "discard" -> "match"
                       [] OpOf(t) = "write"   -> "claim"
                       [] OTHER               -> "hold")
  /\ UNCHANGED <<status, at, lookup, pins, sweepVars, io, dataVars>>

-----------------------------------------------------------------------------
(* Claims and write locks                                                  *)

\* clockcache_try_get_claim: a caller that fails gives its reference back.
Claim(t) ==
  /\ At(t, "claim")
  /\ Set(Ent(t), {"claimed"})
  /\ Goto(t, CASE Has(Ent(t), "claimed") -> IF th[t].evicting THEN "unref" ELSE "back"
               [] th[t].evicting /\ Has(Ent(t), "loading") -> "unclaim"
               [] OTHER -> "lock")
  /\ UNCHANGED <<at, lookup, refs, pins, sweepVars, io, dataVars>>

Back(t) ==
  /\ At(t, "back")
  /\ Drop(t) /\ Goto(t, "lookup")
  /\ UNCHANGED <<status, at, lookup, pins, sweepVars, io, dataVars>>

\* clockcache_get_write, clockcache_try_get_write
Lock(t) ==
  /\ At(t, "lock")
  /\ Set(Ent(t), {"locked"})
  /\ Goto(t, "quiet")
  /\ UNCHANGED <<at, lookup, refs, pins, sweepVars, io, dataVars>>

\* The page is not being written: the evictor gives up where others wait ...
Quiet(t) ==
  /\ At(t, "quiet")
  /\ IF Has(Ent(t), "writeback")
     THEN th[t].evicting /\ Goto(t, "unlock")
     ELSE Goto(t, "readers")
  /\ UNCHANGED <<entryVars, sweepVars, io, dataVars>>

\* ... and no reference is left but the caller's.
LastReader(t) ==
  \A c \in Slot : refs[Ent(t)][c] <= IF c = Counter(t) THEN 1 ELSE 0

Readers(t) ==
  /\ At(t, "readers")
  /\ IF LastReader(t)
     THEN Goto(t, IF th[t].evicting THEN "verify"
                  ELSE IF OpOf(t) = "discard" THEN "unmap" ELSE "granted")
     ELSE th[t].evicting /\ Goto(t, "unlock")
  /\ UNCHANGED <<entryVars, sweepVars, io, dataVars>>

\* The user writes and marks the page as dirty, and may pin a new one.
Modify(t) ==
  /\ At(t, "granted")
  /\ fresh' = fresh \cup {Ent(t)}
  /\ stored' = stored \ {Page(t)}
  /\ live' = live \cup {Page(t)}
  /\ Clear(Ent(t), {"clean"})
  /\ pins' = IF OpOf(t) = "pinned" THEN [pins EXCEPT ![Ent(t)] = @ + 1] ELSE pins
  /\ Goto(t, "unlock")
  /\ UNCHANGED <<at, lookup, refs, sweepVars, io>>

Unlock(t) ==
  /\ At(t, "unlock")
  /\ Clear(Ent(t), {"locked"})
  /\ Goto(t, "unclaim")
  /\ UNCHANGED <<at, lookup, refs, pins, sweepVars, io, dataVars>>

Unclaim(t) ==
  /\ At(t, "unclaim")
  /\ Clear(Ent(t), {"claimed"})
  /\ Goto(t, IF th[t].evicting THEN "unref" ELSE "hold")
  /\ UNCHANGED <<at, lookup, refs, pins, sweepVars, io, dataVars>>

\* clockcache_unget
Unget(t) ==
  /\ At(t, "hold")
  /\ Set(Ent(t), {"accessed"})
  /\ Goto(t, "unref")
  /\ UNCHANGED <<at, lookup, refs, pins, sweepVars, io, dataVars>>

Unref(t) ==
  /\ At(t, "unref")
  /\ Drop(t)
  /\ IF th[t].evicting THEN Goto(t, "swept") ELSE Become(t, Rest(t))
  /\ UNCHANGED <<status, at, lookup, pins, sweepVars, io, dataVars>>

-----------------------------------------------------------------------------
(* Free pages and what is done with them                                   *)

\* clockcache_get_free_page: an entry of the thread's own batch, or none after
\* some passes.
Free(t) ==
  /\ At(t, "free")
  /\ LET e == th[t].own IN
       IF e # None /\ status[e] = {"free"}
       THEN /\ status' = [status EXCEPT ![e] = {"locked", "claimed"}]
            /\ Become(t, [From(t, IF OpOf(t) \in Allocs THEN "fill" ELSE "reserve") EXCEPT !.ent = e])
            /\ IF OpOf(t) = "prefetch" THEN UNCHANGED refs ELSE Count(t, e, 1)
       ELSE Goto(t, "move") /\ UNCHANGED <<status, refs>>
  /\ UNCHANGED <<at, lookup, pins, sweepVars, io, dataVars>>

\* clockcache_alloc
Fill(t) ==
  /\ At(t, "fill")
  /\ at' = [at EXCEPT ![Ent(t)] = Page(t)]
  /\ lookup' = [lookup EXCEPT ![Page(t)] = Ent(t)]
  /\ Goto(t, "granted")
  /\ UNCHANGED <<status, refs, pins, sweepVars, io, dataVars>>

\* The status of a page that will be read.  A prefetch gives the entry its
\* address before it has the lookup.
Reserve(t) ==
  /\ At(t, "reserve")
  /\ status' = [status EXCEPT ![Ent(t)] = {"accessed", "clean", "loading"}]
  /\ at' = IF OpOf(t) = "prefetch" THEN [at EXCEPT ![Ent(t)] = Page(t)] ELSE at
  /\ Goto(t, "publish")
  /\ UNCHANGED <<lookup, refs, pins, sweepVars, io, dataVars>>

\* The compare-and-swap on the lookup decides who reads the page.
Publish(t) ==
  /\ At(t, "publish")
  /\ IF lookup[Page(t)] = None
     THEN lookup' = [lookup EXCEPT ![Page(t)] = Ent(t)] /\ Goto(t, "load")
     ELSE UNCHANGED lookup /\ Goto(t, "lost")
  /\ UNCHANGED <<status, at, refs, pins, sweepVars, io, dataVars>>

\* Somebody else reads it: the entry is free again.  A lookup that does not
\* wait frees the entry before it gives its reference back, others after.
Lost(t) ==
  /\ At(t, "lost")
  /\ at' = [at EXCEPT ![Ent(t)] = None]
  /\ CASE OpOf(t) = "prefetch" -> Goto(t, "tofree") /\ UNCHANGED <<refs, status>>
       [] OpOf(t) = "async"    -> /\ status' = [status EXCEPT ![Ent(t)] = {"free"}]
                                  /\ Goto(t, "unref") /\ UNCHANGED refs
       [] OTHER                -> Drop(t) /\ Goto(t, "tofree") /\ UNCHANGED status
  /\ UNCHANGED <<lookup, pins, sweepVars, io, dataVars>>

ToFree(t) ==
  /\ At(t, "tofree")
  /\ status' = [status EXCEPT ![Ent(t)] = {"free"}]
  /\ Goto(t, "lookup")
  /\ UNCHANGED <<at, lookup, refs, pins, sweepVars, io, dataVars>>

\* The page is read at once, or a request is made; a prefetch collects pages.
Load(t) ==
  /\ At(t, "load")
  /\ at' = [at EXCEPT ![Ent(t)] = Page(t)]
  /\ fresh' = IF OpOf(t) \in {"read", "write"} /\ Page(t) \in stored
              THEN fresh \cup {Ent(t)} ELSE fresh \ {Ent(t)}
  /\ LET page == [addr |-> Page(t), entry |-> Ent(t)]
         run  == th[t].run \cup {page} IN
     CASE OpOf(t) = "async"    -> IF Cardinality(io) < Queue
                                  THEN Request(FALSE, {page}) /\ Goto(t, "started")
                                  ELSE Goto(t, "undo") /\ UNCHANGED io
       [] OpOf(t) = "prefetch" -> IF th[t].todo = {Page(t)}
                                  THEN Request(FALSE, run) /\ Become(t, Idle(t))
                                  ELSE Become(t, [Rest(t) EXCEPT !.run = run]) /\ UNCHANGED io
       [] OTHER                -> Goto(t, "loaded") /\ UNCHANGED io
  /\ UNCHANGED <<status, lookup, refs, pins, sweepVars, stored, live>>

Finish(t) ==
  /\ At(t, "loaded")
  /\ Clear(Ent(t), {"loading"})
  /\ Goto(t, IF OpOf(t) = "write" THEN "claim" ELSE "hold")
  /\ UNCHANGED <<at, lookup, refs, pins, sweepVars, io, dataVars>>

\* No request is to be had: the entry is given up.
Undo(t) ==
  /\ At(t, "undo")
  /\ lookup' = [lookup EXCEPT ![Page(t)] = None]
  /\ at' = [at EXCEPT ![Ent(t)] = None]
  /\ Goto(t, "setfree")
  /\ UNCHANGED <<status, refs, pins, sweepVars, io, dataVars>>

\* The page has come (clockcache_read_async_callback).
Started(t) ==
  /\ At(t, "started") /\ ~Has(Ent(t), "loading")
  /\ Goto(t, "hold")
  /\ UNCHANGED <<entryVars, sweepVars, io, dataVars>>

-----------------------------------------------------------------------------
(* clockcache_move_hand and clockcache_batch_start_writeback               *)

Size == Cardinality(Entry)

\* The batch of the thread is released, and the hand moves on.
Move(t) ==
  /\ At(t, "move")
  /\ busy' = busy \ {th[t].own}
  /\ Goto(t, "advance")
  /\ UNCHANGED <<entryVars, hand, io, dataVars>>

Advance(t) ==
  /\ At(t, "advance")
  /\ LET victim == (hand + 1) % Size
         batch == (victim + CleanerGap) % Size IN
       /\ hand' = victim
       /\ IF batch \in busy
          THEN Become(t, [From(t, "take") EXCEPT !.victim = victim]) /\ UNCHANGED busy
          ELSE /\ busy' = busy \cup {batch}
               /\ Become(t, [From(t, "clean") EXCEPT !.victim = victim, !.batch = batch])
  /\ UNCHANGED <<entryVars, io, dataVars>>

\* clockcache_try_set_writeback: accessed pages only in a second pass.
Cleanable(t, e) ==
  \/ status[e] = {}
  \/ status[e] = {"accessed"} /\ (th[t].passes > 0 \/ OpOf(t) = "flush")

\* After the batch, the next one of a flush, or the eviction.
Cleaned(t) == [From(t, IF OpOf(t) = "flush" THEN "next" ELSE "release")
                 EXCEPT !.ent = None, !.lo = 0, !.hi = 0]

Clean(t) ==
  /\ At(t, "clean")
  /\ LET e == th[t].batch IN
       IF Cleanable(t, e)
       THEN Set(e, {"writeback"}) /\ Become(t, [From(t, "before") EXCEPT !.lo = at[e], !.hi = at[e]])
       ELSE UNCHANGED status /\ Become(t, Cleaned(t))
  /\ UNCHANGED <<at, lookup, refs, pins, sweepVars, io, dataVars>>

\* The pages before and after it in the extent, as far as they are dirty too.
Neighbour(t) == IF At(t, "before") THEN th[t].lo - 1 ELSE th[t].hi + 1
After(t) == IF th[t].pc \in {"before", "setbefore"} THEN "after" ELSE "collect"

Walk(t) ==
  /\ th[t].pc \in {"before", "after"}
  /\ LET a == Neighbour(t) IN
       Become(t, IF a \in Pages(Extent[th[t].lo]) /\ lookup[a] # None
                 THEN [From(t, IF At(t, "before") THEN "setbefore" ELSE "setafter")
                         EXCEPT !.ent = lookup[a]]
                 ELSE From(t, After(t)))
  /\ UNCHANGED <<entryVars, sweepVars, io, dataVars>>

WalkSet(t) ==
  /\ th[t].pc \in {"setbefore", "setafter"}
  /\ IF Cleanable(t, Ent(t))
     THEN /\ Set(Ent(t), {"writeback"})
          /\ Become(t, IF At(t, "setbefore") THEN [From(t, "before") EXCEPT !.lo = @ - 1]
                       ELSE [From(t, "after") EXCEPT !.hi = @ + 1])
     ELSE UNCHANGED status /\ Goto(t, After(t))
  /\ UNCHANGED <<at, lookup, refs, pins, sweepVars, io, dataVars>>

Collect(t) ==
  /\ At(t, "collect") /\ Cardinality(io) < Queue
  /\ Request(TRUE, {[addr |-> a, entry |-> lookup[a]] : a \in th[t].lo .. th[t].hi})
  /\ Become(t, Cleaned(t))
  /\ UNCHANGED <<entryVars, sweepVars, dataVars>>

Release(t) ==
  /\ At(t, "release")
  /\ busy' = busy \ {th[t].batch}
  /\ Become(t, [From(t, "take") EXCEPT !.batch = None])
  /\ UNCHANGED <<entryVars, hand, io, dataVars>>

Take(t) ==
  /\ At(t, "take")
  /\ IF th[t].victim \in busy THEN Goto(t, "advance") /\ UNCHANGED busy
     ELSE Goto(t, "look") /\ busy' = busy \cup {th[t].victim}
  /\ UNCHANGED <<entryVars, hand, io, dataVars>>

-----------------------------------------------------------------------------
(* clockcache_try_evict                                                    *)

\* The access bit is cleared; an entry is evicted when it was clean and
\* nothing else, and the thread has no reference of its own.
Look(t) ==
  /\ At(t, "look")
  /\ LET e == th[t].victim IN
       /\ Clear(e, {"accessed"})
       /\ IF status[e] = {"clean"} /\ refs[e][Counter(t)] = 0 /\ pins[e] = 0
          THEN Become(t, [From(t, "test") EXCEPT !.ent = e, !.evicting = TRUE])
          ELSE Goto(t, "swept")
  /\ UNCHANGED <<at, lookup, refs, pins, sweepVars, io, dataVars>>

Verify(t) ==
  /\ At(t, "verify")
  /\ Goto(t, IF status[Ent(t)] = {"clean", "claimed", "locked"} /\ pins[Ent(t)] = 0
             THEN "unmap" ELSE "unlock")
  /\ UNCHANGED <<entryVars, sweepVars, io, dataVars>>

\* Eviction, and discard of a page: the lookup, the address, the status, the
\* pins of a discarded page, and at last the reference.
Unmap(t) ==
  /\ At(t, "unmap")
  /\ lookup' = IF at[Ent(t)] = None THEN lookup ELSE [lookup EXCEPT ![at[Ent(t)]] = None]
  /\ at' = [at EXCEPT ![Ent(t)] = None]
  /\ Goto(t, "setfree")
  /\ UNCHANGED <<status, refs, pins, sweepVars, io, dataVars>>

SetFree(t) ==
  /\ At(t, "setfree")
  /\ status' = [status EXCEPT ![Ent(t)] = {"free"}]
  /\ Goto(t, IF ~th[t].evicting /\ OpOf(t) = "discard" THEN "unpin" ELSE "unref")
  /\ UNCHANGED <<at, lookup, refs, pins, sweepVars, io, dataVars>>

ResetPin(t) ==
  /\ At(t, "unpin")
  /\ pins' = [pins EXCEPT ![Ent(t)] = 0]
  /\ Goto(t, "unref")
  /\ UNCHANGED <<status, at, lookup, refs, sweepVars, io, dataVars>>

\* The batch is the thread's.  A hand that has come round is a pass.
Swept(t) ==
  /\ At(t, "swept")
  /\ LET victim == th[t].victim
         first == th[t].own = None
         round == ~first /\ (th[t].max = None \/ victim < th[t].max)
         passes == th[t].passes + IF round THEN 1 ELSE 0
         swept == [From(t, IF round THEN "wait" ELSE "free") EXCEPT
                     !.own = victim, !.victim = None, !.ent = None, !.evicting = FALSE,
                     !.seen = FALSE, !.max = IF first THEN None ELSE victim,
                     !.passes = IF passes > MaxPasses THEN MaxPasses ELSE passes] IN
       Become(t, IF OpOf(t) = "async" /\ passes >= MaxPasses
                 THEN [Idle(t) EXCEPT !.own = victim] ELSE swept)
  /\ UNCHANGED <<entryVars, sweepVars, io, dataVars>>

Waited(t) ==
  /\ At(t, "wait")
  /\ Goto(t, "free")
  /\ UNCHANGED <<entryVars, sweepVars, io, dataVars>>

-----------------------------------------------------------------------------
(* clockcache_flush: everything is written.                                *)

Drain(t) ==
  /\ th[t].pc \in {"drain", "drained"} /\ io = {}
  /\ Become(t, IF At(t, "drain") THEN [From(t, "clean") EXCEPT !.batch = 0] ELSE From(t, "flushed"))
  /\ UNCHANGED <<entryVars, sweepVars, io, dataVars>>

NextBatch(t) ==
  /\ At(t, "next")
  /\ LET b == th[t].batch + 1 IN
       Become(t, IF b < Size THEN [From(t, "clean") EXCEPT !.batch = b]
                 ELSE [From(t, "drained") EXCEPT !.batch = None])
  /\ UNCHANGED <<entryVars, sweepVars, io, dataVars>>

Flushed(t) ==
  /\ At(t, "flushed")
  /\ Become(t, Idle(t))
  /\ UNCHANGED <<entryVars, sweepVars, io, dataVars>>

-----------------------------------------------------------------------------
(* Completions come to a thread that waits (clockcache_wait), that asks    *)
(* for a request, or that is between two jobs.                             *)

Polling(t) == th[t].pc \in {"idle", "loading", "quiet", "wait", "started", "collect",
                            "drain", "drained"}

Complete(t) ==
  /\ Polling(t)
  /\ \E r \in io :
       LET E == {p.entry : p \in r.pages}
           good == {p \in r.pages : p.entry \in fresh /\ at[p.entry] = p.addr} IN
         /\ io' = io \ {r}
         /\ IF r.write
            THEN /\ status' = [e \in Entry |-> IF e \in E THEN (status[e] \cup {"clean"}) \ {"writeback"}
                                               ELSE status[e]]
                 /\ stored' = (stored \ {p.addr : p \in r.pages}) \cup {p.addr : p \in good}
                 /\ UNCHANGED fresh
            ELSE /\ status' = [e \in Entry |-> IF e \in E THEN status[e] \ {"loading"} ELSE status[e]]
                 /\ fresh' = (fresh \ E) \cup {p.entry : p \in {q \in r.pages : q.addr \in stored}}
                 /\ UNCHANGED stored
  /\ UNCHANGED <<at, lookup, refs, pins, sweepVars, live, th>>

Step(t) ==
  \/ Lookup(t) \/ Test(t) \/ Ref(t) \/ IsFree(t) \/ IsLocked(t) \/ Access(t) \/ Skip(t)
  \/ Match(t) \/ Loading(t) \/ Claim(t) \/ Back(t) \/ Lock(t) \/ Quiet(t) \/ Readers(t)
  \/ Modify(t) \/ Unlock(t) \/ Unclaim(t) \/ Unget(t) \/ Unref(t)
  \/ Free(t) \/ Fill(t) \/ Reserve(t) \/ Publish(t) \/ Lost(t) \/ ToFree(t)
  \/ Load(t) \/ Finish(t) \/ Undo(t) \/ Started(t)
  \/ Move(t) \/ Advance(t) \/ Clean(t) \/ Walk(t) \/ WalkSet(t) \/ Collect(t)
  \/ Release(t) \/ Take(t) \/ Look(t) \/ Verify(t) \/ Unmap(t) \/ SetFree(t) \/ ResetPin(t)
  \/ Swept(t) \/ Waited(t) \/ Drain(t) \/ NextBatch(t) \/ Flushed(t)

AllDone == \A t \in Thread : At(t, "idle") /\ th[t].done = Len(Programs[t])
Done == AllDone /\ UNCHANGED vars

Next == (\E t \in Thread : Start(t) \/ Leave(t) \/ Step(t) \/ Complete(t)) \/ Done

Spec == Init /\ [][Next]_vars

-----------------------------------------------------------------------------
TypeOK ==
  /\ status \in [Entry -> SUBSET Flag]
  /\ at \in [Entry -> Addr \cup {None}]
  /\ lookup \in [Addr -> Entry \cup {None}]
  /\ refs \in [Entry -> [Slot -> 0 .. 2 * Cardinality(Thread)]]
  /\ pins \in [Entry -> Nat]
  /\ busy \subseteq Entry /\ hand \in Entry
  /\ io \subseteq [write : BOOLEAN, pages : SUBSET [addr : Addr, entry : Entry]]
  /\ fresh \subseteq Entry /\ stored \subseteq Addr /\ live \subseteq Addr
  /\ \A t \in Thread : DOMAIN th[t] = DOMAIN Begun /\ Ent(t) \in Entry \cup {None}

\* The labels at which a thread counts as a reader of Ent(t) ...
Counted(t) ==
  \/ th[t].pc \in {"isfree", "islocked", "access", "skip", "match", "loading", "claim", "back",
                   "lock", "quiet", "readers", "verify", "granted", "unlock", "unclaim",
                   "hold", "unref", "fill", "loaded", "started", "undo", "unmap", "setfree",
                   "unpin"}
  \/ th[t].pc \in {"reserve", "publish", "load", "lost"} /\ OpOf(t) # "prefetch"

\* ... and those at which a user has the page it asked for.
Holds(t) ==
  /\ ~th[t].evicting /\ OpOf(t) \in {"read", "write", "async", "alloc", "pinned"}
  /\ th[t].pc \in {"hold", "claim", "back", "lock", "quiet", "readers", "unlock", "unclaim"}

\* Who gets a page has that page, in its last state, until it gives it back.
GetDelivers ==
  \A t \in Thread : Holds(t) =>
    /\ at[Ent(t)] = Page(t) /\ lookup[Page(t)] = Ent(t)
    /\ Ent(t) \in fresh
    /\ status[Ent(t)] \cap {"free", "loading"} = {}

\* Whoever writes to a page is alone with it: no other thread has it, and the
\* disk does not read it.
WriterAlone ==
  \A t \in Thread : At(t, "granted") =>
    /\ ~Has(Ent(t), "writeback")
    /\ \A u \in Thread \ {t} : Holds(u) => Ent(u) # Ent(t)
    /\ \A r \in io : \A p \in r.pages : p.entry # Ent(t)

\* The last state of a page in use is on the disk, or in the entry of its
\* lookup, which is then not taken for clean.
NothingLost ==
  \A a \in live \ stored :
    /\ lookup[a] # None
    /\ at[lookup[a]] = a /\ lookup[a] \in fresh
    /\ ~Has(lookup[a], "clean")

\* References are those of the threads at work on an entry: none is lost, so
\* no entry stays in the cache for ever, and none is given back twice.
RefsCounted ==
  \A e \in Entry, c \in Slot :
    refs[e][c] = Cardinality({t \in Thread : Counter(t) = c /\ Ent(t) = e /\ Counted(t)})

\* A lookup leads to an entry of that address, and no other entry has it but
\* one that a prefetch is about to give up.
LookupTrue ==
  /\ \A a \in Addr : lookup[a] # None =>
       \/ at[lookup[a]] = a
       \/ \E t \in Thread : At(t, "load") /\ Ent(t) = lookup[a]
  /\ \A e \in Entry : at[e] # None =>
       \/ lookup[at[e]] = e
       \/ \E t \in Thread : Ent(t) = e /\ OpOf(t) = "prefetch" /\ th[t].pc \in {"publish", "lost"}

\* A page that is not in use and not being discarded is not in the cache.
DeadUncached ==
  \A a \in Addr \ live : lookup[a] # None =>
    \E t \in Thread : /\ ~At(t, "idle") /\ Extent[th[t].job.addr] = Extent[a]
                      /\ OpOf(t) \in Allocs \cup {"discard"}

\* After a flush nothing is dirty.
FlushedClean == (\E t \in Thread : At(t, "flushed")) =>
                  \A e \in Entry : Has(e, "free") \/ Has(e, "clean")
=============================================================================
