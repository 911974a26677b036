------------------------------ MODULE MCStorage ------------------------------
(***************************************************************************)
(* What lies between the trees and the disk: the clock cache, the extents  *)
(* and the mini allocators that count them, the log, and the steps that    *)
(* create, close and open a database.  Each behaviour is one of these; the *)
(* variables of the others are "off".                                      *)
(***************************************************************************)
EXTENDS Integers, Sequences, FiniteSets

CONSTANTS
  t1, t2, t3, NoOne,   \* threads
  m1, m2,              \* messages
  CrashAt              \* the phases of Mount in which the process may crash

VARIABLES
  what,
  status, entryAt, lookup, refs, pins, busy, evict_hand, io, fresh, stored, live, th,
  ref, rc_hand, alloc, unused, prog, mini, meta, lock, cached, at, todo, held, grabbed,
  given, failed,
  disk, starts, phase, counts, al_hand, dirty, root, mem, put, kept,
  pages, shard, offset, written

cacheVars  == <<status, entryAt, lookup, refs, pins, busy, evict_hand, io, fresh, stored,
                live, th>>
extentVars == <<ref, rc_hand, alloc, unused, prog, mini, meta, lock, cached, at, todo, held,
                grabbed, given, failed>>
mountVars  == <<disk, starts, phase, counts, al_hand, dirty, root, mem, put, kept>>
logVars    == <<pages, shard, offset, written>>
vars == <<what, cacheVars, extentVars, mountVars, logVars>>

-----------------------------------------------------------------------------
(* The cache: two threads, two entries, an extent of two pages and one of  *)
(* one.                                                                    *)

Jobs(ops, as) == [op : ops, addr : as]
CachePrograms ==
  [t \in {0, 1} |->
     IF t = 0 THEN <<Jobs({"write"}, {0}),
                     Jobs({"read"}, {2}) \cup Jobs({"discard"}, {1}),
                     Jobs({"async", "flush"}, {0})>>
     ELSE <<Jobs({"read", "write"}, {1}), Jobs({"read"}, {2}),
            Jobs({"pinned", "prefetch"}, {1})>>]

-----------------------------------------------------------------------------
(* Programs for a mini allocator.                                          *)

Alloc(b, key) == [op |-> "alloc", batch |-> b, key |-> key]
Finish(key) == [op |-> "release", key |-> key]
Inc(lo, hi) == [op |-> "inc", lo |-> lo, hi |-> hi]
Dec(lo, hi) == [op |-> "dec", lo |-> lo, hi |-> hi]
From(lo, hi) == [op |-> "block", lo |-> lo, hi |-> hi]
Ended == [op |-> "unblock"]
Take == [op |-> "grab"]
Give == [op |-> "drop"]

Do(a, b, c) == [t \in {t1, t2, t3} |-> IF t = t1 THEN a ELSE IF t = t2 THEN b ELSE c]

\* A memtable's tree: two threads allocate from two batches or from one, while
\* another takes and gives extents; then each drops a reference.  In the last
\* program the disk is used up.
Memtable ==
  {[keyed |-> FALSE, whole |-> <<1, 9>>, todo |-> todos] : todos \in
    {Do(<<Alloc(0, 1), Alloc(0, 1), Alloc(0, 1), Finish(9), Inc(1, 1), Dec(1, 9)>>,
        <<Alloc(1, 1), Alloc(1, 1), Alloc(1, 1), Dec(1, 1)>>, <<>>),
     Do(<<Alloc(0, 1), Alloc(0, 1), Finish(9), Dec(1, 9)>>, <<Alloc(0, 1)>>, <<Take, Give>>),
     Do(<<Alloc(0, 1), Finish(9), Dec(1, 9)>>, <<>>,
        <<Take, Take, Give, Take, Take, Take, Take, Take>>)}}

\* A branch: three extents of leaves and one of the nodes above; references
\* to parts of it are taken and dropped by two threads while one iterates.
Build == <<Alloc(0, 1), Alloc(1, 1), Alloc(0, 2), Alloc(0, 3), Alloc(0, 4),
           Alloc(0, 5), Finish(6)>>
Branch ==
  {[keyed |-> TRUE, whole |-> <<1, 6>>, todo |-> todos] : todos \in
    {Do(Build \o <<Inc(1, 3), Inc(4, 6), Dec(1, 6), Dec(1, 3)>>, <<Dec(4, 6)>>, <<Take, Give>>),
     Do(Build \o <<Inc(1, 3), Dec(1, 6)>>, <<Inc(2, 3), Dec(1, 3), Dec(2, 3)>>,
        <<From(2, 3), Ended>>),
     Do(Build \o <<Inc(1, 4), Inc(5, 6), Dec(1, 6), Dec(1, 4)>>, <<From(5, 6), Ended>>,
        <<Dec(5, 6)>>)}}

-----------------------------------------------------------------------------
Cache == INSTANCE ClockCache
  WITH Thread <- {0, 1}, Width <- 2, Entry <- {0, 1}, Addr <- {0, 1, 2},
       Extent <- [a \in {0, 1, 2} |-> IF a = 2 THEN 1 ELSE 0],
       CleanerGap <- 1, MaxPasses <- 1, Queue <- 1,
       Programs <- CachePrograms, Loaded <- {0, 1, 2},
       at <- entryAt, hand <- evict_hand

Extents == INSTANCE MiniAllocator
  WITH Capacity <- 10, Thread <- {t1, t2, t3}, Batch <- {0, 1}, PagesPerExtent <- 2,
       EntriesPerPage <- 2, Programs <- Memtable \cup Branch, hand <- rc_hand

Database == INSTANCE Mount
  WITH Capacity <- 6, Messages <- {m1, m2}, MaxStarts <- 3, hand <- al_hand

Log == INSTANCE ShardLog
  WITH Threads <- {t1, t2}, Capacity <- 6, EntryHead <- 2, Sizes <- {2, 3, 4},
       PagesPerExtent <- 2, MaxEntries <- 5, at <- shard

ASSUME StorageAssumption ==
  /\ Cache!CacheAssumption /\ Extents!CapacityAssumption /\ Extents!MiniAssumption
  /\ Database!MountAssumption /\ Log!LogAssumption

\* Every phase but the one between the super block and the counts.
ButCounts ==
  {"off", "create_trunk", "create_super_addr", "create_super", "mount_trunk", "mount_log",
   "mount_super", "refused", "open", "close_memtable", "close_tasks", "close_cache",
   "close_super"}

Init ==
  /\ what \in {"cache", "extents", "mount", "log"}
  /\ IF what = "cache" THEN Cache!Init
     ELSE /\ status = "off" /\ entryAt = "off" /\ lookup = "off" /\ refs = "off"
          /\ pins = "off" /\ busy = "off" /\ evict_hand = "off" /\ io = "off"
          /\ fresh = "off" /\ stored = "off" /\ live = "off" /\ th = "off"
  /\ IF what = "extents" THEN Extents!Init
     ELSE /\ ref = "off" /\ rc_hand = "off" /\ alloc = "off" /\ unused = "off"
          /\ prog = "off" /\ mini = "off" /\ meta = "off" /\ lock = "off" /\ cached = "off"
          /\ at = "off" /\ todo = "off" /\ held = "off" /\ grabbed = "off"
          /\ given = "off" /\ failed = "off"
  /\ IF what = "mount" THEN Database!Init
     ELSE /\ disk = "off" /\ starts = "off" /\ phase = "off" /\ counts = "off"
          /\ al_hand = "off" /\ dirty = "off" /\ root = "off" /\ mem = "off"
          /\ put = "off" /\ kept = "off"
  /\ IF what = "log" THEN Log!Init
     ELSE pages = "off" /\ shard = "off" /\ offset = "off" /\ written = "off"

CacheStep ==
  what = "cache" /\ Cache!Next /\ UNCHANGED <<what, extentVars, mountVars, logVars>>
ExtentStep ==
  what = "extents" /\ Extents!Next /\ UNCHANGED <<what, cacheVars, mountVars, logVars>>
MountStep ==
  what = "mount" /\ Database!Next /\ UNCHANGED <<what, cacheVars, extentVars, logVars>>
LogStep ==
  what = "log" /\ Log!Next /\ UNCHANGED <<what, cacheVars, extentVars, mountVars>>

\* A database may be left alone, and a log is bounded.
Rests == what \in {"mount", "log"} /\ UNCHANGED vars

Next == CacheStep \/ ExtentStep \/ MountStep \/ LogStep \/ Rests

Spec == Init /\ [][Next]_vars

-----------------------------------------------------------------------------
(* Properties.                                                             *)

\* A get returns the page it was asked for, in an entry the lookup table
\* names, and whoever writes a page is alone with it (ClockCache).
CacheGetsPages ==
  what = "cache" => Cache!TypeOK /\ Cache!GetDelivers /\ Cache!LookupTrue /\ Cache!WriterAlone

\* No write is lost by an eviction, a flush leaves nothing dirty, a discarded
\* page is gone, and no reference is left behind or forgotten (ClockCache).
CacheKeepsPages ==
  what = "cache" => /\ Cache!NothingLost /\ Cache!FlushedClean
                    /\ Cache!DeadUncached /\ Cache!RefsCounted

\* Pages are handed out once, from extents that the list has, what is
\* referenced or iterated over stays allocated, references to extents are neither
\* lost nor left over, and the disk is full only when it says so (MiniAllocator,
\* RcAllocator).
ExtentsCounted ==
  what = "extents" => /\ Extents!PagesFromListedExtents /\ Extents!RangesStay
                      /\ Extents!CountsExact /\ Extents!FullWhenItSaysSo

\* A database that can be opened has all that it had when it was closed.
OpensComplete == what = "mount" => Database!OpensComplete

\* An iterator over the log of a crashed process finds a prefix of what each
\* thread wrote (ShardLog).
LogFindsPrefixes == what = "log" => Log!IteratorFindsPrefixes
=============================================================================
