-------------------------------- MODULE Mount --------------------------------
(***************************************************************************)
(* The life of a database on its disk: splinterdb_create, splinterdb_open  *)
(* and splinterdb_close of splinterdb.c, with what they call of trunk.c    *)
(* and rc_allocator.c, and a crash of the process between any two steps.   *)
(*                                                                         *)
(* The disk has the allocator's meta page, the database's super block, the *)
(* counts of references as they were last written, and the extents.  A     *)
(* trunk node or a branch is an extent here; the root names its branches.  *)
(* The extents of the super blocks and of the counts are never given away  *)
(* and left out.  Nodes are never changed in place: whatever changes the   *)
(* tree makes new ones and a new root.                                     *)
(***************************************************************************)
EXTENDS Integers, FiniteSets

CONSTANTS
  Capacity,  \* the extents of the disk that can be allocated
  Messages,  \* what may be put, each once
  MaxStarts, \* the bound on calls of create and open
  CrashAt    \* the phases in which the process may crash

MountAssumption == Capacity \in Nat /\ MaxStarts \in Nat /\ "erased" \notin Messages

Extents == 1 .. Capacity

VARIABLES
  disk,    \* [named, super, counts, page]
  starts,  \* creates and opens so far
  phase,   \* what the process does next; "off" without one
  counts,  \* al->ref_count
  hand,    \* al->hand: where an allocation looks first
  dirty,   \* [Extents -> the page in the cache that is not on disk, or Clean]
  root,    \* spl->root_addr
  mem,     \* the messages in memtables
  put,     \* history: the messages the database was given, or Erased while it is created
  kept     \* history: whether a close has completed and nothing was opened since

vars == <<disk, starts, phase, counts, hand, dirty, root, mem, put, kept>>

Clean == [type |-> "clean"]
Blank == [type |-> "blank"]
Log == [type |-> "log"]
Node(branches) == [type |-> "trunk", branches |-> branches]
Branch(msgs) == [type |-> "branch", msgs |-> msgs]

NoSuper == [valid |-> FALSE]
Super(unmounted) == [valid |-> TRUE, root |-> root, unmounted |-> unmounted]
Erased == {"erased"}
NoCounts == [e \in Extents |-> 0]
NoExtent == 0

\* A page as the cache has it.
Page(e) == IF dirty[e] = Clean THEN disk.page[e] ELSE dirty[e]
Branches == Page(root).branches

\* The free extents.  An allocation takes the first one the hand comes to, and a
\* second one the next after that.
Free     == {e \in Extents : counts[e] = 0}
Ahead(e) == (e - hand) % Capacity
First(e, S) == e \in S /\ \A f \in S : Ahead(e) <= Ahead(f)
Taken(e) == hand' = (e % Capacity) + 1

Init ==
  /\ disk = [named |-> FALSE, super |-> NoSuper, counts |-> NoCounts,
             page |-> [e \in Extents |-> Blank]]
  /\ starts = 0 /\ phase = "off"
  /\ counts = NoCounts /\ hand = 1 /\ dirty = [e \in Extents |-> Clean] /\ root = NoExtent
  /\ mem = {} /\ put = Erased /\ kept = FALSE

Goto(from, to) == phase = from /\ phase' = to

\* The process has nothing any more.
Forget ==
  /\ phase' = "off"
  /\ counts' = NoCounts /\ hand' = 1 /\ dirty' = [e \in Extents |-> Clean]
  /\ root' = NoExtent /\ mem' = {}
  /\ UNCHANGED starts

-----------------------------------------------------------------------------
(* splinterdb_create.                                                      *)

\* rc_allocator_init: the counts are those of an empty disk, in memory.
InitAllocator ==
  /\ Goto("off", "create_trunk")
  /\ starts < MaxStarts /\ starts' = starts + 1
  /\ put' = Erased /\ kept' = FALSE
  /\ UNCHANGED <<disk, counts, hand, dirty, root, mem>>

\* trunk_create: extents for the root and for the log.
CreateTrunk ==
  /\ Goto("create_trunk", "create_super_addr")
  /\ \E r, l \in Free :
       /\ First(r, Free) /\ First(l, Free \ {r}) /\ Taken(l)
       /\ root' = r
       /\ counts' = [counts EXCEPT ![r] = 1, ![l] = 1]
       /\ dirty' = [dirty EXCEPT ![r] = Node({}), ![l] = Log]
  /\ UNCHANGED <<disk, starts, mem, put, kept>>

\* rc_allocator_alloc_super_addr writes the meta page.  A new meta page has no
\* names yet, and the super block is the one that was there.
CreateSuperAddr ==
  /\ Goto("create_super_addr", "create_super")
  /\ disk' = [disk EXCEPT !.named = TRUE]
  /\ UNCHANGED <<starts, counts, hand, dirty, root, mem, put, kept>>

\* trunk_set_super_block: the page is changed in the cache and synchronised.
SetSuperBlock(unmounted) == disk' = [disk EXCEPT !.super = Super(unmounted)]

CreateSuper ==
  /\ Goto("create_super", "open")
  /\ SetSuperBlock(FALSE)
  /\ put' = {}
  /\ UNCHANGED <<starts, counts, hand, dirty, root, mem, kept>>

-----------------------------------------------------------------------------
(* splinterdb_open.                                                        *)

\* rc_allocator_mount reads the counts; without a meta page it asserts.  What a
\* creation over a closed database left when it crashed is not opened.
MountAllocator ==
  /\ Goto("off", "mount_trunk")
  /\ starts < MaxStarts /\ starts' = starts + 1
  /\ disk.named /\ ~(put = Erased /\ disk.super.valid /\ disk.super.unmounted)
  /\ counts' = disk.counts
  /\ UNCHANGED <<disk, hand, dirty, root, mem, put, kept>>

\* trunk_mount takes only a super block that says that it was unmounted.
MountTrunk ==
  /\ Goto("mount_trunk", "mount_log")
  /\ disk.super.valid /\ disk.super.unmounted
  /\ root' = disk.super.root
  /\ UNCHANGED <<disk, starts, counts, hand, dirty, mem, put, kept>>

Refuse ==
  /\ Goto("mount_trunk", "refused")
  /\ ~(disk.super.valid /\ disk.super.unmounted)
  /\ UNCHANGED <<disk, starts, counts, hand, dirty, root, mem, put, kept>>

\* clockcache_deinit, rc_allocator_unmount
CleanUp ==
  /\ phase = "refused"
  /\ disk' = [disk EXCEPT !.counts = counts]
  /\ Forget
  /\ UNCHANGED <<put, kept>>

\* A new log; the old one stays as it is, and nobody reads it.
MountLog ==
  /\ Goto("mount_log", "mount_super")
  /\ \E l \in Free :
       /\ First(l, Free) /\ Taken(l)
       /\ counts' = [counts EXCEPT ![l] = 1]
       /\ dirty' = [dirty EXCEPT ![l] = Log]
  /\ UNCHANGED <<disk, starts, root, mem, put, kept>>

\* Mutant: the super block goes on saying that the database is unmounted.
MountSuperUnmounted ==
  /\ Goto("mount_super", "open")
  /\ SetSuperBlock(TRUE)
  /\ kept' = FALSE
  /\ UNCHANGED <<starts, counts, hand, dirty, root, mem, put>>

MountSuper ==
  /\ Goto("mount_super", "open")
  /\ SetSuperBlock(FALSE)
  /\ kept' = FALSE
  /\ UNCHANGED <<starts, counts, hand, dirty, root, mem, put>>

-----------------------------------------------------------------------------
(* The open database.                                                      *)

Put ==
  /\ phase = "open"
  /\ \E m \in Messages \ put : put' = put \cup {m} /\ mem' = mem \cup {m}
  /\ UNCHANGED <<disk, starts, phase, counts, hand, dirty, root, kept>>

\* A new root takes the place of the old one, with a branch made of these
\* messages instead of the branches old.
NewTree(msgs, old) ==
  \E b, r \in Free :
    /\ First(b, Free) /\ First(r, Free \ {b}) /\ Taken(r)
    /\ root' = r
    /\ counts' = [e \in Extents |-> IF e \in {b, r} THEN 1
                                    ELSE IF e \in old \cup {root} THEN 0 ELSE counts[e]]
    /\ dirty' = [e \in Extents |-> IF e = b THEN Branch(msgs)
                                   ELSE IF e = r THEN Node((Branches \ old) \cup {b})
                                   ELSE IF e \in old \cup {root} THEN Clean ELSE dirty[e]]

\* trunk_memtable_flush and what it leads to.
Incorporate ==
  /\ mem # {}
  /\ NewTree(mem, {})
  /\ mem' = {}

MemtableFlush ==
  /\ phase = "open"
  /\ Incorporate
  /\ UNCHANGED <<disk, starts, phase, put, kept>>

\* trunk_compact_bundle, in background threads or when the database closes.
CompactBundle ==
  /\ phase \in {"open", "close_tasks"}
  /\ \E old \in SUBSET Branches :
       Cardinality(old) = 2 /\ NewTree(UNION {Page(e).msgs : e \in old}, old)
  /\ UNCHANGED <<disk, starts, phase, mem, put, kept>>

\* The cache writes back whatever it likes.
WriteBack ==
  /\ \E e \in Extents :
       /\ dirty[e] # Clean
       /\ disk' = [disk EXCEPT !.page[e] = dirty[e]]
       /\ dirty' = [dirty EXCEPT ![e] = Clean]
  /\ UNCHANGED <<starts, phase, counts, hand, root, mem, put, kept>>

-----------------------------------------------------------------------------
(* splinterdb_close.                                                       *)

Close ==
  /\ Goto("open", "close_memtable")
  /\ UNCHANGED <<disk, starts, counts, hand, dirty, root, mem, put, kept>>

\* trunk_prepare_for_shutdown: the memtable is flushed if it has anything,
CloseMemtable ==
  /\ Goto("close_memtable", "close_tasks")
  /\ \/ Incorporate
     \/ mem = {} /\ UNCHANGED <<root, counts, hand, dirty, mem>>
  /\ UNCHANGED <<disk, starts, put, kept>>

\* the tasks are run to their end,
CloseTasks ==
  /\ Goto("close_tasks", "close_cache")
  /\ UNCHANGED <<disk, starts, counts, hand, dirty, root, mem, put, kept>>

\* and the cache is flushed.
CloseCache ==
  /\ Goto("close_cache", "close_super")
  /\ disk' = [disk EXCEPT !.page = [e \in Extents |-> Page(e)]]
  /\ dirty' = [e \in Extents |-> Clean]
  /\ UNCHANGED <<starts, counts, hand, root, mem, put, kept>>

\* trunk_unmount: the super block says so before the counts are written.
CloseSuper ==
  /\ Goto("close_super", "close_counts")
  /\ SetSuperBlock(TRUE)
  /\ UNCHANGED <<starts, counts, hand, dirty, root, mem, put, kept>>

\* rc_allocator_unmount
CloseCounts ==
  /\ phase = "close_counts"
  /\ disk' = [disk EXCEPT !.counts = counts]
  /\ kept' = TRUE
  /\ Forget
  /\ UNCHANGED put

-----------------------------------------------------------------------------
\* What is not on disk is gone.  An extent that runs out is an assertion, and
\* one of the ways to get here.
Crash ==
  /\ phase \in CrashAt
  /\ Forget
  /\ UNCHANGED <<disk, put, kept>>

Next ==
  \/ InitAllocator \/ CreateTrunk \/ CreateSuperAddr \/ CreateSuper
  \/ MountAllocator \/ MountTrunk \/ Refuse \/ CleanUp \/ MountLog \/ MountSuper
  \/ Put \/ MemtableFlush \/ CompactBundle \/ WriteBack
  \/ Close \/ CloseMemtable \/ CloseTasks \/ CloseCache \/ CloseSuper \/ CloseCounts
  \/ Crash

Spec == Init /\ [][Next]_vars

-----------------------------------------------------------------------------
(* Properties.                                                             *)

\* The messages of the tree at r, over these pages; nothing if it is damaged.
TreeOf(page, r) ==
  IF page[r].type # "trunk" \/ \E b \in page[r].branches : page[b].type # "branch" THEN {}
  ELSE UNION {page[b].msgs : b \in page[r].branches}

Reached(page, r) == {r} \cup (IF page[r].type = "trunk" THEN page[r].branches ELSE {})

\* A database that opens has every message it was given before, and those it
\* was given since; and one that has been closed does open, whatever crashed
\* while it was being opened: its tree is on disk and so are the counts.
OpensComplete ==
  /\ phase \in {"open", "close_memtable", "close_tasks", "close_cache"} =>
       mem \cup TreeOf([e \in Extents |-> Page(e)], root) = put
  /\ kept =>
       /\ phase # "refused"
       /\ disk.super.valid /\ disk.super.unmounted
       /\ TreeOf(disk.page, disk.super.root) = put
       /\ \A e \in Reached(disk.page, disk.super.root) : disk.counts[e] > 0

=============================================================================
