------------------------------- MODULE ShardLog -------------------------------
(***************************************************************************)
(* The log (shard_log.c).  Each thread fills pages of its own, which come  *)
(* one after the other from one mini allocator; a page that has no room    *)
(* for the next entry is finished: the end of its entries is marked, it    *)
(* gets its checksum, and the cache is told to write it.  An iterator      *)
(* reads the pages in the order they were allocated, up to the first that  *)
(* is not finished, and sorts the entries by their generation.             *)
(*                                                                         *)
(* A thread writes an entry while it holds its page locked, so a write is  *)
(* one step up to the change of the page.                                  *)
(***************************************************************************)
EXTENDS Integers, FiniteSets, SequencesExt

CONSTANTS
  Threads,
  Capacity,       \* bytes of a page behind its header
  EntryHead,      \* sizeof(log_entry)
  Sizes,          \* the bytes an entry may need
  PagesPerExtent,
  MaxEntries      \* the bound on entries

LogAssumption ==
  /\ Capacity \in Nat /\ EntryHead \in 1 .. Capacity /\ Sizes \subseteq EntryHead .. Capacity
  /\ PagesPerExtent \in Nat \ {0} /\ MaxEntries \in Nat

VARIABLES
  pages,    \* in the order of allocation: [data, disk, dirty, sync]
  at,       \* [thread -> its page, or SHARD_UNMAPPED]
  offset,   \* [thread -> where its next entry goes]
  written   \* history: the entries in the order of their generations

vars == <<pages, at, offset, written>>

SHARD_UNMAPPED == 0

\* What was in the memory of a page before.
Rubbish == [thread |-> "none", generation |-> 0, size |-> EntryHead]

NewData(n) ==
  [entries |-> <<>>, num |-> 0, terminal |-> FALSE, checksum |-> FALSE,
   nextExtent |-> (n - 1) \div PagesPerExtent + 2]

Init ==
  /\ pages = <<>>
  /\ at = [t \in Threads |-> SHARD_UNMAPPED] /\ offset = [t \in Threads |-> 0]
  /\ written = <<>>

\* get_new_page_for_thread: the page, dirty and not on disk.
WithNewPage(ps) ==
  Append(ps, [data |-> NewData(Len(ps) + 1), disk |-> NewData(0), dirty |-> TRUE, sync |-> "no"])

\* Mutant: no mark where exactly an entry's header has room.
FinishOpen(data, free) == [data EXCEPT !.terminal = EntryHead < free, !.checksum = TRUE]

Finish(data, free) == [data EXCEPT !.terminal = EntryHead <= free, !.checksum = TRUE]

\* cache_page_sync of a page that is clean does nothing.
Synced(page) ==
  IF page.dirty THEN [page EXCEPT !.sync = "writing"] ELSE [page EXCEPT !.sync = "done"]

\* shard_log_write
Write(t) ==
  /\ Len(written) < MaxEntries
  /\ \E size \in Sizes :
       LET entry == [thread |-> t, generation |-> Len(written) + 1, size |-> size]
           free == Capacity - offset[t]
           first == at[t] = SHARD_UNMAPPED
           fits == ~first /\ size <= free
           finished == IF first \/ fits THEN pages
                       ELSE [pages EXCEPT ![at[t]] =
                               Synced([@ EXCEPT !.data = Finish(@, free)])]
           now == IF fits THEN pages ELSE WithNewPage(finished)
           mine == IF fits THEN at[t] ELSE Len(now)
       IN /\ pages' = [now EXCEPT ![mine].data.entries = Append(@, entry), ![mine].data.num = @ + 1]
          /\ at' = [at EXCEPT ![t] = mine]
          /\ offset' = [offset EXCEPT ![t] = (IF fits THEN @ ELSE 0) + size]
          /\ written' = Append(written, entry)

\* The write that cache_page_sync has started ends.
SyncEnds ==
  /\ \E p \in DOMAIN pages :
       /\ pages[p].sync = "writing"
       /\ pages' = [pages EXCEPT ![p].disk = pages[p].data, ![p].dirty = FALSE, ![p].sync = "done"]
  /\ UNCHANGED <<at, offset, written>>

\* The cache writes back a page that is not locked.
WriteBack ==
  /\ \E p \in DOMAIN pages :
       /\ pages[p].dirty /\ pages[p].sync = "no"
       /\ pages' = [pages EXCEPT ![p].disk = pages[p].data, ![p].dirty = FALSE]
  /\ UNCHANGED <<at, offset, written>>

Next == (\E t \in Threads : Write(t)) \/ SyncEnds \/ WriteBack

Spec == Init /\ [][Next]_vars

-----------------------------------------------------------------------------
(* shard_log_iterator_init, after a crash: what the disk has.              *)

\* The pages of the extents from the first on, each extent found by what the
\* last page of the one before it says.
Reachable(n) ==
  n = 1 \/ (n - 1) % PagesPerExtent # 0
        \/ pages[n - 1].disk.nextExtent = (n - 1) \div PagesPerExtent + 1

Valid(n) == n \in DOMAIN pages /\ pages[n].disk.checksum /\ Reachable(n)

ValidPages == CHOOSE n \in 0 .. Len(pages) : ~Valid(n + 1) /\ \A k \in 1 .. n : Valid(k)

\* The entries of a page up to the mark or to where no header has room.
Bytes(es) == FoldLeft(LAMBDA sum, e : sum + e.size, 0, es)
EntriesOf(data) ==
  IF Capacity - Bytes(data.entries) < EntryHead \/ data.terminal THEN data.entries
  ELSE Append(data.entries, Rubbish)

Found == FlattenSeq([n \in 1 .. ValidPages |-> EntriesOf(pages[n].disk)])
NumEntries == FoldLeft(LAMBDA sum, n : sum + pages[n].disk.num, 0, [n \in 1 .. ValidPages |-> n])

-----------------------------------------------------------------------------
(* Properties.                                                             *)

\* Whenever the process crashes, the iterator finds as many entries as the
\* pages say, all of them written, and of each thread the oldest ones, in their
\* order and with no gap.
IteratorFindsPrefixes ==
  /\ Len(Found) = NumEntries
  /\ ToSet(Found) \subseteq ToSet(written)
  /\ \A t \in Threads :
       LET of(s) == SelectSeq(s, LAMBDA e : e.thread = t) IN IsPrefix(of(Found), of(written))

=============================================================================
