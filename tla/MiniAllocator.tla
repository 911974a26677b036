---------------------------- MODULE MiniAllocator ----------------------------
(***************************************************************************)
(* A mini allocator (mini_allocator.c) hands out the pages of extents that *)
(* it takes from the allocator of extents.  Its batches are served each    *)
(* from an extent of their own, under a lock token; every extent in use is *)
(* recorded in a list of meta pages, which threads append to under the     *)
(* write lock of the last page.  The tree that lives in the pages is given *)
(* up through this list:                                                   *)
(*   unkeyed (memtables)  the whole tree has one count of references,      *)
(*                        kept with the extent of the first meta page;     *)
(*   keyed (branches)     every extent has a count of its own, and         *)
(*                        references are taken and dropped for ranges of   *)
(*                        keys.  Who drops the last reference to all the   *)
(*                        extents frees the list too.                      *)
(* Iterators take no references to extents: they block the dropping of     *)
(* references with a count on the first meta page.                         *)
(*                                                                         *)
(* Threads run programs of these operations:                               *)
(*   alloc, release            while the tree is built, and at its end     *)
(*   inc, dec                  a reference to a range (the whole tree when *)
(*                             the allocator is not keyed)                 *)
(*   block, unblock            an iterator over a range                    *)
(*   grab, drop                other users of the disk                     *)
(***************************************************************************)
EXTENDS RcAllocator, Sequences, SequencesExt

CONSTANTS
  Thread,
  Batch,             \* batches are numbered from 0
  PagesPerExtent,
  EntriesPerPage,    \* entries that fit in a meta page (in the code: bytes)
  Programs,          \* set of [keyed, whole, todo]: "whole" is the range of
                     \* the reference there is when the tree has been built
  NoOne

MiniAssumption ==
  /\ Batch = 0 .. Cardinality(Batch) - 1
  /\ PagesPerExtent \in Nat \ {0} /\ EntriesPerPage \in Nat \ {0}
  /\ Capacity > Cardinality(Batch)

VARIABLES
  prog,    \* the program that runs
  mini,    \* [next, nextExt, tail, released]
  meta,    \* [Page -> meta page]
  lock,    \* [Page -> thread that has claimed or locked it]
  cached,  \* extents with pages in the cache
  at,      \* [Thread -> where it is in its call]
  todo,    \* [Thread -> calls it has yet to make]
  held,    \* ranges that are referenced and not being given up
  grabbed, \* [Thread -> extents others have]
  given,   \* history: [Page -> how often mini_alloc returned it]
  failed   \* an assertion of the code has failed
vars == <<ref, hand, alloc, unused, prog, mini, meta, lock, cached, at, todo,
          held, grabbed, given, failed>>
diskVars == <<ref, hand, alloc>>

Page == Extent \X (0 .. PagesPerExtent - 1)
NoPage == <<-1, 0>>
Terminal == -1
WAIT == <<-1, 1>>
MetaHead == <<0, 0>>

Blank == [entries |-> <<>>, next |-> NoPage]
Entry(batch, ext, key) == [batch |-> batch, ext |-> ext, key |-> key]

\* The page after this one, or the end of its extent.
After(p) == <<p[1], p[2] + 1>>
Exhausted(p) == p[2] = PagesPerExtent

Call(t) == todo[t][1]
Ready(t, op) == at[t].pc = "start" /\ todo[t] # <<>> /\ Call(t).op = op
Goto(t, pc) == at' = [at EXCEPT ![t].pc = pc]

AtStart == [pc |-> "start", addr |-> NoPage, tail |-> NoPage, entry |-> Blank,
            batch |-> 0, page |-> NoPage, i |-> 1, cur |-> <<>>, clean |-> TRUE,
            blocking |-> <<>>]
Return(t) ==
  /\ at' = [at EXCEPT ![t] = [AtStart EXCEPT !.blocking = at[t].blocking]]
  /\ todo' = [todo EXCEPT ![t] = Tail(@)]

SameLists   == UNCHANGED <<meta, lock, cached>>
SameHolders == UNCHANGED <<held, grabbed, given, failed, prog>>

-----------------------------------------------------------------------------
(***************************************************************************)
(* mini_alloc                                                              *)
(***************************************************************************)
\* The batch's lock token; a batch whose extent is used up needs another.
LockBatch(t) ==
  LET b == Call(t).batch
  IN /\ Ready(t, "alloc") /\ mini.next[b] # WAIT
     /\ mini' = [mini EXCEPT !.next[b] = WAIT]
     /\ at' = [at EXCEPT ![t].pc = IF Exhausted(mini.next[b]) THEN "newextent"
                                   ELSE "publish",
                         ![t].addr = mini.next[b], ![t].batch = b]
     /\ UNCHANGED <<diskVars, todo>> /\ SameLists /\ SameHolders

\* The batch goes on in its next extent and has a new one in reserve.
NewExtent(t) ==
  LET b == at[t].batch
      ext == mini.nextExt[b]
  IN \/ /\ at[t].pc = "newextent" /\ BeginAlloc(t)
        /\ UNCHANGED <<mini, at, todo>> /\ SameLists /\ SameHolders
     \/ /\ at[t].pc = "newextent" /\ alloc[t].pc = "done"
        /\ alloc' = [alloc EXCEPT ![t] = Idle]
        /\ mini' = [mini EXCEPT !.nextExt[b] = alloc[t].ext]
        /\ at' = [at EXCEPT ![t].pc = "tail", ![t].addr = <<ext, 0>>,
                            ![t].entry = Entry(b, ext, Call(t).key)]
        /\ UNCHANGED <<ref, hand, todo>> /\ SameLists /\ SameHolders

Publish(t) ==
  /\ at[t].pc = "publish"
  /\ mini' = [mini EXCEPT !.next[at[t].batch] = After(at[t].addr)]
  /\ given' = [given EXCEPT ![at[t].addr] = @ + 1]
  /\ cached' = cached \cup {at[t].addr[1]}
  /\ Return(t)
  /\ UNCHANGED <<diskVars, meta, lock, held, grabbed, failed, prog>>

(***************************************************************************)
(* mini_append_entry                                                       *)
(***************************************************************************)
ReadTail(t) ==
  /\ at[t].pc = "tail"
  /\ at' = [at EXCEPT ![t].pc = "claimtail", ![t].tail = mini.tail]
  /\ UNCHANGED <<diskVars, mini, todo>> /\ SameLists /\ SameHolders

\* mini_full_lock_meta_tail
ClaimTail(t) ==
  LET p == at[t].tail
  IN /\ at[t].pc = "claimtail" /\ lock[p] = NoOne
     /\ IF p = mini.tail
        THEN lock' = [lock EXCEPT ![p] = t] /\ Goto(t, "append")
        ELSE Goto(t, "tail") /\ UNCHANGED lock
     /\ UNCHANGED <<diskVars, mini, meta, cached, todo>> /\ SameHolders

Append1(t) ==
  LET p == at[t].tail
      fits == Len(meta[p].entries) < EntriesPerPage
  IN /\ at[t].pc = "append"
     /\ IF fits
        THEN /\ meta' = [meta EXCEPT ![p].entries = Append(@, at[t].entry)]
             /\ lock' = [lock EXCEPT ![p] = NoOne]
             /\ Goto(t, IF at[t].entry.ext = Terminal THEN "released" ELSE "publish")
        ELSE /\ Goto(t, IF Exhausted(After(mini.tail)) THEN "metaextent" ELSE "link")
             /\ UNCHANGED <<meta, lock>>
     /\ UNCHANGED <<diskVars, mini, cached, todo>> /\ SameHolders

MetaExtent(t) ==
  \/ /\ at[t].pc = "metaextent" /\ BeginAlloc(t)
     /\ UNCHANGED <<mini, at, todo>> /\ SameLists /\ SameHolders
  \/ /\ at[t].pc = "metaextent" /\ alloc[t].pc = "done"
     /\ Goto(t, "link")
     /\ UNCHANGED <<diskVars, mini, todo>> /\ SameLists /\ SameHolders

\* The new meta page is locked when the others learn of it.
Link(t) ==
  LET new == IF Exhausted(After(mini.tail)) THEN <<alloc[t].ext, 0>>
             ELSE After(mini.tail)
  IN /\ at[t].pc = "link"
     /\ meta' = [meta EXCEPT ![at[t].tail].next = new, ![new] = Blank]
     /\ lock' = [lock EXCEPT ![at[t].tail] = NoOne, ![new] = t]
     /\ mini' = [mini EXCEPT !.tail = new]
     /\ cached' = cached \cup {new[1]}
     /\ at' = [at EXCEPT ![t].pc = "append", ![t].tail = new]
     /\ alloc' = [alloc EXCEPT ![t] = Idle]
     /\ UNCHANGED <<ref, hand, todo>> /\ SameHolders

(***************************************************************************)
(* mini_release: the extents in reserve are given back, batch by batch,    *)
(* and a keyed list gets the end of every batch.                           *)
(***************************************************************************)
Allocs(calls) == \E i \in DOMAIN calls : calls[i].op = "alloc"

Release(t) ==
  LET b == at[t].batch
  IN /\ Ready(t, "release")
     /\ \A u \in Thread : ~Allocs(todo[u])
     /\ ref' = [ref EXCEPT ![mini.nextExt[b]] = @ - 2]
     /\ at' = [at EXCEPT ![t].pc = IF prog.keyed THEN "tail" ELSE "released",
                         ![t].entry = Entry(b, Terminal, Call(t).key)]
     /\ failed' = (failed \/ ref[mini.nextExt[b]] # ONE_REF)
     /\ UNCHANGED <<hand, alloc, mini, todo, held, grabbed, given, prog>> /\ SameLists

Released(t) ==
  /\ at[t].pc = "released"
  /\ IF at[t].batch + 1 \in Batch
     THEN /\ at' = [at EXCEPT ![t].pc = "start", ![t].batch = @ + 1]
          /\ UNCHANGED <<mini, todo, held>>
     ELSE /\ mini' = [mini EXCEPT !.released = TRUE]
          /\ held' = {prog.whole}
          /\ Return(t)
  /\ UNCHANGED <<diskVars, grabbed, given, failed, prog>> /\ SameLists

-----------------------------------------------------------------------------
(***************************************************************************)
(* The walk over the entries of a keyed list: what is done for the extents *)
(* that a range of keys intersects.                                        *)
(***************************************************************************)

State(key, lo, hi) ==
  IF key < lo THEN "before" ELSE IF key <= hi THEN "in" ELSE "after"

\* interval_intersects_range
Intersects(left, right) == left # right \/ left = "in"

\* A batch's first extent begins at -infinity, its last ends at +infinity.
StateOf(t, e) ==
  IF at[t].cur[e.batch].ext = Terminal THEN "before"
  ELSE IF e.ext = Terminal THEN "after"
  ELSE State(e.key, Call(t).lo, Call(t).hi)

Walking(t) == at[t].pc = "walk"
StartWalk(t, page) ==
  [at[t] EXCEPT !.pc = "walk", !.page = page, !.i = 1, !.clean = TRUE,
                !.cur = [b \in Batch |-> [ext |-> Terminal, state |-> "before"]]]

\* References are taken under one that is held.
Under(lo, hi) == \E r \in held : r[1] <= lo /\ hi <= r[2]

BeginInc(t) ==
  /\ Ready(t, "inc") /\ prog.keyed
  /\ Under(Call(t).lo, Call(t).hi)
  /\ at' = [at EXCEPT ![t] = StartWalk(t, MetaHead)]
  /\ UNCHANGED <<diskVars, mini, todo>> /\ SameLists /\ SameHolders

BeginDec(t) ==
  /\ Ready(t, "dec") /\ prog.keyed
  /\ <<Call(t).lo, Call(t).hi>> \in held
  /\ held' = held \ {<<Call(t).lo, Call(t).hi>>}
  /\ Goto(t, "blockers")
  /\ UNCHANGED <<diskVars, mini, todo, grabbed, given, failed, prog>> /\ SameLists

\* Mutant: iterators are not waited for.
GoAhead(t) ==
  /\ at[t].pc = "blockers"
  /\ at' = [at EXCEPT ![t].pc = "claimpage", ![t].page = MetaHead]
  /\ UNCHANGED <<diskVars, mini, todo>> /\ SameLists /\ SameHolders

\* mini_wait_for_blockers
WaitForBlockers(t) ==
  /\ at[t].pc = "blockers" /\ ref[MetaHead[1]] = ONE_REF
  /\ at' = [at EXCEPT ![t].pc = "claimpage", ![t].page = MetaHead]
  /\ UNCHANGED <<diskVars, mini, todo>> /\ SameLists /\ SameHolders

\* Hand over hand: the page before is let go when this one is claimed.
ClaimPage(t) ==
  LET from == at[t].tail
  IN /\ at[t].pc = "claimpage" /\ lock[at[t].page] = NoOne
     /\ lock' = [p \in Page |-> IF p = at[t].page THEN t
                                ELSE IF p = from THEN NoOne ELSE lock[p]]
     /\ at' = [at EXCEPT ![t] = IF from = NoPage
                                THEN StartWalk(t, at[t].page)
                                ELSE [at[t] EXCEPT !.pc = "walk", !.i = 1]]
     /\ UNCHANGED <<diskVars, mini, meta, cached, todo>> /\ SameHolders

\* One entry: the extent before it in its batch ends where it begins.
Visit(t) ==
  LET e    == meta[at[t].page].entries[at[t].i]
      prev == at[t].cur[e.batch]
      next == StateOf(t, e)
      hit  == Intersects(prev.state, next)
      inc  == Call(t).op = "inc"
      gone == ~inc /\ ref[prev.ext] - 1 = NO_REFS
  IN /\ Walking(t) /\ at[t].i <= Len(meta[at[t].page].entries)
     /\ IF hit THEN IF inc THEN IncRef(prev.ext) ELSE DecRef(prev.ext)
        ELSE UNCHANGED ref
     /\ at' = [at EXCEPT ![t].i = @ + 1,
                         ![t].cur[e.batch] = [ext |-> e.ext, state |-> next],
                         ![t].clean = @ /\ (hit => gone),
                         ![t].pc = IF hit /\ gone THEN "free" ELSE "walk",
                         ![t].addr = IF hit /\ gone THEN <<prev.ext, 0>> ELSE @]
     /\ failed' = (failed \/ (hit /\ inc /\ ref[prev.ext] = FREE))
     /\ UNCHANGED <<hand, alloc, mini, todo, held, grabbed, given, prog>> /\ SameLists

\* Nobody refers to the extent any more: its pages leave the cache before it
\* is free.
FreeExtent(t) ==
  LET e == at[t].addr[1]
  IN /\ at[t].pc = "free"
     /\ cached' = cached \ {e}
     /\ DecRef(e)
     /\ failed' = (failed \/ ref[e] # NO_REFS)
     /\ Goto(t, "walk")
     /\ UNCHANGED <<hand, alloc, mini, meta, lock, todo, held, grabbed, given, prog>>

EndPage(t) ==
  LET p == at[t].page
      next == meta[p].next
      dec == Call(t).op = "dec" /\ prog.keyed
  IN /\ Walking(t) /\ at[t].i > Len(meta[p].entries)
     /\ IF next # NoPage
        THEN /\ at' = [at EXCEPT ![t].pc = IF dec THEN "claimpage" ELSE "walk",
                                 ![t].tail = p, ![t].page = next, ![t].i = 1]
             /\ UNCHANGED <<lock, todo, held, failed>>
        ELSE /\ lock' = IF dec THEN [lock EXCEPT ![p] = NoOne] ELSE lock
             /\ IF Call(t).op = "dec" /\ at[t].clean
                THEN /\ at' = [at EXCEPT ![t].pc = "deinit", ![t].page = MetaHead]
                     /\ failed' = (failed \/ ref[MetaHead[1]] # ONE_REF)
                     /\ UNCHANGED <<todo, held>>
                ELSE /\ held' = IF Call(t).op = "inc"
                                THEN held \cup {<<Call(t).lo, Call(t).hi>>} ELSE held
                     /\ Return(t)
                     /\ UNCHANGED failed
     /\ UNCHANGED <<diskVars, mini, meta, cached, grabbed, given, prog>>

\* mini_deinit: the extents of the meta pages, page by page
Deinit(t) ==
  LET p == at[t].page
      next == meta[p].next
      last == next[1] # p[1]
  IN /\ at[t].pc = "deinit" /\ lock[p] = NoOne
     /\ IF last THEN /\ ref' = [ref EXCEPT ![p[1]] = @ - 2]
                     /\ cached' = cached \ {p[1]}
                     /\ failed' = (failed \/ ref[p[1]] # ONE_REF)
        ELSE UNCHANGED <<ref, cached, failed>>
     /\ IF next = NoPage THEN Return(t)
        ELSE at' = [at EXCEPT ![t].page = next] /\ UNCHANGED todo
     /\ UNCHANGED <<hand, alloc, mini, meta, lock, held, grabbed, given, prog>>

-----------------------------------------------------------------------------
(***************************************************************************)
(* The references of an unkeyed allocator.                                 *)
(***************************************************************************)
UnkeyedIncRef(t) ==
  /\ Ready(t, "inc") /\ ~prog.keyed
  /\ held # {}
  /\ held' = held \cup {<<Call(t).lo, Call(t).hi>>}
  /\ IncRef(MetaHead[1])
  /\ Return(t)
  /\ UNCHANGED <<hand, alloc, mini, grabbed, given, failed, prog>> /\ SameLists

UnkeyedDecRef(t) ==
  LET last == ref[MetaHead[1]] - 1 = ONE_REF
  IN /\ Ready(t, "dec") /\ ~prog.keyed
     /\ <<Call(t).lo, Call(t).hi>> \in held
     /\ held' = held \ {<<Call(t).lo, Call(t).hi>>}
     /\ DecRef(MetaHead[1])
     /\ IF last THEN at' = [at EXCEPT ![t].pc = "dealloc", ![t].page = MetaHead] /\ UNCHANGED todo
        ELSE Return(t)
     /\ UNCHANGED <<hand, alloc, mini, grabbed, given, failed, prog>> /\ SameLists

\* mini_unkeyed_for_each with mini_dealloc_extent
Dealloc(t) ==
  LET p == at[t].page
      e == meta[p].entries[at[t].i].ext
  IN /\ at[t].pc = "dealloc"
     /\ IF at[t].i <= Len(meta[p].entries)
        THEN /\ ref' = [ref EXCEPT ![e] = @ - 2]
             /\ cached' = cached \ {e}
             /\ failed' = (failed \/ ref[e] # ONE_REF)
             /\ at' = [at EXCEPT ![t].i = @ + 1]
        ELSE /\ at' = [at EXCEPT ![t].i = 1,
                         ![t].page = IF meta[p].next = NoPage THEN MetaHead ELSE meta[p].next,
                         ![t].pc = IF meta[p].next = NoPage THEN "deinit" ELSE "dealloc"]
             /\ UNCHANGED <<ref, cached, failed>>
     /\ UNCHANGED <<hand, alloc, mini, meta, lock, todo, held, grabbed, given, prog>>

(***************************************************************************)
(* Iterators: mini_block_dec_ref and mini_unblock_dec_ref                  *)
(***************************************************************************)
\* Blocks are taken while the range is referenced and not yet given up.
Block(t) ==
  /\ Ready(t, "block") /\ Under(Call(t).lo, Call(t).hi)
  /\ IncRef(MetaHead[1])
  /\ at' = [at EXCEPT ![t].blocking = <<Call(t).lo, Call(t).hi>>]
  /\ todo' = [todo EXCEPT ![t] = Tail(@)]
  /\ failed' = (failed \/ ref[MetaHead[1]] < ONE_REF)
  /\ UNCHANGED <<hand, alloc, mini, held, grabbed, given, prog>> /\ SameLists

\* The range has been given up: a new iterator reads another tree.
TooLate(t) ==
  /\ Ready(t, "block") /\ mini.released /\ ~Under(Call(t).lo, Call(t).hi)
  /\ todo' = [todo EXCEPT ![t] = Tail(Tail(@))]
  /\ UNCHANGED <<diskVars, mini, at>> /\ SameLists /\ SameHolders

Unblock(t) ==
  /\ Ready(t, "unblock")
  /\ DecRef(MetaHead[1])
  /\ at' = [at EXCEPT ![t].blocking = <<>>]
  /\ todo' = [todo EXCEPT ![t] = Tail(@)]
  /\ failed' = (failed \/ ref[MetaHead[1]] - 1 < ONE_REF)
  /\ UNCHANGED <<hand, alloc, mini, held, grabbed, given, prog>> /\ SameLists

-----------------------------------------------------------------------------
(***************************************************************************)
(* Other users of the disk.                                                *)
(***************************************************************************)
Grab(t) ==
  \/ /\ Ready(t, "grab") /\ BeginAlloc(t)
     /\ UNCHANGED <<mini, at, todo>> /\ SameLists /\ SameHolders
  \/ /\ Ready(t, "grab") /\ alloc[t].pc \in {"done", "full"}
     /\ alloc' = [alloc EXCEPT ![t] = Idle]
     /\ grabbed' = [grabbed EXCEPT ![t] =
                      IF alloc[t].pc = "done" THEN @ \cup {alloc[t].ext} ELSE @]
     /\ Return(t)
     /\ UNCHANGED <<ref, hand, mini, held, given, failed, prog>> /\ SameLists

Drop(t) ==
  /\ Ready(t, "drop")
  /\ \E e \in grabbed[t] : /\ ref' = [ref EXCEPT ![e] = @ - 2]
                           /\ grabbed' = [grabbed EXCEPT ![t] = @ \ {e}]
  /\ Return(t)
  /\ UNCHANGED <<hand, alloc, mini, held, given, failed, prog>> /\ SameLists

\* The steps of an allocation of an extent.
Allocate(t) ==
  /\ Probe(t) \/ Try(t)
  /\ UNCHANGED <<mini, at, todo>> /\ SameLists /\ SameHolders

Step(t) ==
  \/ LockBatch(t) \/ NewExtent(t) \/ Publish(t)
  \/ ReadTail(t) \/ ClaimTail(t) \/ Append1(t) \/ MetaExtent(t) \/ Link(t)
  \/ Release(t) \/ Released(t)
  \/ BeginInc(t) \/ BeginDec(t) \/ WaitForBlockers(t) \/ ClaimPage(t) \/ Visit(t)
  \/ FreeExtent(t) \/ EndPage(t) \/ Deinit(t)
  \/ UnkeyedIncRef(t) \/ UnkeyedDecRef(t) \/ Dealloc(t)
  \/ Block(t) \/ TooLate(t) \/ Unblock(t) \/ Grab(t) \/ Drop(t) \/ Allocate(t)

AllDone == (\A t \in Thread : todo[t] = <<>>) /\ UNCHANGED vars

\* A mini allocator that gets no extent stops the program.
OutOfSpace ==
  /\ \E t \in Thread : at[t].pc \in {"newextent", "metaextent"} /\ alloc[t].pc = "full"
  /\ UNCHANGED vars

Next == \/ (\E t \in Thread : Step(t)) /\ Watch
        \/ AllDone \/ OutOfSpace

\* mini_init: the first meta page, and an extent in reserve for every batch.
\* The first meta page of an unkeyed allocator has one reference more.
Init ==
  /\ prog \in Programs
  /\ ref = [e \in Extent |-> IF e = 0 /\ ~prog.keyed THEN ONE_REF + 1
                             ELSE IF e <= Cardinality(Batch) THEN ONE_REF ELSE FREE]
  /\ hand = (Cardinality(Batch) + 1) % Capacity
  /\ alloc = [t \in Thread |-> Idle]
  /\ unused = [t \in Thread |-> {}]
  /\ mini = [next |-> [b \in Batch |-> <<0, PagesPerExtent>>],
             nextExt |-> [b \in Batch |-> b + 1],
             tail |-> MetaHead, released |-> FALSE]
  /\ meta = [p \in Page |-> Blank]
  /\ lock = [p \in Page |-> NoOne]
  /\ cached = {0}
  /\ at = [t \in Thread |-> AtStart]
  /\ todo = prog.todo
  /\ held = {}
  /\ grabbed = [t \in Thread |-> {}]
  /\ given = [p \in Page |-> 0]
  /\ failed = FALSE

Spec == Init /\ [][Next]_vars

-----------------------------------------------------------------------------
(***************************************************************************)
(* Properties                                                              *)
(***************************************************************************)
\* The meta pages from the first one on, and their entries.
Chain == LET from[p \in Page] ==
               IF meta[p].next = NoPage THEN <<p>> ELSE <<p>> \o from[meta[p].next]
         IN from[MetaHead]
Listed == FlattenSeq([i \in DOMAIN Chain |-> meta[Chain[i]].entries])
InList(b) == SelectSeq(Listed, LAMBDA e : e.batch = b /\ e.ext # Terminal)

\* No page is handed out twice, and the list has every extent of which a page
\* was handed out, once, in the order of their keys in its batch: threads
\* that append to the list at once lose no entry.
PagesFromListedExtents ==
  /\ \A p \in Page : given[p] <= 1
  /\ \A p \in Page : given[p] = 1 =>
       \E i \in DOMAIN Listed : Listed[i].ext = p[1]
  /\ \A i, j \in DOMAIN Listed : Listed[i].ext = Listed[j].ext /\ i # j
                                   => Listed[i].ext = Terminal

\* The keys of an extent in the list: from its own key up to that of the next
\* in its batch.
HasKeyOf(b, i, range) ==
  LET list == InList(b)
  IN /\ list[i].key <= range[2]
     /\ i < Len(list) => range[1] < list[i + 1].key

Reading(t) == at[t].blocking # <<>>
NeededRanges == held \cup {at[t].blocking : t \in {u \in Thread : Reading(u)}}

\* While a range is referenced, or an iterator reads it, the extents with its
\* keys are allocated and nobody else has them; neither has the first meta
\* page, nor does an assertion of the code fail.
RangesStay ==
  /\ ~failed
  /\ NeededRanges # {} => ref[MetaHead[1]] >= ONE_REF
  /\ \A range \in NeededRanges : \A b \in Batch : \A i \in DOMAIN InList(b) :
       prog.keyed => (HasKeyOf(b, i, range) =>
         LET e == InList(b)[i].ext
         IN ref[e] >= ONE_REF /\ \A t \in Thread : e \notin grabbed[t])

\* The references to extent i of batch b that are held.
References(b, i) ==
  LET list == InList(b)
      st(r, j) == IF j = 1 THEN "before" ELSE IF j > Len(list) THEN "after"
                  ELSE State(list[j].key, r[1], r[2])
  IN {r \in held : Intersects(st(r, i), st(r, i + 1))}

Readers == {t \in Thread : Reading(t)}

\* What the counts should be when no call is under way.
CountOf(e) ==
  LET chain == {Chain[i][1] : i \in DOMAIN Chain}
      inUse == held # {} \/ ~mini.released
  IN IF \E t \in Thread : e \in grabbed[t] THEN ONE_REF
     ELSE IF e = MetaHead[1] /\ inUse
     THEN ONE_REF + Cardinality(Readers)
            + (IF prog.keyed THEN 0 ELSE IF mini.released THEN Cardinality(held) ELSE 1)
     ELSE IF e \in chain THEN (IF inUse THEN ONE_REF ELSE FREE)
     ELSE IF ~mini.released /\ e \in {mini.nextExt[b] : b \in Batch} THEN ONE_REF
     ELSE IF \E b \in Batch : \E i \in DOMAIN InList(b) : InList(b)[i].ext = e
     THEN LET b == CHOOSE c \in Batch : \E i \in DOMAIN InList(c) : InList(c)[i].ext = e
              i == CHOOSE j \in DOMAIN InList(b) : InList(b)[j].ext = e
          IN IF ~inUse THEN FREE
             ELSE IF ~mini.released \/ ~prog.keyed THEN ONE_REF
             ELSE IF References(b, i) = {} THEN FREE
             ELSE NO_REFS + Cardinality(References(b, i))
     ELSE FREE

\* When no call is under way every extent has exactly the references that
\* are held, none is lost and none is left over; an extent whose pages are in
\* the cache is never free.
CountsExact ==
  /\ \A e \in cached : ref[e] # FREE
  /\ (\A t \in Thread : at[t].pc = "start" /\ at[t].batch = 0 /\ alloc[t].pc = "idle") =>
       \A e \in Extent : ref[e] = CountOf(e)
=============================================================================
