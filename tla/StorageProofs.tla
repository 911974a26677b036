---------------------------- MODULE StorageProofs ----------------------------
(***************************************************************************)
(* Proofs about what lies between the trees and the disk: the references   *)
(* to the pages of the cache are counted (ClockCache), and a database that *)
(* opens is complete (Mount).                                              *)
(***************************************************************************)
EXTENDS ClockCache, TLAPS, FiniteSetTheorems, WellFoundedInduction

(***************************************************************************)
(* The cache, for any number of threads, counters, entries and pages, and  *)
(* for every program: a thread has a reference at the labels of Counted,   *)
(* and at those labels only; it is counted at the entry the thread is at   *)
(* and given back to the same one.                                         *)
(***************************************************************************)
Place == Entry \cup {None}

\* The labels at which a thread has an entry, or is about to count itself there.
AtEntry == {"test", "ref", "isfree", "islocked", "access", "skip", "match", "loading", "claim", "back",
            "lock", "quiet", "readers", "verify", "granted", "unlock", "unclaim", "hold", "unref",
            "fill", "loaded", "started", "undo", "unmap", "setfree", "unpin", "reserve", "publish",
            "load", "lost"}
Sweeps == {"clean", "before", "setbefore", "after", "setafter", "collect", "drain", "next", "drained",
           "release", "take", "look"}

\* What a thread must know of itself to count only at entries there are.
Seated(r) ==
  /\ DOMAIN r = DOMAIN Begun
  /\ r.done \in Nat /\ r.own \in Place /\ r.victim \in Place
  /\ r.pc # "idle" => r.todo \in SUBSET Addr /\ r.todo # {}
  /\ r.pc \in AtEntry => r.ent \in Entry
  /\ r.pc \in {"drain", "next", "drained"} => r.job.op = "flush"
  /\ r.pc \in {"release", "take", "look"} => r.victim \in Entry
  /\ r.pc \in {"clean", "before", "setbefore", "after", "setafter", "collect"}
       => r.job.op = "flush" \/ r.victim \in Entry

\* Counted, of the record of a thread.
Counts(r) ==
  \/ r.pc \in {"isfree", "islocked", "access", "skip", "match", "loading", "claim", "back",
               "lock", "quiet", "readers", "verify", "granted", "unlock", "unclaim",
               "hold", "unref", "fill", "loaded", "started", "undo", "unmap", "setfree", "unpin"}
  \/ r.pc \in {"reserve", "publish", "load", "lost"} /\ r.job.op # "prefetch"

\* The threads know where they are, and counts are numbers.
Places ==
  /\ DOMAIN th = Thread /\ \A t \in Thread : Seated(th[t])
  /\ lookup \in [Addr -> Place] /\ hand \in Entry
  /\ refs \in [Entry -> [Slot -> Int]]

\* Who has a reference to e in counter c.
ReadersOf(e, c) == {t \in Thread : Counter(t) = c /\ Ent(t) = e /\ Counted(t)}

RefsInv == Places /\ RefsCounted

-----------------------------------------------------------------------------
\* A set of numbers has a least one.
LEMMA Smallest ==
  ASSUME NEW S \in SUBSET Nat, S # {}
  PROVE  \E m \in S : \A n \in S : m <= n
<1> DEFINE Less == {p \in Nat \X Nat : p[1] < p[2]}
<1>1. IsWellFoundedOn(Less, Nat)
  BY NatLessThanWellFounded, Zenon DEF OpToRel
<1> HIDE DEF Less
<1>2. PICK m \in S : \A n \in S : <<n, m>> \notin Less
  BY <1>1, WFMin, Zenon
<1>3. \A a, b \in Nat : <<a, b>> \notin Less => ~(a < b)
  BY Zenon DEF Less
<1>4. \A n \in S : ~(n < m)
  BY <1>2, <1>3, Zenon
<1>5. QED
  BY <1>4

\* The page a job is at is one of those that are left.
LEMMA PageIs ==
  ASSUME CacheAssumption, NEW t \in Thread, th[t].todo \in SUBSET Addr, th[t].todo # {}
  PROVE  Page(t) \in th[t].todo /\ Page(t) \in Addr
<1>1. th[t].todo \in SUBSET Nat
  BY DEF CacheAssumption
<1>2. PICK m \in th[t].todo : \A n \in th[t].todo : m <= n
  BY <1>1, Smallest
<1>3. QED
  BY <1>1, <1>2 DEF Page

\* What Counted says of a thread is said of its record.
LEMMA CountedIs == ASSUME NEW t \in Thread PROVE Counted(t) <=> Counts(th[t])
BY DEF Counted, Counts, OpOf

\* Every thread has a counter.
LEMMA SlotIs == CacheAssumption => \A t \in Thread : Counter(t) \in Slot
BY DEF CacheAssumption, Counter, Slot

\* Before it starts and between two jobs a thread has no entry.
LEMMA SeatedIdle ==
  ASSUME CacheAssumption, Places, NEW t \in Thread, NEW o \in Place
  PROVE  /\ Seated(Idle(t)) /\ ~Counts(Idle(t)) /\ Seated([Idle(t) EXCEPT !.own = o])
         /\ ~Counts([Idle(t) EXCEPT !.own = o])
BY DEF Places, Seated, Idle, Begun, Counts, Place, AtEntry, Sweeps

\* So it is when it goes on with the next page of its job.
LEMMA SeatedRest ==
  ASSUME CacheAssumption, Places, NEW t \in Thread, ~At(t, "idle"), NEW r, r = Rest(t)
  PROVE  Seated(r) /\ ~Counts(r) /\ ~Counts([r EXCEPT !.run = {}])
<1>1. CASE th[t].todo # {Page(t)}
  <2>1. th[t].todo \ {Page(t)} # {} /\ th[t].todo \ {Page(t)} \in SUBSET Addr
    BY <1>1 DEF Places, Seated, At
  <2>2. QED
    BY <1>1, <2>1 DEF Rest, Places, Seated, Begun, Counts, AtEntry, Sweeps, At
<1>2. CASE th[t].todo = {Page(t)}
  BY <1>2, SeatedIdle DEF Rest, Places, Seated, Idle, Begun, Counts, AtEntry, Sweeps
<1>3. QED
  BY <1>1, <1>2

-----------------------------------------------------------------------------
(* What a step of a thread does to the readers of the entries.             *)

\* A step changes the record of one thread.
LEMMA Turn ==
  ASSUME Places, NEW t \in Thread, NEW r, Become(t, r)
  PROVE  DOMAIN th' = Thread /\ th'[t] = r /\ \A u \in Thread : u # t => th'[u] = th[u]
BY DEF Places, Become

\* It stays at its entry, or has none.
LEMMA Stays ==
  ASSUME CacheAssumption, RefsInv, NEW t \in Thread, NEW r, Become(t, r), Seated(r),
         Counts(r) <=> Counts(th[t]), Counts(r) => r.ent = th[t].ent,
         refs' = refs, lookup' \in [Addr -> Place], hand' \in Entry
  PROVE  RefsInv'
<1>1. Places'
  BY Turn DEF Places, RefsInv
<1>2. ASSUME NEW e \in Entry, NEW c \in Slot PROVE ReadersOf(e, c)' = ReadersOf(e, c)
  <2>1. ASSUME NEW u \in Thread
        PROVE  (Ent(u) = e /\ Counted(u))' <=> (Ent(u) = e /\ Counted(u))
    BY Turn DEF RefsInv, Counted, Counts, Ent, At, OpOf
  <2>2. QED
    BY <2>1 DEF ReadersOf
<1>3. QED
  BY <1>1, <1>2 DEF RefsInv, RefsCounted, ReadersOf

\* It counts itself.
LEMMA Comes ==
  ASSUME CacheAssumption, RefsInv, NEW t \in Thread, NEW r, Become(t, r), Seated(r),
         Counts(r), ~Counts(th[t]), r.ent \in Entry, Count(t, r.ent, 1),
         lookup' \in [Addr -> Place], hand' \in Entry
  PROVE  RefsInv'
<1>0. /\ refs' \in [Entry -> [Slot -> Int]]
      /\ \A e \in Entry, c \in Slot :
           refs'[e][c] = IF e = r.ent /\ c = Counter(t) THEN refs[e][c] + 1 ELSE refs[e][c]
  BY SlotIs DEF Count, RefsInv, Places
<1>1. Places'
  BY <1>0, Turn DEF Places, RefsInv
<1>2. ASSUME NEW e \in Entry, NEW c \in Slot PROVE refs'[e][c] = Cardinality(ReadersOf(e, c)')
  <2>1. ASSUME NEW u \in Thread
        PROVE  (Ent(u) = e /\ Counted(u))' <=> IF u = t THEN e = r.ent ELSE Ent(u) = e /\ Counted(u)
    BY Turn DEF RefsInv, Counted, Counts, Ent, At, OpOf
  <2>2. ~Counted(t)
    BY CountedIs
  <2>3. ReadersOf(e, c)' = IF e = r.ent /\ c = Counter(t) THEN ReadersOf(e, c) \cup {t} ELSE ReadersOf(e, c)
    BY <2>1, <2>2 DEF ReadersOf, Counter
  <2>4. IsFiniteSet(ReadersOf(e, c)) /\ t \notin ReadersOf(e, c)
    BY <2>2, FS_Subset DEF ReadersOf, CacheAssumption
  <2>5. refs[e][c] = Cardinality(ReadersOf(e, c))
    BY DEF RefsInv, RefsCounted, ReadersOf
  <2>6. Cardinality(ReadersOf(e, c) \cup {t}) = Cardinality(ReadersOf(e, c)) + 1
    BY <2>4, FS_AddElement
  <2>7. QED
    BY <1>0, <2>3, <2>5, <2>6
<1>3. QED
  BY <1>1, <1>2 DEF RefsInv, RefsCounted, ReadersOf

\* It gives its reference back.
LEMMA Goes ==
  ASSUME CacheAssumption, RefsInv, NEW t \in Thread, NEW r, Become(t, r), Seated(r),
         ~Counts(r), Counts(th[t]), Drop(t), lookup' \in [Addr -> Place], hand' \in Entry
  PROVE  RefsInv'
<1>e. Ent(t) \in Entry
  BY DEF RefsInv, Places, Seated, Counts, AtEntry, Ent
<1>0. /\ refs' \in [Entry -> [Slot -> Int]]
      /\ \A e \in Entry, c \in Slot :
           refs'[e][c] = IF e = Ent(t) /\ c = Counter(t) THEN refs[e][c] - 1 ELSE refs[e][c]
  BY <1>e, SlotIs DEF Drop, Count, RefsInv, Places
<1>1. Places'
  BY <1>0, Turn DEF Places, RefsInv
<1>2. ASSUME NEW e \in Entry, NEW c \in Slot PROVE refs'[e][c] = Cardinality(ReadersOf(e, c)')
  <2>1. ASSUME NEW u \in Thread
        PROVE  (Ent(u) = e /\ Counted(u))' <=> u # t /\ Ent(u) = e /\ Counted(u)
    BY Turn DEF RefsInv, Counted, Counts, Ent, At, OpOf
  <2>2. Counted(t)
    BY CountedIs
  <2>3. ReadersOf(e, c)' = ReadersOf(e, c) \ {t}
    BY <2>1 DEF ReadersOf, Counter
  <2>4. IsFiniteSet(ReadersOf(e, c)) /\ (t \in ReadersOf(e, c) <=> e = Ent(t) /\ c = Counter(t))
    BY <2>2, FS_Subset DEF ReadersOf, CacheAssumption
  <2>5. refs[e][c] = Cardinality(ReadersOf(e, c))
    BY DEF RefsInv, RefsCounted, ReadersOf
  <2>6. t \in ReadersOf(e, c) =>
          Cardinality(ReadersOf(e, c) \ {t}) = Cardinality(ReadersOf(e, c)) - 1
    BY <2>4, FS_RemoveElement
  <2>7. t \notin ReadersOf(e, c) => ReadersOf(e, c) \ {t} = ReadersOf(e, c)
    OBVIOUS
  <2>8. QED
    BY <1>0, <2>3, <2>4, <2>5, <2>6, <2>7
<1>3. QED
  BY <1>1, <1>2 DEF RefsInv, RefsCounted, ReadersOf
-----------------------------------------------------------------------------
\* Going on to another label, at the same entry or at none.
LEMMA FromSeated ==
  ASSUME Places, NEW t \in Thread, ~At(t, "idle"), NEW l,
         l \in AtEntry => th[t].ent \in Entry, l \notin Sweeps
  PROVE  /\ Seated(From(t, l)) /\ From(t, l).pc = l
         /\ From(t, l).ent = th[t].ent /\ From(t, l).job = th[t].job
BY DEF Places, Seated, At, From, Begun, Sweeps

\* Of the labels at which a thread counts, each is at its entry.
LEMMA AtIts == ASSUME Places, NEW t \in Thread, Counts(th[t]) PROVE th[t].ent \in Entry /\ ~At(t, "idle")
BY DEF Places, Seated, Counts, AtEntry, At

\* A thread that counts goes to a label where it counts too.
LEMMA StaysAt ==
  ASSUME CacheAssumption, RefsInv, NEW t \in Thread, NEW l, Goto(t, l), Counts(th[t]),
         l \in {"isfree", "islocked", "access", "skip", "match", "loading", "claim", "back",
               "lock", "quiet", "readers", "verify", "granted", "unlock", "unclaim",
               "hold", "unref", "fill", "loaded", "started", "undo", "unmap", "setfree", "unpin"},
         refs' = refs, lookup' \in [Addr -> Place], hand' = hand
  PROVE  RefsInv'
<1>1. Seated(From(t, l)) /\ From(t, l).pc = l /\ From(t, l).ent = th[t].ent
  BY FromSeated, AtIts DEF RefsInv, Sweeps
<1>2. Counts(From(t, l))
  BY <1>1 DEF Counts
<1>3. QED
  BY <1>1, <1>2, Stays DEF Goto, RefsInv, Places

\* One that has no reference goes to a label where it has none.
LEMMA StaysAway ==
  ASSUME CacheAssumption, RefsInv, NEW t \in Thread, ~At(t, "idle"), NEW l, Goto(t, l), ~Counts(th[t]),
         l \notin AtEntry \cup Sweeps,
         refs' = refs, lookup' \in [Addr -> Place], hand' = hand
  PROVE  RefsInv'
<1>1. Seated(From(t, l)) /\ From(t, l).pc = l
  BY FromSeated DEF RefsInv
<1>2. ~Counts(From(t, l))
  BY <1>1 DEF Counts, AtEntry
<1>3. QED
  BY <1>1, <1>2, Stays DEF Goto, RefsInv, Places

\* One that gives its reference back goes to a label where it has none, or on to
\* what is left of its job.
LEMMA GoesAway ==
  ASSUME CacheAssumption, RefsInv, NEW t \in Thread, Counts(th[t]), Drop(t),
         \/ \E l : Goto(t, l) /\ (~Counts(From(t, l))) /\ l \notin Sweeps
         \/ Become(t, Rest(t)) \/ Become(t, ForFree(th[t])),
         lookup' \in [Addr -> Place], hand' = hand
  PROVE  RefsInv'
<1>0. ~At(t, "idle") /\ hand' \in Entry
  BY AtIts DEF RefsInv, Places
<1>1. CASE \E l : Goto(t, l) /\ (~Counts(From(t, l))) /\ l \notin Sweeps
  <2>1. PICK l : Goto(t, l) /\ (~Counts(From(t, l))) /\ l \notin Sweeps
    BY <1>1
  <2>2. Seated(From(t, l))
    BY <1>0, <2>1, FromSeated, AtIts DEF RefsInv
  <2>3. QED
    BY <1>0, <2>1, <2>2, Goes DEF Goto
<1>2. CASE Become(t, Rest(t))
  BY <1>0, <1>2, Goes, SeatedRest DEF RefsInv
<1>3. CASE Become(t, ForFree(th[t]))
  <2>1. Seated(ForFree(th[t])) /\ ~Counts(ForFree(th[t]))
    BY <1>0 DEF RefsInv, Places, Seated, ForFree, Counts, AtEntry, Sweeps, At, Begun
  <2>2. QED
    BY <1>0, <1>3, <2>1, Goes
<1>4. QED
  BY <1>1, <1>2, <1>3

-----------------------------------------------------------------------------
\* At the start nobody has a reference.
LEMMA RefsInit == ASSUME CacheAssumption, Init PROVE RefsInv
<1>1. 0 \in Entry
  BY FS_EmptySet, FS_CardinalityType DEF CacheAssumption
<1>2. \A t \in Thread : th[t] = Begun /\ Begun.pc = "idle" /\ Seated(Begun)
  BY DEF Init, Begun, Seated, Place, AtEntry, Sweeps
<1>3. Places
  BY <1>1, <1>2 DEF Init, Places, Place
<1>4. \A e \in Entry, c \in Slot : ReadersOf(e, c) = {}
  BY <1>2 DEF ReadersOf, Counted, At
<1>5. \A e \in Entry, c \in Slot : refs[e][c] = 0
  BY DEF Init
<1>6. QED
  BY <1>3, <1>4, <1>5, FS_EmptySet DEF RefsInv, RefsCounted, ReadersOf

\* The steps at which a thread keeps the reference it has.
LEMMA Keeping ==
  ASSUME CacheAssumption, RefsInv, NEW t \in Thread,
         \/ Access(t) \/ Claim(t) \/ Lock(t) \/ Quiet(t) \/ Readers(t) \/ Modify(t) \/ Unlock(t)
         \/ Unclaim(t) \/ Unget(t) \/ Fill(t) \/ Finish(t) \/ Undo(t) \/ Started(t) \/ Verify(t)
         \/ Unmap(t) \/ SetFree(t) \/ ResetPin(t)
  PROVE  RefsInv'
<1>0. lookup \in [Addr -> Place] /\ (Counts(th[t]) => th[t].ent \in Entry)
  BY AtIts DEF RefsInv, Places
<1> USE <1>0, StaysAt DEF At, Counts, entryVars, sweepVars
<1>1. CASE Access(t)
  BY <1>1 DEF Access
<1>2. CASE Claim(t)
  BY <1>2 DEF Claim
<1>3. CASE Lock(t)
  BY <1>3 DEF Lock
<1>4. CASE Quiet(t)
  BY <1>4 DEF Quiet
<1>5. CASE Readers(t)
  BY <1>5 DEF Readers
<1>6. CASE Modify(t)
  BY <1>6 DEF Modify
<1>7. CASE Unlock(t)
  BY <1>7 DEF Unlock
<1>8. CASE Unclaim(t)
  BY <1>8 DEF Unclaim
<1>9. CASE Unget(t)
  BY <1>9 DEF Unget
<1>10. CASE Fill(t)
  BY <1>10 DEF Fill, Ent, Place
<1>11. CASE Finish(t)
  BY <1>11 DEF Finish
<1>12. CASE Undo(t)
  BY <1>12 DEF Undo, Place
<1>13. CASE Started(t)
  BY <1>13 DEF Started
<1>14. CASE Verify(t)
  BY <1>14 DEF Verify
<1>15. CASE Unmap(t)
  BY <1>15 DEF Unmap, Place
<1>16. CASE SetFree(t)
  BY <1>16 DEF SetFree
<1>17. CASE ResetPin(t)
  BY <1>17 DEF ResetPin
<1>18. QED
  BY <1>1, <1>2, <1>3, <1>4, <1>5, <1>6, <1>7, <1>8, <1>9, <1>10, <1>11, <1>12, <1>13, <1>14,
     <1>15, <1>16, <1>17

\* Where a lookup that gave its reference back goes on.
LEMMA LookupEnds ==
  ASSUME CacheAssumption, RefsInv, NEW t \in Thread, Counts(th[t]), Drop(t),
         Evicted(t) \/ Conflict(t), lookup' = lookup, hand' = hand
  PROVE  RefsInv'
<1>0. lookup' \in [Addr -> Place] /\ DOMAIN th[t] = DOMAIN Begun
  BY DEF RefsInv, Places, Seated
<1>1. \A l \in {"swept", "lookup", "test"} : ~Counts(From(t, l)) /\ l \notin Sweeps
  BY <1>0 DEF Counts, From, Sweeps, Begun
<1>2. QED
  BY <1>0, <1>1, GoesAway DEF Evicted, Conflict

\* The steps at which a thread may give its reference back.
LEMMA Giving ==
  ASSUME CacheAssumption, RefsInv, NEW t \in Thread,
         \/ IsLocked(t) \/ Skip(t) \/ Match(t) \/ Loading(t) \/ Back(t) \/ Unref(t) \/ Lost(t)
  PROVE  RefsInv'
<1>0. lookup \in [Addr -> Place] /\ hand \in Entry /\ DOMAIN th[t] = DOMAIN Begun
  BY DEF RefsInv, Places, Seated
<1>a. \A l \in {"swept", "lookup", "tofree"} : ~Counts(From(t, l)) /\ l \notin Sweeps
  BY <1>0 DEF Counts, From, Sweeps, Begun
<1>1. CASE IsLocked(t)
  BY <1>0, <1>1, StaysAt, LookupEnds DEF IsLocked, At, Counts, sweepVars
<1>2. CASE Skip(t)
  BY <1>0, <1>2, GoesAway DEF Skip, At, Counts, sweepVars
<1>3. CASE Match(t)
  BY <1>0, <1>3, StaysAt, LookupEnds DEF Match, Matched, At, Counts, sweepVars
<1>4. CASE Loading(t)
  BY <1>0, <1>4, StaysAt, GoesAway DEF Loading, At, Counts, sweepVars
<1>5. CASE Back(t)
  BY <1>0, <1>5, <1>a, GoesAway DEF Back, At, Counts, sweepVars
<1>6. CASE Unref(t)
  BY <1>0, <1>6, <1>a, GoesAway DEF Unref, At, Counts, sweepVars
<1>7. CASE Lost(t)
  <2>1. CASE OpOf(t) = "prefetch"
    BY <1>0, <1>7, <2>1, StaysAway DEF Lost, At, Counts, OpOf, AtEntry, Sweeps, sweepVars
  <2>2. CASE OpOf(t) = "async"
    BY <1>0, <1>7, <2>2, StaysAt DEF Lost, At, Counts, OpOf, sweepVars
  <2>3. CASE OpOf(t) \notin {"prefetch", "async"}
    BY <1>0, <1>7, <2>3, <1>a, GoesAway DEF Lost, At, Counts, OpOf, sweepVars
  <2>4. QED
    BY <2>1, <2>2, <2>3
<1>8. QED
  BY <1>1, <1>2, <1>3, <1>4, <1>5, <1>6, <1>7

\* A lookup up to its reference.
LEMMA Finding ==
  ASSUME CacheAssumption, RefsInv, NEW t \in Thread, Lookup(t) \/ Test(t) \/ Ref(t) \/ IsFree(t)
  PROVE  RefsInv'
<1>0. lookup \in [Addr -> Place] /\ hand \in Entry /\ DOMAIN th[t] = DOMAIN Begun /\ Seated(th[t])
  BY DEF RefsInv, Places, Seated
<1>1. CASE Lookup(t)
  <2>0. ~At(t, "idle") /\ lookup[Page(t)] \in Place /\ refs' = refs /\ lookup' = lookup /\ hand' = hand
        /\ ~Counts(th[t])
    BY <1>0, <1>1, PageIs DEF Lookup, At, Seated, entryVars, sweepVars, Counts
  <2>1. CASE lookup[Page(t)] # None
    <3> DEFINE r == [From(t, "test") EXCEPT !.ent = lookup[Page(t)]]
    <3>1. Seated(r) /\ ~Counts(r)
      BY <1>0, <2>0, <2>1 DEF Seated, Counts, From, Place, Sweeps, At, Begun
    <3>2. QED
      BY <1>0, <1>1, <2>0, <2>1, <3>1, Stays DEF Lookup
  <2>2. CASE lookup[Page(t)] = None /\ OpOf(t) = "discard"
    BY <1>0, <1>1, <2>0, <2>2, Stays, SeatedRest DEF Lookup, RefsInv
  <2>3. CASE lookup[Page(t)] = None /\ OpOf(t) # "discard"
    <3>1. Seated(ForFree(th[t])) /\ ~Counts(ForFree(th[t]))
      BY <1>0, <2>0 DEF Seated, ForFree, Counts, AtEntry, Sweeps, At, Begun
    <3>2. QED
      BY <1>0, <1>1, <2>0, <2>3, <3>1, Stays DEF Lookup
  <2>4. QED
    BY <2>1, <2>2, <2>3
<1>2. CASE Test(t)
  <2>0. ~At(t, "idle") /\ refs' = refs /\ lookup' = lookup /\ hand' = hand /\ ~Counts(th[t])
        /\ th[t].ent \in Entry
    BY <1>0, <1>2 DEF Test, At, Seated, AtEntry, entryVars, sweepVars, Counts
  <2>1. \A l \in {"swept", "test", "ref"} : Seated(From(t, l)) /\ ~Counts(From(t, l))
    BY <1>0, <2>0, FromSeated DEF RefsInv, Counts, Sweeps
  <2>2. QED
    BY <1>0, <1>2, <2>0, <2>1, Stays, SeatedRest DEF Test, Conflict, Goto, RefsInv
<1>3. CASE Ref(t)
  <2>1. Seated(From(t, "isfree")) /\ Counts(From(t, "isfree")) /\ From(t, "isfree").ent = th[t].ent
        /\ th[t].ent \in Entry /\ ~Counts(th[t])
    BY <1>0, <1>3, FromSeated DEF Ref, RefsInv, Counts, Sweeps, At, Seated, AtEntry
  <2>2. QED
    BY <1>0, <1>3, <2>1, Comes DEF Ref, Goto, Ent, sweepVars
<1>4. CASE IsFree(t)
  <2> DEFINE r == [From(t, "islocked") EXCEPT !.seen = Has(Ent(t), "free")]
  <2>1. Seated(r) /\ Counts(r) /\ r.ent = th[t].ent /\ Counts(th[t])
    BY <1>0, <1>4 DEF IsFree, Seated, From, Counts, Sweeps, At, AtEntry, Begun
  <2>2. QED
    BY <1>0, <1>4, <2>1, Stays DEF IsFree, entryVars, sweepVars
<1>5. QED
  BY <1>1, <1>2, <1>3, <1>4

\* A free entry and the page that is read into it.
LEMMA Filling ==
  ASSUME CacheAssumption, RefsInv, NEW t \in Thread,
         Free(t) \/ Reserve(t) \/ Publish(t) \/ ToFree(t) \/ Load(t)
  PROVE  RefsInv'
<1>0. lookup \in [Addr -> Place] /\ hand \in Entry /\ DOMAIN th[t] = DOMAIN Begun /\ Seated(th[t])
  BY DEF RefsInv, Places, Seated
<1>1. CASE Free(t)
  <2>0. ~At(t, "idle") /\ lookup' = lookup /\ hand' = hand /\ ~Counts(th[t])
    BY <1>0, <1>1 DEF Free, At, sweepVars, Counts
  <2>1. CASE th[t].own # None /\ status[th[t].own] = {"free"}
    <3> DEFINE l == IF OpOf(t) \in Allocs THEN "fill" ELSE "reserve"
               r == [From(t, l) EXCEPT !.ent = th[t].own]
    <3>1. Seated(r) /\ r.ent = th[t].own /\ th[t].own \in Entry /\ (Counts(r) <=> OpOf(t) # "prefetch")
      BY <1>0, <2>0, <2>1 DEF Seated, From, Counts, Sweeps, At, AtEntry, Place, Begun, OpOf, Allocs
    <3>2. Become(t, r) /\ IF OpOf(t) = "prefetch" THEN refs' = refs ELSE Count(t, r.ent, 1)
      BY <1>1, <2>1, <3>1 DEF Free
    <3> HIDE DEF r
    <3>3. QED
      BY <1>0, <2>0, <3>1, <3>2, Stays, Comes
  <2>2. CASE ~(th[t].own # None /\ status[th[t].own] = {"free"})
    BY <1>0, <1>1, <2>0, <2>2, StaysAway DEF Free, AtEntry, Sweeps
  <2>3. QED
    BY <2>1, <2>2
<1>2. CASE Reserve(t) \/ Publish(t)
  <2>0. /\ ~At(t, "idle") /\ hand' = hand /\ refs' = refs /\ th[t].ent \in Entry
        /\ lookup' \in [Addr -> Place] /\ (Counts(th[t]) <=> OpOf(t) # "prefetch")
    BY <1>0, <1>2 DEF Reserve, Publish, At, sweepVars, Counts, Seated, AtEntry, Place, Ent, OpOf
  <2>1. \A l \in {"publish", "load", "lost"} :
          /\ Seated(From(t, l)) /\ From(t, l).ent = th[t].ent
          /\ (Counts(From(t, l)) <=> OpOf(t) # "prefetch")
    BY <1>0, <2>0, FromSeated DEF RefsInv, Counts, Sweeps, OpOf
  <2>2. QED
    BY <1>0, <1>2, <2>0, <2>1, Stays DEF Reserve, Publish, Goto
<1>3. CASE ToFree(t)
  BY <1>0, <1>3, StaysAway DEF ToFree, At, Counts, AtEntry, Sweeps, sweepVars
<1>4. CASE Load(t)
  <2>0. ~At(t, "idle") /\ lookup' = lookup /\ hand' = hand /\ refs' = refs
        /\ (Counts(th[t]) <=> OpOf(t) # "prefetch")
    BY <1>0, <1>4 DEF Load, At, sweepVars, Counts, OpOf
  <2>1. CASE OpOf(t) # "prefetch"
    <3>1. PICK l \in {"started", "undo", "loaded"} : Goto(t, l)
      BY <1>4, <2>1 DEF Load
    <3>2. QED
      BY <1>0, <2>0, <2>1, <3>1, StaysAt
  <2>2. CASE OpOf(t) = "prefetch"
    <3> DEFINE run == th[t].run \cup {[addr |-> Page(t), entry |-> Ent(t)]}
               r == [Rest(t) EXCEPT !.run = run]
    <3>1. Become(t, Idle(t)) \/ Become(t, r)
      BY <1>4, <2>2 DEF Load
    <3>2. Seated(r) /\ ~Counts(r)
      BY <2>0, SeatedRest DEF Seated, Counts, RefsInv
    <3> HIDE DEF r
    <3>3. Seated(Idle(t)) /\ ~Counts(Idle(t))
      BY SeatedIdle DEF RefsInv, Place
    <3>4. QED
      BY <1>0, <2>0, <2>2, <3>1, <3>2, <3>3, Stays
  <2>3. QED
    BY <2>1, <2>2
<1>5. QED
  BY <1>1, <1>2, <1>3, <1>4

\* The hand goes round the entries.
LEMMA HandIs ==
  ASSUME CacheAssumption, hand \in Entry PROVE (hand + 1) % Size \in Entry
<1>1. Size \in Nat /\ Size # 0
  BY FS_CardinalityType, FS_EmptySet DEF CacheAssumption, Size
<1>2. Entry = 0 .. Size - 1
  BY DEF CacheAssumption, Size
<1>3. QED
  BY <1>1, <1>2

\* A sweep: the thread has no reference.
LEMMA Sweeping ==
  ASSUME CacheAssumption, RefsInv, NEW t \in Thread,
         \/ Move(t) \/ Advance(t) \/ Clean(t) \/ Walk(t) \/ WalkSet(t) \/ Collect(t) \/ Release(t)
         \/ Take(t) \/ Look(t) \/ Swept(t) \/ Waited(t) \/ Drain(t) \/ NextBatch(t) \/ Flushed(t)
  PROVE  RefsInv'
<1>0. /\ lookup \in [Addr -> Place] /\ hand \in Entry /\ DOMAIN th[t] = DOMAIN Begun /\ Seated(th[t])
      /\ refs' = refs /\ lookup' = lookup
  BY DEF RefsInv, Places, Seated, Move, Advance, Clean, Walk, WalkSet, Collect, Release, Take, Look, Swept,
         Waited, Drain, NextBatch, Flushed, entryVars
<1>a. ~At(t, "idle") /\ ~Counts(th[t])
  BY DEF Move, Advance, Clean, Walk, WalkSet, Collect, Release, Take, Look, Swept,
         Waited, Drain, NextBatch, Flushed, At, Counts
<1>b. ASSUME hand' = hand, NEW r, Become(t, r), Seated(r), ~Counts(r)
      PROVE  RefsInv'
  BY <1>0, <1>a, <1>b, Stays
<1> DEFINE Fine(r) == Seated(r) /\ ~Counts(r)
<1>1. CASE Move(t)
  BY <1>0, <1>a, <1>1, StaysAway DEF Move, AtEntry, Sweeps
<1>2. CASE Advance(t)
  <2>1. PICK r : /\ Become(t, r)
                 /\ \/ r = [From(t, "take") EXCEPT !.victim = hand']
                    \/ \E b : r = [From(t, "clean") EXCEPT !.victim = hand', !.batch = b]
    BY <1>2 DEF Advance
  <2>2. hand' \in Entry
    BY <1>0, <1>2, HandIs DEF Advance
  <2>3. Fine(r)
    BY <1>0, <1>a, <2>1, <2>2 DEF Seated, Counts, From, Begun, AtEntry, Sweeps, Place, At
  <2>4. QED
    BY <1>0, <1>a, <2>1, <2>2, <2>3, Stays
<1>3. CASE Clean(t)
  <2>1. Fine(Cleaned(t)) /\ \A l : Fine([From(t, "before") EXCEPT !.lo = l, !.hi = l])
    BY <1>0, <1>a, <1>3 DEF Clean, Cleaned, Seated, Counts, From, Begun, AtEntry, Sweeps, Place, At, OpOf
  <2>2. QED
    BY <1>b, <1>3, <2>1 DEF Clean, sweepVars
<1>4. CASE Walk(t)
  <2>1. \A a \in Addr : lookup[a] \in Place
    BY <1>0
  <2>2. PICK r : /\ Become(t, r)
                 /\ \/ \E a \in Addr, l \in {"setbefore", "setafter"} :
                         r = [From(t, l) EXCEPT !.ent = lookup[a]]
                    \/ \E l \in {"after", "collect"} : r = From(t, l)
    BY <1>4 DEF Walk, After, Pages
  <2>3. Fine(r)
    BY <1>0, <1>a, <1>4, <2>1, <2>2 DEF Walk, Seated, Counts, From, Begun, AtEntry, Sweeps, Place, At, OpOf
  <2>4. QED
    BY <1>b, <1>4, <2>2, <2>3 DEF Walk, sweepVars
<1>5. CASE WalkSet(t)
  <2>1. PICK r : /\ Become(t, r)
                 /\ \/ r = [From(t, "before") EXCEPT !.lo = @ - 1]
                    \/ r = [From(t, "after") EXCEPT !.hi = @ + 1]
                    \/ \E l \in {"after", "collect"} : r = From(t, l)
    BY <1>5 DEF WalkSet, After, Goto
  <2>2. Fine(r)
    BY <1>0, <1>a, <1>5, <2>1 DEF WalkSet, Seated, Counts, From, Begun, AtEntry, Sweeps, At
  <2>3. QED
    BY <1>b, <1>5, <2>1, <2>2 DEF WalkSet, sweepVars
<1>6. CASE Collect(t)
  <2>1. Fine(Cleaned(t))
    BY <1>0, <1>a, <1>6 DEF Collect, Cleaned, Seated, Counts, From, Begun, AtEntry, Sweeps, Place, At, OpOf
  <2>2. QED
    BY <1>b, <1>6, <2>1 DEF Collect, sweepVars
<1>7. CASE Release(t)
  <2>1. Fine([From(t, "take") EXCEPT !.batch = None])
    BY <1>0, <1>a, <1>7 DEF Release, Seated, Counts, From, Begun, AtEntry, Sweeps, At
  <2>2. QED
    BY <1>b, <1>7, <2>1 DEF Release
<1>8. CASE Take(t)
  <2>1. Fine(From(t, "advance")) /\ Fine(From(t, "look"))
    BY <1>0, <1>a, <1>8 DEF Take, Seated, Counts, From, Begun, AtEntry, Sweeps, At
  <2>2. QED
    BY <1>b, <1>8, <2>1 DEF Take, Goto
<1>9. CASE Look(t)
  <2>1. Fine([From(t, "test") EXCEPT !.ent = th[t].victim, !.evicting = TRUE]) /\ Fine(From(t, "swept"))
    BY <1>0, <1>a, <1>9 DEF Look, Seated, Counts, From, Begun, AtEntry, Sweeps, At
  <2>2. QED
    BY <1>b, <1>9, <2>1 DEF Look, Goto, sweepVars
<1>10. CASE Swept(t)
  <2> DEFINE Ends(l, m, p) == [From(t, l) EXCEPT !.own = th[t].victim, !.victim = None, !.ent = None,
                                  !.evicting = FALSE, !.seen = FALSE, !.max = m, !.passes = p]
             Last == [Idle(t) EXCEPT !.own = th[t].victim]
  <2>1. Become(t, Last) \/ \E l \in {"wait", "free"} : \E m, p : Become(t, Ends(l, m, p))
    BY <1>10 DEF Swept
  <2>2. Fine(Last)
    BY <1>0, SeatedIdle DEF RefsInv, Seated
  <2>3. ASSUME NEW l \in {"wait", "free"}, NEW m, NEW p PROVE Fine(Ends(l, m, p))
    <3>1. /\ DOMAIN Ends(l, m, p) = DOMAIN Begun /\ Ends(l, m, p).pc = l
          /\ Ends(l, m, p).own = th[t].victim /\ Ends(l, m, p).victim = None
          /\ Ends(l, m, p).todo = th[t].todo /\ Ends(l, m, p).done = th[t].done
      BY <1>0 DEF From, Begun
    <3> HIDE DEF Ends
    <3>2. QED
      BY <1>0, <1>a, <3>1 DEF Seated, Counts, AtEntry, At, Place
  <2> HIDE DEF Ends, Last
  <2>4. QED
    BY <1>b, <1>10, <2>1, <2>2, <2>3 DEF Swept, sweepVars
<1>11. CASE Waited(t)
  BY <1>0, <1>a, <1>11, StaysAway DEF Waited, AtEntry, Sweeps, sweepVars
<1>12. CASE Drain(t)
  <2>1. Fine([From(t, "clean") EXCEPT !.batch = 0]) /\ Fine(From(t, "flushed"))
    BY <1>0, <1>a, <1>12 DEF Drain, Seated, Counts, From, Begun, AtEntry, Sweeps, At
  <2>2. QED
    BY <1>b, <1>12, <2>1 DEF Drain, sweepVars
<1>13. CASE NextBatch(t)
  <2>1. \A b : Fine([From(t, "clean") EXCEPT !.batch = b]) /\ Fine([From(t, "drained") EXCEPT !.batch = None])
    BY <1>0, <1>a, <1>13 DEF NextBatch, Seated, Counts, From, Begun, AtEntry, Sweeps, At
  <2>2. QED
    BY <1>b, <1>13, <2>1 DEF NextBatch, sweepVars
<1>14. CASE Flushed(t)
  <2>1. Fine(Idle(t))
    BY SeatedIdle DEF RefsInv, Place
  <2>2. QED
    BY <1>b, <1>14, <2>1 DEF Flushed, sweepVars
<1>15. QED
  BY <1>1, <1>2, <1>3, <1>4, <1>5, <1>6, <1>7, <1>8, <1>9, <1>10, <1>11, <1>12, <1>13, <1>14

\* A job begins, or a thread begins no more.
LEMMA Starting ==
  ASSUME CacheAssumption, RefsInv, NEW t \in Thread, Start(t) \/ Leave(t)
  PROVE  RefsInv'
<1>0. /\ lookup \in [Addr -> Place] /\ hand \in Entry /\ DOMAIN th[t] = DOMAIN Begun /\ Seated(th[t])
      /\ refs' = refs /\ lookup' = lookup /\ hand' = hand /\ ~Counts(th[t])
  BY DEF RefsInv, Places, Seated, Start, Leave, entryVars, sweepVars, At, Counts
<1>1. CASE Start(t)
  <2>1. PICK j \in Programs[t][th[t].done + 1] :
          LET r == [th[t] EXCEPT !.job = j, !.done = @ + 1,
                                 !.todo = IF j.op \in {"discard", "prefetch"}
                                          THEN Pages(Extent[j.addr]) ELSE {j.addr}] IN
            Become(t, IF j.op \in Allocs THEN ForFree(r)
                      ELSE [r EXCEPT !.pc = IF j.op = "flush" THEN "drain" ELSE "lookup"])
    BY <1>1 DEF Start
  <2>2. j \in Job
    <3>1. Programs[t] \in Seq(SUBSET Job) /\ Len(Programs[t]) \in Nat
      BY DEF CacheAssumption
    <3>a. th[t].done + 1 \in 1 .. Len(Programs[t])
      <4>1. th[t].done < Len(Programs[t]) /\ th[t].done \in Nat
        BY <1>0, <1>1 DEF Start, Seated
      <4>2. QED
        BY <3>1, <4>1
    <3>2. Programs[t][th[t].done + 1] \in SUBSET Job
      BY <3>1, <3>a
    <3>3. QED
      BY <3>2
  <2> DEFINE todo == IF j.op \in {"discard", "prefetch"} THEN Pages(Extent[j.addr]) ELSE {j.addr}
             base == [th[t] EXCEPT !.job = j, !.done = @ + 1, !.todo = todo]
             r == IF j.op \in Allocs THEN ForFree(base)
                  ELSE [base EXCEPT !.pc = IF j.op = "flush" THEN "drain" ELSE "lookup"]
  <2>3. todo \in SUBSET Addr /\ todo # {}
    BY <2>2 DEF Pages, Job
  <2>4. Become(t, r)
    BY <2>1
  <2> HIDE DEF todo
  <2>5. Seated(r) /\ ~Counts(r)
    BY <1>0, <2>3 DEF Seated, ForFree, Counts, AtEntry, Sweeps, Begun
  <2> HIDE DEF r
  <2>6. QED
    BY <1>0, <2>4, <2>5, Stays
<1>2. CASE Leave(t)
  <2> DEFINE r == [th[t] EXCEPT !.done = Len(Programs[t])]
  <2>1. Len(Programs[t]) \in Nat
    BY DEF CacheAssumption
  <2>2. Seated(r) /\ ~Counts(r)
    BY <1>0, <1>2, <2>1 DEF Leave, At, Seated, Counts, AtEntry, Sweeps, Begun
  <2>3. QED
    BY <1>0, <1>2, <2>2, Stays DEF Leave
<1>3. QED
  BY <1>1, <1>2

\* Every step keeps the counts.
LEMMA RefsNext == ASSUME CacheAssumption, RefsInv, [Next]_vars PROVE RefsInv'
<1>1. ASSUME NEW t \in Thread, Step(t) PROVE RefsInv'
  BY <1>1, Keeping, Giving, Finding, Filling, Sweeping DEF Step
<1>2. ASSUME NEW t \in Thread, Start(t) \/ Leave(t) PROVE RefsInv'
  BY <1>2, Starting
<1>3. ASSUME NEW t \in Thread, Complete(t) PROVE RefsInv'
  BY <1>3 DEF Complete, RefsInv, RefsCounted, Places, Counted, Ent, At, OpOf, sweepVars
<1>4. CASE UNCHANGED vars
  BY <1>4 DEF vars, entryVars, sweepVars, RefsInv, RefsCounted, Places, Counted, Ent, At, OpOf
<1>5. QED
  BY <1>1, <1>2, <1>3, <1>4 DEF Next, Done

\* The references of an entry are those of the threads that work on it, counter by
\* counter, whatever the programs do and however their steps interleave: none is
\* lost, so an entry does not stay in the cache for ever, and none is given back
\* twice, so a count never falls below zero and a writer does not take an entry
\* for its own that others read.
THEOREM ReferencesCounted == ASSUME CacheAssumption PROVE Spec => []RefsCounted
<1>1. Init => RefsInv
  BY RefsInit
<1>2. RefsInv /\ [Next]_vars => RefsInv'
  BY RefsNext
<1>3. RefsInv => RefsCounted
  BY DEF RefsInv
<1>4. QED
  BY <1>1, <1>2, <1>3, PTL DEF Spec
-----------------------------------------------------------------------------
(***************************************************************************)
(* The database: one  that opens is complete, wherever the     *)
(* process crashed, but for a crash between the two writes that end a      *)
(* close (trunk_unmount's super block and rc_allocator_unmount's counts).  *)
(*                                                                         *)
(* The tree that matters is the one in the cache and on the disk together  *)
(* while the database is open, and the one on the disk while nothing runs  *)
(* or a mount does.  Neither is damaged because an extent of the tree is   *)
(* counted: it is not free, and so is neither given to a new node or log   *)
(* nor written back over.                                                  *)
(***************************************************************************)
CONSTANTS Capacity, Messages, MaxStarts, CrashAt
VARIABLES disk, starts, phase, counts, al_hand, dirty, root, mem, put, kept

Disk == INSTANCE Mount WITH hand <- al_hand

Creating == {"create_trunk", "create_super_addr", "create_super"}
Mounting == {"mount_trunk", "mount_log", "mount_super", "refused"}
Closing  == {"close_tasks", "close_cache", "close_super", "close_counts"}
Opened   == {"open", "close_memtable"} \cup Closing
Phases   == {"off"} \cup Creating \cup Mounting \cup Opened

DiskPages  == {Disk!Clean, Disk!Blank, Disk!Log} \cup {Disk!Node(B) : B \in SUBSET Disk!Extents}
                                                 \cup {Disk!Branch(M) : M \in SUBSET Messages}
Supers == {Disk!NoSuper} \cup [valid : {TRUE}, root : Disk!Extents, unmounted : BOOLEAN]

MountTypes ==
  /\ disk \in [named : BOOLEAN, super : Supers, counts : [Disk!Extents -> Nat],
               page : [Disk!Extents -> DiskPages]]
  /\ starts \in Nat /\ phase \in Phases
  /\ counts \in [Disk!Extents -> Nat] /\ al_hand \in Nat
  /\ dirty \in [Disk!Extents -> DiskPages]
  /\ root \in Disk!Extents \cup {Disk!NoExtent}
  /\ mem \in SUBSET Messages
  /\ put \in (SUBSET Messages) \cup {Disk!Erased}
  /\ kept \in BOOLEAN

\* The tree at r is there: a trunk node whose branches are branches, and every
\* extent of it is counted.
Whole(page, cnt, r) ==
  /\ r \in Disk!Extents /\ page[r].type = "trunk" /\ cnt[r] > 0
  /\ page[r].branches \in SUBSET Disk!Extents
  /\ \A b \in page[r].branches : page[b].type = "branch" /\ cnt[b] > 0

\* What is in the branches of the tree at r.
Held(page, r) == UNION {page[b].msgs : b \in page[r].branches}

Cached == [e \in Disk!Extents |-> Disk!Page(e)]
AllClean == \A e \in Disk!Extents : dirty[e] = Disk!Clean
Unmounted == disk.super.valid /\ disk.super.unmounted

OpenTree ==
  phase \in Opened =>
    /\ Whole(Cached, counts, root)
    /\ mem \cup Held(Cached, root) = put
    /\ put \in SUBSET Messages
    /\ phase \in Closing => mem = {}
    /\ phase \in {"close_super", "close_counts"} => AllClean

\* The super block says that the database is unmounted only at the end of a close.
OpenSuper ==
  phase \in Opened =>
    /\ disk.super.valid
    /\ disk.super.unmounted <=> phase = "close_counts"
    /\ phase = "close_counts" => disk.super.root = root

Created ==
  phase \in Creating =>
    /\ put = Disk!Erased
    /\ phase # "create_trunk" =>
         root \in Disk!Extents /\ Disk!Page(root) = Disk!Node({}) /\ counts[root] > 0

\* A mount has changed nothing in the extents that the counts on disk say are
\* in use.
Mounted ==
  phase \in Mounting =>
    /\ \A e \in Disk!Extents : /\ counts[e] >= disk.counts[e]
                               /\ disk.counts[e] > 0 => dirty[e] = Disk!Clean
    /\ Unmounted => put # Disk!Erased
    /\ phase = "refused" => ~Unmounted
    /\ phase \in {"mount_log", "mount_super"} => Unmounted /\ root = disk.super.root

\* What a mount would find.
Stored ==
  Unmounted /\ put # Disk!Erased /\ phase # "close_counts" =>
    /\ Whole(disk.page, disk.counts, disk.super.root)
    /\ Held(disk.page, disk.super.root) = put

Resting ==
  /\ phase = "off" => AllClean
  /\ phase \notin Opened => mem = {}
  /\ kept => Unmounted /\ put # Disk!Erased /\ phase \in {"off", "mount_trunk", "mount_log", "mount_super"}

Inv == MountTypes /\ OpenTree /\ OpenSuper /\ Created /\ Mounted /\ Stored /\ Resting

-----------------------------------------------------------------------------
(* Pages and trees.                                                        *)

\* What a page is made of, by its type.
LEMMA PageKinds ==
  ASSUME NEW p \in DiskPages
  PROVE  /\ p.type = "trunk" => p.branches \in SUBSET Disk!Extents
         /\ p.type = "branch" => p.msgs \in SUBSET Messages
         /\ p.type = "clean" <=> p = Disk!Clean
  BY DEF DiskPages, Disk!Clean, Disk!Blank, Disk!Log, Disk!Node, Disk!Branch

\* The pages that are made.
LEMMA PagesMade ==
  /\ Disk!Clean \in DiskPages /\ Disk!Blank \in DiskPages /\ Disk!Log \in DiskPages
  /\ Disk!Log # Disk!Clean /\ Disk!Log.type = "log"
  /\ \A B : /\ Disk!Node(B).type = "trunk" /\ Disk!Node(B).branches = B /\ Disk!Node(B) # Disk!Clean
            /\ B \in SUBSET Disk!Extents => Disk!Node(B) \in DiskPages
  /\ \A M : /\ Disk!Branch(M).type = "branch" /\ Disk!Branch(M).msgs = M /\ Disk!Branch(M) # Disk!Clean
            /\ M \in SUBSET Messages => Disk!Branch(M) \in DiskPages
  BY DEF DiskPages, Disk!Clean, Disk!Blank, Disk!Log, Disk!Node, Disk!Branch

\* Whatever keeps the pages that are counted and goes on counting them keeps a
\* whole tree and what is in it.
LEMMA WholeStays ==
  ASSUME NEW page, NEW cnt, NEW r, NEW page2, NEW cnt2,
         Whole(page, cnt, r),
         \A e \in Disk!Extents : cnt[e] > 0 => page2[e] = page[e] /\ cnt2[e] > 0
  PROVE  Whole(page2, cnt2, r) /\ Held(page2, r) = Held(page, r)
<1>1. page2[r] = page[r] /\ \A b \in page[r].branches : page2[b] = page[b] /\ cnt2[b] > 0
  BY DEF Whole
<1>2. Held(page2, r) = Held(page, r)
  BY <1>1 DEF Held
<1>3. QED
  BY <1>1, <1>2 DEF Whole

\* The pages of the cache and the disk together.
LEMMA CachedPages ==
  ASSUME MountTypes
  PROVE  /\ \A e \in Disk!Extents : /\ Cached[e] = Disk!Page(e) /\ Cached[e] \in DiskPages
                                    /\ disk.page[e] \in DiskPages /\ dirty[e] \in DiskPages
                                    /\ dirty[e] = Disk!Clean => Cached[e] = disk.page[e]
                                    /\ dirty[e] # Disk!Clean => Cached[e] = dirty[e]
  BY DEF MountTypes, Cached, Disk!Page

\* As the module has it.
LEMMA TreeIs ==
  ASSUME NEW page, NEW cnt, NEW r, Whole(page, cnt, r)
  PROVE  Disk!TreeOf(page, r) = Held(page, r) /\ \A e \in Disk!Reached(page, r) : cnt[e] > 0
  BY DEF Whole, Disk!TreeOf, Held, Disk!Reached

\* What Cached looks at.
LEMMA CachedSame == dirty' = dirty /\ disk'.page = disk.page => Cached' = Cached
  BY DEF Cached, Disk!Page

\* What Stored says stays so while the disk does.
LEMMA StoredStays ==
  ASSUME Inv, disk' = disk, put' = put, phase # "close_counts"
  PROVE  Stored'
  BY DEF Inv, Stored, Unmounted

\* Where the hand is after an allocation.
LEMMA HandIn ==
  ASSUME Disk!MountAssumption, NEW e \in Disk!Extents, Disk!Taken(e)
  PROVE  al_hand' \in Nat
<1>1. e \in Nat /\ Capacity \in Nat \ {0}
  BY DEF Disk!Extents, Disk!MountAssumption
<1>2. e % Capacity \in Nat
  BY <1>1
<1>3. QED
  BY <1>2 DEF Disk!Taken

-----------------------------------------------------------------------------
(* Create.                                                                 *)

\* The database is made of nothing, and given up if there was one.
LEMMA InitInv == Disk!MountAssumption /\ Disk!Init => Inv
<1> SUFFICES ASSUME Disk!Init PROVE Inv
  OBVIOUS
<1>1. MountTypes
  BY PagesMade DEF Disk!Init, MountTypes, Phases, Disk!NoSuper, Supers, Disk!NoCounts, Disk!NoExtent
<1>2. OpenTree /\ OpenSuper /\ Created /\ Mounted /\ Stored
  BY DEF Disk!Init, OpenTree, OpenSuper, Created, Mounted, Stored, Unmounted, Disk!NoSuper, Opened,
         Closing, Creating, Mounting
<1>3. Resting
  BY DEF Disk!Init, Resting, AllClean
<1>4. QED
  BY <1>1, <1>2, <1>3 DEF Inv

LEMMA InitAllocatorInv ==
  ASSUME Inv, Disk!InitAllocator
  PROVE  Inv'
<1>1. /\ phase = "off" /\ phase' = "create_trunk" /\ starts' = starts + 1
      /\ put' = Disk!Erased /\ ~kept' /\ kept' \in BOOLEAN
      /\ UNCHANGED <<disk, counts, al_hand, dirty, root, mem>>
  BY DEF Disk!InitAllocator, Disk!Goto
<1>2. MountTypes'
  BY <1>1 DEF Inv, MountTypes, Phases, Creating
<1>3. OpenTree' /\ OpenSuper' /\ Created' /\ Mounted' /\ Stored'
  BY <1>1 DEF OpenTree, OpenSuper, Created, Mounted, Stored, Opened, Closing, Creating, Mounting
<1>4. Resting'
  BY <1>1 DEF Inv, Resting, Opened, Closing
<1>5. QED
  BY <1>2, <1>3, <1>4 DEF Inv

LEMMA CreateTrunkInv ==
  ASSUME Disk!MountAssumption, Inv, Disk!CreateTrunk
  PROVE  Inv'
<1>1. PICK r, l \in Disk!Free :
        /\ Disk!First(r, Disk!Free) /\ Disk!First(l, Disk!Free \ {r}) /\ Disk!Taken(l)
        /\ root' = r
        /\ counts' = [counts EXCEPT ![r] = 1, ![l] = 1]
        /\ dirty' = [dirty EXCEPT ![r] = Disk!Node({}), ![l] = Disk!Log]
  BY DEF Disk!CreateTrunk
<1>2. r \in Disk!Extents /\ l \in Disk!Extents /\ r # l
  BY <1>1 DEF Disk!Free, Disk!First
<1>3. /\ phase = "create_trunk" /\ phase' = "create_super_addr"
      /\ UNCHANGED <<disk, starts, mem, put, kept>>
  BY DEF Disk!CreateTrunk, Disk!Goto
<1>4. counts' \in [Disk!Extents -> Nat] /\ dirty' \in [Disk!Extents -> DiskPages]
  BY <1>1, <1>2, PagesMade DEF Inv, MountTypes
<1>5. al_hand' \in Nat
  BY <1>1, <1>2, HandIn
<1>6. MountTypes'
  BY <1>1, <1>2, <1>3, <1>4, <1>5 DEF Inv, MountTypes, Phases, Creating
<1>7. Disk!Page(r)' = Disk!Node({}) /\ counts'[r] = 1
  BY <1>1, <1>2, PagesMade DEF Inv, MountTypes, Disk!Page
<1>8. Created'
  BY <1>1, <1>2, <1>3, <1>7 DEF Inv, Created, Creating
<1>9. OpenTree' /\ OpenSuper' /\ Mounted' /\ Resting'
  BY <1>3 DEF Inv, OpenTree, OpenSuper, Mounted, Resting, Opened, Closing, Creating, Mounting
<1>10. Stored'
  BY <1>3, StoredStays
<1>11. QED
  BY <1>6, <1>8, <1>9, <1>10 DEF Inv

LEMMA CreateSuperAddrInv ==
  ASSUME Inv, Disk!CreateSuperAddr
  PROVE  Inv'
<1>1. /\ phase = "create_super_addr" /\ phase' = "create_super"
      /\ disk' = [disk EXCEPT !.named = TRUE]
      /\ UNCHANGED <<starts, counts, al_hand, dirty, root, mem, put, kept>>
  BY DEF Disk!CreateSuperAddr, Disk!Goto
<1>2. disk'.page = disk.page /\ disk'.super = disk.super /\ disk'.counts = disk.counts
  BY <1>1 DEF Inv, MountTypes
<1>3. MountTypes'
  BY <1>1 DEF Inv, MountTypes, Phases, Creating
<1>4. Created'
  BY <1>1, <1>2 DEF Inv, Created, Creating, Disk!Page
<1>5. OpenTree' /\ OpenSuper' /\ Mounted' /\ Stored' /\ Resting'
  BY <1>1, <1>2, <1>4 DEF Inv, OpenTree, OpenSuper, Mounted, Stored, Resting, Opened, Closing,
                          Creating, Created, Mounting, Unmounted
<1>6. QED
  BY <1>3, <1>4, <1>5 DEF Inv

\* The new database opens with nothing in it.
LEMMA CreateSuperInv ==
  ASSUME Inv, Disk!CreateSuper
  PROVE  Inv'
<1>1. /\ phase = "create_super" /\ phase' = "open" /\ put' = {}
      /\ disk' = [disk EXCEPT !.super = Disk!Super(FALSE)]
      /\ UNCHANGED <<starts, counts, al_hand, dirty, root, mem, kept>>
  BY DEF Disk!CreateSuper, Disk!Goto, Disk!SetSuperBlock
<1>2. root \in Disk!Extents /\ Disk!Page(root) = Disk!Node({}) /\ counts[root] > 0
  BY <1>1 DEF Inv, Created, Creating
<1>3. /\ disk'.page = disk.page
      /\ disk'.super.valid /\ ~disk'.super.unmounted
  BY <1>1 DEF Inv, MountTypes, Disk!Super
<1>4. MountTypes'
  <2>1. Disk!Super(FALSE) \in Supers
    BY <1>2 DEF Disk!Super, Supers
  <2>2. QED
    BY <1>1, <2>1 DEF Inv, MountTypes, Phases, Opened
<1>5. Cached' = Cached /\ Cached[root] = Disk!Node({})
  BY <1>1, <1>2, <1>3, CachedSame, CachedPages DEF Inv
<1>6. Whole(Cached, counts, root)
  BY <1>2, <1>5, PagesMade DEF Whole
<1>7. Held(Cached, root) = {}
  BY <1>5, PagesMade DEF Held
<1>8. mem = {}
  BY <1>1 DEF Inv, Resting, Opened, Closing
<1>9. OpenTree'
  BY <1>1, <1>5, <1>6, <1>7, <1>8 DEF OpenTree, Closing
<1>10. OpenSuper' /\ Created' /\ Mounted' /\ Stored'
  <2>1. OpenSuper'
    BY <1>1, <1>3 DEF OpenSuper
  <2>2. Created' /\ Mounted'
    BY <1>1 DEF Created, Mounted, Creating, Mounting
  <2>3. Stored'
    BY <1>1, <1>3 DEF Stored, Unmounted
  <2>4. QED
    BY <2>1, <2>2, <2>3
<1>11. Resting'
  BY <1>1 DEF Inv, Resting, Created, Creating, Opened
<1>12. QED
  BY <1>4, <1>9, <1>10, <1>11 DEF Inv

-----------------------------------------------------------------------------
(* Open.                                                                   *)

\* A mount starts from the counts on disk, with nothing in the cache.
LEMMA MountAllocatorInv ==
  ASSUME Inv, Disk!MountAllocator
  PROVE  Inv'
<1>1. /\ phase = "off" /\ phase' = "mount_trunk" /\ starts' = starts + 1
      /\ counts' = disk.counts
      /\ ~(put = Disk!Erased /\ Unmounted)
      /\ UNCHANGED <<disk, al_hand, dirty, root, mem, put, kept>>
  BY DEF Disk!MountAllocator, Disk!Goto, Unmounted
<1>2. MountTypes'
  BY <1>1 DEF Inv, MountTypes, Phases, Mounting
<1>3. OpenTree' /\ OpenSuper' /\ Created'
  BY <1>1 DEF OpenTree, OpenSuper, Created, Opened, Closing, Creating
<1>4. Mounted'
  BY <1>1, <1>2 DEF Inv, MountTypes, Mounted, Resting, AllClean, Unmounted
<1>5. Stored'
  BY <1>1, StoredStays
<1>6. Resting'
  BY <1>1 DEF Inv, Resting, Opened, Closing, Unmounted
<1>7. QED
  BY <1>2, <1>3, <1>4, <1>5, <1>6 DEF Inv

LEMMA MountTrunkInv ==
  ASSUME Inv, Disk!MountTrunk
  PROVE  Inv'
<1>1. /\ phase = "mount_trunk" /\ phase' = "mount_log" /\ root' = disk.super.root
      /\ Unmounted
      /\ UNCHANGED <<disk, starts, counts, al_hand, dirty, mem, put, kept>>
  BY DEF Disk!MountTrunk, Disk!Goto, Unmounted
<1>2. disk.super.root \in Disk!Extents
  BY <1>1 DEF Inv, Mounted, Mounting, Stored, Whole
<1>3. MountTypes'
  BY <1>1, <1>2 DEF Inv, MountTypes, Phases, Mounting
<1>4. OpenTree' /\ OpenSuper' /\ Created'
  BY <1>1 DEF OpenTree, OpenSuper, Created, Opened, Closing, Creating
<1>5. Mounted'
  BY <1>1 DEF Inv, Mounted, Mounting, Unmounted
<1>6. Stored'
  BY <1>1, StoredStays
<1>7. Resting'
  BY <1>1 DEF Inv, Resting, Opened, Closing, Unmounted
<1>8. QED
  BY <1>3, <1>4, <1>5, <1>6, <1>7 DEF Inv

LEMMA RefuseInv ==
  ASSUME Inv, Disk!Refuse
  PROVE  Inv'
<1>1. /\ phase = "mount_trunk" /\ phase' = "refused" /\ ~Unmounted
      /\ UNCHANGED <<disk, starts, counts, al_hand, dirty, root, mem, put, kept>>
  BY DEF Disk!Refuse, Disk!Goto, Unmounted
<1>2. MountTypes'
  BY <1>1 DEF Inv, MountTypes, Phases, Mounting
<1>3. OpenTree' /\ OpenSuper' /\ Created'
  BY <1>1 DEF OpenTree, OpenSuper, Created, Opened, Closing, Creating
<1>4. Mounted'
  BY <1>1 DEF Inv, Mounted, Mounting, Unmounted
<1>5. Stored'
  BY <1>1, StoredStays
<1>6. Resting'
  BY <1>1 DEF Inv, Resting, Opened, Closing, Unmounted
<1>7. QED
  BY <1>2, <1>3, <1>4, <1>5, <1>6 DEF Inv

\* A process that has nothing any more.
LEMMA Forgotten ==
  ASSUME MountTypes, Disk!Forget
  PROVE  /\ phase' = "off" /\ starts' \in Nat /\ phase' \in Phases
         /\ counts' \in [Disk!Extents -> Nat] /\ al_hand' \in Nat
         /\ dirty' \in [Disk!Extents -> DiskPages] /\ AllClean'
         /\ root' \in Disk!Extents \cup {Disk!NoExtent} /\ mem' = {}
  BY PagesMade DEF MountTypes, Disk!Forget, Disk!NoCounts, AllClean, Phases

\* The counts of a refused mount are written, over a tree that is not one that
\* a mount would take.
LEMMA CleanUpInv ==
  ASSUME Inv, Disk!CleanUp
  PROVE  Inv'
<1>1. /\ phase = "refused" /\ disk' = [disk EXCEPT !.counts = counts]
      /\ Disk!Forget /\ UNCHANGED <<put, kept>>
  BY DEF Disk!CleanUp
<1>2. phase' = "off" /\ AllClean' /\ mem' = {}
  BY <1>1, Forgotten DEF Inv
<1>3. MountTypes'
  BY <1>1, Forgotten DEF Inv, MountTypes
<1>4. disk'.super = disk.super /\ ~Unmounted /\ ~Unmounted'
  BY <1>1 DEF Inv, MountTypes, Mounted, Mounting, Unmounted
<1>5. OpenTree' /\ OpenSuper' /\ Created' /\ Mounted'
  BY <1>2 DEF OpenTree, OpenSuper, Created, Mounted, Opened, Closing, Creating, Mounting
<1>6. Stored' /\ Resting'
  BY <1>1, <1>2, <1>4 DEF Inv, Stored, Resting
<1>7. QED
  BY <1>3, <1>5, <1>6 DEF Inv

\* The log's extent is one that is free, on disk as well.
LEMMA MountLogInv ==
  ASSUME Disk!MountAssumption, Inv, Disk!MountLog
  PROVE  Inv'
<1>1. PICK l \in Disk!Free : /\ Disk!First(l, Disk!Free) /\ Disk!Taken(l)
                             /\ counts' = [counts EXCEPT ![l] = 1]
                             /\ dirty' = [dirty EXCEPT ![l] = Disk!Log]
  BY DEF Disk!MountLog
<1>2. l \in Disk!Extents /\ counts[l] = 0
  BY <1>1 DEF Disk!Free
<1>3. /\ phase = "mount_log" /\ phase' = "mount_super"
      /\ UNCHANGED <<disk, starts, root, mem, put, kept>>
  BY DEF Disk!MountLog, Disk!Goto
<1>4. counts' \in [Disk!Extents -> Nat] /\ dirty' \in [Disk!Extents -> DiskPages]
  BY <1>1, <1>2, PagesMade DEF Inv, MountTypes
<1>5. al_hand' \in Nat
  BY <1>1, <1>2, HandIn
<1>6. MountTypes'
  BY <1>3, <1>4, <1>5 DEF Inv, MountTypes, Phases, Mounting
<1>7. disk.counts[l] = 0
  BY <1>2, <1>3 DEF Inv, MountTypes, Mounted, Mounting
<1>8. Mounted'
  <2>1. \A e \in Disk!Extents : counts'[e] >= disk.counts[e] /\ (disk.counts[e] > 0 => dirty'[e] = Disk!Clean)
    BY <1>1, <1>2, <1>3, <1>7 DEF Inv, MountTypes, Mounted, Mounting
  <2>2. QED
    BY <1>3, <2>1 DEF Inv, Mounted, Mounting, Unmounted
<1>9. OpenTree' /\ OpenSuper' /\ Created'
  BY <1>3 DEF OpenTree, OpenSuper, Created, Opened, Closing, Creating
<1>10. Stored'
  BY <1>3, StoredStays
<1>11. Resting'
  BY <1>3 DEF Inv, Resting, Opened, Closing, Unmounted
<1>12. QED
  BY <1>6, <1>8, <1>9, <1>10, <1>11 DEF Inv

\* The database opens with the tree that is on disk.
LEMMA MountSuperInv ==
  ASSUME Inv, Disk!MountSuper
  PROVE  Inv'
<1>1. /\ phase = "mount_super" /\ phase' = "open" /\ ~kept' /\ kept' \in BOOLEAN
      /\ disk' = [disk EXCEPT !.super = Disk!Super(FALSE)]
      /\ UNCHANGED <<starts, counts, al_hand, dirty, root, mem, put>>
  BY DEF Disk!MountSuper, Disk!Goto, Disk!SetSuperBlock
<1>2. Unmounted /\ root = disk.super.root /\ put # Disk!Erased
  BY <1>1 DEF Inv, Mounted, Mounting
<1>3. Whole(disk.page, disk.counts, root) /\ Held(disk.page, root) = put
  BY <1>1, <1>2 DEF Inv, Stored
<1>4. root \in Disk!Extents
  BY <1>3 DEF Whole
<1>5. MountTypes'
  <2>1. Disk!Super(FALSE) \in Supers
    BY <1>4 DEF Disk!Super, Supers
  <2>2. QED
    BY <1>1, <2>1 DEF Inv, MountTypes, Phases, Opened
<1>6. disk'.page = disk.page /\ disk'.super.valid /\ ~disk'.super.unmounted
  BY <1>1 DEF Inv, MountTypes, Disk!Super
<1>7. \A e \in Disk!Extents : disk.counts[e] > 0 => Cached[e] = disk.page[e] /\ counts[e] > 0
  <2>1. \A e \in Disk!Extents : disk.counts[e] > 0 => dirty[e] = Disk!Clean /\ counts[e] >= disk.counts[e]
    BY <1>1 DEF Inv, Mounted, Mounting
  <2>2. \A e \in Disk!Extents : disk.counts[e] \in Nat /\ counts[e] \in Nat
    BY DEF Inv, MountTypes
  <2>3. QED
    BY <2>1, <2>2, CachedPages DEF Inv
<1>8. Whole(Cached, counts, root) /\ Held(Cached, root) = put
  BY <1>3, <1>7, WholeStays
<1>9. Cached' = Cached /\ mem = {}
  BY <1>1, <1>6, CachedSame DEF Inv, Resting, Opened, Closing
<1>10. OpenTree'
  BY <1>1, <1>2, <1>8, <1>9 DEF Inv, MountTypes, OpenTree, Closing
<1>11. OpenSuper'
  BY <1>1, <1>6 DEF OpenSuper
<1>12. Created' /\ Mounted'
  BY <1>1 DEF Created, Mounted, Creating, Mounting
<1>13. Stored'
  BY <1>1, <1>6 DEF Stored, Unmounted
<1>14. Resting'
  BY <1>1 DEF Resting, Opened
<1>15. QED
  BY <1>5, <1>10, <1>11, <1>12, <1>13, <1>14 DEF Inv

-----------------------------------------------------------------------------
(* The open database.                                                      *)

\* A new root is whole, has the branches that the old one had and that were not
\* merged, and the new one.
LEMMA NewTreeWhole ==
  ASSUME Disk!MountAssumption, MountTypes, Whole(Cached, counts, root), disk' = disk,
         NEW msgs \in SUBSET Messages, NEW old \in SUBSET Disk!Branches, Disk!NewTree(msgs, old)
  PROVE  /\ counts' \in [Disk!Extents -> Nat] /\ al_hand' \in Nat /\ dirty' \in [Disk!Extents -> DiskPages]
         /\ root' \in Disk!Extents
         /\ Whole(Cached', counts', root')
         /\ Held(Cached', root') = msgs \cup UNION {Cached[c].msgs : c \in Disk!Branches \ old}
<1>1. PICK b, r \in Disk!Free :
        /\ Disk!First(b, Disk!Free) /\ Disk!First(r, Disk!Free \ {b}) /\ Disk!Taken(r)
        /\ root' = r
        /\ counts' = [e \in Disk!Extents |-> IF e \in {b, r} THEN 1
                                             ELSE IF e \in old \cup {root} THEN 0 ELSE counts[e]]
        /\ dirty' = [e \in Disk!Extents |-> IF e = b THEN Disk!Branch(msgs)
                                            ELSE IF e = r THEN Disk!Node((Disk!Branches \ old) \cup {b})
                                            ELSE IF e \in old \cup {root} THEN Disk!Clean ELSE dirty[e]]
  BY DEF Disk!NewTree
<1>2. /\ b \in Disk!Extents /\ r \in Disk!Extents /\ b # r /\ counts[b] = 0 /\ counts[r] = 0
  BY <1>1 DEF Disk!Free, Disk!First
<1>3. root \in Disk!Extents /\ Disk!Branches = Cached[root].branches
  BY CachedPages DEF Whole, Disk!Branches
<1>4. /\ Disk!Branches \in SUBSET Disk!Extents
      /\ \A c \in Disk!Branches : /\ c \in Disk!Extents /\ c # b /\ c # r /\ c # root /\ counts[c] > 0
                                  /\ Cached[c].type = "branch"
  BY <1>2, <1>3 DEF Whole
<1>5. /\ Disk!Branch(msgs) \in DiskPages /\ Disk!Node((Disk!Branches \ old) \cup {b}) \in DiskPages
      /\ Disk!Clean \in DiskPages /\ \A e \in Disk!Extents : dirty[e] \in DiskPages /\ counts[e] \in Nat
  BY <1>2, <1>4, PagesMade, CachedPages DEF MountTypes
<1>6. counts' \in [Disk!Extents -> Nat]
  BY <1>1, <1>5
<1>7. dirty' \in [Disk!Extents -> DiskPages]
  BY <1>1, <1>5
<1>8. al_hand' \in Nat
  BY <1>1, <1>2, HandIn
<1>9. \A e \in Disk!Extents : Cached'[e] = IF dirty'[e] = Disk!Clean THEN disk.page[e] ELSE dirty'[e]
  BY DEF Cached, Disk!Page
<1>10. Cached'[b] = Disk!Branch(msgs) /\ Cached'[r] = Disk!Node((Disk!Branches \ old) \cup {b})
  BY <1>1, <1>2, <1>9, PagesMade
<1>11. counts'[b] = 1 /\ counts'[r] = 1
  BY <1>1, <1>2
<1>12. ASSUME NEW c \in Disk!Branches \ old
       PROVE  Cached'[c] = Cached[c] /\ counts'[c] > 0
  <2>1. dirty'[c] = dirty[c] /\ counts'[c] = counts[c]
    BY <1>1, <1>4, <1>12
  <2>2. c \in Disk!Extents /\ counts[c] > 0 /\ Cached[c] = Disk!Page(c)
    BY <1>4, CachedPages
  <2>3. Cached'[c] = Cached[c]
    BY <1>9, <2>1, <2>2 DEF Disk!Page
  <2>4. QED
    BY <2>1, <2>2, <2>3
<1>13. Cached'[r].type = "trunk" /\ Cached'[r].branches = (Disk!Branches \ old) \cup {b}
  BY <1>10, PagesMade
<1>14. Cached'[b].type = "branch" /\ Cached'[b].msgs = msgs
  BY <1>10, PagesMade
<1>15. Whole(Cached', counts', root')
  BY <1>1, <1>2, <1>4, <1>11, <1>12, <1>13, <1>14 DEF Whole
<1>16. Held(Cached', root') = UNION {Cached'[c].msgs : c \in (Disk!Branches \ old) \cup {b}}
  BY <1>1, <1>13 DEF Held
<1>17. Held(Cached', root') = msgs \cup UNION {Cached[c].msgs : c \in Disk!Branches \ old}
  BY <1>12, <1>14, <1>16
<1>18. QED
  BY <1>1, <1>2, <1>6, <1>7, <1>8, <1>15, <1>17

\* Nothing but the tree changes in an open database, with the super block as
\* it was.
LEMMA OpenRest ==
  ASSUME Inv, phase \in Opened, phase' \in Opened, disk' = disk, put' = put, kept' = kept,
         phase # "close_counts", phase' # "close_counts"
  PROVE  OpenSuper' /\ Created' /\ Mounted' /\ Stored' /\ Resting'
<1>1. OpenSuper'
  BY DEF Inv, OpenSuper
<1>2. Created' /\ Mounted'
  BY DEF Created, Mounted, Creating, Mounting, Opened, Closing
<1>3. Stored'
  BY StoredStays
<1>4. Resting'
  BY DEF Inv, Resting, Creating, Mounting, Opened, Closing
<1>5. QED
  BY <1>1, <1>2, <1>3, <1>4

LEMMA PutInv ==
  ASSUME "erased" \notin Messages, Inv, Disk!Put
  PROVE  Inv'
<1>1. PICK m \in Messages : put' = put \cup {m} /\ mem' = mem \cup {m}
  BY DEF Disk!Put
<1>2. phase = "open" /\ UNCHANGED <<disk, starts, phase, counts, al_hand, dirty, root, kept>>
  BY DEF Disk!Put
<1>3. put \in SUBSET Messages /\ mem \in SUBSET Messages
  BY <1>2 DEF Inv, OpenTree, MountTypes, Opened
<1>4. MountTypes'
  BY <1>1, <1>2, <1>3 DEF Inv, MountTypes
<1>5. Cached' = Cached
  BY <1>2, CachedSame
<1>6. OpenTree'
  BY <1>1, <1>2, <1>3, <1>5 DEF Inv, OpenTree, Closing, Opened
<1>7. OpenSuper' /\ Created' /\ Mounted'
  BY <1>2 DEF Inv, OpenSuper, Created, Mounted, Creating, Mounting
<1>8. ~Unmounted /\ ~Unmounted'
  BY <1>2 DEF Inv, OpenSuper, Opened, Unmounted
<1>9. Stored' /\ Resting'
  BY <1>2, <1>8 DEF Inv, Stored, Resting, Opened
<1>10. QED
  BY <1>4, <1>6, <1>7, <1>9 DEF Inv

\* A flush moves the messages of the memtable to the tree.
LEMMA IncorporateKeeps ==
  ASSUME Disk!MountAssumption, Inv, phase \in Opened, Disk!Incorporate, disk' = disk
  PROVE  /\ counts' \in [Disk!Extents -> Nat] /\ al_hand' \in Nat /\ dirty' \in [Disk!Extents -> DiskPages]
         /\ root' \in Disk!Extents /\ mem' = {}
         /\ Whole(Cached', counts', root')
         /\ mem' \cup Held(Cached', root') = put
<1>1. Disk!NewTree(mem, {}) /\ mem' = {} /\ mem \in SUBSET Messages
  BY DEF Disk!Incorporate, Inv, MountTypes
<1>2. Whole(Cached, counts, root) /\ mem \cup Held(Cached, root) = put
  BY DEF Inv, OpenTree
<1>3. Disk!Branches = Cached[root].branches
  BY <1>2, CachedPages DEF Whole, Disk!Branches, Inv
<1>4. /\ counts' \in [Disk!Extents -> Nat] /\ al_hand' \in Nat /\ dirty' \in [Disk!Extents -> DiskPages]
      /\ root' \in Disk!Extents
      /\ Whole(Cached', counts', root')
      /\ Held(Cached', root') = mem \cup UNION {Cached[c].msgs : c \in Disk!Branches \ {}}
  BY <1>1, <1>2, NewTreeWhole, {} \in SUBSET Disk!Branches DEF Inv
<1>5. Held(Cached', root') = mem \cup Held(Cached, root)
  BY <1>3, <1>4 DEF Held
<1>6. QED
  BY <1>1, <1>2, <1>4, <1>5

LEMMA MemtableFlushInv ==
  ASSUME Disk!MountAssumption, Inv, Disk!MemtableFlush
  PROVE  Inv'
<1>1. /\ phase = "open" /\ Disk!Incorporate
      /\ UNCHANGED <<disk, starts, phase, put, kept>>
  BY DEF Disk!MemtableFlush
<1>2. phase \in Opened /\ phase # "close_counts"
  BY <1>1 DEF Opened
<1>3. /\ counts' \in [Disk!Extents -> Nat] /\ al_hand' \in Nat /\ dirty' \in [Disk!Extents -> DiskPages]
      /\ root' \in Disk!Extents /\ mem' = {}
      /\ Whole(Cached', counts', root')
      /\ mem' \cup Held(Cached', root') = put
  BY <1>1, <1>2, IncorporateKeeps
<1>4. MountTypes'
  BY <1>1, <1>3 DEF Inv, MountTypes
<1>5. OpenTree'
  BY <1>1, <1>2, <1>3 DEF Inv, OpenTree, Closing
<1>6. QED
  BY <1>1, <1>2, <1>4, <1>5, OpenRest DEF Inv

\* A compaction puts one branch in the place of two, with what they have.
LEMMA CompactBundleInv ==
  ASSUME Disk!MountAssumption, Inv, Disk!CompactBundle
  PROVE  Inv'
<1>1. PICK old \in SUBSET Disk!Branches : Disk!NewTree(UNION {Disk!Page(e).msgs : e \in old}, old)
  BY DEF Disk!CompactBundle
<1>2. /\ phase \in {"open", "close_tasks"}
      /\ UNCHANGED <<disk, starts, phase, mem, put, kept>>
  BY DEF Disk!CompactBundle
<1>3. phase \in Opened /\ phase # "close_counts"
  BY <1>2 DEF Opened, Closing
<1>4. Whole(Cached, counts, root) /\ mem \cup Held(Cached, root) = put
  BY <1>3 DEF Inv, OpenTree
<1>5. Disk!Branches = Cached[root].branches
  BY <1>4, CachedPages DEF Whole, Disk!Branches, Inv
<1>6. \A e \in Disk!Branches : e \in Disk!Extents /\ Cached[e] = Disk!Page(e) /\ Cached[e].msgs \in SUBSET Messages
  BY <1>4, <1>5, CachedPages, PageKinds DEF Whole, Inv
<1> DEFINE msgs == UNION {Disk!Page(e).msgs : e \in old}
<1>7. msgs \in SUBSET Messages /\ msgs = UNION {Cached[e].msgs : e \in old}
  BY <1>6
<1>8. /\ counts' \in [Disk!Extents -> Nat] /\ al_hand' \in Nat /\ dirty' \in [Disk!Extents -> DiskPages]
      /\ root' \in Disk!Extents
      /\ Whole(Cached', counts', root')
      /\ Held(Cached', root') = msgs \cup UNION {Cached[c].msgs : c \in Disk!Branches \ old}
  <2>1. Disk!NewTree(msgs, old)
    BY <1>1
  <2> HIDE DEF msgs
  <2>2. QED
    BY <1>2, <1>4, <1>7, <2>1, NewTreeWhole DEF Inv
<1>9. Held(Cached', root') = Held(Cached, root)
  BY <1>5, <1>7, <1>8 DEF Held
<1>10. MountTypes'
  BY <1>2, <1>8 DEF Inv, MountTypes
<1>11. OpenTree'
  BY <1>2, <1>3, <1>4, <1>8, <1>9 DEF Inv, OpenTree, Closing
<1>12. QED
  BY <1>2, <1>3, <1>10, <1>11, OpenRest DEF Inv

\* A write-back changes neither what the cache and the disk have together nor,
\* while nothing is open, an extent that is counted on disk.
LEMMA WriteBackInv ==
  ASSUME Inv, Disk!WriteBack
  PROVE  Inv'
<1>1. PICK e \in Disk!Extents : /\ dirty[e] # Disk!Clean
                                /\ disk' = [disk EXCEPT !.page[e] = dirty[e]]
                                /\ dirty' = [dirty EXCEPT ![e] = Disk!Clean]
  BY DEF Disk!WriteBack
<1>2. UNCHANGED <<starts, phase, counts, al_hand, root, mem, put, kept>>
  BY DEF Disk!WriteBack
<1>3. /\ disk'.super = disk.super /\ disk'.counts = disk.counts
      /\ disk'.page = [disk.page EXCEPT ![e] = dirty[e]]
  BY <1>1 DEF Inv, MountTypes
<1>4. \A f \in Disk!Extents : /\ disk'.page[f] = IF f = e THEN dirty[e] ELSE disk.page[f]
                              /\ dirty'[f] = IF f = e THEN Disk!Clean ELSE dirty[f]
  BY <1>1, <1>3 DEF Inv, MountTypes
<1>5. (\A f \in Disk!Extents : Disk!Page(f)' = Disk!Page(f)) /\ Cached' = Cached
  <2>1. \A f \in Disk!Extents : Disk!Page(f)' = Disk!Page(f)
    BY <1>1, <1>4 DEF Disk!Page
  <2>2. QED
    BY <2>1 DEF Cached
<1>6. MountTypes'
  <2>1. disk' \in [named : BOOLEAN, super : Supers, counts : [Disk!Extents -> Nat],
                   page : [Disk!Extents -> DiskPages]]
    BY <1>1 DEF Inv, MountTypes
  <2>2. dirty' \in [Disk!Extents -> DiskPages]
    BY <1>1, PagesMade DEF Inv, MountTypes
  <2>3. QED
    BY <1>2, <2>1, <2>2 DEF Inv, MountTypes
<1>7. AllClean => FALSE
  BY <1>1 DEF AllClean
<1>8. OpenTree' /\ OpenSuper'
  BY <1>2, <1>3, <1>5, <1>7 DEF Inv, OpenTree, OpenSuper
<1>9. Created'
  BY <1>2, <1>4, <1>5 DEF Inv, Created, Disk!Page
<1>10. Unmounted' <=> Unmounted
  BY <1>3 DEF Unmounted
<1>11. Mounted'
  BY <1>2, <1>3, <1>4, <1>10 DEF Inv, Mounted
<1>12. Resting'
  BY <1>2, <1>7, <1>10 DEF Inv, Resting
<1>13. ASSUME Unmounted, put # Disk!Erased, phase # "close_counts" PROVE disk.counts[e] = 0
  <2>1. phase \notin Opened
    BY <1>13 DEF Inv, OpenSuper, Unmounted
  <2>2. phase \in Mounting
    BY <1>7, <1>13, <2>1 DEF Inv, MountTypes, Phases, Created, Resting
  <2>3. disk.counts[e] \in Nat /\ ~(disk.counts[e] > 0)
    BY <1>1, <2>2 DEF Inv, MountTypes, Mounted
  <2>4. QED
    BY <2>3
<1>14. Stored'
  <2>1. SUFFICES ASSUME Unmounted, put # Disk!Erased, phase # "close_counts"
                 PROVE  /\ Whole(disk'.page, disk.counts, disk.super.root)
                        /\ Held(disk'.page, disk.super.root) = put
    BY <1>2, <1>3, <1>10 DEF Stored
  <2>2. \A f \in Disk!Extents : disk.counts[f] > 0 => disk'.page[f] = disk.page[f] /\ disk.counts[f] > 0
    BY <1>4, <1>13, <2>1
  <2>3. QED
    BY <2>1, <2>2, WholeStays DEF Inv, Stored
<1>15. QED
  BY <1>6, <1>8, <1>9, <1>11, <1>12, <1>14 DEF Inv

-----------------------------------------------------------------------------
(* Close.                                                                  *)

LEMMA CloseInv ==
  ASSUME Inv, Disk!Close
  PROVE  Inv'
<1>1. /\ phase = "open" /\ phase' = "close_memtable"
      /\ UNCHANGED <<disk, starts, counts, al_hand, dirty, root, mem, put, kept>>
  BY DEF Disk!Close, Disk!Goto
<1>2. phase \in Opened /\ phase' \in Opened
  BY <1>1 DEF Opened
<1>3. MountTypes'
  BY <1>1, <1>2 DEF Inv, MountTypes, Phases
<1>4. Cached' = Cached
  BY <1>1, CachedSame
<1>5. OpenTree'
  BY <1>1, <1>2, <1>4 DEF Inv, OpenTree, Closing
<1>6. QED
  BY <1>1, <1>2, <1>3, <1>5, OpenRest DEF Inv

LEMMA CloseMemtableInv ==
  ASSUME Disk!MountAssumption, Inv, Disk!CloseMemtable
  PROVE  Inv'
<1>1. /\ phase = "close_memtable" /\ phase' = "close_tasks"
      /\ UNCHANGED <<disk, starts, put, kept>>
  BY DEF Disk!CloseMemtable, Disk!Goto
<1>2. phase \in Opened /\ phase' \in Opened
  BY <1>1 DEF Opened, Closing
<1>3. /\ counts' \in [Disk!Extents -> Nat] /\ al_hand' \in Nat /\ dirty' \in [Disk!Extents -> DiskPages]
      /\ root' \in Disk!Extents \cup {Disk!NoExtent} /\ mem' = {}
      /\ Whole(Cached', counts', root')
      /\ mem' \cup Held(Cached', root') = put
  <2>1. CASE Disk!Incorporate
    BY <1>1, <1>2, <2>1, IncorporateKeeps
  <2>2. CASE mem = {} /\ UNCHANGED <<root, counts, al_hand, dirty, mem>>
    <3>1. Cached' = Cached
      BY <1>1, <2>2, CachedSame
    <3>2. QED
      BY <1>2, <2>2, <3>1 DEF Inv, MountTypes, OpenTree
  <2>3. QED
    BY <2>1, <2>2 DEF Disk!CloseMemtable
<1>4. MountTypes'
  BY <1>1, <1>2, <1>3 DEF Inv, MountTypes, Phases
<1>5. OpenTree'
  BY <1>1, <1>2, <1>3 DEF Inv, OpenTree
<1>6. QED
  BY <1>1, <1>2, <1>4, <1>5, OpenRest DEF Inv

LEMMA CloseTasksInv ==
  ASSUME Inv, Disk!CloseTasks
  PROVE  Inv'
<1>1. /\ phase = "close_tasks" /\ phase' = "close_cache"
      /\ UNCHANGED <<disk, starts, counts, al_hand, dirty, root, mem, put, kept>>
  BY DEF Disk!CloseTasks, Disk!Goto
<1>2. phase \in Opened /\ phase' \in Opened /\ phase \in Closing
  BY <1>1 DEF Opened, Closing
<1>3. MountTypes'
  BY <1>1, <1>2 DEF Inv, MountTypes, Phases
<1>4. Cached' = Cached
  BY <1>1, CachedSame
<1>5. OpenTree'
  BY <1>1, <1>2, <1>4 DEF Inv, OpenTree
<1>6. QED
  BY <1>1, <1>2, <1>3, <1>5, OpenRest DEF Inv

\* The flush leaves the disk with what the cache and the disk had together.
LEMMA CloseCacheInv ==
  ASSUME Inv, Disk!CloseCache
  PROVE  Inv'
<1>1. /\ phase = "close_cache" /\ phase' = "close_super"
      /\ disk' = [disk EXCEPT !.page = [e \in Disk!Extents |-> Disk!Page(e)]]
      /\ dirty' = [e \in Disk!Extents |-> Disk!Clean]
      /\ UNCHANGED <<starts, counts, al_hand, root, mem, put, kept>>
  BY DEF Disk!CloseCache, Disk!Goto
<1>2. phase \in Opened /\ phase' \in Opened /\ phase \in Closing
  BY <1>1 DEF Opened, Closing
<1>3. disk'.page = Cached /\ disk'.super = disk.super
  BY <1>1 DEF Inv, MountTypes, Cached
<1>4. Cached \in [Disk!Extents -> DiskPages]
  BY CachedPages DEF Inv, Cached
<1>5. MountTypes'
  <2>1. disk' \in [named : BOOLEAN, super : Supers, counts : [Disk!Extents -> Nat],
                   page : [Disk!Extents -> DiskPages]]
    BY <1>1, <1>4 DEF Inv, MountTypes, Cached
  <2>2. dirty' \in [Disk!Extents -> DiskPages]
    BY <1>1, PagesMade
  <2>3. QED
    BY <1>1, <1>2, <2>1, <2>2 DEF Inv, MountTypes, Phases
<1>6. AllClean'
  BY <1>1 DEF AllClean
<1>7. Cached' = Cached
  BY <1>1, <1>3, <1>4 DEF Cached, Disk!Page
<1>8. OpenTree'
  BY <1>1, <1>2, <1>6, <1>7 DEF Inv, OpenTree
<1>9. ~Unmounted' /\ OpenSuper'
  BY <1>1, <1>2, <1>3 DEF Inv, OpenSuper, Unmounted
<1>10. Created' /\ Mounted' /\ Stored'
  BY <1>1, <1>9 DEF Created, Mounted, Stored, Creating, Mounting
<1>11. Resting'
  BY <1>1, <1>2, <1>9 DEF Inv, Resting, Creating, Mounting, Opened, Closing
<1>12. QED
  BY <1>5, <1>8, <1>9, <1>10, <1>11 DEF Inv

LEMMA CloseSuperInv ==
  ASSUME Inv, Disk!CloseSuper
  PROVE  Inv'
<1>1. /\ phase = "close_super" /\ phase' = "close_counts"
      /\ disk' = [disk EXCEPT !.super = Disk!Super(TRUE)]
      /\ UNCHANGED <<starts, counts, al_hand, dirty, root, mem, put, kept>>
  BY DEF Disk!CloseSuper, Disk!Goto, Disk!SetSuperBlock
<1>2. phase \in Opened /\ phase' \in Opened /\ phase \in Closing
  BY <1>1 DEF Opened, Closing
<1>3. root \in Disk!Extents
  BY <1>2 DEF Inv, OpenTree, Whole
<1>4. disk'.page = disk.page /\ disk'.super.valid /\ disk'.super.unmounted /\ disk'.super.root = root
  BY <1>1 DEF Inv, MountTypes, Disk!Super
<1>5. MountTypes'
  <2>1. Disk!Super(TRUE) \in Supers
    BY <1>3 DEF Disk!Super, Supers
  <2>2. QED
    BY <1>1, <1>2, <2>1 DEF Inv, MountTypes, Phases
<1>6. Cached' = Cached
  BY <1>1, <1>4, CachedSame
<1>7. OpenTree'
  BY <1>1, <1>2, <1>6 DEF Inv, OpenTree, AllClean
<1>8. OpenSuper'
  BY <1>1, <1>4 DEF OpenSuper
<1>9. Created' /\ Mounted' /\ Stored'
  BY <1>1 DEF Created, Mounted, Stored, Creating, Mounting
<1>10. Resting'
  BY <1>1, <1>2 DEF Inv, Resting, Creating, Mounting, Opened, Closing
<1>11. QED
  BY <1>5, <1>7, <1>8, <1>9, <1>10 DEF Inv

\* The counts on disk are those of the tree on disk again.
LEMMA CloseCountsInv ==
  ASSUME "erased" \notin Messages, Inv, Disk!CloseCounts
  PROVE  Inv'
<1>1. /\ phase = "close_counts" /\ disk' = [disk EXCEPT !.counts = counts]
      /\ kept' = TRUE /\ Disk!Forget /\ put' = put
  BY DEF Disk!CloseCounts
<1>2. phase \in Opened /\ phase \in Closing
  BY <1>1 DEF Opened, Closing
<1>3. phase' = "off" /\ AllClean' /\ mem' = {}
  BY <1>1, Forgotten DEF Inv
<1>4. MountTypes'
  BY <1>1, Forgotten DEF Inv, MountTypes
<1>5. disk'.page = disk.page /\ disk'.super = disk.super /\ disk'.counts = counts
  BY <1>1 DEF Inv, MountTypes
<1>6. Unmounted /\ Unmounted' /\ disk.super.root = root
  BY <1>1, <1>2, <1>5 DEF Inv, OpenSuper, Unmounted
<1>7. /\ Whole(Cached, counts, root) /\ Held(Cached, root) = put /\ put \in SUBSET Messages
      /\ AllClean
  BY <1>1, <1>2 DEF Inv, OpenTree
<1>8. \A e \in Disk!Extents : counts[e] > 0 => disk.page[e] = Cached[e] /\ counts[e] > 0
  BY <1>7, CachedPages DEF Inv, AllClean
<1>9. Whole(disk.page, counts, root) /\ Held(disk.page, root) = put
  BY <1>7, <1>8, WholeStays
<1>10. Stored'
  BY <1>1, <1>5, <1>6, <1>9 DEF Stored
<1>11. put # Disk!Erased
  BY <1>7 DEF Disk!Erased
<1>12. Resting'
  BY <1>1, <1>3, <1>6, <1>11 DEF Resting
<1>13. OpenTree' /\ OpenSuper' /\ Created' /\ Mounted'
  BY <1>3 DEF OpenTree, OpenSuper, Created, Mounted, Opened, Closing, Creating, Mounting
<1>14. QED
  BY <1>4, <1>10, <1>12, <1>13 DEF Inv

-----------------------------------------------------------------------------
(* All of it.                                                              *)

\* A crash leaves the disk as it is, at any moment but one.
LEMMA CrashInv ==
  ASSUME "close_counts" \notin CrashAt, Inv, Disk!Crash
  PROVE  Inv'
<1>1. phase # "close_counts" /\ Disk!Forget /\ UNCHANGED <<disk, put, kept>>
  BY DEF Disk!Crash
<1>2. phase' = "off" /\ AllClean' /\ mem' = {}
  BY <1>1, Forgotten DEF Inv
<1>3. MountTypes'
  BY <1>1, Forgotten DEF Inv, MountTypes
<1>4. OpenTree' /\ OpenSuper' /\ Created' /\ Mounted'
  BY <1>2 DEF OpenTree, OpenSuper, Created, Mounted, Opened, Closing, Creating, Mounting
<1>5. Stored'
  BY <1>1, StoredStays
<1>6. Resting'
  BY <1>1, <1>2 DEF Inv, Resting, Unmounted
<1>7. QED
  BY <1>3, <1>4, <1>5, <1>6 DEF Inv

LEMMA StutterInv ==
  ASSUME Inv, UNCHANGED Disk!vars
  PROVE  Inv'
  BY DEF Disk!vars, Inv, MountTypes, OpenTree, OpenSuper, Created, Mounted, Stored, Resting, AllClean,
         Unmounted, Cached, Disk!Page

LEMMA NextInv ==
  ASSUME Disk!MountAssumption, "close_counts" \notin CrashAt, Inv, [Disk!Next]_(Disk!vars)
  PROVE  Inv'
<1>1. "erased" \notin Messages
  BY DEF Disk!MountAssumption
<1>2. CASE Disk!InitAllocator \/ Disk!CreateTrunk \/ Disk!CreateSuperAddr \/ Disk!CreateSuper
  BY <1>2, InitAllocatorInv, CreateTrunkInv, CreateSuperAddrInv, CreateSuperInv
<1>3. CASE \/ Disk!MountAllocator \/ Disk!MountTrunk \/ Disk!Refuse \/ Disk!CleanUp
           \/ Disk!MountLog \/ Disk!MountSuper
  BY <1>3, MountAllocatorInv, MountTrunkInv, RefuseInv, CleanUpInv, MountLogInv, MountSuperInv
<1>4. CASE Disk!Put \/ Disk!MemtableFlush \/ Disk!CompactBundle \/ Disk!WriteBack
  BY <1>1, <1>4, PutInv, MemtableFlushInv, CompactBundleInv, WriteBackInv
<1>5. CASE \/ Disk!Close \/ Disk!CloseMemtable \/ Disk!CloseTasks \/ Disk!CloseCache
           \/ Disk!CloseSuper \/ Disk!CloseCounts
  BY <1>1, <1>5, CloseInv, CloseMemtableInv, CloseTasksInv, CloseCacheInv, CloseSuperInv,
     CloseCountsInv
<1>6. CASE Disk!Crash
  BY <1>6, CrashInv
<1>7. CASE UNCHANGED Disk!vars
  BY <1>7, StutterInv
<1>8. QED
  BY <1>2, <1>3, <1>4, <1>5, <1>6, <1>7 DEF Disk!Next

\* The invariant says that what is open is complete, and what was closed is there.
LEMMA InvComplete == Inv => Disk!OpensComplete
<1> SUFFICES ASSUME Inv PROVE Disk!OpensComplete
  OBVIOUS
<1>1. ASSUME phase \in {"open", "close_memtable", "close_tasks", "close_cache"}
      PROVE  mem \cup Disk!TreeOf([e \in Disk!Extents |-> Disk!Page(e)], root) = put
  <2>1. phase \in Opened
    BY <1>1 DEF Opened, Closing
  <2>2. Whole(Cached, counts, root) /\ mem \cup Held(Cached, root) = put
    BY <2>1 DEF Inv, OpenTree
  <2>3. Disk!TreeOf(Cached, root) = Held(Cached, root)
    BY <2>2, TreeIs
  <2>4. QED
    BY <2>2, <2>3 DEF Cached
<1>2. ASSUME kept
      PROVE  /\ phase # "refused"
             /\ disk.super.valid /\ disk.super.unmounted
             /\ Disk!TreeOf(disk.page, disk.super.root) = put
             /\ \A e \in Disk!Reached(disk.page, disk.super.root) : disk.counts[e] > 0
  <2>1. /\ Unmounted /\ put # Disk!Erased
        /\ phase \in {"off", "mount_trunk", "mount_log", "mount_super"}
    BY <1>2 DEF Inv, Resting
  <2>2. Whole(disk.page, disk.counts, disk.super.root) /\ Held(disk.page, disk.super.root) = put
    BY <2>1 DEF Inv, Stored
  <2>3. QED
    BY <2>1, <2>2, TreeIs DEF Unmounted
<1>3. QED
  BY <1>1, <1>2 DEF Disk!OpensComplete

\* A database that opens has all that it had when it was closed and all that was
\* put into it since; and one whose close has completed does open, whatever
\* crashed since, with its tree on disk and every extent of the tree counted
\* there.  For a process that crashes anywhere but between the super block and
\* the counts at the end of splinterdb_close, where the counts on disk are those
\* of an earlier tree.
THEOREM ClosedOpensComplete ==
  Disk!MountAssumption /\ "close_counts" \notin CrashAt => (Disk!Spec => []Disk!OpensComplete)
<1> SUFFICES ASSUME Disk!MountAssumption, "close_counts" \notin CrashAt
             PROVE  Disk!Spec => []Disk!OpensComplete
  OBVIOUS
<1>1. Disk!Init => Inv
  BY InitInv
<1>2. Inv /\ [Disk!Next]_(Disk!vars) => Inv'
  BY NextInv
<1>3. Inv => Disk!OpensComplete
  BY InvComplete
<1>4. QED
  BY <1>1, <1>2, <1>3, PTL DEF Disk!Spec
=============================================================================
