--------------------------- MODULE TicTocDiskProofs ---------------------------
(***************************************************************************)
(* Proofs about TicToc with its timestamps on disk.  One inductive         *)
(* invariant joins the types, what each thread's variables say of one      *)
(* another, the lock table, the references to the history entries, and     *)
(* what a commit knows of the timestamps of the keys it has locked: that   *)
(* the tuples keep their type needs that an extension moves the rts of the *)
(* version that was read, and that needs the lock.                         *)
(***************************************************************************)
EXTENDS TicTocDisk, FiniteSetTheorems, TLAPS

Listed(t, k) == \E i \in DOMAIN order[t] : order[t][i] = k

\* The labels of a validation that looks at one key.
Looking == {"stamps", "differs", "extend", "next"}

\* What a thread's variables say of one another.
Books(t) ==
  /\ \A k \in Key : /\ ent[t][k].rd \/ ent[t][k].held \/ ent[t][k].wr # "none" => Listed(t, k)
                    /\ ent[t][k].held => Forgiving
  /\ pc[t] \in {"alloc", "spin"} =>
       /\ Forgiving /\ back[t] # "idle" /\ PinKey(t) \in Pinned(t)
       /\ back[t] = "lock" => todo[t] # {}
  /\ Phase(t) \in {"own", "read", "check"} => calls[t] # <<>> /\ ent[t][CallKey(t)].rd
  /\ pc[t] = "check" => got[t] \in Nat
  /\ Phase(t) = "lock" =>
       /\ todo[t] \subseteq WriteSet(t)
       /\ \A w \in WriteSet(t) \ todo[t], k \in todo[t] : w < k
  /\ pc[t] \in {"backoff", "stamp", "install", "record", "release", "unlock"} =>
       todo[t] \subseteq WriteSet(t)
  /\ pc[t] \in {"record", "release"} => todo[t] # {}
  /\ pc[t] = "record" => Forgiving
  /\ pc[t] \in {"validate", "ask"} \cup Looking => todo[t] \subseteq ReadSet(t)
  /\ pc[t] \in {"ask"} \cup Looking => todo[t] # {}
  /\ pc[t] \in Looking => /\ rc[t] = "ok" => Validated(t) \notin WriteSet(t)
                          /\ rc[t] = "deadlk" => Validated(t) \in WriteSet(t)
  /\ pc[t] = "extend" => rc[t] # "busy"
  /\ pc[t] = "unpin" => todo[t] = Pinned(t)
  /\ Forgiving => /\ pc[t] # "unpin" => ReadSet(t) \subseteq Pinned(t)
                  /\ LockSet(t) \subseteq Pinned(t)

\* The lock table has what the commits own.
Locks ==
  /\ \A t \in Thread : mine[t] = LockSet(t)
  /\ locked = UNION {mine[t] : t \in Thread}
  /\ \A t, u \in Thread : t # u => mine[t] \cap mine[u] = {}

\* The labels of a transaction that has a commit_ts.
Committing == {"backoff", "lock", "stamp", "validate", "ask", "install", "record",
               "release"} \cup Looking

\* The keys a commit has stamped and not yet installed.
Stamped(t) ==
  CASE pc[t] = "stamp" -> WriteSet(t) \ todo[t]
    [] pc[t] \in {"validate", "ask"} \cup Looking -> WriteSet(t)
    [] pc[t] = "install" -> todo[t]
    [] pc[t] \in {"record", "release"} -> todo[t] \ {Smallest(todo[t])}
    [] OTHER -> {}

\* What a commit knows of timestamps: its reads were written by its commit_ts,
\* what it is about to extend is what it read, and what it has stamped was
\* written before and read no later.
Times(t) ==
  /\ Phase(t) \in Committing => \A k \in ReadSet(t) : ent[t][k].wts <= cts[t]
  /\ pc[t] = "extend" =>
       /\ tuple[Validated(t)].wts = ent[t][Validated(t)].wts
       /\ tuple[Validated(t)].rts < cts[t]
  /\ \A k \in Stamped(t) : tuple[k].wts < cts[t] /\ tuple[k].rts <= cts[t]

Inv ==
  /\ TypeOK /\ Locks /\ HistoryCounted
  /\ \A t \in Thread : Books(t) /\ Times(t)

-----------------------------------------------------------------------------
(* Numbers, and what a thread's variables are.                             *)

Less == OpToRel(<, Nat)
LEMMA LessWellFounded == IsWellFoundedOn(Less, Nat)
  BY NatLessThanWellFounded DEF Less

\* Smallest is the least element of a set of numbers that is not empty.
LEMMA SmallestMember ==
  ASSUME NEW S \in SUBSET Nat, S # {}
  PROVE  Smallest(S) \in S /\ \A n \in S : Smallest(S) <= n
<1>1. PICK m \in S : \A n \in S : <<n, m>> \notin Less
  BY WFMin, LessWellFounded, Zenon
<1>2. ASSUME NEW a \in Nat, NEW b \in Nat, <<a, b>> \notin Less
      PROVE  ~(a < b)
  BY <1>2, Zenon DEF Less, OpToRel
<1>3. \A n \in S : ~(n < m)
  BY <1>1, <1>2, Zenon
<1>4. \A n \in S : m <= n
  BY <1>3
<1>5. QED
  BY <1>4 DEF Smallest

\* Induction over the numbers, for a set that is closed under successor.
LEMMA InductiveSet ==
  ASSUME NEW S \in SUBSET Nat, 0 \in S, \A n \in S : n + 1 \in S
  PROVE  S = Nat
<1>1. SUFFICES ASSUME Nat \ S # {} PROVE FALSE
  OBVIOUS
<1>2. PICK m \in Nat \ S : \A n \in Nat \ S : m <= n
  BY <1>1, SmallestMember
<1>3. m - 1 \in Nat /\ m - 1 \notin Nat \ S
  BY <1>2
<1>4. (m - 1) + 1 \in S
  BY <1>3
<1>5. QED
  BY <1>2, <1>4

\* A finite set of numbers has an upper bound.
LEMMA BoundedAbove ==
  ASSUME NEW S \in SUBSET Nat, IsFiniteSet(S)
  PROVE  \E b \in Nat : \A n \in S : n <= b
<1>1. PICK n \in Nat : ExistsBijection(1..n, S)
  BY FS_NatBijection
<1>2. PICK f \in [1..n -> S] : \A s \in S : \E i \in 1..n : f[i] = s
  BY <1>1 DEF ExistsBijection, Bijection, Surjection, Injection
<1> DEFINE Good == {i \in Nat : i <= n => \E b \in Nat : \A j \in 1..i : f[j] <= b}
<1>3. 0 \in Good
  OBVIOUS
<1>4. ASSUME NEW i \in Good PROVE i + 1 \in Good
  <2>1. SUFFICES ASSUME i + 1 <= n
                 PROVE  \E b \in Nat : \A j \in 1..(i + 1) : f[j] <= b
    BY <1>4
  <2>2. PICK b \in Nat : \A j \in 1..i : f[j] <= b
    BY <2>1, <1>4
  <2>3. \A j \in 1..(i + 1) : f[j] \in Nat
    <3>1. \A j \in 1..(i + 1) : j \in 1..n
      BY <2>1
    <3>2. QED
      BY <3>1
  <2>4. \A j \in 1..(i + 1) : j = i + 1 \/ j \in 1..i
    OBVIOUS
  <2>5. \A j \in 1..(i + 1) : f[j] <= b + f[i + 1]
    BY <2>2, <2>3, <2>4
  <2>6. b + f[i + 1] \in Nat
    BY <2>3
  <2>7. QED
    BY <2>5, <2>6
<1>5. Good = Nat
  <2>1. Good \in SUBSET Nat
    OBVIOUS
  <2> HIDE DEF Good
  <2>2. QED
    BY <1>3, <1>4, <2>1, InductiveSet
<1>6. \A i \in Nat : i <= n => \E b \in Nat : \A j \in 1..i : f[j] <= b
  BY <1>5
<1>7. n <= n
  OBVIOUS
<1>8. PICK b \in Nat : \A j \in 1..n : f[j] <= b
  BY <1>6, <1>7, Zenon
<1>9. QED
  BY <1>8, <1>2

\* Largest is the greatest element of a finite one.
LEMMA LargestMember ==
  ASSUME NEW S \in SUBSET Nat, IsFiniteSet(S), S # {}
  PROVE  Largest(S) \in S /\ \A n \in S : n <= Largest(S)
<1>1. PICK b \in Nat : \A n \in S : n <= b
  BY BoundedAbove
<1> DEFINE B == {c \in Nat : \A n \in S : n <= c}
<1>2. B \in SUBSET Nat /\ B # {}
  BY <1>1
<1> DEFINE m == Smallest(B)
<1>3. m \in B /\ \A c \in B : m <= c
  BY <1>2, SmallestMember
<1> HIDE DEF m
<1>4. m \in S
  <2>1. SUFFICES ASSUME m \notin S PROVE FALSE
    OBVIOUS
  <2>2. \A n \in S : n < m
    BY <1>3, <2>1
  <2>3. m > 0 /\ m - 1 \in Nat
    <3>1. PICK n \in S : n < m
      BY <2>2
    <3>2. QED
      BY <1>3, <3>1
  <2>4. m - 1 \in B
    BY <1>3, <2>2, <2>3
  <2>5. QED
    BY <1>3, <2>3, <2>4
<1>5. QED
  BY <1>3, <1>4 DEF Largest

LEMMA LargerOfTwo ==
  ASSUME NEW a \in Nat, NEW b \in Nat
  PROVE  Largest({a, b}) \in Nat /\ a <= Largest({a, b}) /\ b <= Largest({a, b})
<1>1. IsFiniteSet({a, b})
  <2>1. IsFiniteSet({a})
    BY FS_Singleton
  <2>2. IsFiniteSet({a} \cup {b})
    BY <2>1, FS_AddElement
  <2>3. {a, b} = {a} \cup {b}
    OBVIOUS
  <2>4. QED
    BY <2>2, <2>3
<1>2. QED
  BY <1>1, LargestMember

LEMMA ThreadTypes ==
  ASSUME LockTableAssumption, Inv, NEW t \in Thread
  PROVE  /\ ent[t] \in [Key -> Entry] /\ order[t] \in Seq(Key) /\ calls[t] \in Seq(Op)
         /\ todo[t] \in SUBSET Key /\ cts[t] \in Nat /\ mine[t] \in SUBSET Key
         /\ calls[t] # <<>> => /\ CallKey(t) \in Key /\ Head(calls[t]) \in Op
                               /\ Tail(calls[t]) \in Seq(Op)
         /\ todo[t] # {} => /\ Smallest(todo[t]) \in todo[t]
                            /\ \A k \in todo[t] : Smallest(todo[t]) <= k
         /\ WriteSet(t) \in SUBSET Key /\ ReadSet(t) \in SUBSET Key
         /\ Books(t) /\ Times(t) /\ mine[t] = LockSet(t)
<1>1. /\ ent[t] \in [Key -> Entry] /\ order[t] \in Seq(Key) /\ calls[t] \in Seq(Op)
      /\ todo[t] \in SUBSET Key /\ cts[t] \in Nat /\ mine[t] \in SUBSET Key
  BY DEF Inv, TypeOK, LockTypeOK
<1>2. ASSUME calls[t] # <<>>
      PROVE  CallKey(t) \in Key /\ Head(calls[t]) \in Op /\ Tail(calls[t]) \in Seq(Op)
  <2>1. Head(calls[t]) \in Op /\ Tail(calls[t]) \in Seq(Op)
    BY <1>1, <1>2
  <2>2. QED
    BY <2>1 DEF CallKey, Op
<1>3. ASSUME todo[t] # {}
      PROVE  Smallest(todo[t]) \in todo[t] /\ \A k \in todo[t] : Smallest(todo[t]) <= k
  BY <1>1, <1>3, SmallestMember DEF LockTableAssumption
<1>4. QED
  BY <1>1, <1>2, <1>3 DEF Inv, Locks, WriteSet, ReadSet

LEMMA TupleTypes ==
  ASSUME Inv
  PROVE  \A k \in Key : /\ tuple[k] \in Tuple /\ tuple[k].wts \in Nat /\ tuple[k].rts \in Nat
                        /\ tuple[k].wts <= tuple[k].rts
<1>1. \A k \in Key : tuple[k] \in Tuple
  BY DEF Inv, TypeOK
<1>2. \A u \in Tuple : u.wts \in Nat /\ u.rts \in Nat /\ u.wts <= u.rts
  BY DEF Tuple, Absent, Orphan
<1>3. QED
  BY <1>1, <1>2

\* What a transaction walks through is in its order.
LEMMA FirstMember ==
  ASSUME LockTableAssumption, Inv, NEW t \in Thread, NEW S \in SUBSET Key, S # {},
         \A k \in S : ent[t][k].rd \/ ent[t][k].held
  PROVE  First(t, S) \in S
<1> DEFINE I == {i \in DOMAIN order[t] : order[t][i] \in S}
<1>1. order[t] \in Seq(Key) /\ Books(t)
  BY ThreadTypes
<1>2. I \in SUBSET Nat
  BY <1>1
<1>3. \A k \in S : Listed(t, k)
  BY <1>1 DEF Books
<1>4. I # {}
  BY <1>3 DEF Listed
<1>5. Smallest(I) \in I
  BY <1>2, <1>4, SmallestMember
<1>6. QED
  BY <1>5 DEF First

\* The read a validation is looking at is one of the transaction's.
LEMMA ValidatedMember ==
  ASSUME LockTableAssumption, Inv, NEW t \in Thread, todo[t] # {},
         pc[t] \in {"validate", "ask"} \cup Looking
  PROVE  Validated(t) \in todo[t] /\ Validated(t) \in ReadSet(t) /\ Validated(t) \in Key
<1>1. todo[t] \subseteq ReadSet(t) /\ todo[t] \in SUBSET Key
  BY ThreadTypes DEF Books
<1>2. QED
  BY <1>1, FirstMember DEF Validated, ReadSet

-----------------------------------------------------------------------------
(* What a step leaves of the other threads.                                *)

\* The step is not one of thread u.
Same(u) ==
  /\ pc'[u] = pc[u] /\ back'[u] = back[u] /\ count'[u] = count[u]
  /\ calls'[u] = calls[u] /\ order'[u] = order[u] /\ ent'[u] = ent[u]
  /\ todo'[u] = todo[u] /\ cts'[u] = cts[u] /\ rc'[u] = rc[u]
  /\ mine'[u] = mine[u] /\ got'[u] = got[u]

LEMMA SameThread ==
  ASSUME NEW u \in Thread, Same(u)
  PROVE  /\ Phase(u)' = Phase(u) /\ WriteSet(u)' = WriteSet(u) /\ ReadSet(u)' = ReadSet(u)
         /\ Validated(u)' = Validated(u) /\ LockSet(u)' = LockSet(u)
         /\ Uses(u)' = Uses(u) /\ Stamped(u)' = Stamped(u) /\ Pinned(u)' = Pinned(u)
         /\ PinKey(u)' = PinKey(u) /\ CallKey(u)' = CallKey(u) /\ Id(u)' = Id(u)
         /\ \A k \in Key : Listed(u, k)' <=> Listed(u, k)
<1>1. WriteSet(u)' = WriteSet(u) /\ ReadSet(u)' = ReadSet(u) /\ Pinned(u)' = Pinned(u)
      /\ Id(u)' = Id(u)
  BY DEF Same, WriteSet, ReadSet, Pinned, Id
<1>2. /\ Phase(u)' = Phase(u) /\ Validated(u)' = Validated(u) /\ PinKey(u)' = PinKey(u)
      /\ CallKey(u)' = CallKey(u) /\ \A k \in Key : Listed(u, k)' <=> Listed(u, k)
  BY DEF Same, Phase, Validated, First, PinKey, CallKey, Listed
<1>3. LockSet(u)' = LockSet(u) /\ Uses(u)' = Uses(u) /\ Stamped(u)' = Stamped(u)
  BY <1>1, <1>2 DEF Same, LockSet, Uses, Stamped
<1>4. QED
  BY <1>1, <1>2, <1>3

\* What a commit knows is about keys that it has locked.
LEMMA KnownLocked ==
  ASSUME LockTableAssumption, Inv, NEW u \in Thread
  PROVE  /\ Stamped(u) \subseteq LockSet(u)
         /\ pc[u] = "extend" => Validated(u) \in LockSet(u)
         /\ LockSet(u) \subseteq Key
<1>1. Books(u) /\ mine[u] = LockSet(u) /\ mine[u] \in SUBSET Key
  BY ThreadTypes
<1>2. rc[u] \in {"ok", "busy", "deadlk"}
  BY DEF Inv, TypeOK
<1>3. QED
  BY <1>1, <1>2 DEF Stamped, LockSet, Phase, Looking, Books

\* A step of t that changes no tuple another thread has locked keeps the
\* invariant when it keeps t's part, the locks and the history entries.
LEMMA OneStep ==
  ASSUME LockTableAssumption, Inv, NEW t \in Thread, \A u \in Thread : u # t => Same(u),
         \A u \in Thread, k \in Key : u # t /\ k \in LockSet(u) => tuple'[k] = tuple[k],
         TypeOK', Locks', HistoryCounted', Books(t)', Times(t)'
  PROVE  Inv'
<1>1. ASSUME NEW u \in Thread, u # t PROVE Books(u)' /\ Times(u)'
  <2>1. Same(u)
    BY <1>1
  <2>2. Books(u) /\ Times(u)
    BY DEF Inv
  <2>3. Books(u)'
    BY <2>1, <2>2, SameThread DEF Same, Books
  <2>4. /\ \A k \in Stamped(u) : tuple'[k] = tuple[k]
        /\ pc[u] = "extend" => tuple'[Validated(u)] = tuple[Validated(u)]
    BY <1>1, KnownLocked
  <2>5. Times(u)'
    BY <2>1, <2>2, <2>4, SameThread DEF Same, Times
  <2>6. QED
    BY <2>3, <2>5
<1>2. QED
  BY <1>1 DEF Inv

LEMMA LocksStay ==
  ASSUME Inv, NEW t \in Thread, \A u \in Thread : u # t => Same(u),
         LockSet(t)' = LockSet(t), UNCHANGED lockVars
  PROVE  Locks'
<1>1. \A u \in Thread : LockSet(u)' = LockSet(u)
  BY SameThread
<1>2. QED
  BY <1>1 DEF lockVars, Inv, Locks

LEMMA HistoryStays ==
  ASSUME Inv, NEW t \in Thread, \A u \in Thread : u # t => Same(u),
         refs' = refs, ready \subseteq ready', Uses(t)' \subseteq Uses(t) \cup ready',
         \A k \in Key : ent'[t][k].held = ent[t][k].held,
         \A k \in Key : refs[k] = 0 => k \notin ready' /\ log'[k] = <<>>
  PROVE  HistoryCounted'
<1>1. \A u \in Thread : Uses(u)' \subseteq Uses(u) \cup ready'
  BY SameThread
<1>2. \A u \in Thread, k \in Key : ent'[u][k].held = ent[u][k].held
  BY DEF Same
<1>3. \A k \in Key : {u \in Thread : ent'[u][k].held} = {u \in Thread : ent[u][k].held}
  BY <1>2
<1>4. QED
  BY <1>1, <1>3 DEF Inv, HistoryCounted

\* A step on t's own variables only.
LEMMA OwnStep ==
  ASSUME LockTableAssumption, Inv, NEW t \in Thread, \A u \in Thread : u # t => Same(u),
         UNCHANGED <<locked, mine, tuple, log, refs, ready>>,
         TypeOK', LockSet(t)' = LockSet(t), Uses(t)' \subseteq Uses(t),
         \A k \in Key : ent'[t][k].held = ent[t][k].held, Books(t)', Times(t)'
  PROVE  Inv'
<1>1. Locks'
  BY LocksStay DEF lockVars
<1>2. HistoryCounted'
  <2>1. \A k \in Key : refs[k] = 0 => k \notin ready' /\ log'[k] = <<>>
    BY DEF Inv, HistoryCounted
  <2>2. QED
    BY <2>1, HistoryStays
<1>3. QED
  BY <1>1, <1>2, OneStep

-----------------------------------------------------------------------------
(* The calls of a transaction.                                             *)

\* A thread that is not committing knows nothing of timestamps.
LEMMA NoTimes ==
  ASSUME NEW t \in Thread, pc'[t] \notin {"alloc", "spin", "lock", "backoff", "stamp",
           "validate", "ask", "install", "record", "release"} \cup Looking
  PROVE  Times(t)'
<1>1. Phase(t)' \notin Committing /\ Stamped(t)' = {} /\ pc'[t] # "extend"
  BY DEF Phase, Committing, Stamped, Looking
<1>2. QED
  BY <1>1 DEF Times

\* What is left to say of a thread between two calls.
LEMMA RunBooks ==
  ASSUME NEW t \in Thread, pc'[t] = "run",
         \A j \in Key :
           /\ ent'[t][j].rd \/ ent'[t][j].held \/ ent'[t][j].wr # "none" => Listed(t, j)'
           /\ ent'[t][j].held => Forgiving,
         Forgiving => ReadSet(t)' \subseteq Pinned(t)'
  PROVE  Books(t)'
<1>1. Phase(t)' = "run" /\ LockSet(t)' = {}
  BY DEF Phase, LockSet
<1>2. QED
  BY <1>1 DEF Books, Looking

LEMMA BeginStep ==
  ASSUME LockTableAssumption, TicTocDiskAssumption, Inv, NEW t \in Thread, Begin(t)
  PROVE  Inv'
<1>1. PICK p \in Programs[t][count[t] + 1] : calls' = [calls EXCEPT ![t] = p]
  BY DEF Begin
<1>2. /\ pc[t] = "idle" /\ pc' = [pc EXCEPT ![t] = "run"]
      /\ count' = [count EXCEPT ![t] = @ + 1] /\ count[t] < Len(Programs[t])
      /\ UNCHANGED <<locked, mine, tuple, db, log, refs, ready, back, order, ent, got,
                     reads, todo, cts, rc, seen, hist>>
  BY DEF Begin, Goto, lockVars, histVars, commitVars
<1>3. p \in Seq(Op)
  <2>1. Programs[t] \in Seq(SUBSET Seq(Op)) /\ count[t] \in Nat
    BY DEF TicTocDiskAssumption, Inv, TypeOK
  <2>2. count[t] + 1 \in DOMAIN Programs[t]
    BY <1>2, <2>1
  <2>3. Programs[t][count[t] + 1] \in SUBSET Seq(Op)
    BY <2>1, <2>2
  <2>4. QED
    BY <1>1, <2>3
<1>4. TypeOK'
  <2>1. /\ pc \in [Thread -> Label] /\ calls \in [Thread -> Seq(Op)] /\ count \in [Thread -> Nat]
    BY DEF Inv, TypeOK
  <2>2. pc' \in [Thread -> Label]
    BY <1>2, <2>1 DEF Label
  <2>3. calls' \in [Thread -> Seq(Op)] /\ count' \in [Thread -> Nat]
    BY <1>1, <1>2, <1>3, <2>1
  <2>4. QED
    BY <1>2, <2>2, <2>3 DEF Inv, TypeOK, LockTypeOK
<1>5. pc'[t] = "run" /\ calls'[t] = p /\ \A u \in Thread : u # t => Same(u)
  BY <1>1, <1>2 DEF Same, Inv, TypeOK
<1>6. /\ LockSet(t)' = {} /\ LockSet(t) = {} /\ Uses(t)' = Uses(t) /\ Phase(t)' = "run"
      /\ Pinned(t)' = Pinned(t) /\ ReadSet(t)' = ReadSet(t)
  BY <1>2, <1>5 DEF LockSet, Uses, Phase, Pinned, ReadSet
<1>7. Books(t)'
  BY <1>2, <1>5, <1>6, ThreadTypes DEF Books, Listed, Looking
<1>8. Times(t)'
  BY <1>5, NoTimes DEF Looking
<1>9. QED
  BY <1>2, <1>4, <1>5, <1>6, <1>7, <1>8, OwnStep

\* rw_entry_get keeps the entries in place and leaves one for the key.
LEMMA AddEntryEffect ==
  ASSUME LockTableAssumption, Inv, NEW t \in Thread, NEW k \in Key, AddEntry(t, k)
  PROVE  /\ order' \in [Thread -> Seq(Key)]
         /\ \A u \in Thread : u # t => order'[u] = order[u]
         /\ \A j \in Key : Listed(t, j) => Listed(t, j)'
         /\ Listed(t, k)'
<1>1. order \in [Thread -> Seq(Key)] /\ order[t] \in Seq(Key)
  BY DEF Inv, TypeOK
<1>2. CASE \E i \in DOMAIN order[t] : order[t][i] = k
  BY <1>1, <1>2 DEF AddEntry, Listed
<1>3. CASE ~\E i \in DOMAIN order[t] : order[t][i] = k
  <2> DEFINE new == Append(order[t], k)
  <2>1. order' = [order EXCEPT ![t] = new]
    BY <1>3 DEF AddEntry
  <2>2. new \in Seq(Key) /\ Len(new) = Len(order[t]) + 1 /\ new[Len(new)] = k
    BY <1>1
  <2>3. \A i \in DOMAIN order[t] : i \in DOMAIN new /\ new[i] = order[t][i]
    BY <1>1
  <2>4. Len(new) \in DOMAIN new
    BY <1>1, <2>2
  <2> HIDE DEF new
  <2>5. order'[t] = new
    BY <1>1, <2>1
  <2>6. QED
    BY <1>1, <2>1, <2>2, <2>3, <2>4, <2>5 DEF Listed
<1>4. QED
  BY <1>2, <1>3

LEMMA LocalWriteStep ==
  ASSUME LockTableAssumption, Inv, NEW t \in Thread, LocalWrite(t)
  PROVE  Inv'
<1>13. CallKey(t) \in Key
  BY ThreadTypes DEF LocalWrite, Calling
<1>14. PICK k \in Key : k = CallKey(t)
  BY <1>13
<1> DEFINE e == [ent[t][k] EXCEPT !.wr = Head(calls[t]).op]
<1>1. /\ pc[t] = "run" /\ calls[t] # <<>> /\ AddEntry(t, k)
      /\ Head(calls[t]).op \in {"write", "delete"}
      /\ ent' = [ent EXCEPT ![t][k] = e] /\ calls' = [calls EXCEPT ![t] = Tail(@)]
      /\ UNCHANGED <<locked, mine, tuple, db, log, refs, ready, pc, back, count, got,
                     reads, todo, cts, rc, seen, hist>>
  BY <1>14 DEF LocalWrite, Calling, Return, lockVars, histVars, commitVars
<1>2. /\ k \in Key /\ Tail(calls[t]) \in Seq(Op) /\ ent[t][k] \in Entry /\ Books(t)
      /\ ent \in [Thread -> [Key -> Entry]]
  BY <1>1, ThreadTypes DEF Inv, TypeOK
<1>3. e \in Entry /\ e.rd = ent[t][k].rd /\ e.held = ent[t][k].held
  BY <1>1, <1>2 DEF Entry
<1> HIDE DEF e
<1>4. /\ order' \in [Thread -> Seq(Key)]
      /\ \A u \in Thread : u # t => order'[u] = order[u]
      /\ \A j \in Key : Listed(t, j) => Listed(t, j)'
      /\ Listed(t, k)'
  BY <1>1, <1>2, AddEntryEffect
<1>5. /\ ent' \in [Thread -> [Key -> Entry]]
      /\ \A u \in Thread : u # t => ent'[u] = ent[u]
      /\ \A j \in Key : ent'[t][j].rd = ent[t][j].rd /\ ent'[t][j].held = ent[t][j].held
      /\ \A j \in Key : j # k => ent'[t][j] = ent[t][j]
  BY <1>1, <1>2, <1>3
<1>6. TypeOK'
  BY <1>1, <1>2, <1>4, <1>5 DEF Inv, TypeOK, LockTypeOK
<1>7. \A u \in Thread : u # t => Same(u)
  BY <1>1, <1>4, <1>5 DEF Same, Inv, TypeOK
<1>8. Pinned(t)' = Pinned(t) /\ ReadSet(t)' = ReadSet(t)
  BY <1>5 DEF Pinned, ReadSet
<1>9. /\ LockSet(t)' = {} /\ LockSet(t) = {} /\ Uses(t)' = Uses(t) /\ Phase(t)' = "run"
      /\ pc'[t] = "run"
  BY <1>1, <1>8 DEF LockSet, Uses, Phase
<1>10. Books(t)'
  <2>1. \A j \in Key :
          /\ ent'[t][j].rd \/ ent'[t][j].held \/ ent'[t][j].wr # "none" => Listed(t, j)'
          /\ ent'[t][j].held => Forgiving
    BY <1>2, <1>4, <1>5 DEF Books
  <2>2. Forgiving => ReadSet(t)' \subseteq Pinned(t)'
    BY <1>1, <1>2, <1>8 DEF Books
  <2>3. pc'[t] = "run"
    BY <1>9
  <2>4. QED
    BY <2>1, <2>2, <2>3, RunBooks
<1>11. Times(t)'
  BY <1>1, NoTimes DEF Looking
<1>12. QED
  BY <1>1, <1>5, <1>6, <1>7, <1>9, <1>10, <1>11, OwnStep

LEMMA LookupReadStep ==
  ASSUME LockTableAssumption, Inv, NEW t \in Thread, LookupRead(t)
  PROVE  Inv'
<1> DEFINE k == CallKey(t)
<1>1. /\ pc[t] = "read" /\ pc' = [pc EXCEPT ![t] = "check"]
      /\ got' = [got EXCEPT ![t] = Len(db[k])] /\ seen' = [seen EXCEPT ![t] = tuple[k]]
      /\ UNCHANGED <<locked, mine, tuple, db, log, refs, ready, back, count, calls,
                     order, ent, reads, todo, cts, rc, hist>>
  BY DEF LookupRead, Goto, lockVars, histVars
<1>2. k \in Key /\ Books(t)
  BY <1>1, ThreadTypes DEF Books, Phase
<1>3. Len(db[k]) \in Nat /\ tuple[k] \in Tuple
  <2>1. db[k] \in Seq(Txn) /\ tuple[k] \in Tuple
    BY <1>2 DEF Inv, TypeOK
  <2>2. QED
    BY <2>1
<1>4. TypeOK'
  BY <1>1, <1>2, <1>3 DEF Inv, TypeOK, LockTypeOK, Label
<1> HIDE DEF k
<1>5. /\ pc'[t] = "check" /\ got'[t] \in Nat
      /\ \A u \in Thread : u # t => Same(u)
  BY <1>1, <1>3 DEF Same, Inv, TypeOK
<1>6. /\ LockSet(t)' = {} /\ LockSet(t) = {} /\ Uses(t)' = Uses(t)
      /\ Phase(t)' = "check" /\ Phase(t) = "read"
      /\ Pinned(t)' = Pinned(t) /\ ReadSet(t)' = ReadSet(t) /\ CallKey(t)' = CallKey(t)
  BY <1>1, <1>5 DEF LockSet, Uses, Phase, Pinned, ReadSet, CallKey
<1>7. Books(t)'
  BY <1>1, <1>2, <1>5, <1>6 DEF Books, Listed, Looking
<1>8. Times(t)'
  BY <1>5, NoTimes DEF Looking
<1>9. QED
  BY <1>1, <1>4, <1>5, <1>6, <1>7, <1>8, OwnStep

\* The end of a lookup: its key's entry takes the timestamps.
LEMMA RecordedStep ==
  ASSUME LockTableAssumption, Inv, NEW t \in Thread, NEW k \in Key, NEW e \in Entry,
         pc[t] \in {"own", "check"}, pc' = [pc EXCEPT ![t] = "run"], calls[t] # <<>>,
         ent' = [ent EXCEPT ![t][k] = e], calls' = [calls EXCEPT ![t] = Tail(@)],
         e.rd = ent[t][k].rd, e.wr = ent[t][k].wr, e.held = ent[t][k].held,
         got' \in [Thread -> Nat \cup {Own}], \A u \in Thread : u # t => got'[u] = got[u],
         reads' \in [Thread -> SUBSET Read],
         UNCHANGED <<locked, mine, tuple, db, log, refs, ready, back, count, order,
                     todo, cts, rc, seen, hist>>
  PROVE  Inv'
<1>1. Books(t) /\ Tail(calls[t]) \in Seq(Op) /\ ent \in [Thread -> [Key -> Entry]]
  BY ThreadTypes DEF Inv, TypeOK
<1>2. /\ ent' \in [Thread -> [Key -> Entry]]
      /\ \A u \in Thread : u # t => ent'[u] = ent[u]
      /\ \A j \in Key : /\ ent'[t][j].rd = ent[t][j].rd /\ ent'[t][j].held = ent[t][j].held
                        /\ ent'[t][j].wr = ent[t][j].wr
  BY <1>1
<1>3. TypeOK'
  BY <1>1, <1>2 DEF Inv, TypeOK, LockTypeOK, Label
<1>4. pc'[t] = "run" /\ \A u \in Thread : u # t => Same(u)
  BY <1>2 DEF Same, Inv, TypeOK
<1>5. Pinned(t)' = Pinned(t) /\ ReadSet(t)' = ReadSet(t)
  BY <1>2 DEF Pinned, ReadSet
<1>6. LockSet(t)' = {} /\ LockSet(t) = {} /\ Uses(t)' = Uses(t) /\ Phase(t)' = "run"
  BY <1>4, <1>5 DEF LockSet, Uses, Phase
<1>7. Books(t)'
  BY <1>1, <1>2, <1>4, <1>5, <1>6 DEF Books, Listed, Looking
<1>8. Times(t)'
  BY <1>4, NoTimes DEF Looking
<1>9. QED
  BY <1>2, <1>3, <1>4, <1>6, <1>7, <1>8, OwnStep

\* The transaction's own value, and the stored timestamps if there are any.
LEMMA LookupOwnStep ==
  ASSUME LockTableAssumption, Inv, NEW t \in Thread, LookupOwn(t)
  PROVE  Inv'
<1> DEFINE k == CallKey(t)
           e == IF tuple[k].kind = "absent" THEN ent[t][k]
                ELSE [ent[t][k] EXCEPT !.wts = tuple[k].wts, !.rts = tuple[k].rts]
<1>1. pc[t] = "own" /\ calls[t] # <<>> /\ k \in Key
  BY ThreadTypes DEF LookupOwn, Books, Phase
<1>2. ent \in [Thread -> [Key -> Entry]] /\ ent[t][k] \in Entry /\ tuple[k] \in Tuple
  BY <1>1 DEF Inv, TypeOK
<1>3. tuple[k].wts \in Nat /\ tuple[k].rts \in Nat
  BY <1>2 DEF Tuple, Absent, Orphan
<1>4. e \in Entry /\ e.rd = ent[t][k].rd /\ e.wr = ent[t][k].wr /\ e.held = ent[t][k].held
  BY <1>2, <1>3 DEF Entry
<1>5. ent' = [ent EXCEPT ![t][k] = e]
  <2>1. CASE tuple[k].kind = "absent"
    <3>1. ent' = ent /\ e = ent[t][k]
      BY <2>1 DEF LookupOwn
    <3>2. [ent EXCEPT ![t][k] = ent[t][k]] = ent
      BY <1>1, <1>2
    <3>3. QED
      BY <3>1, <3>2
  <2>2. CASE tuple[k].kind # "absent"
    BY <1>2, <2>2 DEF LookupOwn
  <2>3. QED
    BY <2>1, <2>2
<1>6. /\ pc' = [pc EXCEPT ![t] = "run"] /\ calls' = [calls EXCEPT ![t] = Tail(@)]
      /\ got' = [got EXCEPT ![t] = Own]
      /\ UNCHANGED <<locked, mine, tuple, db, log, refs, ready, back, count, order, reads,
                     todo, cts, rc, seen, hist>>
  BY DEF LookupOwn, Return, Goto, lockVars, histVars, commitVars
<1>7. /\ got' \in [Thread -> Nat \cup {Own}] /\ reads' \in [Thread -> SUBSET Read]
      /\ \A u \in Thread : u # t => got'[u] = got[u]
  BY <1>6 DEF Inv, TypeOK
<1> HIDE DEF k, e
<1>8. QED
  BY <1>1, <1>4, <1>5, <1>6, <1>7, RecordedStep

LEMMA LookupCheckStep ==
  ASSUME LockTableAssumption, Inv, NEW t \in Thread, LookupCheck(t)
  PROVE  Inv'
<1> DEFINE k == CallKey(t)
           e == [ent[t][k] EXCEPT !.wts = seen[t].wts, !.rts = seen[t].rts]
<1>1. pc[t] = "check" /\ calls[t] # <<>> /\ k \in Key /\ Books(t)
  BY ThreadTypes DEF LookupCheck, Books, Phase
<1>2. /\ ent \in [Thread -> [Key -> Entry]] /\ ent[t][k] \in Entry /\ seen[t] \in Tuple
      /\ got[t] \in Nat \cup {Own} /\ reads \in [Thread -> SUBSET Read]
  BY <1>1 DEF Inv, TypeOK
<1>3. UNCHANGED <<locked, mine, tuple, db, log, refs, ready, back, count, order, got,
                  todo, cts, rc, seen, hist>>
  BY DEF LookupCheck, lockVars, histVars, commitVars
<1>4. CASE Busy(k)
  <2>1. pc' = [pc EXCEPT ![t] = "read"] /\ UNCHANGED <<calls, ent, reads>>
    BY <1>4 DEF LookupCheck, Goto
  <2>2. TypeOK'
    BY <1>3, <2>1 DEF Inv, TypeOK, LockTypeOK, Label
  <2>3. pc'[t] = "read" /\ \A u \in Thread : u # t => Same(u)
    BY <1>3, <2>1 DEF Same, Inv, TypeOK
  <2>4. /\ LockSet(t)' = {} /\ LockSet(t) = {} /\ Uses(t)' = Uses(t)
        /\ Phase(t)' = "read" /\ Phase(t) = "check"
        /\ Pinned(t)' = Pinned(t) /\ ReadSet(t)' = ReadSet(t) /\ CallKey(t)' = CallKey(t)
    BY <1>1, <1>3, <2>1, <2>3 DEF LockSet, Uses, Phase, Pinned, ReadSet, CallKey
  <2>5. Books(t)'
    BY <1>1, <1>3, <2>1, <2>3, <2>4 DEF Books, Listed, Looking
  <2>6. Times(t)'
    BY <2>3, NoTimes DEF Looking
  <2>7. QED
    BY <1>3, <2>1, <2>2, <2>3, <2>4, <2>5, <2>6, OwnStep
<1>5. CASE ~Busy(k)
  <2>1. /\ pc' = [pc EXCEPT ![t] = "run"] /\ calls' = [calls EXCEPT ![t] = Tail(@)]
        /\ reads' = [reads EXCEPT ![t] = @ \cup {[key |-> k, ver |-> got[t]]}]
        /\ ent' = [ent EXCEPT ![t][k].wts = seen[t].wts, ![t][k].rts = seen[t].rts]
    BY <1>5 DEF LookupCheck, Return, Goto
  <2>6. ent' = [ent EXCEPT ![t][k] = e]
    BY <1>1, <1>2, <2>1
  <2>2. e \in Entry /\ e.rd = ent[t][k].rd /\ e.wr = ent[t][k].wr /\ e.held = ent[t][k].held
    <3>1. seen[t].wts \in Nat /\ seen[t].rts \in Nat
      BY <1>2 DEF Tuple, Absent, Orphan
    <3>2. QED
      BY <1>2, <3>1 DEF Entry
  <2>3. reads' \in [Thread -> SUBSET Read]
    <3>1. got[t] \in Nat
      BY <1>1 DEF Books
    <3>2. [key |-> k, ver |-> got[t]] \in Read
      BY <1>1, <3>1 DEF Read
    <3>3. QED
      BY <1>2, <2>1, <3>2
  <2>4. got' \in [Thread -> Nat \cup {Own}]
    BY <1>3 DEF Inv, TypeOK
  <2> HIDE DEF k, e
  <2>5. QED
    BY <1>1, <1>3, <2>1, <2>2, <2>3, <2>4, <2>6, RecordedStep
<1>6. QED
  BY <1>4, <1>5

-----------------------------------------------------------------------------
(* The references to the history entries.                                  *)

LEMMA HolderCount ==
  ASSUME TicTocDiskAssumption, Inv, NEW k \in Key
  PROVE  /\ IsFiniteSet({u \in Thread : ent[u][k].held})
         /\ refs[k] = Cardinality({u \in Thread : ent[u][k].held})
<1>1. {u \in Thread : ent[u][k].held} \subseteq Thread
  OBVIOUS
<1>2. QED
  BY <1>1, FS_Subset DEF TicTocDiskAssumption, Inv, HistoryCounted

\* Whoever holds an entry is counted.
LEMMA HeldCounted ==
  ASSUME TicTocDiskAssumption, Inv, NEW k \in Key, NEW t \in Thread, ent[t][k].held
  PROVE  /\ refs[k] > 0 /\ refs[k] \in Nat
         /\ Cardinality({u \in Thread : ent[u][k].held} \ {t}) = refs[k] - 1
         /\ refs[k] = 1 => \A u \in Thread : ent[u][k].held => u = t
<1> DEFINE H == {u \in Thread : ent[u][k].held}
<1>1. IsFiniteSet(H) /\ refs[k] = Cardinality(H) /\ t \in H
  BY HolderCount
<1>2. (\A u \in Thread : ent[u][k].held => u = t) <=> H \ {t} = {}
  OBVIOUS
<1> HIDE DEF H
<1>3. IsFiniteSet(H \ {t}) /\ Cardinality(H \ {t}) = Cardinality(H) - 1
  BY <1>1, FS_RemoveElement
<1>4. Cardinality(H) \in Nat /\ Cardinality(H \ {t}) \in Nat
  BY <1>1, <1>3, FS_CardinalityType
<1>5. Cardinality(H \ {t}) = 0 => H \ {t} = {}
  BY <1>3, FS_EmptySet
<1>6. QED
  BY <1>1, <1>2, <1>3, <1>4, <1>5 DEF H

\* rw_entry_histcache_insert counts one more holder.
LEMMA PinEffect ==
  ASSUME LockTableAssumption, TicTocDiskAssumption, Inv, NEW t \in Thread, NEW k \in Key,
         NEW label, Pin(t, k, label), pc[t] \in {"run", "lock"},
         \A u \in Thread : u # t => Same(u),
         ~ent[t][k].held, ent'[t][k].held,
         \A j \in Key : j # k => ent'[t][j].held = ent[t][j].held,
         PinKey(t)' = k
  PROVE  /\ HistoryCounted' /\ refs' \in [Key -> Nat]
         /\ pc' \in [Thread -> Label] /\ pc'[t] \in {"alloc", "spin"}
<1>1. /\ refs \in [Key -> Nat] /\ pc \in [Thread -> Label]
      /\ back \in [Thread -> {"idle", "own", "read", "lock"}]
  BY DEF Inv, TypeOK
<1>2. /\ refs' = [refs EXCEPT ![k] = @ + 1] /\ back' = [back EXCEPT ![t] = label]
      /\ pc' = [pc EXCEPT ![t] = IF refs[k] = 0 THEN "alloc" ELSE "spin"]
      /\ log' = log /\ ready' = ready
  BY DEF Pin, Goto
<1>3. /\ refs' \in [Key -> Nat] /\ refs'[k] = refs[k] + 1
      /\ \A j \in Key : j # k => refs'[j] = refs[j]
      /\ pc'[t] \in {"alloc", "spin"}
      /\ pc' \in [Thread -> Label]
  BY <1>1, <1>2 DEF Label
<1>4. ASSUME NEW j \in Key PROVE refs'[j] = Cardinality({u \in Thread : ent'[u][j].held})
  <2>1. CASE j = k
    <3> DEFINE H == {u \in Thread : ent[u][k].held}
    <3>1. {u \in Thread : ent'[u][k].held} = H \cup {t} /\ t \notin H
      BY DEF Same
    <3>2. IsFiniteSet(H) /\ refs[k] = Cardinality(H)
      BY HolderCount
    <3> HIDE DEF H
    <3>3. Cardinality(H \cup {t}) = IF t \in H THEN Cardinality(H) ELSE Cardinality(H) + 1
      BY <3>2, FS_AddElement
    <3>4. QED
      BY <1>3, <2>1, <3>1, <3>2, <3>3
  <2>2. CASE j # k
    <3>1. {u \in Thread : ent'[u][j].held} = {u \in Thread : ent[u][j].held}
      BY <2>2 DEF Same
    <3>2. QED
      BY <1>3, <2>2, <3>1 DEF Inv, HistoryCounted
  <2>3. QED
    BY <2>1, <2>2
<1>5. Uses(t)' \subseteq Uses(t)
  <2>1. Pinned(t)' \subseteq Pinned(t) \cup {k}
    BY DEF Pinned
  <2>2. QED
    BY <1>3, <2>1 DEF Uses
<1>6. \A u \in Thread : Uses(u)' \subseteq Uses(u)
  BY <1>5, SameThread
<1>7. \A j \in Key : refs'[j] = 0 => refs[j] = 0
  <2>1. refs[k] \in Nat
    BY <1>1
  <2>2. refs'[k] # 0
    BY <1>3, <2>1
  <2>3. QED
    BY <1>3, <2>2
<1>8. HistoryCounted'
  BY <1>2, <1>4, <1>6, <1>7 DEF Inv, HistoryCounted
<1>9. QED
  BY <1>1, <1>2, <1>3, <1>8

\* The entry has been allocated, by this thread or by the one that created it.
LEMMA PinnedStep ==
  ASSUME LockTableAssumption, TicTocDiskAssumption, Inv, NEW t \in Thread,
         HistAlloc(t) \/ HistSpin(t)
  PROVE  Inv'
<1> DEFINE k == PinKey(t)
<1>1. /\ pc[t] \in {"alloc", "spin"} /\ pc' = [pc EXCEPT ![t] = back[t]]
      /\ ready' = ready \cup {k}
      /\ UNCHANGED <<locked, mine, tuple, db, log, refs, back, count, calls,
                     order, ent, got, reads, todo, cts, rc, seen, hist>>
  BY DEF HistAlloc, HistSpin, Goto, lockVars, histVars, txnVars, commitVars
<1>2. /\ Books(t) /\ Times(t) /\ k \in Pinned(t) /\ k \in Key /\ ent[t][k].held /\ Forgiving
      /\ back[t] \in {"own", "read", "lock"} /\ pc \in [Thread -> Label]
  BY <1>1, ThreadTypes DEF Books, Pinned, Inv, TypeOK
<1>3. TypeOK'
  BY <1>1, <1>2 DEF Inv, TypeOK, LockTypeOK, Label
<1>4. pc'[t] = back[t] /\ \A u \in Thread : u # t => Same(u)
  BY <1>1, <1>2 DEF Same
<1>5. /\ WriteSet(t)' = WriteSet(t) /\ Pinned(t)' = Pinned(t) /\ ReadSet(t)' = ReadSet(t)
      /\ CallKey(t)' = CallKey(t) /\ PinKey(t)' = PinKey(t) /\ Phase(t)' = Phase(t)
  BY <1>1, <1>2, <1>4 DEF WriteSet, Pinned, ReadSet, CallKey, PinKey, Phase
<1>6. LockSet(t)' = LockSet(t)
  BY <1>1, <1>2, <1>4, <1>5 DEF LockSet, Phase
<1>7. Locks'
  BY <1>1, <1>4, <1>6, LocksStay DEF lockVars
<1>8. HistoryCounted'
  <2>1. Uses(t)' \subseteq Uses(t) \cup ready'
    BY <1>1, <1>2, <1>4, <1>5 DEF Uses
  <2>2. \A j \in Key : refs[j] = 0 => j \notin ready' /\ log'[j] = <<>>
    <3> HIDE DEF k
    <3>1. refs[k] > 0 /\ refs[k] \in Nat
      BY <1>2, HeldCounted
    <3>3. refs[k] # 0
      BY <3>1
    <3>2. QED
      BY <1>1, <3>3 DEF Inv, HistoryCounted
  <2>3. QED
    BY <1>1, <1>4, <2>1, <2>2, HistoryStays
<1>9. Books(t)'
  <2>1. pc'[t] \in {"own", "read", "lock"} /\ Phase(t)' = pc'[t] /\ pc'[t] = Phase(t)
    BY <1>1, <1>2, <1>4 DEF Phase
  <2>2. QED
    BY <1>1, <1>2, <1>5, <1>6, <2>1 DEF Books, Listed, Looking
<1>10. Times(t)'
  <2>1. Stamped(t)' = {} /\ pc'[t] # "extend"
    BY <1>2, <1>4 DEF Stamped, Looking
  <2>2. QED
    BY <1>1, <1>2, <1>5, <2>1 DEF Times
<1>11. QED
  BY <1>1, <1>3, <1>4, <1>7, <1>8, <1>9, <1>10, OneStep

\* A lookup adds its key to the read set and pins the key's history entry.
LEMMA LookupStep ==
  ASSUME LockTableAssumption, TicTocDiskAssumption, Inv, NEW t \in Thread, Lookup(t)
  PROVE  Inv'
<1>0. CallKey(t) \in Key
  BY ThreadTypes DEF Lookup, Calling
<1>14. PICK k \in Key : k = CallKey(t)
  BY <1>0
<1> DEFINE e == [ent[t][k] EXCEPT !.rd = TRUE, !.held = Forgiving]
<1>15. PICK next \in {"own", "read"} : next = IF k \in WriteSet(t) THEN "own" ELSE "read"
  OBVIOUS
<1>1. /\ pc[t] = "run" /\ calls[t] # <<>> /\ AddEntry(t, k)
      /\ ent' = [ent EXCEPT ![t][k].rd = TRUE, ![t][k].held = Forgiving]
      /\ UNCHANGED <<locked, mine, tuple, db, count, calls, got, reads, todo, cts, rc,
                     seen, hist>>
  BY <1>14 DEF Lookup, Calling, lockVars, commitVars
<1>2. IF Forgiving /\ ~ent[t][k].held
      THEN Pin(t, k, next)
      ELSE Goto(t, next) /\ UNCHANGED <<histVars, back>>
  BY <1>14, <1>15 DEF Lookup
<1>3. /\ k \in Key /\ Books(t) /\ ent \in [Thread -> [Key -> Entry]] /\ ent[t][k] \in Entry
      /\ next \in {"own", "read"} /\ pc \in [Thread -> Label]
      /\ back \in [Thread -> {"idle", "own", "read", "lock"}]
  BY <1>1, ThreadTypes DEF Inv, TypeOK
<1>4. ent' = [ent EXCEPT ![t][k] = e]
  BY <1>1, <1>3
<1>5. e \in Entry /\ e.rd /\ e.held = Forgiving /\ e.wr = ent[t][k].wr
  BY <1>3 DEF Entry, TicTocDiskAssumption
<1>6. CallKey(t)' = k
  BY <1>1, <1>14 DEF CallKey
<1> HIDE DEF e
<1>7. /\ ent' \in [Thread -> [Key -> Entry]] /\ ent'[t][k] = e
      /\ \A u \in Thread : u # t => ent'[u] = ent[u]
      /\ \A j \in Key : j # k => ent'[t][j] = ent[t][j]
  BY <1>3, <1>4, <1>5
<1>8. /\ order' \in [Thread -> Seq(Key)]
      /\ \A u \in Thread : u # t => order'[u] = order[u]
      /\ \A j \in Key : Listed(t, j) => Listed(t, j)'
      /\ Listed(t, k)'
  BY <1>1, <1>3, AddEntryEffect
<1>9. \A j \in Key :
        /\ ent'[t][j].rd \/ ent'[t][j].held \/ ent'[t][j].wr # "none" => Listed(t, j)'
        /\ ent'[t][j].held => Forgiving
  BY <1>3, <1>5, <1>7, <1>8 DEF Books
<1>10. Forgiving => ReadSet(t)' \subseteq Pinned(t)'
  BY <1>1, <1>3, <1>5, <1>7 DEF Books, ReadSet, Pinned
<1>11. CASE Forgiving /\ ~ent[t][k].held
  <2>1. Pin(t, k, next)
    BY <1>2, <1>11
  <2>2. \A u \in Thread : u # t => Same(u)
    BY <1>1, <1>3, <1>7, <1>8, <2>1 DEF Same, Pin, Goto
  <2>3. PinKey(t)' = k
    <3>1. back'[t] = next
      BY <1>3, <2>1 DEF Pin
    <3>2. QED
      BY <1>3, <1>6, <3>1 DEF PinKey
  <2>4. /\ ~ent[t][k].held /\ ent'[t][k].held
        /\ \A j \in Key : j # k => ent'[t][j].held = ent[t][j].held
    BY <1>5, <1>7, <1>11
  <2>5. /\ HistoryCounted' /\ refs' \in [Key -> Nat]
        /\ pc' \in [Thread -> Label] /\ pc'[t] \in {"alloc", "spin"}
        /\ back'[t] = next /\ back' = [back EXCEPT ![t] = next]
    <3>1. pc[t] \in {"run", "lock"} /\ k \in Key
      BY <1>1, <1>3
    <3>2. /\ HistoryCounted' /\ refs' \in [Key -> Nat]
          /\ pc' \in [Thread -> Label] /\ pc'[t] \in {"alloc", "spin"}
      BY <3>1, <2>1, <2>2, <2>3, <2>4, PinEffect
    <3>3. back' = [back EXCEPT ![t] = next]
      BY <2>1 DEF Pin
    <3>4. QED
      BY <1>3, <3>2, <3>3
  <2>6. log' = log /\ ready' = ready
    BY <2>1 DEF Pin
  <2>7. TypeOK'
    BY <1>1, <1>3, <1>7, <1>8, <2>5, <2>6 DEF Inv, TypeOK, LockTypeOK
  <2>8. Phase(t)' = next /\ LockSet(t)' = {} /\ LockSet(t) = {} /\ Stamped(t)' = {}
    BY <1>1, <1>3, <2>5 DEF Phase, LockSet, Stamped, Looking
  <2>9. Locks'
    BY <1>1, <2>2, <2>8, LocksStay DEF lockVars
  <2>10. Books(t)'
    <3>1. calls'[t] # <<>> /\ ent'[t][CallKey(t)'].rd /\ PinKey(t)' \in Pinned(t)'
      BY <1>1, <1>3, <1>5, <1>6, <1>7, <2>3, <2>4 DEF Pinned
    <3>2. QED
      BY <1>3, <1>9, <1>10, <1>11, <2>5, <2>8, <3>1 DEF Books, Looking
  <2>11. Times(t)'
    BY <1>3, <2>5, <2>8 DEF Times, Committing, Looking
  <2>12. QED
    BY <1>1, <2>2, <2>5, <2>7, <2>9, <2>10, <2>11, OneStep
<1>12. CASE ~(Forgiving /\ ~ent[t][k].held)
  <2>1. pc' = [pc EXCEPT ![t] = next] /\ UNCHANGED <<log, refs, ready, back>>
    BY <1>2, <1>12 DEF Goto, histVars
  <2>2. ent'[t][k].held = ent[t][k].held
    BY <1>3, <1>5, <1>7, <1>12, TicTocDiskAssumption DEF Books, Entry, TicTocDiskAssumption
  <2>3. \A j \in Key : ent'[t][j].held = ent[t][j].held
    BY <1>7, <2>2
  <2>4. pc'[t] = next /\ \A u \in Thread : u # t => Same(u)
    BY <1>1, <1>3, <1>7, <1>8, <2>1 DEF Same
  <2>5. TypeOK'
    BY <1>1, <1>3, <1>7, <1>8, <2>1 DEF Inv, TypeOK, LockTypeOK, Label
  <2>6. /\ Phase(t)' = next /\ LockSet(t)' = {} /\ LockSet(t) = {}
        /\ Pinned(t)' = Pinned(t) /\ Uses(t)' = Uses(t)
    BY <1>1, <1>3, <2>3, <2>4 DEF Phase, LockSet, Pinned, Uses
  <2>7. Books(t)'
    <3>1. calls'[t] # <<>> /\ ent'[t][CallKey(t)'].rd
      BY <1>1, <1>3, <1>5, <1>6, <1>7
    <3>2. QED
      BY <1>3, <1>9, <1>10, <2>4, <2>6, <3>1 DEF Books, Looking
  <2>8. Times(t)'
    BY <1>3, <2>4, NoTimes DEF Looking
  <2>9. QED
    BY <1>1, <2>1, <2>3, <2>4, <2>5, <2>6, <2>7, <2>8, OwnStep
<1>13. QED
  BY <1>11, <1>12
-----------------------------------------------------------------------------
(* Commit, up to validation.                                               *)

\* The locks after a step that took one, gave one back or did neither.
Apart == /\ locked = UNION {mine[t] : t \in Thread}
         /\ \A t, u \in Thread : t # u => mine[t] \cap mine[u] = {}

LEMMA LockTaken ==
  ASSUME LockTableAssumption, Inv, NEW t \in Thread, NEW k \in Key, TryAcquire(t, k),
         AcquireRc(t, k) = "ok"
  PROVE  /\ LockTypeOK' /\ Apart' /\ mine'[t] = mine[t] \cup {k} /\ k \notin mine[t]
         /\ \A u \in Thread : u # t => mine'[u] = mine[u]
<1>1. /\ locked' = locked \cup {k} /\ mine' = [mine EXCEPT ![t] = @ \cup {k}]
      /\ mine \in [Thread -> SUBSET Key] /\ locked \in SUBSET Key
  BY DEF TryAcquire, Inv, TypeOK, LockTypeOK
<1>2. k \notin mine[t] /\ k \notin locked
  BY DEF AcquireRc
<1>3. locked = UNION {mine[u] : u \in Thread}
      /\ \A u, v \in Thread : u # v => mine[u] \cap mine[v] = {}
  BY DEF Inv, Locks
<1>4. mine'[t] = mine[t] \cup {k} /\ \A u \in Thread : u # t => mine'[u] = mine[u]
  BY <1>1
<1>5. \A u \in Thread : k \notin mine[u]
  BY <1>2, <1>3
<1>6. locked' = UNION {mine'[u] : u \in Thread}
  <2>1. ASSUME NEW x \in locked' PROVE x \in UNION {mine'[u] : u \in Thread}
    BY <1>1, <1>3, <1>4
  <2>2. ASSUME NEW u \in Thread, NEW x \in mine'[u] PROVE x \in locked'
    BY <1>1, <1>3, <1>4
  <2>3. QED
    BY <2>1, <2>2
<1>7. QED
  BY <1>1, <1>2, <1>3, <1>4, <1>5, <1>6 DEF LockTypeOK, Apart

LEMMA LockGiven ==
  ASSUME LockTableAssumption, Inv, NEW t \in Thread, NEW k \in Key, ReleaseLock(t, k)
  PROVE  /\ LockTypeOK' /\ Apart' /\ mine'[t] = mine[t] \ {k} /\ k \in mine[t]
         /\ \A u \in Thread : u # t => mine'[u] = mine[u]
<1>1. /\ locked' = locked \ {k} /\ mine' = [mine EXCEPT ![t] = @ \ {k}] /\ k \in mine[t]
      /\ mine \in [Thread -> SUBSET Key] /\ locked \in SUBSET Key
  BY DEF ReleaseLock, Releasable, Inv, TypeOK, LockTypeOK
<1>2. locked = UNION {mine[u] : u \in Thread}
      /\ \A u, v \in Thread : u # v => mine[u] \cap mine[v] = {}
  BY DEF Inv, Locks
<1>3. mine'[t] = mine[t] \ {k} /\ \A u \in Thread : u # t => mine'[u] = mine[u]
  BY <1>1
<1>4. locked' = UNION {mine'[u] : u \in Thread}
  <2>1. ASSUME NEW x \in locked' PROVE x \in UNION {mine'[u] : u \in Thread}
    BY <1>1, <1>2, <1>3
  <2>2. ASSUME NEW u \in Thread, NEW x \in mine'[u] PROVE x \in locked'
    BY <1>1, <1>2, <1>3
  <2>3. QED
    BY <2>1, <2>2
<1>5. QED
  BY <1>1, <1>2, <1>3, <1>4 DEF LockTypeOK, Apart

LEMMA LocksKept ==
  ASSUME Inv, NEW t \in Thread, UNCHANGED <<locked, mine>>
  PROVE  /\ LockTypeOK' /\ Apart' /\ mine'[t] = mine[t]
         /\ \A u \in Thread : u # t => mine'[u] = mine[u]
  BY DEF Inv, TypeOK, Locks, LockTypeOK, Apart

\* A step of a commit on its own variables and the locks.
Committed(t) ==
  /\ pc[t] \notin {"alloc", "spin"} /\ pc'[t] \notin {"alloc", "spin"}
  /\ pc' \in [Thread -> Label] /\ todo' \in [Thread -> SUBSET Key]
  /\ cts' \in [Thread -> Nat] /\ rc' \in [Thread -> {"ok", "busy", "deadlk"}]
  /\ seen' \in [Thread -> Tuple] /\ hist' \in SUBSET Commit
  /\ LockTypeOK' /\ Apart'
  /\ \A u \in Thread : u # t =>
       /\ pc'[u] = pc[u] /\ todo'[u] = todo[u] /\ cts'[u] = cts[u] /\ rc'[u] = rc[u]
       /\ mine'[u] = mine[u]
  /\ UNCHANGED <<tuple, db, log, refs, ready, back, count, calls, order, ent, got, reads>>

LEMMA CommitStep ==
  ASSUME LockTableAssumption, Inv, NEW t \in Thread, Committed(t),
         mine'[t] = LockSet(t)', Books(t)', Times(t)'
  PROVE  Inv'
<1>2. pc'[t] \notin {"alloc", "spin"}
  BY DEF Committed
<1>7. /\ UNCHANGED <<tuple, db, log, refs, ready, back, count, calls, order, ent, got, reads>>
      /\ Apart' /\ \A u \in Thread : u # t => mine'[u] = mine[u]
  BY DEF Committed
<1>8. TypeOK'
  BY DEF Committed, Inv, TypeOK
<1>9. \A u \in Thread : u # t => Same(u)
  BY DEF Committed, Same
<1>10. Locks'
  <2>1. \A u \in Thread : mine'[u] = LockSet(u)'
    BY <1>9, SameThread DEF Same, Inv, Locks
  <2>2. QED
    BY <1>7, <2>1 DEF Apart, Locks
<1>11. HistoryCounted'
  <2>1. Uses(t)' \subseteq Uses(t) \cup ready'
    BY <1>2, <1>7 DEF Uses, Pinned, Committed
  <2>2. \A j \in Key : refs[j] = 0 => j \notin ready' /\ log'[j] = <<>>
    BY <1>7 DEF Inv, HistoryCounted
  <2>3. QED
    BY <1>7, <1>9, <2>1, <2>2, HistoryStays
<1>12. QED
  BY <1>7, <1>8, <1>9, <1>10, <1>11, OneStep

\* What a commit's own variables become, and what it keeps.
LEMMA CommitKeeps ==
  ASSUME NEW t \in Thread, UNCHANGED <<order, ent, calls, back>>
  PROVE  /\ WriteSet(t)' = WriteSet(t) /\ ReadSet(t)' = ReadSet(t) /\ Pinned(t)' = Pinned(t)
         /\ \A k \in Key : Listed(t, k)' <=> Listed(t, k)
  BY DEF WriteSet, ReadSet, Pinned, Listed

\* What Books says of the entries is kept with them.
LEMMA EntriesKept ==
  ASSUME NEW t \in Thread, Books(t), UNCHANGED <<order, ent, calls, back>>,
         pc[t] # "unpin"
  PROVE  /\ \A k \in Key :
              /\ ent'[t][k].rd \/ ent'[t][k].held \/ ent'[t][k].wr # "none" => Listed(t, k)'
              /\ ent'[t][k].held => Forgiving
         /\ Forgiving => ReadSet(t)' \subseteq Pinned(t)'
  BY CommitKeeps DEF Books
\* commit_ts starts at the largest wts that was read.
LEMMA CommitBeginStep ==
  ASSUME LockTableAssumption, TicTocDiskAssumption, Inv, NEW t \in Thread, CommitBegin(t)
  PROVE  Inv'
<1> DEFINE W == {0} \cup {ent[t][k].wts : k \in ReadSet(t)}
<1>1. /\ pc[t] = "run" /\ cts' = [cts EXCEPT ![t] = Largest(W)]
      /\ todo' = [todo EXCEPT ![t] = WriteSet(t)] /\ pc' = [pc EXCEPT ![t] = "lock"]
      /\ UNCHANGED <<locked, mine, tuple, db, log, refs, ready, back, count, calls, order,
                     ent, got, reads, rc, seen, hist>>
  BY DEF CommitBegin, Goto, lockVars, histVars, txnVars
<1>2. /\ Books(t) /\ mine[t] = LockSet(t) /\ WriteSet(t) \in SUBSET Key
      /\ ReadSet(t) \in SUBSET Key /\ ent[t] \in [Key -> Entry]
  BY ThreadTypes
<1>3. Largest(W) \in Nat /\ \A k \in ReadSet(t) : ent[t][k].wts <= Largest(W)
  <2> DEFINE R == {ent[t][k].wts : k \in ReadSet(t)}
  <2>1. IsFiniteSet(ReadSet(t))
    BY <1>2, FS_Subset DEF TicTocDiskAssumption
  <2>2. IsFiniteSet(R)
    <3> DEFINE f == [k \in ReadSet(t) |-> ent[t][k].wts]
    <3>1. f \in Surjection(ReadSet(t), R)
      BY DEF Surjection
    <3> HIDE DEF f, R
    <3>2. QED
      BY <2>1, <3>1, FS_Surjection
  <2>3. R \in SUBSET Nat
    BY <1>2 DEF Entry
  <2>4. IsFiniteSet({0} \cup R)
    <3> HIDE DEF R
    <3>1. IsFiniteSet(R \cup {0})
      BY <2>2, FS_AddElement
    <3>2. R \cup {0} = {0} \cup R
      OBVIOUS
    <3>3. QED
      BY <3>1, <3>2
  <2>5. W \in SUBSET Nat /\ W # {} /\ IsFiniteSet(W)
    BY <2>3, <2>4
  <2>6. \A k \in ReadSet(t) : ent[t][k].wts \in W
    OBVIOUS
  <2> HIDE DEF W
  <2>7. Largest(W) \in W /\ \A n \in W : n <= Largest(W)
    BY <2>5, LargestMember
  <2>8. QED
    BY <2>5, <2>6, <2>7
<1> HIDE DEF W
<1>4. /\ pc'[t] = "lock" /\ todo'[t] = WriteSet(t) /\ cts'[t] = Largest(W)
      /\ Committed(t)
  <2>1. LockTypeOK' /\ Apart' /\ mine'[t] = mine[t]
        /\ \A u \in Thread : u # t => mine'[u] = mine[u]
    BY <1>1, LocksKept
  <2>2. QED
    BY <1>1, <1>2, <1>3, <2>1 DEF Committed, Inv, TypeOK, Label
<1>5. WriteSet(t)' = WriteSet(t) /\ ReadSet(t)' = ReadSet(t) /\ Pinned(t)' = Pinned(t)
  BY <1>1, CommitKeeps
<1>6. /\ LockSet(t)' = {} /\ LockSet(t) = {} /\ Phase(t)' = "lock" /\ Stamped(t)' = {}
  BY <1>1, <1>4, <1>5 DEF LockSet, Phase, Stamped, Looking
<1>7. Books(t)'
  BY <1>1, <1>2, <1>4, <1>5, <1>6, EntriesKept DEF Books, Looking
<1>8. Times(t)'
  BY <1>1, <1>3, <1>4, <1>5, <1>6 DEF Times
<1>9. QED
  BY <1>1, <1>2, <1>4, <1>6, <1>7, <1>8, CommitStep

\* An entry of the write set is pinned before its key is locked.
LEMMA LockPinStep ==
  ASSUME LockTableAssumption, TicTocDiskAssumption, Inv, NEW t \in Thread, LockPin(t)
  PROVE  Inv'
<1>1. /\ pc[t] = "lock" /\ todo[t] # {} /\ Forgiving /\ ~ent[t][Smallest(todo[t])].held
      /\ Pin(t, Smallest(todo[t]), "lock")
      /\ ent' = [ent EXCEPT ![t][Smallest(todo[t])].held = TRUE]
      /\ UNCHANGED <<locked, mine, tuple, db, count, calls, order, got, reads, todo, cts,
                     rc, seen, hist>>
  BY DEF LockPin, lockVars, commitVars
<1>2. Smallest(todo[t]) \in todo[t] /\ todo[t] \in SUBSET Key
  BY <1>1, ThreadTypes
<1>3. PICK k \in Key : k = Smallest(todo[t]) /\ k \in todo[t]
  BY <1>2
<1> DEFINE e == [ent[t][k] EXCEPT !.held = TRUE]
<1>4. /\ Books(t) /\ Times(t) /\ mine[t] = LockSet(t) /\ ent \in [Thread -> [Key -> Entry]]
      /\ ent[t][k] \in Entry /\ pc \in [Thread -> Label]
      /\ back \in [Thread -> {"idle", "own", "read", "lock"}]
  BY ThreadTypes DEF Inv, TypeOK
<1>5. ent' = [ent EXCEPT ![t][k] = e]
  BY <1>1, <1>3, <1>4
<1>6. e \in Entry /\ e.rd = ent[t][k].rd /\ e.held /\ e.wr = ent[t][k].wr /\ e.wts = ent[t][k].wts
  BY <1>4 DEF Entry
<1> HIDE DEF e
<1>7. /\ ent' \in [Thread -> [Key -> Entry]] /\ ent'[t][k] = e
      /\ \A u \in Thread : u # t => ent'[u] = ent[u]
      /\ \A j \in Key : j # k => ent'[t][j] = ent[t][j]
  BY <1>4, <1>5, <1>6
<1>8. Pin(t, k, "lock")
  BY <1>1, <1>3
<1>9. \A u \in Thread : u # t => Same(u)
  BY <1>1, <1>4, <1>7, <1>8 DEF Same, Pin, Goto
<1>10. back'[t] = "lock" /\ back' = [back EXCEPT ![t] = "lock"] /\ log' = log /\ ready' = ready
  BY <1>4, <1>8 DEF Pin
<1>11. PinKey(t)' = k
  BY <1>1, <1>3, <1>10 DEF PinKey
<1>12. /\ ~ent[t][k].held /\ ent'[t][k].held
       /\ \A j \in Key : j # k => ent'[t][j].held = ent[t][j].held
  BY <1>1, <1>3, <1>6, <1>7
<1>13. /\ HistoryCounted' /\ refs' \in [Key -> Nat]
       /\ pc' \in [Thread -> Label] /\ pc'[t] \in {"alloc", "spin"}
  <2>1. pc[t] \in {"run", "lock"}
    BY <1>1
  <2>2. QED
    BY <2>1, <1>8, <1>9, <1>11, <1>12, PinEffect
<1>14. TypeOK'
  BY <1>1, <1>4, <1>7, <1>10, <1>13 DEF Inv, TypeOK, LockTypeOK
<1>15. /\ WriteSet(t)' = WriteSet(t) /\ ReadSet(t)' = ReadSet(t)
       /\ Pinned(t)' = Pinned(t) \cup {k}
  <2>1. \A j \in Key : /\ ent'[t][j].rd = ent[t][j].rd /\ ent'[t][j].wr = ent[t][j].wr
                       /\ ent'[t][j].held <=> (ent[t][j].held \/ j = k)
    BY <1>6, <1>7, <1>12
  <2>2. QED
    BY <2>1 DEF WriteSet, ReadSet, Pinned
<1>16. /\ Phase(t)' = "lock" /\ Phase(t) = "lock" /\ LockSet(t)' = LockSet(t)
       /\ Stamped(t)' = {}
  BY <1>1, <1>10, <1>13, <1>15 DEF Phase, LockSet, Stamped, Looking
<1>17. Locks'
  BY <1>1, <1>9, <1>16, LocksStay DEF lockVars
<1>18. Books(t)'
  <2>1. \A j \in Key :
          /\ ent'[t][j].rd \/ ent'[t][j].held \/ ent'[t][j].wr # "none" => Listed(t, j)'
          /\ ent'[t][j].held => Forgiving
    <3>1. ent[t][k].wr # "none"
      BY <1>3, <1>4, <1>16 DEF Books, WriteSet
    <3>4. Listed(t, k)
      BY <1>4, <3>1 DEF Books
    <3>5. \A j \in Key : j # k =>
            /\ ent'[t][j].rd \/ ent'[t][j].held \/ ent'[t][j].wr # "none" => Listed(t, j)
      BY <1>4, <1>7 DEF Books
    <3>2. \A j \in Key : Listed(t, j)' <=> Listed(t, j)
      BY <1>1 DEF Listed
    <3>3. QED
      BY <1>1, <3>2, <3>4, <3>5
  <2>2. QED
    BY <1>1, <1>3, <1>4, <1>10, <1>11, <1>13, <1>15, <1>16, <2>1 DEF Books, Looking
<1>19. Times(t)'
  <2>1. \A j \in Key : ent'[t][j].wts = ent[t][j].wts
    BY <1>6, <1>7
  <2>2. \A j \in ReadSet(t) : ent[t][j].wts <= cts[t] /\ j \in Key
    BY <1>4, <1>16 DEF Times, Committing, ReadSet
  <2>3. QED
    BY <1>1, <1>13, <1>15, <1>16, <2>1, <2>2 DEF Times
<1>20. QED
  BY <1>1, <1>9, <1>13, <1>14, <1>17, <1>18, <1>19, OneStep
\* The next key of the write set is locked, or the locks are given back.
LEMMA LockTryStep ==
  ASSUME LockTableAssumption, Inv, NEW t \in Thread, LockTry(t)
  PROVE  Inv'
<1>1. pc[t] = "lock" /\ todo[t] # {}
  BY DEF LockTry
<1>2. PICK k \in Key : /\ k = Smallest(todo[t]) /\ k \in todo[t]
                       /\ \A j \in todo[t] : k <= j
  BY <1>1, ThreadTypes
<1>3. /\ Forgiving => ent[t][k].held
      /\ AcquireRc(t, k) # "deadlk" /\ TryAcquire(t, k)
      /\ IF AcquireRc(t, k) = "busy" THEN BackOff(t, k)
         ELSE todo' = [todo EXCEPT ![t] = @ \ {k}] /\ UNCHANGED pc
      /\ UNCHANGED <<tuple, db, log, refs, ready, back, count, calls, order, ent, got, reads,
                     cts, rc, seen, hist>>
  BY <1>2 DEF LockTry, histVars, txnVars
<1>4. /\ Books(t) /\ Times(t) /\ mine[t] = LockSet(t) /\ WriteSet(t) \in SUBSET Key
      /\ todo[t] \in SUBSET Key
  BY ThreadTypes
<1>5. WriteSet(t)' = WriteSet(t) /\ ReadSet(t)' = ReadSet(t) /\ Pinned(t)' = Pinned(t)
  BY <1>3, CommitKeeps
<1>6. /\ todo[t] \subseteq WriteSet(t) /\ Phase(t) = "lock"
      /\ LockSet(t) = WriteSet(t) \ todo[t]
      /\ \A w \in WriteSet(t) \ todo[t], j \in todo[t] : w < j
      /\ \A j \in ReadSet(t) : ent[t][j].wts <= cts[t]
      /\ Forgiving => LockSet(t) \subseteq Pinned(t)
  BY <1>1, <1>4 DEF Phase, LockSet, Books, Times, Committing
<1>7. \A j \in Key : j \in Nat
  BY DEF LockTableAssumption
<1>8. CASE AcquireRc(t, k) = "busy"
  <2> DEFINE S == {w \in WriteSet(t) : w < k}
  <2>1. /\ todo' = [todo EXCEPT ![t] = S] /\ pc' = [pc EXCEPT ![t] = "backoff"]
        /\ UNCHANGED <<locked, mine>>
    BY <1>3, <1>8 DEF BackOff, Goto, TryAcquire, lockVars
  <2>2. S = LockSet(t)
    BY <1>2, <1>4, <1>6, <1>7
  <2>3. S \in SUBSET Key
    BY <1>4
  <2> HIDE DEF S
  <2>4. /\ LockTypeOK' /\ Apart' /\ mine'[t] = mine[t]
        /\ \A u \in Thread : u # t => mine'[u] = mine[u]
    BY <2>1, LocksKept
  <2>5. Committed(t) /\ pc'[t] = "backoff" /\ todo'[t] = S
    BY <1>1, <1>3, <2>1, <2>3, <2>4 DEF Committed, Inv, TypeOK, Label
  <2>6. LockSet(t)' = S /\ Phase(t)' = "backoff" /\ Stamped(t)' = {}
    BY <2>5 DEF LockSet, Phase, Stamped, Looking
  <2>7. Books(t)'
    <3>1. S \subseteq WriteSet(t)'
      BY <1>5, <1>6, <2>2
    <3>2. QED
      BY <1>1, <1>3, <1>4, <1>5, <1>6, <2>2, <2>5, <2>6, <3>1, EntriesKept DEF Books, Looking
  <2>8. Times(t)'
    BY <1>3, <1>5, <1>6, <2>5, <2>6 DEF Times
  <2>9. QED
    BY <1>4, <2>2, <2>4, <2>5, <2>6, <2>7, <2>8, CommitStep
<1>9. CASE AcquireRc(t, k) # "busy"
  <2>1. AcquireRc(t, k) = "ok"
    BY <1>3, <1>9 DEF AcquireRc
  <2>2. /\ LockTypeOK' /\ Apart' /\ mine'[t] = mine[t] \cup {k}
        /\ \A u \in Thread : u # t => mine'[u] = mine[u]
    BY <1>3, <2>1, LockTaken
  <2>3. todo' = [todo EXCEPT ![t] = @ \ {k}] /\ pc' = pc
    BY <1>3, <1>9
  <2>4. Committed(t) /\ pc'[t] = "lock" /\ todo'[t] = todo[t] \ {k}
    BY <1>1, <1>3, <2>2, <2>3 DEF Committed, Inv, TypeOK, Label
  <2>5. /\ Phase(t)' = "lock" /\ LockSet(t)' = WriteSet(t) \ (todo[t] \ {k})
        /\ Stamped(t)' = {}
    BY <1>5, <2>4 DEF LockSet, Phase, Stamped, Looking
  <2>6. LockSet(t)' = LockSet(t) \cup {k}
    BY <1>2, <1>6, <2>5
  <2>7. Books(t)'
    <3>1. todo'[t] \subseteq WriteSet(t)
      BY <1>6, <2>4
    <3>2. \A w \in WriteSet(t) \ todo'[t], j \in todo'[t] : w < j
      <4>1. \A j \in todo'[t] : k < j /\ j \in todo[t]
        <5>1. ASSUME NEW j \in todo'[t] PROVE k < j /\ j \in todo[t]
          <6>1. j \in todo[t] /\ j # k
            BY <2>4
          <6>2. k <= j /\ k \in Nat /\ j \in Nat
            BY <1>2, <1>4, <1>7, <6>1
          <6>3. QED
            BY <6>1, <6>2
        <5>2. QED
          BY <5>1
      <4>2. \A w \in WriteSet(t) \ todo'[t] : w = k \/ w \in WriteSet(t) \ todo[t]
        BY <2>4
      <4>3. QED
        BY <1>6, <4>1, <4>2
    <3>3. Forgiving => LockSet(t)' \subseteq Pinned(t)
      BY <1>3, <1>6, <2>6 DEF Pinned
    <3>4. QED
      BY <1>1, <1>3, <1>4, <1>5, <2>4, <2>5, <3>1, <3>2, <3>3, EntriesKept DEF Books, Looking
  <2>8. Times(t)'
    BY <1>3, <1>5, <1>6, <2>4, <2>5 DEF Times
  <2>9. QED
    BY <1>4, <2>2, <2>4, <2>6, <2>7, <2>8, CommitStep
<1>10. QED
  BY <1>8, <1>9

\* The next lock of a loop is given back.
LEMMA ReleaseStep ==
  ASSUME LockTableAssumption, Inv, NEW t \in Thread,
         BackOffUnlock(t) \/ Release(t) \/ AbortUnlock(t)
  PROVE  Inv'
<1>1. /\ pc[t] \in {"backoff", "release", "unlock"} /\ ReleaseNext(t)
      /\ pc' = [pc EXCEPT ![t] = IF pc[t] = "release" THEN "install" ELSE pc[t]]
      /\ UNCHANGED <<tuple, db, log, refs, ready, back, count, calls, order, ent, got, reads,
                     cts, rc, seen, hist>>
  BY DEF BackOffUnlock, Release, AbortUnlock, Goto, histVars, txnVars, Inv, TypeOK
<1>2. /\ Books(t) /\ Times(t) /\ mine[t] = LockSet(t) /\ WriteSet(t) \in SUBSET Key
      /\ todo[t] \in SUBSET Key
  BY ThreadTypes
<1>3. LockSet(t) = todo[t] /\ todo[t] \subseteq WriteSet(t) /\ Phase(t) = pc[t]
  BY <1>1, <1>2 DEF LockSet, Phase, Books
<1>4. todo[t] # {}
  <2>1. CASE pc[t] = "release"
    BY <1>2, <2>1 DEF Books
  <2>2. CASE pc[t] # "release"
    BY <2>2 DEF BackOffUnlock, AbortUnlock, Release
  <2>3. QED
    BY <2>1, <2>2
<1>5. PICK k \in Key : k = Smallest(todo[t]) /\ k \in todo[t]
  BY <1>4, ThreadTypes
<1>6. ReleaseLock(t, k) /\ todo' = [todo EXCEPT ![t] = @ \ {k}]
  BY <1>1, <1>5 DEF ReleaseNext
<1>7. /\ LockTypeOK' /\ Apart' /\ mine'[t] = mine[t] \ {k}
      /\ \A u \in Thread : u # t => mine'[u] = mine[u]
  BY <1>6, LockGiven
<1>8. /\ todo'[t] = todo[t] \ {k}
      /\ pc'[t] = IF pc[t] = "release" THEN "install" ELSE pc[t]
      /\ Committed(t)
  BY <1>1, <1>6, <1>7 DEF Committed, Inv, TypeOK, Label
<1>9. WriteSet(t)' = WriteSet(t) /\ ReadSet(t)' = ReadSet(t) /\ Pinned(t)' = Pinned(t)
  BY <1>1, CommitKeeps
<1>10. LockSet(t)' = todo[t] \ {k} /\ Phase(t)' = pc'[t] /\ pc'[t] \in {"backoff", "install", "unlock"}
  BY <1>1, <1>8 DEF LockSet, Phase
<1>11. Books(t)'
  BY <1>1, <1>2, <1>3, <1>8, <1>9, <1>10, EntriesKept DEF Books, Looking
<1>12. Times(t)'
  <2>1. Stamped(t)' \subseteq Stamped(t)
    BY <1>1, <1>5, <1>8, <1>10 DEF Stamped, Looking
  <2>2. Phase(t)' \in Committing => Phase(t) \in Committing
    BY <1>1, <1>3, <1>8, <1>10 DEF Committing, Looking
  <2>3. QED
    BY <1>1, <1>2, <1>9, <1>10, <2>1, <2>2 DEF Times
<1>13. QED
  BY <1>2, <1>3, <1>7, <1>8, <1>10, <1>11, <1>12, CommitStep

\* The commit starts again, or has its locks and starts to stamp.
LEMMA LoopStep ==
  ASSUME LockTableAssumption, Inv, NEW t \in Thread, LockRetry(t) \/ LockDone(t)
  PROVE  Inv'
<1>1. /\ \/ pc[t] = "backoff" /\ pc' = [pc EXCEPT ![t] = "lock"]
         \/ pc[t] = "lock" /\ pc' = [pc EXCEPT ![t] = "stamp"]
      /\ todo[t] = {} /\ todo' = [todo EXCEPT ![t] = WriteSet(t)]
      /\ UNCHANGED <<locked, mine, tuple, db, log, refs, ready, back, count, calls, order,
                     ent, got, reads, cts, rc, seen, hist>>
  BY DEF LockRetry, LockDone, Goto, lockVars, histVars, txnVars
<1>2. /\ Books(t) /\ Times(t) /\ mine[t] = LockSet(t) /\ WriteSet(t) \in SUBSET Key
  BY ThreadTypes
<1>3. /\ LockTypeOK' /\ Apart' /\ mine'[t] = mine[t]
      /\ \A u \in Thread : u # t => mine'[u] = mine[u]
  BY <1>1, LocksKept
<1>4. /\ \/ pc[t] = "backoff" /\ pc'[t] = "lock"
         \/ pc[t] = "lock" /\ pc'[t] = "stamp"
      /\ todo'[t] = WriteSet(t) /\ Committed(t)
  BY <1>1, <1>2, <1>3 DEF Committed, Inv, TypeOK, Label
<1>5. WriteSet(t)' = WriteSet(t) /\ ReadSet(t)' = ReadSet(t) /\ Pinned(t)' = Pinned(t)
  BY <1>1, CommitKeeps
<1>6. /\ Phase(t) = pc[t] /\ Phase(t)' = pc'[t] /\ LockSet(t)' = LockSet(t) /\ Stamped(t)' = {}
  BY <1>1, <1>4, <1>5 DEF Phase, LockSet, Stamped, Looking
<1>7. Books(t)'
  BY <1>1, <1>2, <1>4, <1>5, <1>6, EntriesKept DEF Books, Looking
<1>8. Times(t)'
  BY <1>1, <1>2, <1>4, <1>5, <1>6 DEF Times, Committing
<1>9. QED
  BY <1>2, <1>3, <1>4, <1>6, <1>7, <1>8, CommitStep

\* commit_ts is moved past the reads of a key that is locked.
LEMMA StampStep ==
  ASSUME LockTableAssumption, Inv, NEW t \in Thread, Stamp(t)
  PROVE  Inv'
<1>1. pc[t] = "stamp" /\ todo[t] # {}
  BY DEF Stamp
<1>2. PICK k \in Key : k = Smallest(todo[t]) /\ k \in todo[t]
  BY <1>1, ThreadTypes
<1>3. /\ cts' = [cts EXCEPT ![t] = Largest({cts[t], tuple[k].rts + 1})]
      /\ todo' = [todo EXCEPT ![t] = @ \ {k}]
      /\ UNCHANGED <<locked, mine, tuple, db, log, refs, ready, pc, back, count, calls, order,
                     ent, got, reads, rc, seen, hist>>
  BY <1>2 DEF Stamp, lockVars, histVars, txnVars
<1>4. /\ Books(t) /\ Times(t) /\ mine[t] = LockSet(t) /\ WriteSet(t) \in SUBSET Key
      /\ cts[t] \in Nat /\ ent[t] \in [Key -> Entry]
  BY ThreadTypes
<1>5. /\ tuple[k].wts \in Nat /\ tuple[k].rts \in Nat /\ tuple[k].wts <= tuple[k].rts
      /\ tuple[k].rts + 1 \in Nat
  BY TupleTypes
<1>6. PICK n \in Nat : n = Largest({cts[t], tuple[k].rts + 1})
                       /\ cts[t] <= n /\ tuple[k].rts + 1 <= n
  BY <1>4, <1>5, LargerOfTwo
<1>7. /\ LockTypeOK' /\ Apart' /\ mine'[t] = mine[t]
      /\ \A u \in Thread : u # t => mine'[u] = mine[u]
  BY <1>3, LocksKept
<1>8. pc'[t] = "stamp" /\ todo'[t] = todo[t] \ {k} /\ cts'[t] = n /\ Committed(t)
  <2>1. cts' = [cts EXCEPT ![t] = n]
    BY <1>3, <1>6
  <2>2. QED
    BY <1>1, <1>3, <1>7, <2>1 DEF Committed, Inv, TypeOK, Label
<1>9. WriteSet(t)' = WriteSet(t) /\ ReadSet(t)' = ReadSet(t) /\ Pinned(t)' = Pinned(t)
  BY <1>3, CommitKeeps
<1>10. /\ Phase(t) = "stamp" /\ Phase(t)' = "stamp" /\ LockSet(t)' = LockSet(t)
       /\ Stamped(t)' \subseteq Stamped(t) \cup {k}
  BY <1>1, <1>8, <1>9 DEF Phase, LockSet, Stamped, Looking
<1>11. Books(t)'
  BY <1>1, <1>3, <1>4, <1>8, <1>9, <1>10, EntriesKept DEF Books, Looking
<1>12. Times(t)'
  <2>1. \A j \in ReadSet(t) : ent[t][j].wts <= n
    <3>1. \A j \in ReadSet(t) : ent[t][j].wts \in Nat /\ ent[t][j].wts <= cts[t]
      BY <1>4, <1>10 DEF Times, Committing, ReadSet, Entry
    <3>2. QED
      BY <1>4, <1>6, <3>1
  <2>2. \A j \in Stamped(t) \cup {k} : tuple[j].wts < n /\ tuple[j].rts <= n
    <3>1. \A j \in Stamped(t) : /\ tuple[j].wts \in Nat /\ tuple[j].rts \in Nat
                                /\ tuple[j].wts < cts[t] /\ tuple[j].rts <= cts[t]
      <4>1. \A j \in Stamped(t) : j \in Key
        BY <1>1, <1>4 DEF Stamped
      <4>2. \A j \in Key : tuple[j].wts \in Nat /\ tuple[j].rts \in Nat
        BY TupleTypes
      <4>3. QED
        BY <1>4, <4>1, <4>2 DEF Times
    <3>2. QED
      BY <1>4, <1>5, <1>6, <3>1
  <2>3. QED
    BY <1>3, <1>8, <1>9, <1>10, <2>1, <2>2 DEF Times
<1>13. QED
  BY <1>4, <1>7, <1>8, <1>10, <1>11, <1>12, CommitStep

\* The reads that commit_ts has left behind are to be validated.
LEMMA StampDoneStep ==
  ASSUME LockTableAssumption, Inv, NEW t \in Thread, StampDone(t)
  PROVE  Inv'
<1> DEFINE S == {k \in ReadSet(t) : ent[t][k].rts < cts[t]}
<1>1. /\ pc[t] = "stamp" /\ todo[t] = {}
      /\ pc' = [pc EXCEPT ![t] = "validate"] /\ todo' = [todo EXCEPT ![t] = S]
      /\ UNCHANGED <<locked, mine, tuple, db, log, refs, ready, back, count, calls, order,
                     ent, got, reads, cts, rc, seen, hist>>
  BY DEF StampDone, Goto, lockVars, histVars, txnVars
<1>2. /\ Books(t) /\ Times(t) /\ mine[t] = LockSet(t) /\ S \in SUBSET ReadSet(t)
      /\ S \in SUBSET Key
  BY ThreadTypes DEF ReadSet
<1> HIDE DEF S
<1>3. /\ LockTypeOK' /\ Apart' /\ mine'[t] = mine[t]
      /\ \A u \in Thread : u # t => mine'[u] = mine[u]
  BY <1>1, LocksKept
<1>4. pc'[t] = "validate" /\ todo'[t] = S /\ Committed(t)
  BY <1>1, <1>2, <1>3 DEF Committed, Inv, TypeOK, Label
<1>5. WriteSet(t)' = WriteSet(t) /\ ReadSet(t)' = ReadSet(t) /\ Pinned(t)' = Pinned(t)
  BY <1>1, CommitKeeps
<1>6. /\ Phase(t) = "stamp" /\ Phase(t)' = "validate" /\ LockSet(t)' = LockSet(t)
      /\ Stamped(t)' = Stamped(t)
  BY <1>1, <1>4, <1>5 DEF Phase, LockSet, Stamped, Looking
<1>7. Books(t)'
  BY <1>1, <1>2, <1>4, <1>5, <1>6, EntriesKept DEF Books, Looking
<1>8. Times(t)'
  BY <1>1, <1>2, <1>4, <1>5, <1>6 DEF Times, Committing
<1>9. QED
  BY <1>2, <1>3, <1>4, <1>6, <1>7, <1>8, CommitStep
-----------------------------------------------------------------------------
(* Validation.                                                             *)

\* A step of a commit leaves its entries, and with them the read it looks at
\* while the list of reads is the same.
LEMMA ValidatedKept ==
  ASSUME NEW t \in Thread, UNCHANGED <<order, ent>>, todo'[t] = todo[t]
  PROVE  Validated(t)' = Validated(t)
  BY DEF Validated, First

LEMMA ValidateLockStep ==
  ASSUME LockTableAssumption, Inv, NEW t \in Thread, ValidateLock(t)
  PROVE  Inv'
<1>1. pc[t] = "validate" /\ todo[t] # {}
  BY DEF ValidateLock
<1>2. PICK k \in Key : k = Validated(t) /\ k \in todo[t] /\ k \in ReadSet(t)
  BY <1>1, ValidatedMember
<1>3. /\ rc' = [rc EXCEPT ![t] = AcquireRc(t, k)] /\ TryAcquire(t, k)
      /\ pc' = [pc EXCEPT ![t] = "stamps"]
      /\ UNCHANGED <<tuple, db, log, refs, ready, back, count, calls, order,
                     ent, got, reads, todo, cts, seen, hist>>
  BY <1>2 DEF ValidateLock, Goto, histVars, txnVars
<1>4. /\ Books(t) /\ Times(t) /\ mine[t] = LockSet(t)
  BY ThreadTypes
<1>5. PICK r \in {"ok", "busy", "deadlk"} : r = AcquireRc(t, k)
  BY DEF AcquireRc
<1>6. /\ LockTypeOK' /\ Apart' /\ mine'[t] = mine[t] \cup (IF r = "ok" THEN {k} ELSE {})
      /\ \A u \in Thread : u # t => mine'[u] = mine[u]
      /\ r = "ok" => k \notin mine[t]
      /\ r = "deadlk" => k \in mine[t]
  <2>1. CASE r = "ok"
    BY <1>3, <1>5, <2>1, LockTaken
  <2>2. CASE r # "ok"
    <3>1. UNCHANGED <<locked, mine>>
      BY <1>3, <1>5, <2>2 DEF TryAcquire, lockVars
    <3>2. r = "deadlk" => k \in mine[t]
      BY <1>5 DEF AcquireRc
    <3>3. QED
      BY <2>2, <3>1, <3>2, LocksKept
  <2>3. QED
    BY <2>1, <2>2
<1>7. pc'[t] = "stamps" /\ rc'[t] = r /\ todo'[t] = todo[t] /\ Committed(t)
  BY <1>1, <1>3, <1>5, <1>6 DEF Committed, Inv, TypeOK, Label
<1>8. WriteSet(t)' = WriteSet(t) /\ ReadSet(t)' = ReadSet(t) /\ Pinned(t)' = Pinned(t)
  BY <1>3, CommitKeeps
<1>9. Validated(t)' = k
  BY <1>2, <1>3, ValidatedKept
<1>10. /\ Phase(t) = "validate" /\ Phase(t)' = "stamps" /\ LockSet(t) = WriteSet(t)
       /\ LockSet(t)' = WriteSet(t) \cup (IF r = "ok" THEN {k} ELSE {})
       /\ Stamped(t)' = Stamped(t)
  BY <1>1, <1>7, <1>8, <1>9 DEF Phase, LockSet, Stamped, Looking
<1>11. Books(t)'
  BY <1>1, <1>2, <1>3, <1>4, <1>6, <1>7, <1>8, <1>9, <1>10, EntriesKept DEF Books, Looking
<1>12. Times(t)'
  BY <1>1, <1>3, <1>4, <1>7, <1>8, <1>10 DEF Times, Committing, Looking
<1>13. QED
  BY <1>4, <1>6, <1>7, <1>10, <1>11, <1>12, CommitStep

LEMMA ValidateStampsStep ==
  ASSUME LockTableAssumption, Inv, NEW t \in Thread, ValidateStamps(t)
  PROVE  Inv'
<1>1. pc[t] = "stamps"
  BY DEF ValidateStamps
<1>2. /\ Books(t) /\ Times(t) /\ mine[t] = LockSet(t) /\ WriteSet(t) \in SUBSET Key
      /\ todo[t] # {}
  BY <1>1, ThreadTypes DEF Books, Looking
<1>3. PICK k \in Key : k = Validated(t) /\ k \in todo[t] /\ k \in ReadSet(t)
  BY <1>1, <1>2, ValidatedMember DEF Looking
<1>4. tuple[k] \in Tuple
  BY TupleTypes
<1>5. /\ seen' = [seen EXCEPT ![t] = tuple[k]]
      /\ UNCHANGED <<locked, mine, tuple, db, log, refs, ready, back, count, calls, order,
                     ent, got, reads, cts, rc, hist>>
  BY <1>3 DEF ValidateStamps, lockVars, histVars, txnVars
<1>6. \/ /\ rc[t] = "busy" /\ pc' = [pc EXCEPT ![t] = "unlock"]
         /\ todo' = [todo EXCEPT ![t] = WriteSet(t)]
      \/ /\ todo' = todo
         /\ \/ pc' = [pc EXCEPT ![t] = "differs"]
            \/ pc' = [pc EXCEPT ![t] = "next"]
            \/ /\ pc' = [pc EXCEPT ![t] = "extend"] /\ tuple[k].wts = ent[t][k].wts
               /\ tuple[k].rts < cts[t] /\ ~(tuple[k].rts <= cts[t] /\ rc[t] = "busy")
  BY <1>3 DEF ValidateStamps, GiveUp, Goto
<1>7. /\ LockTypeOK' /\ Apart' /\ mine'[t] = mine[t]
      /\ \A u \in Thread : u # t => mine'[u] = mine[u]
  BY <1>5, LocksKept
<1>8. /\ \/ rc[t] = "busy" /\ pc'[t] = "unlock" /\ todo'[t] = WriteSet(t)
         \/ /\ todo'[t] = todo[t]
            /\ \/ pc'[t] \in {"differs", "next"}
               \/ /\ pc'[t] = "extend" /\ tuple[k].wts = ent[t][k].wts
                  /\ tuple[k].rts < cts[t] /\ rc[t] # "busy"
      /\ Committed(t)
  <2>1. cts[t] \in Nat /\ tuple[k].rts \in Nat
    BY ThreadTypes, TupleTypes
  <2>2. tuple[k].rts < cts[t] => tuple[k].rts <= cts[t]
    BY <2>1
  <2>3. pc \in [Thread -> Label] /\ todo \in [Thread -> SUBSET Key]
    BY DEF Inv, TypeOK
  <2>4. /\ pc' \in [Thread -> Label] /\ todo' \in [Thread -> SUBSET Key]
        /\ pc'[t] \in {"unlock", "differs", "next", "extend"}
        /\ \A u \in Thread : u # t => pc'[u] = pc[u] /\ todo'[u] = todo[u]
    BY <1>2, <1>6, <2>3 DEF Label
  <2>5. Committed(t)
    BY <1>1, <1>4, <1>5, <1>7, <2>4 DEF Committed, Inv, TypeOK
  <2>6. QED
    BY <1>6, <2>2, <2>3, <2>5
<1>9. WriteSet(t)' = WriteSet(t) /\ ReadSet(t)' = ReadSet(t) /\ Pinned(t)' = Pinned(t)
  BY <1>5, CommitKeeps
<1>10. todo'[t] = todo[t] => Validated(t)' = k
  BY <1>3, <1>5, ValidatedKept
<1>11. CASE pc'[t] = "unlock"
  <2>1. rc[t] = "busy" /\ todo'[t] = WriteSet(t)
    BY <1>8, <1>11
  <2>2. /\ LockSet(t) = WriteSet(t) /\ LockSet(t)' = WriteSet(t) /\ Phase(t)' = "unlock"
        /\ Stamped(t)' = {}
    BY <1>1, <1>11, <2>1 DEF LockSet, Phase, Stamped, Looking
  <2>3. Books(t)'
    BY <1>1, <1>2, <1>5, <1>9, <1>11, <2>1, <2>2, EntriesKept DEF Books, Looking
  <2>4. Times(t)'
    BY <1>11, <2>2 DEF Times, Committing, Looking
  <2>5. QED
    BY <1>2, <1>7, <1>8, <2>2, <2>3, <2>4, CommitStep
<1>12. CASE pc'[t] # "unlock"
  <2>1. todo'[t] = todo[t] /\ pc'[t] \in {"differs", "next", "extend"} /\ Validated(t)' = k
    BY <1>8, <1>10, <1>12
  <2>2. /\ LockSet(t)' = LockSet(t) /\ Phase(t) = "stamps" /\ Phase(t)' = pc'[t]
        /\ Stamped(t)' = Stamped(t)
    BY <1>1, <1>3, <1>5, <1>9, <2>1 DEF LockSet, Phase, Stamped, Looking
  <2>3. Books(t)'
    <3>1. pc'[t] = "extend" => rc'[t] # "busy"
      BY <1>5, <1>8, <1>12
    <3>2. QED
      BY <1>1, <1>2, <1>3, <1>5, <1>9, <2>1, <2>2, <3>1, EntriesKept DEF Books, Looking
  <2>4. Times(t)'
    BY <1>1, <1>2, <1>5, <1>8, <1>9, <2>1, <2>2 DEF Times, Committing, Looking
  <2>5. QED
    BY <1>2, <1>7, <1>8, <2>2, <2>3, <2>4, CommitStep
<1>13. QED
  BY <1>11, <1>12

\* What giving back the lock of a validation leaves.
LEMMA ReadUnlocked ==
  ASSUME LockTableAssumption, Inv, NEW t \in Thread, pc[t] \in Looking, ReleaseIfTaken(t)
  PROVE  /\ LockTypeOK' /\ Apart' /\ mine'[t] = WriteSet(t)
         /\ \A u \in Thread : u # t => mine'[u] = mine[u]
<1>1. /\ Books(t) /\ mine[t] = LockSet(t) /\ todo[t] # {}
  BY ThreadTypes DEF Books
<1>2. PICK k \in Key : k = Validated(t)
  BY <1>1, ValidatedMember
<1>3. LockSet(t) = IF rc[t] = "ok" THEN WriteSet(t) \cup {k} ELSE WriteSet(t)
  BY <1>2 DEF LockSet, Looking, Phase
<1>4. CASE rc[t] = "ok"
  <2>1. ReleaseLock(t, k)
    BY <1>2, <1>4 DEF ReleaseIfTaken
  <2>2. k \notin WriteSet(t)
    BY <1>1, <1>2, <1>4 DEF Books
  <2>3. mine[t] \ {k} = WriteSet(t)
    BY <1>1, <1>3, <1>4, <2>2
  <2>4. QED
    BY <2>1, <2>3, LockGiven
<1>5. CASE rc[t] # "ok"
  <2>1. UNCHANGED <<locked, mine>>
    BY <1>5 DEF ReleaseIfTaken, lockVars
  <2>2. QED
    BY <1>1, <1>3, <1>5, <2>1, LocksKept
<1>6. QED
  BY <1>4, <1>5

\* After a validation that did not abort at once: the question is put to the
\* history, or the transaction aborts, or the next read is looked at.
LEMMA AfterReadStep ==
  ASSUME LockTableAssumption, Inv, NEW t \in Thread,
         pc[t] \in {"differs", "next", "ask"},
         LockTypeOK', Apart', mine'[t] = WriteSet(t),
         \A u \in Thread : u # t => mine'[u] = mine[u],
         UNCHANGED <<tuple, db, log, refs, ready, back, count, calls, order,
                     ent, got, reads, cts, rc, seen, hist>>,
         \/ /\ pc' = [pc EXCEPT ![t] = "unlock"]
            /\ todo' = [todo EXCEPT ![t] = WriteSet(t)]
         \/ pc[t] = "differs" /\ pc' = [pc EXCEPT ![t] = "ask"] /\ todo' = todo
         \/ /\ pc' = [pc EXCEPT ![t] = "validate"]
            /\ todo' = [todo EXCEPT ![t] = @ \ {Validated(t)}]
  PROVE  Inv'
<1>1. /\ Books(t) /\ Times(t) /\ WriteSet(t) \in SUBSET Key /\ todo[t] # {}
      /\ todo[t] \subseteq ReadSet(t) /\ todo[t] \in SUBSET Key
  BY ThreadTypes DEF Books, Looking
<1>2. /\ \/ pc'[t] = "unlock" /\ todo'[t] = WriteSet(t)
         \/ pc'[t] = "ask" /\ todo'[t] = todo[t]
         \/ pc'[t] = "validate" /\ todo'[t] \subseteq todo[t]
      /\ Committed(t)
  <2>1. pc \in [Thread -> Label] /\ todo \in [Thread -> SUBSET Key]
    BY DEF Inv, TypeOK
  <2>2. /\ pc' \in [Thread -> Label] /\ todo' \in [Thread -> SUBSET Key]
        /\ pc'[t] \in {"unlock", "ask", "validate"}
        /\ \A u \in Thread : u # t => pc'[u] = pc[u] /\ todo'[u] = todo[u]
    BY <1>1, <2>1 DEF Label
  <2>3. Committed(t)
    BY <2>2 DEF Committed, Inv, TypeOK
  <2>4. QED
    BY <2>1, <2>3
<1>3. WriteSet(t)' = WriteSet(t) /\ ReadSet(t)' = ReadSet(t) /\ Pinned(t)' = Pinned(t)
  BY CommitKeeps
<1>4. /\ LockSet(t)' = WriteSet(t) /\ Phase(t)' = pc'[t] /\ Phase(t) = pc[t]
      /\ Stamped(t)' \subseteq WriteSet(t) /\ Stamped(t) = WriteSet(t)
      /\ WriteSet(t) \subseteq LockSet(t)
  BY <1>2, <1>3 DEF LockSet, Phase, Stamped, Looking
<1>5. Books(t)'
  BY <1>1, <1>2, <1>3, <1>4, EntriesKept DEF Books, Looking
<1>6. Times(t)'
  BY <1>1, <1>2, <1>3, <1>4 DEF Times, Committing, Looking
<1>7. QED
  BY <1>2, <1>4, <1>5, <1>6, CommitStep

LEMMA ReadDoneStep ==
  ASSUME LockTableAssumption, Inv, NEW t \in Thread,
         ValidateDiffers(t) \/ ValidateNext(t) \/ ValidateAsk(t)
  PROVE  Inv'
<1>1. /\ pc[t] \in {"differs", "next", "ask"}
      /\ UNCHANGED <<tuple, db, log, refs, ready, back, count, calls, order,
                     ent, got, reads, cts, rc, seen, hist>>
  BY DEF ValidateDiffers, ValidateNext, ValidateAsk, histVars, txnVars
<1>2. \/ /\ pc' = [pc EXCEPT ![t] = "unlock"]
         /\ todo' = [todo EXCEPT ![t] = WriteSet(t)]
      \/ pc[t] = "differs" /\ pc' = [pc EXCEPT ![t] = "ask"] /\ todo' = todo
      \/ /\ pc' = [pc EXCEPT ![t] = "validate"]
         /\ todo' = [todo EXCEPT ![t] = @ \ {Validated(t)}]
  BY DEF ValidateDiffers, ValidateNext, ValidateAsk, GiveUp, Goto
<1>3. /\ LockTypeOK' /\ Apart' /\ mine'[t] = WriteSet(t)
      /\ \A u \in Thread : u # t => mine'[u] = mine[u]
  <2>1. CASE ValidateAsk(t)
    <3>1. UNCHANGED <<locked, mine>> /\ pc[t] = "ask"
      BY <2>1 DEF ValidateAsk, lockVars
    <3>2. mine[t] = WriteSet(t)
      BY <3>1, ThreadTypes DEF LockSet, Phase
    <3>3. QED
      BY <3>1, <3>2, LocksKept
  <2>2. CASE ~ValidateAsk(t)
    <3>1. pc[t] \in Looking /\ ReleaseIfTaken(t)
      BY <2>2 DEF ValidateDiffers, ValidateNext, Looking
    <3>2. QED
      BY <3>1, ReadUnlocked
  <2>3. QED
    BY <2>1, <2>2
<1>4. QED
  BY <1>1, <1>2, <1>3, AfterReadStep

\* Every read is valid: the transaction is in the history and installs.
LEMMA ValidateDoneStep ==
  ASSUME LockTableAssumption, Inv, NEW t \in Thread, ValidateDone(t)
  PROVE  Inv'
<1>1. /\ pc[t] = "validate" /\ todo[t] = {} /\ pc' = [pc EXCEPT ![t] = "install"]
      /\ todo' = [todo EXCEPT ![t] = WriteSet(t)]
      /\ hist' = hist \cup {[id |-> Id(t), cts |-> cts[t], reads |-> reads[t]]}
      /\ UNCHANGED <<locked, mine, tuple, db, log, refs, ready, back, count, calls, order,
                     ent, got, reads, cts, rc, seen>>
  BY DEF ValidateDone, Goto, lockVars, histVars, txnVars
<1>2. /\ Books(t) /\ Times(t) /\ mine[t] = LockSet(t) /\ WriteSet(t) \in SUBSET Key
  BY ThreadTypes
<1>3. hist' \in SUBSET Commit
  <2>1. count[t] \in Nat /\ cts[t] \in Nat /\ reads[t] \in SUBSET Read /\ hist \in SUBSET Commit
    BY DEF Inv, TypeOK
  <2>2. [id |-> Id(t), cts |-> cts[t], reads |-> reads[t]] \in Commit
    BY <2>1 DEF Commit, Id, Txn
  <2>3. QED
    BY <1>1, <2>1, <2>2
<1>4. /\ LockTypeOK' /\ Apart' /\ mine'[t] = mine[t]
      /\ \A u \in Thread : u # t => mine'[u] = mine[u]
  BY <1>1, LocksKept
<1>5. pc'[t] = "install" /\ todo'[t] = WriteSet(t) /\ Committed(t)
  BY <1>1, <1>2, <1>3, <1>4 DEF Committed, Inv, TypeOK, Label
<1>6. WriteSet(t)' = WriteSet(t) /\ ReadSet(t)' = ReadSet(t) /\ Pinned(t)' = Pinned(t)
  BY <1>1, CommitKeeps
<1>7. /\ Phase(t) = "validate" /\ Phase(t)' = "install" /\ LockSet(t)' = LockSet(t)
      /\ Stamped(t)' = Stamped(t)
  BY <1>1, <1>5, <1>6 DEF Phase, LockSet, Stamped, Looking
<1>8. Books(t)'
  BY <1>1, <1>2, <1>5, <1>6, <1>7, EntriesKept DEF Books, Looking
<1>9. Times(t)'
  BY <1>1, <1>2, <1>5, <1>6, <1>7 DEF Times, Committing
<1>10. QED
  BY <1>2, <1>4, <1>5, <1>7, <1>8, <1>9, CommitStep
\* What is locked by one thread is not by another.
LEMMA LockedAlone ==
  ASSUME Inv, NEW t \in Thread, NEW u \in Thread, u # t, NEW k \in LockSet(t)
  PROVE  k \notin LockSet(u)
  BY DEF Inv, Locks

\* The rts of the version that was read is moved up to commit_ts.
LEMMA ValidateExtendStep ==
  ASSUME LockTableAssumption, Inv, NEW t \in Thread, ValidateExtend(t)
  PROVE  Inv'
<1>1. pc[t] = "extend"
  BY DEF ValidateExtend
<1>2. /\ Books(t) /\ Times(t) /\ cts[t] \in Nat /\ todo[t] # {}
  BY <1>1, ThreadTypes DEF Books, Looking
<1>3. PICK k \in Key : k = Validated(t) /\ k \in ReadSet(t)
  BY <1>1, <1>2, ValidatedMember DEF Looking
<1> DEFINE new == IF tuple[k].kind = "value" THEN [tuple[k] EXCEPT !.rts = cts[t]] ELSE Orphan
<1>4. /\ tuple' = [tuple EXCEPT ![k] = new] /\ pc' = [pc EXCEPT ![t] = "next"]
      /\ UNCHANGED <<locked, mine, db, log, refs, ready, back, count, calls, order, ent, got,
                     reads, todo, cts, rc, seen, hist>>
  BY <1>3 DEF ValidateExtend, MoveRts, Goto, lockVars, histVars, txnVars, commitVars
<1>5. tuple[k].wts <= cts[t] /\ tuple[k].rts < cts[t]
  BY <1>1, <1>2, <1>3 DEF Times, Phase, Committing, Looking
<1>6. tuple[k] \in Tuple /\ tuple \in [Key -> Tuple]
  BY DEF Inv, TypeOK
<1>7. new \in Tuple /\ new.wts = tuple[k].wts /\ new.rts <= cts[t]
  <2>1. CASE tuple[k].kind = "value"
    BY <1>2, <1>5, <1>6, <2>1 DEF Tuple, Absent, Orphan
  <2>2. CASE tuple[k].kind # "value"
    BY <1>2, <1>6, <2>2 DEF Tuple, Absent, Orphan
  <2>3. QED
    BY <2>1, <2>2
<1> HIDE DEF new
<1>8. /\ tuple' \in [Key -> Tuple] /\ tuple'[k] = new
      /\ \A j \in Key : j # k => tuple'[j] = tuple[j]
  BY <1>4, <1>6, <1>7
<1>9. TypeOK'
  BY <1>1, <1>4, <1>8 DEF Inv, TypeOK, LockTypeOK, Label
<1>10. pc'[t] = "next" /\ \A u \in Thread : u # t => Same(u)
  BY <1>4 DEF Same, Inv, TypeOK
<1>11. /\ WriteSet(t)' = WriteSet(t) /\ ReadSet(t)' = ReadSet(t) /\ Pinned(t)' = Pinned(t)
       /\ Validated(t)' = k
  BY <1>3, <1>4, CommitKeeps, ValidatedKept
<1>12. /\ Phase(t) = "extend" /\ Phase(t)' = "next" /\ LockSet(t)' = LockSet(t)
       /\ Stamped(t)' = WriteSet(t) /\ Stamped(t) = WriteSet(t) /\ Uses(t)' = Uses(t)
  BY <1>1, <1>3, <1>4, <1>10, <1>11 DEF Phase, LockSet, Stamped, Looking, Uses
<1>13. Locks'
  BY <1>4, <1>10, <1>12, LocksStay DEF lockVars
<1>14. HistoryCounted'
  <2>1. \A j \in Key : refs[j] = 0 => j \notin ready' /\ log'[j] = <<>>
    BY <1>4 DEF Inv, HistoryCounted
  <2>2. QED
    BY <1>4, <1>10, <1>12, <2>1, HistoryStays
<1>15. Books(t)'
  BY <1>1, <1>2, <1>3, <1>4, <1>10, <1>11, <1>12, EntriesKept DEF Books, Looking
<1>16. Times(t)'
  <2>1. \A j \in WriteSet(t) : tuple'[j].wts < cts[t] /\ tuple'[j].rts <= cts[t]
    <3>1. \A j \in WriteSet(t) : /\ j \in Key /\ tuple[j].wts < cts[t]
                                 /\ tuple[j].rts <= cts[t]
      BY <1>2, <1>12 DEF Times, WriteSet
    <3>2. QED
      BY <1>7, <1>8, <3>1
  <2>2. \A j \in ReadSet(t) : ent[t][j].wts <= cts[t]
    BY <1>2, <1>12 DEF Times, Committing, Looking
  <2>3. QED
    BY <1>4, <1>10, <1>11, <1>12, <2>1, <2>2 DEF Times
<1>17. \A u \in Thread, j \in Key : u # t /\ j \in LockSet(u) => tuple'[j] = tuple[j]
  <2>1. k \in LockSet(t)
    BY <1>1, <1>3, KnownLocked
  <2>2. QED
    BY <1>8, <2>1, LockedAlone
<1>18. QED
  BY <1>9, <1>10, <1>13, <1>14, <1>15, <1>16, <1>17, OneStep

-----------------------------------------------------------------------------
(* Installing, and the end of a transaction.                               *)

LEMMA InstallStep ==
  ASSUME LockTableAssumption, TicTocDiskAssumption, Inv, NEW t \in Thread, Install(t)
  PROVE  Inv'
<1>1. pc[t] = "install" /\ todo[t] # {}
  BY DEF Install
<1>2. PICK k \in Key : k = Smallest(todo[t]) /\ k \in todo[t]
  BY <1>1, ThreadTypes
<1> DEFINE new == IF ent[t][k].wr = "delete" THEN Absent
                  ELSE [kind |-> "value", wts |-> cts[t], rts |-> cts[t]]
<1>3. /\ tuple' = [tuple EXCEPT ![k] = new] /\ db' = [db EXCEPT ![k] = Append(@, Id(t))]
      /\ pc' = [pc EXCEPT ![t] = IF Forgiving THEN "record" ELSE "release"]
      /\ UNCHANGED <<locked, mine, log, refs, ready, back, count, calls, order, ent, got,
                     reads, todo, cts, rc, seen, hist>>
  BY <1>2 DEF Install, Store, Goto, lockVars, histVars, txnVars, commitVars
<1>4. /\ Books(t) /\ Times(t) /\ cts[t] \in Nat /\ count[t] \in Nat
  BY ThreadTypes DEF Inv, TypeOK
<1>5. new \in Tuple
  BY <1>4 DEF Tuple
<1>6. tuple \in [Key -> Tuple] /\ db \in [Key -> Seq(Txn)] /\ Id(t) \in Txn
  BY <1>4 DEF Inv, TypeOK, Id, Txn
<1> HIDE DEF new
<1>7. /\ tuple' \in [Key -> Tuple] /\ db' \in [Key -> Seq(Txn)]
      /\ \A j \in Key : j # k => tuple'[j] = tuple[j]
  <2>1. db[k] \in Seq(Txn)
    BY <1>6
  <2>2. Append(db[k], Id(t)) \in Seq(Txn)
    BY <1>6, <2>1
  <2>3. QED
    BY <1>3, <1>5, <1>6, <2>2
<1>8. TypeOK'
  BY <1>1, <1>3, <1>7 DEF Inv, TypeOK, LockTypeOK, Label
<1>9. /\ pc'[t] = (IF Forgiving THEN "record" ELSE "release")
      /\ \A u \in Thread : u # t => Same(u)
  BY <1>3 DEF Same, Inv, TypeOK
<1>10. /\ WriteSet(t)' = WriteSet(t) /\ ReadSet(t)' = ReadSet(t) /\ Pinned(t)' = Pinned(t)
  BY <1>3, CommitKeeps
<1>11. /\ Phase(t) = "install" /\ Phase(t)' = pc'[t] /\ LockSet(t)' = todo[t]
       /\ LockSet(t) = todo[t] /\ Stamped(t)' = todo[t] \ {k} /\ Stamped(t) = todo[t]
       /\ Uses(t)' = Uses(t)
  BY <1>1, <1>2, <1>3, <1>9, <1>10 DEF Phase, LockSet, Stamped, Looking, Uses
<1>12. Locks'
  BY <1>3, <1>9, <1>11, LocksStay DEF lockVars
<1>13. HistoryCounted'
  <2>1. \A j \in Key : refs[j] = 0 => j \notin ready' /\ log'[j] = <<>>
    BY <1>3 DEF Inv, HistoryCounted
  <2>2. QED
    BY <1>3, <1>9, <1>11, <2>1, HistoryStays
<1>14. Books(t)'
  BY <1>1, <1>3, <1>4, <1>9, <1>10, <1>11, EntriesKept DEF Books, Looking
<1>15. Times(t)'
  <2>1. \A j \in todo[t] \ {k} : tuple'[j] = tuple[j]
    <3>1. todo[t] \in SUBSET Key
      BY ThreadTypes
    <3>2. QED
      BY <1>7, <3>1
  <2>2. QED
    BY <1>3, <1>4, <1>9, <1>10, <1>11, <2>1 DEF Times, Committing
<1>16. \A u \in Thread, j \in Key : u # t /\ j \in LockSet(u) => tuple'[j] = tuple[j]
  <2>1. k \in LockSet(t)
    BY <1>2, <1>11
  <2>2. QED
    BY <1>7, <2>1, LockedAlone
<1>17. QED
  BY <1>8, <1>9, <1>12, <1>13, <1>14, <1>15, <1>16, OneStep

\* The write is logged in an entry that its transaction holds.
LEMMA RecordStep ==
  ASSUME LockTableAssumption, TicTocDiskAssumption, Inv, NEW t \in Thread, Record(t)
  PROVE  Inv'
<1>1. pc[t] = "record"
  BY DEF Record
<1>2. Books(t) /\ Times(t) /\ todo[t] # {} /\ cts[t] \in Nat /\ Forgiving
  BY <1>1, ThreadTypes DEF Books
<1>3. PICK k \in Key : k = Smallest(todo[t]) /\ k \in todo[t]
  BY <1>2, ThreadTypes
<1>4. /\ log' = IF Len(log[k]) < MaxLog THEN [log EXCEPT ![k] = Append(@, cts[t])] ELSE log
      /\ pc' = [pc EXCEPT ![t] = "release"]
      /\ UNCHANGED <<locked, mine, tuple, db, refs, ready, back, count, calls, order, ent, got,
                     reads, todo, cts, rc, seen, hist>>
  BY <1>3 DEF Record, Goto, lockVars, txnVars, commitVars
<1>5. log \in [Key -> Seq(Nat)] /\ Append(log[k], cts[t]) \in Seq(Nat)
  <2>1. log \in [Key -> Seq(Nat)] /\ log[k] \in Seq(Nat)
    BY DEF Inv, TypeOK
  <2>2. QED
    BY <1>2, <2>1
<1>6. log' \in [Key -> Seq(Nat)] /\ \A j \in Key : j # k => log'[j] = log[j]
  BY <1>4, <1>5
<1>7. TypeOK'
  BY <1>1, <1>4, <1>6 DEF Inv, TypeOK, LockTypeOK, Label
<1>8. pc'[t] = "release" /\ \A u \in Thread : u # t => Same(u)
  BY <1>4 DEF Same, Inv, TypeOK
<1>9. /\ WriteSet(t)' = WriteSet(t) /\ ReadSet(t)' = ReadSet(t) /\ Pinned(t)' = Pinned(t)
  BY <1>4, CommitKeeps
<1>10. /\ Phase(t) = "record" /\ Phase(t)' = "release" /\ LockSet(t)' = LockSet(t)
       /\ LockSet(t) = todo[t] /\ Stamped(t)' = Stamped(t) /\ Uses(t)' = Uses(t)
  BY <1>1, <1>4, <1>8, <1>9 DEF Phase, LockSet, Stamped, Looking, Uses
<1>11. Locks'
  BY <1>4, <1>8, <1>10, LocksStay DEF lockVars
<1>12. HistoryCounted'
  <2>1. refs[k] > 0 /\ refs[k] \in Nat
    <3>1. ent[t][k].held
      BY <1>2, <1>3, <1>10 DEF Books, Pinned
    <3>2. QED
      BY <3>1, HeldCounted
  <2>2. refs[k] # 0
    BY <2>1
  <2>3. \A j \in Key : refs[j] = 0 => j \notin ready' /\ log'[j] = <<>>
    BY <1>4, <1>6, <2>2 DEF Inv, HistoryCounted
  <2>4. QED
    BY <1>4, <1>8, <1>10, <2>3, HistoryStays
<1>13. Books(t)'
  BY <1>1, <1>2, <1>4, <1>8, <1>9, <1>10, EntriesKept DEF Books, Looking
<1>14. Times(t)'
  BY <1>1, <1>2, <1>4, <1>8, <1>9, <1>10 DEF Times, Committing
<1>15. QED
  BY <1>4, <1>7, <1>8, <1>11, <1>12, <1>13, <1>14, OneStep

\* The transaction is over: its history entries are to be unpinned.
LEMMA EndStep ==
  ASSUME LockTableAssumption, Inv, NEW t \in Thread, Abort(t) \/ CommitEnd(t)
  PROVE  Inv'
<1>1. /\ \/ pc[t] = "run"
         \/ pc[t] \in {"install", "unlock"} /\ todo[t] = {}
      /\ pc' = [pc EXCEPT ![t] = "unpin"] /\ todo' = [todo EXCEPT ![t] = Pinned(t)]
      /\ UNCHANGED <<locked, mine, tuple, db, log, refs, ready, back, count, calls, order,
                     ent, got, reads, cts, rc, seen, hist>>
  BY DEF Abort, CommitEnd, Goto, lockVars, histVars, txnVars
<1>2. /\ Books(t) /\ mine[t] = LockSet(t) /\ Pinned(t) \in SUBSET Key
  BY ThreadTypes DEF Pinned
<1>3. /\ LockTypeOK' /\ Apart' /\ mine'[t] = mine[t]
      /\ \A u \in Thread : u # t => mine'[u] = mine[u]
  BY <1>1, LocksKept
<1>4. pc'[t] = "unpin" /\ todo'[t] = Pinned(t) /\ Committed(t)
  BY <1>1, <1>2, <1>3 DEF Committed, Inv, TypeOK, Label
<1>5. WriteSet(t)' = WriteSet(t) /\ ReadSet(t)' = ReadSet(t) /\ Pinned(t)' = Pinned(t)
  BY <1>1, CommitKeeps
<1>6. Phase(t)' = "unpin" /\ LockSet(t) = {} /\ LockSet(t)' = {}
  BY <1>1, <1>4 DEF Phase, LockSet
<1>7. Books(t)'
  BY <1>1, <1>2, <1>4, <1>5, <1>6, EntriesKept DEF Books, Looking
<1>8. Times(t)'
  BY <1>4, NoTimes DEF Looking
<1>9. QED
  BY <1>2, <1>3, <1>4, <1>6, <1>7, <1>8, CommitStep

\* rw_entry_histcache_remove, of the last holder or of another.
LEMMA UnpinStep ==
  ASSUME LockTableAssumption, TicTocDiskAssumption, Inv, NEW t \in Thread, Unpin(t)
  PROVE  Inv'
<1>1. pc[t] = "unpin" /\ todo[t] # {}
  BY DEF Unpin
<1>2. /\ Books(t) /\ todo[t] = Pinned(t) /\ todo[t] \in SUBSET Key
  BY <1>1, ThreadTypes DEF Books
<1>3. PICK k \in Key : k = First(t, todo[t]) /\ k \in todo[t] /\ ent[t][k].held
  BY <1>1, <1>2, FirstMember DEF Pinned
<1> DEFINE e == [ent[t][k] EXCEPT !.held = FALSE]
<1>4. /\ Unpin1(k) /\ todo' = [todo EXCEPT ![t] = @ \ {k}]
      /\ ent' = [ent EXCEPT ![t][k].held = FALSE]
      /\ UNCHANGED <<locked, mine, tuple, db, pc, back, count, calls, order, got, reads,
                     cts, rc, seen, hist>>
  BY <1>3 DEF Unpin, lockVars
<1>5. /\ ent \in [Thread -> [Key -> Entry]] /\ ent[t][k] \in Entry /\ refs \in [Key -> Nat]
      /\ log \in [Key -> Seq(Nat)] /\ ready \in SUBSET Key
  BY DEF Inv, TypeOK
<1>6. ent' = [ent EXCEPT ![t][k] = e]
  BY <1>4, <1>5
<1>7. e \in Entry /\ e.rd = ent[t][k].rd /\ e.wr = ent[t][k].wr /\ ~e.held
  BY <1>5 DEF Entry
<1> HIDE DEF e
<1>8. /\ ent' \in [Thread -> [Key -> Entry]] /\ ent'[t][k] = e
      /\ \A u \in Thread : u # t => ent'[u] = ent[u]
      /\ \A j \in Key : j # k => ent'[t][j] = ent[t][j]
  BY <1>5, <1>6, <1>7
<1>9. /\ refs[k] > 0 /\ refs[k] \in Nat
      /\ Cardinality({u \in Thread : ent[u][k].held} \ {t}) = refs[k] - 1
      /\ refs[k] = 1 => \A u \in Thread : ent[u][k].held => u = t
  BY <1>3, HeldCounted
<1>10. /\ refs' \in [Key -> Nat] /\ refs'[k] = refs[k] - 1
       /\ \A j \in Key : j # k => refs'[j] = refs[j]
  <2>1. refs' = [refs EXCEPT ![k] = refs[k] - 1] /\ refs[k] - 1 \in Nat
    BY <1>4, <1>5, <1>9 DEF Unpin1
  <2>2. QED
    BY <1>5, <2>1
<1>11. /\ log' \in [Key -> Seq(Nat)] /\ ready' \in SUBSET Key
       /\ refs[k] = 1 => log'[k] = <<>> /\ k \notin ready'
       /\ refs[k] # 1 => log'[k] = log[k] /\ (k \in ready' <=> k \in ready)
       /\ \A j \in Key : j # k => log'[j] = log[j] /\ (j \in ready' <=> j \in ready)
  <2>1. CASE refs[k] = 1
    <3>1. log' = [log EXCEPT ![k] = <<>>] /\ ready' = ready \ {k}
      BY <1>4, <2>1 DEF Unpin1
    <3>2. <<>> \in Seq(Nat)
      OBVIOUS
    <3>3. QED
      BY <1>5, <2>1, <3>1, <3>2
  <2>2. CASE refs[k] # 1
    <3>1. log' = log /\ ready' = ready
      BY <1>4, <2>2 DEF Unpin1
    <3>2. QED
      BY <1>5, <2>2, <3>1
  <2>3. QED
    BY <2>1, <2>2
<1>12. TypeOK'
  <2>1. todo' \in [Thread -> SUBSET Key]
    BY <1>2, <1>4 DEF Inv, TypeOK
  <2>2. QED
    BY <1>4, <1>8, <1>10, <1>11, <2>1 DEF Inv, TypeOK, LockTypeOK
<1>13. /\ todo'[t] = todo[t] \ {k} /\ pc'[t] = "unpin"
       /\ \A u \in Thread : u # t => Same(u)
  BY <1>1, <1>4, <1>8 DEF Same, Inv, TypeOK
<1>14. /\ Pinned(t)' = Pinned(t) \ {k} /\ LockSet(t)' = LockSet(t) /\ LockSet(t)' = {}
       /\ Phase(t)' = "unpin" /\ Uses(t)' = Uses(t) \ {k} /\ Uses(t)' \subseteq Uses(t)
  <2>1. \A j \in Key : ent'[t][j].held <=> (ent[t][j].held /\ j # k)
    BY <1>3, <1>7, <1>8
  <2>2. Pinned(t)' = Pinned(t) \ {k}
    BY <2>1 DEF Pinned
  <2>3. QED
    BY <1>1, <1>13, <2>2 DEF Phase, LockSet, Uses
<1>15. Locks'
  BY <1>4, <1>13, <1>14, LocksStay DEF lockVars
<1>16. HistoryCounted'
  <2>1. ASSUME NEW j \in Key PROVE refs'[j] = Cardinality({u \in Thread : ent'[u][j].held})
    <3>1. CASE j = k
      <4>1. {u \in Thread : ent'[u][k].held} = {u \in Thread : ent[u][k].held} \ {t}
        BY <1>7, <1>8
      <4>2. QED
        BY <1>9, <1>10, <3>1, <4>1
    <3>2. CASE j # k
      <4>1. {u \in Thread : ent'[u][j].held} = {u \in Thread : ent[u][j].held}
        BY <1>8, <3>2
      <4>2. QED
        BY <1>10, <3>2, <4>1 DEF Inv, HistoryCounted
    <3>3. QED
      BY <3>1, <3>2
  <2>2. ASSUME NEW j \in Key, NEW u \in Thread, j \in Uses(u)' PROVE j \in ready'
    <3>1. j \in Uses(u) /\ j \in ready
      <4>1. Uses(u)' \subseteq Uses(u)
        BY <1>13, <1>14, SameThread
      <4>2. QED
        BY <2>2, <4>1 DEF Inv, HistoryCounted
    <3>2. CASE j = k
      <4>1. u # t
        BY <1>14, <2>2, <3>2
      <4>2. ent[u][k].held
        BY <3>1, <3>2 DEF Uses, Pinned
      <4>3. refs[k] # 1
        BY <1>9, <4>1, <4>2
      <4>4. QED
        BY <1>11, <3>1, <3>2, <4>3
    <3>3. CASE j # k
      BY <1>11, <3>1, <3>3
    <3>4. QED
      BY <3>2, <3>3
  <2>3. ASSUME NEW j \in Key, refs'[j] = 0 PROVE j \notin ready' /\ log'[j] = <<>>
    <3>1. CASE j = k
      <4>1. refs[k] = 1
        BY <1>9, <1>10, <2>3, <3>1
      <4>2. QED
        BY <1>11, <3>1, <4>1
    <3>2. CASE j # k
      BY <1>10, <1>11, <2>3, <3>2 DEF Inv, HistoryCounted
    <3>3. QED
      BY <3>1, <3>2
  <2>4. QED
    BY <2>1, <2>2, <2>3 DEF HistoryCounted
<1>17. Books(t)'
  <2>1. \A j \in Key :
          /\ ent'[t][j].rd \/ ent'[t][j].held \/ ent'[t][j].wr # "none" => Listed(t, j)'
          /\ ent'[t][j].held => Forgiving
    <3>1. \A j \in Key : Listed(t, j)' <=> Listed(t, j)
      BY <1>4 DEF Listed
    <3>2. \A j \in Key : /\ ent'[t][j].rd = ent[t][j].rd /\ ent'[t][j].wr = ent[t][j].wr
                         /\ ent'[t][j].held => ent[t][j].held
      BY <1>7, <1>8
    <3>3. QED
      BY <1>2, <3>1, <3>2 DEF Books
  <2>2. todo'[t] = Pinned(t)'
    BY <1>2, <1>13, <1>14
  <2>3. QED
    BY <1>13, <1>14, <2>1, <2>2 DEF Books, Looking
<1>18. Times(t)'
  BY <1>13, NoTimes DEF Looking
<1>19. QED
  BY <1>4, <1>12, <1>13, <1>15, <1>16, <1>17, <1>18, OneStep

\* The entries are freed.  None of them holds a history entry any more.
LEMMA FinishStep ==
  ASSUME LockTableAssumption, Inv, NEW t \in Thread, Finish(t)
  PROVE  Inv'
<1>1. /\ pc[t] = "unpin" /\ todo[t] = {} /\ pc' = [pc EXCEPT ![t] = "idle"]
      /\ calls' = [calls EXCEPT ![t] = <<>>] /\ order' = [order EXCEPT ![t] = <<>>]
      /\ ent' = [ent EXCEPT ![t] = [k \in Key |-> NoEntry]]
      /\ got' = [got EXCEPT ![t] = Own] /\ reads' = [reads EXCEPT ![t] = {}]
      /\ cts' = [cts EXCEPT ![t] = 0] /\ rc' = [rc EXCEPT ![t] = "ok"]
      /\ seen' = [seen EXCEPT ![t] = Absent]
      /\ UNCHANGED <<locked, mine, tuple, db, log, refs, ready, back, count, todo, hist>>
  BY DEF Finish, Goto, lockVars, histVars
<1>2. Books(t) /\ Pinned(t) = {}
  BY <1>1, ThreadTypes DEF Books
<1>3. TypeOK'
  <2>1. [k \in Key |-> NoEntry] \in [Key -> Entry]
    BY DEF Entry, NoEntry
  <2>2. ent' \in [Thread -> [Key -> Entry]]
    BY <1>1, <2>1 DEF Inv, TypeOK
  <2>3. calls' \in [Thread -> Seq(Op)] /\ order' \in [Thread -> Seq(Key)]
    <3>1. <<>> \in Seq(Op) /\ <<>> \in Seq(Key)
      OBVIOUS
    <3>2. QED
      BY <1>1, <3>1 DEF Inv, TypeOK
  <2>4. /\ reads' \in [Thread -> SUBSET Read] /\ seen' \in [Thread -> Tuple]
        /\ got' \in [Thread -> Nat \cup {Own}] /\ cts' \in [Thread -> Nat]
        /\ rc' \in [Thread -> {"ok", "busy", "deadlk"}] /\ pc' \in [Thread -> Label]
    BY <1>1 DEF Inv, TypeOK, Tuple, Label
  <2>5. QED
    BY <1>1, <2>2, <2>3, <2>4 DEF Inv, TypeOK, LockTypeOK
<1>4. /\ pc'[t] = "idle" /\ todo'[t] = {} /\ \A k \in Key : ent'[t][k] = NoEntry
      /\ \A u \in Thread : u # t => Same(u)
  BY <1>1 DEF Same, Inv, TypeOK
<1>5. \A k \in Key : ent'[t][k].held = ent[t][k].held
  <2>1. \A k \in Key : ~ent'[t][k].held /\ ~ent[t][k].held
    BY <1>2, <1>4 DEF Pinned, NoEntry
  <2>2. \A k \in Key : ent'[t][k].held \in BOOLEAN /\ ent[t][k].held \in BOOLEAN
    BY <1>3, SMTT(30) DEF Inv, TypeOK, Entry
  <2>3. QED
    BY <2>1, <2>2
<1>6. /\ LockSet(t)' = LockSet(t) /\ Phase(t)' = "idle" /\ LockSet(t)' = {}
      /\ Uses(t)' = {} /\ ReadSet(t)' = {}
  BY <1>1, <1>4 DEF LockSet, Phase, Uses, ReadSet, Pinned, NoEntry
<1>7. Books(t)'
  BY <1>4, <1>6 DEF Books, Looking, NoEntry
<1>8. Times(t)'
  BY <1>4, NoTimes DEF Looking
<1>9. QED
  BY <1>1, <1>3, <1>4, <1>5, <1>6, <1>7, <1>8, OwnStep
-----------------------------------------------------------------------------
(* The theorems.                                                           *)

LEMMA InitInv ==
  ASSUME LockTableAssumption, TicTocDiskAssumption, Init
  PROVE  Inv
<1>1. /\ pc = [t \in Thread |-> "idle"] /\ todo = [t \in Thread |-> {}]
      /\ ent = [t \in Thread |-> [k \in Key |-> NoEntry]]
      /\ mine = [t \in Thread |-> {}] /\ locked = {}
      /\ refs = [k \in Key |-> 0] /\ ready = {} /\ log = [k \in Key |-> <<>>]
  BY DEF Init, LockInit
<1>2. TypeOK
  <2>1. [k \in Key |-> NoEntry] \in [Key -> Entry]
    BY DEF Entry, NoEntry
  <2>2. ent \in [Thread -> [Key -> Entry]]
    BY <1>1, <2>1
  <2>3. /\ <<>> \in Seq(Op) /\ <<>> \in Seq(Key) /\ <<>> \in Seq(Nat) /\ <<>> \in Seq(Txn)
    OBVIOUS
  <2>4. /\ calls \in [Thread -> Seq(Op)] /\ order \in [Thread -> Seq(Key)]
        /\ log \in [Key -> Seq(Nat)] /\ db \in [Key -> Seq(Txn)]
    BY <2>3 DEF Init
  <2>5. tuple \in [Key -> Tuple]
    BY DEF Init, TicTocDiskAssumption
  <2>6. /\ LockTypeOK /\ refs \in [Key -> Nat] /\ ready \in SUBSET Key
        /\ pc \in [Thread -> Label] /\ back \in [Thread -> {"idle", "own", "read", "lock"}]
        /\ count \in [Thread -> Nat] /\ todo \in [Thread -> SUBSET Key]
        /\ cts \in [Thread -> Nat] /\ rc \in [Thread -> {"ok", "busy", "deadlk"}]
        /\ seen \in [Thread -> Tuple] /\ got \in [Thread -> Nat \cup {Own}]
        /\ reads \in [Thread -> SUBSET Read] /\ hist \in SUBSET Commit
    BY DEF Init, LockInit, LockTypeOK, Label, Tuple
  <2>7. QED
    BY <2>2, <2>4, <2>5, <2>6 DEF TypeOK
<1>3. ASSUME NEW t \in Thread
      PROVE  /\ pc[t] = "idle" /\ Phase(t) = "idle" /\ LockSet(t) = {} /\ Uses(t) = {}
             /\ Stamped(t) = {} /\ ReadSet(t) = {}
             /\ \A k \in Key : /\ ~ent[t][k].rd /\ ~ent[t][k].held
                               /\ ent[t][k].wr = "none"
  BY <1>1 DEF Phase, LockSet, Uses, Pinned, Stamped, ReadSet, NoEntry, Looking
<1>4. Locks
  BY <1>1, <1>3 DEF Locks
<1>5. HistoryCounted
  <2>1. \A k \in Key : {t \in Thread : ent[t][k].held} = {}
    BY <1>3
  <2>2. Cardinality({}) = 0
    BY FS_EmptySet
  <2>3. QED
    BY <1>1, <1>3, <2>1, <2>2 DEF HistoryCounted
<1>6. \A t \in Thread : Books(t)
  BY <1>3 DEF Books, Looking
<1>7. \A t \in Thread : Times(t)
  BY <1>3 DEF Times, Committing, Looking
<1>8. QED
  BY <1>2, <1>4, <1>5, <1>6, <1>7 DEF Inv

LEMMA NextInv ==
  ASSUME LockTableAssumption, TicTocDiskAssumption, Inv, [Next]_vars
  PROVE  Inv'
<1>1. CASE UNCHANGED vars
  <2>1. /\ UNCHANGED <<locked, mine, tuple, db, log, refs, ready, pc, back, count, calls,
                       order, ent, got, reads, todo, cts, rc, seen, hist>>
    BY <1>1 DEF vars, lockVars, histVars, txnVars, commitVars
  <2>2. \A t \in Thread : Same(t)
    BY <2>1 DEF Same
  <2>3. TypeOK'
    BY <2>1 DEF Inv, TypeOK, LockTypeOK
  <2>4. Locks' /\ HistoryCounted'
    BY <2>1, <2>2, SameThread DEF Inv, Locks, HistoryCounted
  <2>5. \A t \in Thread : Books(t)'
    BY <2>1, <2>2, SameThread DEF Inv, Books
  <2>6. \A t \in Thread : Times(t)'
    BY <2>1, <2>2, SameThread DEF Inv, Times
  <2>7. QED
    BY <2>3, <2>4, <2>5, <2>6 DEF Inv
<1>2. CASE Finished
  BY <1>1, <1>2 DEF Finished
<1>3. ASSUME NEW t \in Thread, Begin(t) \/ Step(t) \/ Abort(t)
      PROVE  Inv'
  <2>1. CASE Begin(t)
    BY <2>1, BeginStep
  <2>2. CASE Calls(t)
    BY <2>2, PinnedStep, LocalWriteStep, LookupStep, LookupOwnStep, LookupReadStep,
       LookupCheckStep DEF Calls
  <2>3. CASE Locking(t)
    BY <2>3, CommitBeginStep, LockPinStep, LockTryStep, ReleaseStep, LoopStep, StampStep,
       StampDoneStep DEF Locking
  <2>4. CASE Deciding(t)
    BY <2>4, ValidateLockStep, ValidateStampsStep, ReadDoneStep, ValidateExtendStep,
       ValidateDoneStep DEF Deciding
  <2>5. CASE Ending(t)
    BY <2>5, InstallStep, RecordStep, ReleaseStep, EndStep, UnpinStep, FinishStep DEF Ending
  <2>6. CASE Abort(t)
    BY <2>6, EndStep
  <2>7. QED
    BY <1>3, <2>1, <2>2, <2>3, <2>4, <2>5, <2>6 DEF Step
<1>4. QED
  BY <1>1, <1>2, <1>3 DEF Next

THEOREM Invariance == Spec => []Inv
<1>1. Init => Inv
  BY LockTableAssumption, TicTocDiskAssumption, InitInv
<1>2. Inv /\ [Next]_vars => Inv'
  BY LockTableAssumption, TicTocDiskAssumption, NextInv
<1>3. QED
  BY <1>1, <1>2, PTL DEF Spec

\* Every variable keeps its type: no wts is ever after its tuple's rts.
THEOREM TypeCorrectness == Spec => []TypeOK
<1>1. Inv => TypeOK
  BY DEF Inv
<1>2. QED
  BY <1>1, Invariance, PTL

\* For every number of threads and keys and every program, a lock is owned by
\* one thread, and each thread has locked what its place in the commit says:
\* the assertions of lock_table.c hold at every release.
THEOREM LocksOwned == Spec => []LockOwnership
<1>1. Inv => LockOwnership
  BY DEF Inv, Locks, LockOwnership
<1>2. QED
  BY <1>1, Invariance, PTL

\* A history entry is counted by those who hold it, and is there for them: it
\* is freed by the last one that unpins it, and by nobody else.
THEOREM HistoryReferences == Spec => []HistoryCounted
<1>1. Inv => HistoryCounted
  BY DEF Inv
<1>2. QED
  BY <1>1, Invariance, PTL
-----------------------------------------------------------------------------
(* The history of what committed.                                          *)

\* The labels of a transaction that has passed validation and still installs,
\* and of a thread whose transaction may have committed.
Recording == {"install", "record", "release"}
Over      == {"install", "record", "release", "unpin", "idle"}

\* A transaction that installs is in the history with its commit_ts.
Recorded(t) == pc[t] \in Recording => \E h \in hist : h.id = Id(t) /\ h.cts = cts[t]

\* Transactions are counted: a committed one does not come again.
Counted == \A h \in hist : /\ h.id[2] <= count[h.id[1]]
                           /\ h.id[2] = count[h.id[1]] => pc[h.id[1]] \in Over
Unique  == \A g, h \in hist : g.id = h.id => g = h

\* What is stored was committed.
Stored == \A k \in Key : \A i \in DOMAIN db[k] : \E h \in hist : h.id = db[k][i]

\* What a transaction has read is in its read set.
ReadsListed(t) == \A r \in reads[t] : ent[t][r.key].rd

HistInv ==
  /\ Inv
  /\ \A t \in Thread : Recorded(t) /\ ReadsListed(t)
  /\ Counted /\ Unique /\ Stored

\* Nothing deletes: no program does, and so no transaction.
NoDeletes ==
  \A t \in Thread : \A i \in DOMAIN Programs[t] : \A p \in Programs[t][i] :
    \A j \in DOMAIN p : p[j].op # "delete"
Keeping(t) == /\ \A i \in DOMAIN calls[t] : calls[t][i].op # "delete"
              /\ \A k \in Key : ent[t][k].wr # "delete"

\* Every version of a key was written no later than its tuple says, and in the
\* order of the commit timestamps.
Below   == \A k \in Key : \A i \in DOMAIN db[k] : \A h \in hist :
             h.id = db[k][i] => h.cts <= tuple[k].wts
InOrder == \A k \in Key : \A i, j \in DOMAIN db[k] : \A g, h \in hist :
             i < j /\ g.id = db[k][i] /\ h.id = db[k][j] => g.cts < h.cts

OrderInv == HistInv /\ (\A t \in Thread : Keeping(t)) /\ Below /\ InOrder

\* Every write of a key after its version v is in the log, but for one that its
\* transaction is about to log.
Logged(k, j)  == \E i \in DOMAIN log[k] : \E h \in hist :
                   h.id = db[k][j] /\ h.cts = log[k][i]
Pending(k, j) == \E u \in Thread : /\ pc[u] = "record" /\ Smallest(todo[u]) = k
                                   /\ db[k][j] = Id(u)
Covered(k, v) == \A j \in v + 1 .. Len(db[k]) : Logged(k, j) \/ Pending(k, j)

\* What a transaction has read, or is about to record, is covered.
Followed(t) ==
  /\ pc[t] # "unpin" => \A r \in reads[t] : Covered(r.key, r.ver)
  /\ pc[t] = "check" => Covered(CallKey(t), got[t])

FollowInv == HistInv /\ \A t \in Thread : Followed(t)

\* A step of t that commits, stores and logs nothing.
TuplesForward == \A k \in Key : /\ tuple'[k].wts >= tuple[k].wts
                                /\ tuple'[k].rts >= tuple[k].rts
Others(t) == \A u \in Thread : u # t => Same(u) /\ reads'[u] = reads[u]
Quiet(t) ==
  /\ Others(t) /\ hist' = hist /\ db' = db
  /\ pc[t] # "record"
  /\ \/ pc'[t] \notin Recording
     \/ pc[t] \in Recording /\ cts'[t] = cts[t] /\ count'[t] = count[t]
  /\ \/ count'[t] = count[t] /\ (pc[t] \in Over => pc'[t] \in Over)
     \/ count'[t] = count[t] + 1
  /\ TuplesForward
  /\ \A u \in Thread, k \in Key : ent[u][k].held /\ pc[u] # "unpin" => log'[k] = log[k]
  /\ \A r \in reads'[t] :
       /\ ent'[t][r.key].rd
       /\ pc'[t] # "unpin" =>
            \/ pc[t] # "unpin" /\ r \in reads[t]
            \/ pc[t] = "check" /\ r.key = CallKey(t) /\ r.ver = got[t]
  /\ pc'[t] = "check" => /\ CallKey(t)' = CallKey(t)
                         /\ got'[t] = Len(db[CallKey(t)])
  /\ NoDeletes /\ Keeping(t) => Keeping(t)'

LEMMA HistoryTypes ==
  ASSUME Inv
  PROVE  /\ \A h \in hist : h.cts \in Nat /\ h.id \in Txn /\ h.id[1] \in Thread /\ h.id[2] \in Nat
         /\ \A t \in Thread : /\ cts[t] \in Nat /\ count[t] \in Nat /\ Id(t) \in Txn
                              /\ \A r \in reads[t] : r.key \in Key /\ r.ver \in Nat
         /\ \A k \in Key : /\ db[k] \in Seq(Txn) /\ Len(db[k]) \in Nat
                           /\ log[k] \in Seq(Nat) /\ Len(log[k]) \in Nat
<1>1. \A h \in hist : h.cts \in Nat /\ h.id \in Txn
  BY DEF Inv, TypeOK, Commit
<1>2. \A t \in Thread : cts[t] \in Nat /\ count[t] \in Nat /\ reads[t] \in SUBSET Read
  BY DEF Inv, TypeOK
<1>3. \A k \in Key : db[k] \in Seq(Txn) /\ log[k] \in Seq(Nat)
  BY DEF Inv, TypeOK
<1>4. QED
  BY <1>1, <1>2, <1>3 DEF Id, Txn, Read

LEMMA QuietHistory ==
  ASSUME HistInv, Inv', NEW t \in Thread, Quiet(t)
  PROVE  HistInv'
<1>1. ASSUME NEW u \in Thread, u # t
      PROVE  Same(u) /\ Id(u)' = Id(u) /\ reads'[u] = reads[u]
  BY <1>1, SameThread DEF Quiet, Others
<1>2. ASSUME NEW u \in Thread PROVE Recorded(u)'
  <2>1. CASE u = t
    BY <2>1 DEF Quiet, HistInv, Recorded, Id
  <2>2. CASE u # t
    BY <1>1, <2>2 DEF Quiet, HistInv, Recorded, Same
  <2>3. QED
    BY <2>1, <2>2
<1>3. ASSUME NEW u \in Thread PROVE ReadsListed(u)'
  <2>1. CASE u = t
    BY <2>1 DEF Quiet, ReadsListed
  <2>2. CASE u # t
    BY <1>1, <2>2 DEF HistInv, ReadsListed, Same
  <2>3. QED
    BY <2>1, <2>2
<1>4. Counted'
  <2>1. ASSUME NEW h \in hist
        PROVE  h.id[2] <= count'[h.id[1]] /\ (h.id[2] = count'[h.id[1]] => pc'[h.id[1]] \in Over)
    <3>1. /\ h.id[1] \in Thread /\ h.id[2] \in Nat /\ count[h.id[1]] \in Nat
          /\ h.id[2] <= count[h.id[1]] /\ (h.id[2] = count[h.id[1]] => pc[h.id[1]] \in Over)
      BY HistoryTypes DEF HistInv, Counted
    <3>2. CASE h.id[1] = t
      BY <3>1, <3>2 DEF Quiet
    <3>3. CASE h.id[1] # t
      BY <1>1, <3>1, <3>3 DEF Same
    <3>4. QED
      BY <3>2, <3>3
  <2>2. QED
    BY <2>1 DEF Counted, Quiet
<1>5. Unique' /\ Stored'
  BY DEF Quiet, HistInv, Unique, Stored
<1>6. QED
  BY <1>2, <1>3, <1>4, <1>5 DEF HistInv

LEMMA QuietOrder ==
  ASSUME NoDeletes, OrderInv, Inv', NEW t \in Thread, Quiet(t)
  PROVE  OrderInv'
<1>1. HistInv'
  BY QuietHistory DEF OrderInv
<1>2. ASSUME NEW u \in Thread PROVE Keeping(u)'
  <2>1. CASE u = t
    BY <2>1 DEF Quiet, OrderInv
  <2>2. CASE u # t
    BY <2>2 DEF Quiet, Others, OrderInv, Keeping, Same
  <2>3. QED
    BY <2>1, <2>2
<1>3. Below'
  <2>1. ASSUME NEW k \in Key, NEW i \in DOMAIN db[k], NEW h \in hist, h.id = db[k][i]
        PROVE  h.cts <= tuple'[k].wts
    <3>1. /\ h.cts \in Nat /\ tuple[k].wts \in Nat /\ h.cts <= tuple[k].wts
          /\ tuple'[k].wts >= tuple[k].wts
      BY <2>1, HistoryTypes, TupleTypes DEF OrderInv, HistInv, Below, Quiet, TuplesForward
    <3>2. tuple'[k].wts \in Nat
      <4>1. tuple'[k] \in Tuple
        BY DEF Inv, TypeOK
      <4>2. QED
        BY <4>1 DEF Tuple, Absent, Orphan
    <3>3. QED
      BY <3>1, <3>2
  <2>2. QED
    BY <2>1 DEF Below, Quiet
<1>4. InOrder'
  BY DEF Quiet, OrderInv, InOrder
<1>5. QED
  BY <1>1, <1>2, <1>3, <1>4 DEF OrderInv

\* What is covered stays so while its history entry is left alone.
LEMMA StaysCovered ==
  ASSUME NEW t \in Thread, Quiet(t), NEW k \in Key, NEW v, Covered(k, v), log'[k] = log[k]
  PROVE  Covered(k, v)'
<1>1. ASSUME NEW j \in v + 1 .. Len(db[k]) PROVE Logged(k, j)' \/ Pending(k, j)'
  <2>1. CASE Logged(k, j)
    BY <2>1 DEF Logged, Quiet
  <2>2. ASSUME NEW u \in Thread, pc[u] = "record", Smallest(todo[u]) = k, db[k][j] = Id(u)
        PROVE  Pending(k, j)'
    <3>1. u # t /\ Same(u) /\ Id(u)' = Id(u)
      BY <2>2, SameThread DEF Quiet, Others
    <3>2. pc'[u] = "record" /\ Smallest(todo'[u]) = k /\ db'[k][j] = Id(u)'
      BY <2>2, <3>1 DEF Same, Quiet
    <3>3. QED
      BY <3>2 DEF Pending
  <2>3. QED
    BY <1>1, <2>1, <2>2 DEF Covered, Pending
<1>2. QED
  BY <1>1 DEF Covered, Quiet

\* A lookup that has read has a key.
CheckKeys == \A t \in Thread : pc[t] = "check" => CallKey(t) \in Key
LEMMA CheckKeysType == Inv => CheckKeys
  BY LockTableAssumption, ThreadTypes DEF CheckKeys, Books, Phase

LEMMA QuietFollow ==
  ASSUME LockTableAssumption, Forgiving, FollowInv, Inv', NEW t \in Thread, Quiet(t)
  PROVE  FollowInv'
<1>1. HistInv'
  BY QuietHistory DEF FollowInv
<1>2. ASSUME NEW u \in Thread, pc[u] # "unpin", NEW k \in ReadSet(u)
      PROVE  k \in Key /\ log'[k] = log[k]
  <2>1. k \in Pinned(u)
    BY <1>2 DEF FollowInv, HistInv, Inv, Books
  <2>2. QED
    BY <1>2, <2>1 DEF Pinned, Quiet
<1>3. ASSUME NEW u \in Thread, pc[u] # "unpin", NEW r \in reads[u]
      PROVE  Covered(r.key, r.ver)'
  <2>1. r.key \in ReadSet(u) /\ Covered(r.key, r.ver)
    BY <1>3, HistoryTypes DEF FollowInv, HistInv, ReadsListed, ReadSet, Followed
  <2>2. PICK k \in Key : k = r.key /\ log'[k] = log[k]
    BY <1>2, <1>3, <2>1
  <2>3. PICK v : v = r.ver
    OBVIOUS
  <2>4. Covered(k, v)'
    BY <2>1, <2>2, <2>3, StaysCovered
  <2>5. QED
    BY <2>2, <2>3, <2>4
<1>4. ASSUME NEW u \in Thread, pc[u] = "check", NEW k \in Key, k = CallKey(u), NEW v, v = got[u]
      PROVE  Covered(k, v)'
  <2>1. k \in ReadSet(u)
    BY <1>4 DEF FollowInv, HistInv, Inv, Books, Phase, ReadSet
  <2>2. log'[k] = log[k]
    BY <1>2, <1>4, <2>1
  <2>3. Covered(k, v)
    BY <1>4 DEF FollowInv, Followed
  <2>4. QED
    BY <2>2, <2>3, StaysCovered
<1>5. \A u \in Thread : pc[u] = "check" => CallKey(u) \in Key
  BY CheckKeysType DEF FollowInv, HistInv, CheckKeys
<1>6. ASSUME NEW u \in Thread, u # t PROVE Followed(u)'
  <2>1. /\ pc'[u] = pc[u] /\ reads'[u] = reads[u] /\ CallKey(u)' = CallKey(u)
        /\ got'[u] = got[u]
    BY <1>6, SameThread DEF Quiet, Others, Same
  <2>2. ASSUME pc'[u] # "unpin", NEW r \in reads'[u] PROVE Covered(r.key, r.ver)'
    BY <1>3, <2>1, <2>2
  <2>3. ASSUME pc'[u] = "check" PROVE Covered(CallKey(u), got[u])'
    <3>1. PICK k \in Key : k = CallKey(u)
      BY <1>5, <2>1, <2>3
    <3>2. PICK v : v = got[u]
      OBVIOUS
    <3>3. Covered(k, v)'
      BY <1>4, <2>1, <2>3, <3>1, <3>2
    <3>4. k = CallKey(u)' /\ v = got'[u]
      BY <2>1, <3>1, <3>2
    <3>5. QED
      BY <3>3, <3>4 DEF Covered, Logged, Pending
  <2>4. QED
    BY <2>2, <2>3 DEF Followed
<1>7. Followed(t)'
  <2>1. ASSUME pc'[t] # "unpin", NEW r \in reads'[t] PROVE Covered(r.key, r.ver)'
    <3>1. CASE pc[t] # "unpin" /\ r \in reads[t]
      BY <1>3, <3>1
    <3>2. CASE pc[t] = "check" /\ r.key = CallKey(t) /\ r.ver = got[t]
      <4>1. r.key \in Key
        BY <1>5, <3>2
      <4>2. PICK k \in Key : k = r.key
        BY <4>1
      <4>3. PICK v : v = r.ver
        OBVIOUS
      <4>4. Covered(k, v)'
        BY <1>4, <3>2, <4>2, <4>3
      <4>5. QED
        BY <4>2, <4>3, <4>4
    <3>3. QED
      BY <2>1, <3>1, <3>2 DEF Quiet
  <2>2. ASSUME pc'[t] = "check" PROVE Covered(CallKey(t), got[t])'
    <3>1. CallKey(t)' = CallKey(t) /\ got'[t] = Len(db[CallKey(t)]) /\ db' = db
      BY <2>2 DEF Quiet
    <3>2. CallKey(t)' \in Key
      <4>1. CheckKeys'
        BY CheckKeysType, PTL
      <4>2. QED
        BY <2>2, <4>1 DEF CheckKeys
    <3>3. Len(db[CallKey(t)]) \in Nat
      BY <3>1, <3>2, HistoryTypes DEF FollowInv, HistInv
    <3>4. \A j \in got'[t] + 1 .. Len(db'[CallKey(t)']) : FALSE
      BY <3>1, <3>3
    <3>5. QED
      BY <3>4 DEF Covered
  <2>3. QED
    BY <2>1, <2>2 DEF Followed
<1>8. QED
  BY <1>1, <1>6, <1>7 DEF FollowInv
-----------------------------------------------------------------------------
(* The steps that commit, store and log nothing.                           *)

LEMMA PlainQuiet ==
  ASSUME HistInv, NEW t \in Thread, Others(t), UNCHANGED <<tuple, db, log, hist>>,
         reads'[t] = reads[t], pc[t] # "record", pc'[t] # "check",
         \/ pc'[t] \notin Recording
         \/ pc[t] \in Recording /\ cts'[t] = cts[t] /\ count'[t] = count[t],
         \/ count'[t] = count[t] /\ (pc[t] \in Over => pc'[t] \in Over)
         \/ count'[t] = count[t] + 1,
         pc[t] = "unpin" => pc'[t] = "unpin",
         \A k \in Key : ent[t][k].rd => ent'[t][k].rd,
         NoDeletes /\ Keeping(t) => Keeping(t)'
  PROVE  Quiet(t)
<1>1. TuplesForward
  BY TupleTypes DEF TuplesForward, HistInv
<1>2. \A r \in reads'[t] : r.key \in Key /\ r \in reads[t] /\ ent'[t][r.key].rd
  BY HistoryTypes DEF HistInv, ReadsListed
<1>3. QED
  BY <1>1, <1>2 DEF Quiet

\* The writes of a transaction that keeps to what its program says.
LEMMA KeepingSame ==
  ASSUME NEW t \in Thread, calls'[t] = calls[t],
         \A k \in Key : ent'[t][k].wr = ent[t][k].wr
  PROVE  Keeping(t) => Keeping(t)'
  BY DEF Keeping

LEMMA KeepingTail ==
  ASSUME Inv, NEW t \in Thread, calls[t] # <<>>, Keeping(t)
  PROVE  /\ Head(calls[t]).op # "delete"
         /\ \A i \in DOMAIN Tail(calls[t]) : Tail(calls[t])[i].op # "delete"
<1>1. calls[t] \in Seq(Op)
  BY DEF Inv, TypeOK
<1>2. 1 \in DOMAIN calls[t] /\ Head(calls[t]) = calls[t][1]
  BY <1>1
<1>3. \A i \in DOMAIN Tail(calls[t]) : i + 1 \in DOMAIN calls[t] /\ Tail(calls[t])[i] = calls[t][i + 1]
  BY <1>1
<1>4. QED
  BY <1>2, <1>3 DEF Keeping

LEMMA CallQuiet ==
  ASSUME LockTableAssumption, TicTocDiskAssumption, HistInv, NEW t \in Thread,
         \/ Begin(t) \/ LocalWrite(t) \/ Lookup(t) \/ LookupOwn(t)
         \/ HistAlloc(t) \/ HistSpin(t)
  PROVE  Quiet(t)
<1>1. /\ pc \in [Thread -> Label] /\ back \in [Thread -> {"idle", "own", "read", "lock"}]
      /\ count \in [Thread -> Nat] /\ calls \in [Thread -> Seq(Op)]
      /\ order \in [Thread -> Seq(Key)] /\ ent \in [Thread -> [Key -> Entry]]
      /\ got \in [Thread -> Nat \cup {Own}] /\ back[t] \in {"own", "read", "lock", "idle"}
  BY DEF HistInv, Inv, TypeOK
<1>2. UNCHANGED <<tuple, db, hist, reads, mine, todo, cts, rc, log>>
  BY DEF Begin, LocalWrite, Lookup, LookupOwn, HistAlloc, HistSpin, Pin, lockVars, histVars,
         txnVars, commitVars
<1>3. Others(t)
  <2>1. CASE Begin(t) \/ HistAlloc(t) \/ HistSpin(t)
    BY <1>1, <1>2, <2>1 DEF Begin, HistAlloc, HistSpin, Goto, txnVars, Others, Same
  <2>2. CASE LocalWrite(t)
    BY <1>1, <1>2, <2>2 DEF LocalWrite, AddEntry, Return, Others, Same
  <2>3. CASE Lookup(t)
    BY <1>1, <1>2, <2>3 DEF Lookup, AddEntry, Pin, Goto, Others, Same
  <2>4. CASE LookupOwn(t)
    BY <1>1, <1>2, <2>4 DEF LookupOwn, Return, Goto, Others, Same
  <2>5. QED
    BY <2>1, <2>2, <2>3, <2>4
<1>4. CASE Begin(t)
  <2>1. PICK p \in Programs[t][count[t] + 1] : calls' = [calls EXCEPT ![t] = p]
    BY <1>4 DEF Begin
  <2>2. /\ pc[t] = "idle" /\ count[t] < Len(Programs[t]) /\ ent' = ent
        /\ pc' = [pc EXCEPT ![t] = "run"] /\ count' = [count EXCEPT ![t] = @ + 1]
    BY <1>4 DEF Begin, Goto
  <2>3. NoDeletes => \A j \in DOMAIN p : p[j].op # "delete"
    <3>1. Programs[t] \in Seq(SUBSET Seq(Op)) /\ count[t] \in Nat
      BY <1>1 DEF TicTocDiskAssumption
    <3>2. count[t] + 1 \in DOMAIN Programs[t]
      BY <2>2, <3>1
    <3>3. QED
      BY <3>2 DEF NoDeletes
  <2>4. calls'[t] = p /\ pc'[t] = "run" /\ count'[t] = count[t] + 1
    BY <1>1, <2>1, <2>2
  <2>5. NoDeletes /\ Keeping(t) => Keeping(t)'
    BY <2>2, <2>3, <2>4 DEF Keeping
  <2>6. QED
    BY <1>2, <1>3, <2>2, <2>4, <2>5, PlainQuiet DEF Recording, Over
<1>5. CASE LocalWrite(t)
  <2>1. /\ pc' = pc /\ pc[t] = "run" /\ calls[t] # <<>> /\ calls' = [calls EXCEPT ![t] = Tail(@)]
        /\ ent' = [ent EXCEPT ![t][CallKey(t)].wr = Head(calls[t]).op] /\ count' = count
    BY <1>5 DEF LocalWrite, Calling, Return
  <2>2. \A k \in Key : /\ ent'[t][k].rd = ent[t][k].rd
                       /\ ent'[t][k].wr \in {ent[t][k].wr, Head(calls[t]).op}
    BY <1>1, <2>1 DEF Entry
  <2>3. Keeping(t) => Keeping(t)'
    BY <1>1, <2>1, <2>2, KeepingTail DEF Keeping, HistInv
  <2>4. QED
    BY <1>2, <1>3, <2>1, <2>2, <2>3, PlainQuiet DEF Recording, Over
<1>6. CASE Lookup(t)
  <2>1. /\ pc[t] = "run" /\ count' = count /\ calls' = calls
        /\ ent' = [ent EXCEPT ![t][CallKey(t)].rd = TRUE, ![t][CallKey(t)].held = Forgiving]
    BY <1>6 DEF Lookup, Calling
  <2>2. pc'[t] \in {"alloc", "spin", "own", "read"}
    BY <1>1, <1>6 DEF Lookup, Pin, Goto
  <2>3. \A k \in Key : /\ ent[t][k].rd => ent'[t][k].rd
                       /\ ent'[t][k].wr = ent[t][k].wr
    BY <1>1, <2>1 DEF Entry
  <2>4. Keeping(t) => Keeping(t)'
    BY <2>1, <2>3, KeepingSame
  <2>5. QED
    BY <1>2, <1>3, <2>1, <2>2, <2>3, <2>4, PlainQuiet DEF Recording, Over
<1>7. CASE LookupOwn(t)
  <2>1. /\ pc[t] = "own" /\ pc' = [pc EXCEPT ![t] = "run"] /\ count' = count
        /\ calls' = [calls EXCEPT ![t] = Tail(@)]
    BY <1>7 DEF LookupOwn, Return, Goto
  <2>2. calls[t] # <<>> /\ CallKey(t) \in Key
    BY <2>1, ThreadTypes DEF HistInv, Inv, Books, Phase
  <2>3. PICK k \in Key : k = CallKey(t)
    BY <2>2
  <2>4. \/ ent' = ent
        \/ ent' = [ent EXCEPT ![t][k].wts = tuple[k].wts, ![t][k].rts = tuple[k].rts]
    BY <1>7, <2>3 DEF LookupOwn
  <2>5. \A j \in Key : ent'[t][j].rd = ent[t][j].rd /\ ent'[t][j].wr = ent[t][j].wr
    <3>1. CASE ent' = ent
      BY <3>1
    <3>2. CASE ent' = [ent EXCEPT ![t][k].wts = tuple[k].wts, ![t][k].rts = tuple[k].rts]
      BY <1>1, <3>2 DEF Entry
    <3>3. QED
      BY <2>4, <3>1, <3>2
  <2>6. Keeping(t) => Keeping(t)'
    BY <1>1, <2>1, <2>5, <2>2, KeepingTail DEF Keeping, HistInv
  <2>7. QED
    BY <1>1, <1>2, <1>3, <2>1, <2>5, <2>6, PlainQuiet DEF Recording, Over
<1>8. CASE HistAlloc(t) \/ HistSpin(t)
  <2>1. /\ pc[t] \in {"alloc", "spin"} /\ pc' = [pc EXCEPT ![t] = back[t]]
        /\ count' = count /\ calls' = calls /\ ent' = ent
    BY <1>8 DEF HistAlloc, HistSpin, Goto, txnVars
  <2>2. Keeping(t) => Keeping(t)'
    BY <2>1, KeepingSame
  <2>3. QED
    BY <1>1, <1>2, <1>3, <2>1, <2>2, PlainQuiet DEF Recording, Over
<1>9. QED
  BY <1>4, <1>5, <1>6, <1>7, <1>8

\* What a lookup has found is what the key had been written to.
LEMMA ReadQuiet ==
  ASSUME HistInv, NEW t \in Thread, LookupRead(t) \/ LookupCheck(t)
  PROVE  Quiet(t)
<1>1. /\ pc \in [Thread -> Label] /\ calls \in [Thread -> Seq(Op)]
      /\ ent \in [Thread -> [Key -> Entry]] /\ reads \in [Thread -> SUBSET Read]
      /\ got \in [Thread -> Nat \cup {Own}]
  BY DEF HistInv, Inv, TypeOK
<1>2. /\ UNCHANGED <<tuple, db, hist, mine, todo, cts, rc, log, count, order, back>>
      /\ pc[t] \in {"read", "check"}
  BY DEF LookupRead, LookupCheck, lockVars, histVars, commitVars
<1>3. CASE LookupRead(t)
  <2>1. /\ pc' = [pc EXCEPT ![t] = "check"] /\ got' = [got EXCEPT ![t] = Len(db[CallKey(t)])]
        /\ UNCHANGED <<calls, ent, reads>> /\ pc[t] = "read"
    BY <1>3 DEF LookupRead, Goto
  <2>2. /\ pc'[t] = "check" /\ got'[t] = Len(db[CallKey(t)]) /\ CallKey(t)' = CallKey(t)
        /\ Others(t)
    BY <1>1, <1>2, <2>1 DEF CallKey, Others, Same
  <2>3. TuplesForward
    BY <1>2, TupleTypes DEF TuplesForward, HistInv
  <2>4. \A r \in reads'[t] : r.key \in Key /\ r \in reads[t] /\ ent'[t][r.key].rd
    BY <2>1, HistoryTypes DEF HistInv, ReadsListed
  <2>5. Keeping(t) => Keeping(t)'
    BY <2>1, KeepingSame
  <2>6. QED
    BY <1>2, <2>1, <2>2, <2>3, <2>4, <2>5 DEF Quiet, Recording, Over
<1>4. CASE LookupCheck(t) /\ Busy(CallKey(t))
  <2>1. pc' = [pc EXCEPT ![t] = "read"] /\ UNCHANGED <<calls, ent, reads, got>>
    BY <1>4 DEF LookupCheck, Goto
  <2>2. pc'[t] = "read" /\ Others(t)
    BY <1>1, <1>2, <2>1 DEF Others, Same
  <2>3. Keeping(t) => Keeping(t)'
    BY <2>1, KeepingSame
  <2>4. QED
    BY <1>2, <2>1, <2>2, <2>3, PlainQuiet DEF Recording, Over
<1>5. CASE LookupCheck(t) /\ ~Busy(CallKey(t))
  <2>1. CallKey(t) \in Key /\ pc[t] = "check" /\ calls[t] # <<>> /\ ent[t][CallKey(t)].rd
    BY <1>5, CheckKeysType DEF LookupCheck, CheckKeys, HistInv, Inv, Books, Phase
  <2>2. PICK k \in Key : k = CallKey(t)
    BY <2>1
  <2>3. /\ pc' = [pc EXCEPT ![t] = "run"] /\ calls' = [calls EXCEPT ![t] = Tail(@)]
        /\ reads' = [reads EXCEPT ![t] = @ \cup {[key |-> k, ver |-> got[t]]}]
        /\ ent' = [ent EXCEPT ![t][k].wts = seen[t].wts, ![t][k].rts = seen[t].rts]
        /\ got' = got
    BY <1>5, <2>2 DEF LookupCheck, Return, Goto
  <2>4. pc'[t] = "run" /\ Others(t)
    BY <1>1, <1>2, <2>3 DEF Others, Same
  <2>5. \A j \in Key : ent'[t][j].rd = ent[t][j].rd /\ ent'[t][j].wr = ent[t][j].wr
    BY <1>1, <2>3 DEF Entry
  <2>6. TuplesForward
    BY <1>2, TupleTypes DEF TuplesForward, HistInv
  <2>7. \A r \in reads'[t] :
          /\ ent'[t][r.key].rd
          /\ (r \in reads[t] \/ (r.key = CallKey(t) /\ r.ver = got[t]))
    <3>1. \A r \in reads'[t] : r \in reads[t] \/ r = [key |-> k, ver |-> got[t]]
      BY <1>1, <2>3
    <3>2. \A r \in reads[t] : r.key \in Key /\ ent[t][r.key].rd
      BY HistoryTypes DEF HistInv, ReadsListed
    <3>3. QED
      BY <2>1, <2>2, <2>5, <3>1, <3>2
  <2>8. Keeping(t) => Keeping(t)'
    BY <1>1, <2>1, <2>3, <2>5, KeepingTail DEF Keeping, HistInv
  <2>9. QED
    BY <1>2, <2>1, <2>4, <2>6, <2>7, <2>8 DEF Quiet, Recording, Over
<1>6. QED
  BY <1>3, <1>4, <1>5
\* A step of a commit that stores nothing.
LEMMA StillQuiet ==
  ASSUME HistInv, NEW t \in Thread, \A u \in Thread : u # t => Same(u),
         UNCHANGED <<tuple, db, log, hist, count, calls, reads>>,
         \A k \in Key : ent'[t][k].rd = ent[t][k].rd /\ ent'[t][k].wr = ent[t][k].wr,
         pc[t] \notin {"record", "unpin"}, pc'[t] # "check",
         \/ pc'[t] \notin Recording
         \/ pc[t] \in Recording /\ cts'[t] = cts[t],
         pc[t] \in Over => pc'[t] \in Over
  PROVE  Quiet(t)
<1>1. Keeping(t) => Keeping(t)'
  BY KeepingSame
<1>2. Others(t)
  BY DEF Others
<1>3. QED
  BY <1>1, <1>2, PlainQuiet

LEMMA CommitQuiet ==
  ASSUME LockTableAssumption, HistInv, NEW t \in Thread,
         \/ CommitBegin(t) \/ LockPin(t) \/ LockTry(t) \/ BackOffUnlock(t) \/ LockRetry(t)
         \/ LockDone(t) \/ Stamp(t) \/ StampDone(t)
  PROVE  Quiet(t)
<1>1. /\ pc \in [Thread -> Label] /\ back \in [Thread -> {"idle", "own", "read", "lock"}]
      /\ ent \in [Thread -> [Key -> Entry]] /\ todo \in [Thread -> SUBSET Key]
      /\ cts \in [Thread -> Nat] /\ mine \in [Thread -> SUBSET Key]
  BY DEF HistInv, Inv, TypeOK, LockTypeOK
<1>2. /\ UNCHANGED <<tuple, db, log, hist, count, calls, order, got, reads, rc>>
      /\ pc[t] \in {"run", "lock", "backoff", "stamp"}
  BY DEF CommitBegin, LockPin, LockTry, BackOffUnlock, LockRetry, LockDone, Stamp, StampDone,
         Pin, histVars, txnVars, commitVars
<1>3. CASE LockPin(t)
  <2>1. todo[t] # {} /\ todo' = todo /\ cts' = cts /\ mine' = mine
    BY <1>3 DEF LockPin, commitVars, lockVars
  <2>2. PICK k \in Key : k = Smallest(todo[t])
    BY <2>1, ThreadTypes DEF HistInv
  <2>3. /\ Pin(t, k, "lock") /\ ent' = [ent EXCEPT ![t][k].held = TRUE]
    BY <1>3, <2>2 DEF LockPin
  <2>4. /\ \A u \in Thread : u # t => Same(u)
        /\ pc'[t] \in {"alloc", "spin"}
    BY <1>1, <1>2, <2>1, <2>3 DEF Pin, Goto, Same
  <2>5. \A j \in Key : ent'[t][j].rd = ent[t][j].rd /\ ent'[t][j].wr = ent[t][j].wr
    BY <1>1, <2>3 DEF Entry
  <2>6. QED
    BY <1>2, <2>4, <2>5, StillQuiet DEF Recording, Over
<1>4. ASSUME CommitBegin(t) \/ LockTry(t) \/ BackOffUnlock(t) \/ LockRetry(t)
               \/ LockDone(t) \/ Stamp(t) \/ StampDone(t)
      PROVE  Quiet(t)
  <2>1. ent' = ent /\ back' = back
    BY <1>4 DEF CommitBegin, LockTry, BackOffUnlock, LockRetry, LockDone, Stamp, StampDone, txnVars
  <2>2. /\ \A u \in Thread : u # t => pc'[u] = pc[u] /\ todo'[u] = todo[u]
        /\ pc'[t] \in {"lock", "backoff", "stamp", "validate"}
    <3>1. CASE CommitBegin(t) \/ LockRetry(t) \/ LockDone(t) \/ StampDone(t)
      BY <1>1, <3>1 DEF CommitBegin, LockRetry, LockDone, StampDone, Goto
    <3>2. CASE LockTry(t)
      BY <1>1, <3>2 DEF LockTry, BackOff, Goto
    <3>3. CASE BackOffUnlock(t) \/ Stamp(t)
      BY <1>1, <3>3 DEF BackOffUnlock, ReleaseNext, Stamp
    <3>4. QED
      BY <1>4, <3>1, <3>2, <3>3
  <2>3. \A u \in Thread : u # t => cts'[u] = cts[u]
    BY <1>1, <1>4 DEF CommitBegin, LockTry, BackOffUnlock, LockRetry, LockDone, Stamp, StampDone
  <2>4. \A u \in Thread : u # t => mine'[u] = mine[u]
    BY <1>1, <1>4 DEF CommitBegin, LockTry, BackOffUnlock, LockRetry, LockDone, Stamp, StampDone,
       ReleaseNext, ReleaseLock, TryAcquire, lockVars
  <2>5. \A u \in Thread : u # t => Same(u)
    BY <1>2, <2>1, <2>2, <2>3, <2>4 DEF Same
  <2>6. QED
    BY <1>2, <2>1, <2>2, <2>5, StillQuiet DEF Recording, Over
<1>5. QED
  BY <1>3, <1>4

LEMMA DecideQuiet ==
  ASSUME HistInv, NEW t \in Thread,
         \/ ValidateLock(t) \/ ValidateStamps(t) \/ ValidateDiffers(t) \/ ValidateAsk(t)
         \/ ValidateNext(t) \/ Release(t) \/ AbortUnlock(t) \/ Abort(t) \/ CommitEnd(t)
  PROVE  Quiet(t)
<1>1. /\ pc \in [Thread -> Label] /\ todo \in [Thread -> SUBSET Key]
      /\ rc \in [Thread -> {"ok", "busy", "deadlk"}] /\ mine \in [Thread -> SUBSET Key]
  BY DEF HistInv, Inv, TypeOK, LockTypeOK
<1>2. UNCHANGED <<tuple, db, log, hist, count, calls, order, ent, got, reads, back, cts>>
  BY DEF ValidateLock, ValidateStamps, ValidateDiffers, ValidateAsk, ValidateNext, Release,
         AbortUnlock, Abort, CommitEnd, histVars, txnVars
<1>3. \A u \in Thread : u # t => pc'[u] = pc[u]
  BY <1>1 DEF ValidateLock, ValidateStamps, ValidateDiffers, ValidateAsk, ValidateNext, Release,
              AbortUnlock, Abort, CommitEnd, GiveUp, Goto
<1>4. \A u \in Thread : u # t => todo'[u] = todo[u] /\ rc'[u] = rc[u]
  BY <1>1 DEF ValidateLock, ValidateStamps, ValidateDiffers, ValidateAsk, ValidateNext, Release,
              AbortUnlock, Abort, CommitEnd, GiveUp, ReleaseNext
<1>5. \A u \in Thread : u # t => mine'[u] = mine[u]
  BY <1>1 DEF ValidateLock, ValidateStamps, ValidateDiffers, ValidateAsk, ValidateNext, Release,
              AbortUnlock, Abort, CommitEnd, ReleaseNext, ReleaseIfTaken, ReleaseLock,
              TryAcquire, lockVars
<1>6. \A u \in Thread : u # t => Same(u)
  BY <1>2, <1>3, <1>4, <1>5 DEF Same
<1>7. CASE ValidateLock(t) \/ ValidateStamps(t) \/ ValidateDiffers(t) \/ ValidateAsk(t)
             \/ ValidateNext(t) \/ AbortUnlock(t)
  <2>1. /\ pc[t] \in {"validate", "stamps", "differs", "ask", "next", "unlock"}
        /\ pc'[t] \in {"stamps", "unlock", "differs", "extend", "next", "ask", "validate"}
    BY <1>1, <1>7 DEF ValidateLock, ValidateStamps, ValidateDiffers, ValidateAsk, ValidateNext,
                      AbortUnlock, GiveUp, Goto
  <2>2. QED
    BY <1>2, <1>6, <2>1, StillQuiet DEF Recording, Over
<1>8. CASE Release(t)
  BY <1>1, <1>2, <1>6, <1>8, StillQuiet DEF Release, Goto, Recording, Over
<1>9. CASE Abort(t) \/ CommitEnd(t)
  <2>1. pc[t] \in {"run", "install", "unlock"} /\ pc'[t] = "unpin"
    BY <1>1, <1>9 DEF Abort, CommitEnd, Goto
  <2>2. QED
    BY <1>2, <1>6, <2>1, StillQuiet DEF Recording, Over
<1>10. QED
  BY <1>7, <1>8, <1>9

\* The rts goes up to commit_ts, the wts stays what it was.
LEMMA ExtendQuiet ==
  ASSUME LockTableAssumption, HistInv, NEW t \in Thread, ValidateExtend(t)
  PROVE  Quiet(t)
<1>1. /\ pc[t] = "extend" /\ Books(t) /\ Times(t) /\ cts[t] \in Nat /\ todo[t] # {}
  BY ThreadTypes DEF ValidateExtend, HistInv, Inv, Books, Looking
<1>2. PICK k \in Key : k = Validated(t)
  BY <1>1, ValidatedMember DEF HistInv, Looking
<1>3. /\ tuple' = [tuple EXCEPT ![k] = IF @.kind = "value" THEN [@ EXCEPT !.rts = cts[t]]
                                       ELSE Orphan]
      /\ pc' = [pc EXCEPT ![t] = "next"]
      /\ UNCHANGED <<mine, db, log, back, count, calls, order, ent, got, reads, todo, cts, rc,
                     hist>>
  BY <1>2 DEF ValidateExtend, MoveRts, Goto, lockVars, histVars, txnVars, commitVars
<1>4. tuple[k].rts < cts[t] /\ tuple[k] \in Tuple /\ tuple \in [Key -> Tuple]
  BY <1>1, <1>2 DEF Times, HistInv, Inv, TypeOK
<1>5. tuple'[k].wts >= tuple[k].wts /\ tuple'[k].rts >= tuple[k].rts
  BY <1>1, <1>3, <1>4 DEF Tuple, Absent, Orphan
<1>6. TuplesForward
  BY <1>3, <1>4, <1>5, TupleTypes DEF TuplesForward, HistInv
<1>7. pc'[t] = "next" /\ Others(t)
  BY <1>3 DEF Others, Same, HistInv, Inv, TypeOK
<1>8. \A r \in reads'[t] : r.key \in Key /\ r \in reads[t] /\ ent'[t][r.key].rd
  BY <1>3, HistoryTypes DEF HistInv, ReadsListed
<1>9. Keeping(t) => Keeping(t)'
  BY <1>3, KeepingSame
<1>10. QED
  BY <1>1, <1>3, <1>6, <1>7, <1>8, <1>9 DEF Quiet, Recording, Over

\* The last holder clears the log, and nobody reads the key then.
LEMMA EndQuiet ==
  ASSUME LockTableAssumption, TicTocDiskAssumption, HistInv, NEW t \in Thread, Unpin(t) \/ Finish(t)
  PROVE  Quiet(t)
<1>1. /\ pc \in [Thread -> Label] /\ ent \in [Thread -> [Key -> Entry]]
      /\ todo \in [Thread -> SUBSET Key] /\ log \in [Key -> Seq(Nat)]
      /\ calls \in [Thread -> Seq(Op)] /\ reads \in [Thread -> SUBSET Read]
  BY DEF HistInv, Inv, TypeOK
<1>2. /\ UNCHANGED <<tuple, db, hist, mine, back, count>> /\ pc[t] = "unpin"
  BY DEF Unpin, Finish, lockVars
<1>3. TuplesForward
  BY <1>2, TupleTypes DEF TuplesForward, HistInv
<1>4. CASE Unpin(t)
  <2>1. todo[t] # {} /\ todo[t] = Pinned(t) /\ Books(t)
    BY <1>2, <1>4, ThreadTypes DEF Unpin, Books, HistInv
  <2>2. PICK k \in Key : k = First(t, todo[t]) /\ ent[t][k].held
    BY <2>1, FirstMember DEF Pinned, HistInv
  <2>3. /\ Unpin1(k) /\ todo' = [todo EXCEPT ![t] = @ \ {k}]
        /\ ent' = [ent EXCEPT ![t][k].held = FALSE]
        /\ UNCHANGED <<pc, calls, order, got, reads, cts, rc>>
    BY <1>4, <2>2 DEF Unpin
  <2>4. \A j \in Key : ent'[t][j].rd = ent[t][j].rd /\ ent'[t][j].wr = ent[t][j].wr
    BY <1>1, <2>3 DEF Entry
  <2>5. pc'[t] = "unpin" /\ Others(t)
    BY <1>1, <1>2, <2>3 DEF Others, Same
  <2>6. ASSUME NEW u \in Thread, NEW j \in Key, ent[u][j].held, pc[u] # "unpin"
        PROVE  log'[j] = log[j]
    <3>1. CASE j = k
      BY <1>2, <2>2, <2>3, <2>6, <3>1, HeldCounted DEF HistInv, Unpin1
    <3>2. CASE j # k
      BY <1>1, <2>3, <3>2 DEF Unpin1
    <3>3. QED
      BY <3>1, <3>2
  <2>7. \A r \in reads'[t] : ent'[t][r.key].rd
    BY <2>3, <2>4, HistoryTypes DEF HistInv, ReadsListed
  <2>8. Keeping(t) => Keeping(t)'
    BY <2>3, <2>4, KeepingSame
  <2>9. QED
    BY <1>2, <1>3, <2>3, <2>5, <2>6, <2>7, <2>8 DEF Quiet, Recording, Over
<1>5. CASE Finish(t)
  <2>1. /\ pc' = [pc EXCEPT ![t] = "idle"] /\ calls' = [calls EXCEPT ![t] = <<>>]
        /\ ent' = [ent EXCEPT ![t] = [k \in Key |-> NoEntry]]
        /\ reads' = [reads EXCEPT ![t] = {}] /\ log' = log
    BY <1>5 DEF Finish, Goto, histVars
  <2>2. pc'[t] = "idle" /\ reads'[t] = {}
    BY <1>1, <2>1
  <2>3. Others(t)
    BY <1>1, <1>2, <1>5, <2>1 DEF Finish, Others, Same
  <2>4. Keeping(t)'
    BY <1>1, <2>1 DEF Keeping, NoEntry
  <2>5. QED
    BY <1>2, <1>3, <2>1, <2>2, <2>3, <2>4 DEF Quiet, Recording, Over
<1>6. QED
  BY <1>4, <1>5

-----------------------------------------------------------------------------
(* The steps that commit, store or log.                                    *)

LEMMA RealEffect ==
  ASSUME LockTableAssumption, Inv, NEW t \in Thread, ValidateDone(t) \/ Install(t) \/ Record(t)
  PROVE  /\ Others(t) /\ UNCHANGED <<count, ent, reads, calls, cts>>
         /\ pc'[t] \in Recording /\ (Keeping(t) => Keeping(t)')
<1>1. /\ pc \in [Thread -> Label] /\ todo \in [Thread -> SUBSET Key]
  BY DEF Inv, TypeOK
<1>2. UNCHANGED <<count, ent, reads, calls, cts, back, order, got, rc, mine>>
  BY DEF ValidateDone, Install, Record, txnVars, commitVars, lockVars
<1>3. pc'[t] \in Recording /\ \A u \in Thread : u # t => pc'[u] = pc[u] /\ todo'[u] = todo[u]
  BY <1>1 DEF ValidateDone, Install, Record, Goto, Recording, commitVars
<1>4. Others(t)
  BY <1>2, <1>3 DEF Others, Same
<1>5. Keeping(t) => Keeping(t)'
  BY <1>2 DEF Keeping
<1>6. QED
  BY <1>2, <1>3, <1>4, <1>5

LEMMA RealHistory ==
  ASSUME HistInv, Inv', NEW t \in Thread, Others(t), UNCHANGED <<count, ent, reads>>,
         pc'[t] \in Recording, Recorded(t)', Unique', Stored', hist \subseteq hist',
         \A h \in hist' : h \in hist \/ h.id = Id(t)
  PROVE  HistInv'
<1>1. ASSUME NEW u \in Thread, u # t
      PROVE  Same(u) /\ Id(u)' = Id(u)
  BY <1>1, SameThread DEF Others
<1>2. ASSUME NEW u \in Thread PROVE Recorded(u)'
  <2>1. CASE u = t
    BY <2>1
  <2>2. CASE u # t
    BY <1>1, <2>2 DEF HistInv, Recorded, Same
  <2>3. QED
    BY <2>1, <2>2
<1>3. ASSUME NEW u \in Thread PROVE ReadsListed(u)'
  BY DEF HistInv, ReadsListed
<1>4. Counted'
  <2>1. ASSUME NEW h \in hist'
        PROVE  h.id[2] <= count[h.id[1]] /\ (h.id[2] = count[h.id[1]] => pc'[h.id[1]] \in Over)
    <3>1. CASE h \in hist /\ h.id[1] # t
      BY <1>1, <3>1, HistoryTypes DEF HistInv, Counted, Same
    <3>2. CASE h \in hist /\ h.id[1] = t
      BY <3>2, HistoryTypes DEF HistInv, Counted, Recording, Over
    <3>3. CASE h.id = Id(t)
      <4>1. h.id[1] = t /\ h.id[2] = count[t] /\ count[t] \in Nat
        <5>1. count[t] \in Nat
          BY HistoryTypes DEF HistInv
        <5>2. QED
          BY <3>3, <5>1 DEF Id
      <4>2. QED
        BY <4>1 DEF Recording, Over
    <3>4. QED
      BY <2>1, <3>1, <3>2, <3>3
  <2>2. QED
    BY <2>1 DEF Counted
<1>5. QED
  BY <1>2, <1>3, <1>4 DEF HistInv

\* A thread that has not committed the transaction it runs: no write has its
\* number, in the history or stored.
LEMMA Uncommitted ==
  ASSUME HistInv, NEW t \in Thread, pc[t] \notin Over
  PROVE  /\ \A h \in hist : h.id # Id(t)
         /\ \A k \in Key : \A i \in DOMAIN db[k] : db[k][i] # Id(t)
<1>1. \A h \in hist : h.id # Id(t)
  BY DEF HistInv, Counted, Id
<1>2. QED
  BY <1>1 DEF HistInv, Stored

LEMMA DoneEffect ==
  ASSUME LockTableAssumption, HistInv, Inv', NEW t \in Thread, ValidateDone(t)
  PROVE  /\ HistInv' /\ UNCHANGED <<db, tuple, log>> /\ pc[t] = "validate"
         /\ hist \subseteq hist'
         /\ \A h \in hist' : h \in hist \/ h.id = Id(t)
<1> DEFINE new == [id |-> Id(t), cts |-> cts[t], reads |-> reads[t]]
<1>1. /\ pc[t] = "validate" /\ hist' = hist \cup {new} /\ UNCHANGED <<db, tuple, log>>
  BY DEF ValidateDone, histVars
<1>2. new.id = Id(t) /\ new.cts = cts[t]
  OBVIOUS
<1> HIDE DEF new
<1>3. /\ Others(t) /\ UNCHANGED <<count, ent, reads, cts>> /\ pc'[t] \in Recording
  BY RealEffect DEF HistInv
<1>4. \A h \in hist : h.id # Id(t)
  BY <1>1, Uncommitted DEF Over
<1>5. Recorded(t)'
  BY <1>1, <1>2, <1>3 DEF Recorded, Id
<1>6. Unique' /\ Stored'
  BY <1>1, <1>2, <1>4 DEF HistInv, Unique, Stored
<1>7. HistInv'
  BY <1>1, <1>2, <1>3, <1>5, <1>6, RealHistory
<1>8. QED
  BY <1>1, <1>2, <1>7

LEMMA InstallEffect ==
  ASSUME LockTableAssumption, HistInv, Inv', NEW t \in Thread, Install(t),
         NEW k \in Key, k = Smallest(todo[t])
  PROVE  /\ HistInv' /\ UNCHANGED <<hist, log, todo>> /\ pc[t] = "install"
         /\ pc'[t] = (IF Forgiving THEN "record" ELSE "release") /\ k \in todo[t]
         /\ tuple'[k] = (IF ent[t][k].wr = "delete" THEN Absent
                         ELSE [kind |-> "value", wts |-> cts[t], rts |-> cts[t]])
         /\ \A j \in Key : j # k => tuple'[j] = tuple[j] /\ db'[j] = db[j]
         /\ Len(db'[k]) = Len(db[k]) + 1 /\ db'[k][Len(db[k]) + 1] = Id(t)
         /\ \A i \in DOMAIN db[k] : db'[k][i] = db[k][i]
         /\ DOMAIN db'[k] = DOMAIN db[k] \cup {Len(db[k]) + 1}
<1>1. pc[t] = "install" /\ todo[t] # {} /\ UNCHANGED <<hist, log, todo>>
  BY DEF Install, histVars, commitVars
<1>2. k \in todo[t]
  BY <1>1, ThreadTypes DEF HistInv
<1>3. /\ tuple \in [Key -> Tuple] /\ pc \in [Thread -> Label] /\ db \in [Key -> Seq(Txn)]
      /\ Id(t) \in Txn /\ db[k] \in Seq(Txn)
  BY HistoryTypes DEF HistInv, Inv, TypeOK
<1>4. /\ tuple' = [tuple EXCEPT ![k] = IF ent[t][k].wr = "delete" THEN Absent
                                       ELSE [kind |-> "value", wts |-> cts[t], rts |-> cts[t]]]
      /\ db' = [db EXCEPT ![k] = Append(@, Id(t))]
      /\ pc' = [pc EXCEPT ![t] = IF Forgiving THEN "record" ELSE "release"]
  BY DEF Install, Store, Goto
<1>5. /\ tuple'[k] = (IF ent[t][k].wr = "delete" THEN Absent
                      ELSE [kind |-> "value", wts |-> cts[t], rts |-> cts[t]])
      /\ \A j \in Key : j # k => tuple'[j] = tuple[j] /\ db'[j] = db[j]
      /\ db'[k] = Append(db[k], Id(t)) /\ pc'[t] = (IF Forgiving THEN "record" ELSE "release")
  BY <1>3, <1>4
<1>6. /\ Len(db'[k]) = Len(db[k]) + 1 /\ db'[k][Len(db[k]) + 1] = Id(t)
      /\ \A i \in DOMAIN db[k] : db'[k][i] = db[k][i]
      /\ DOMAIN db'[k] = DOMAIN db[k] \cup {Len(db[k]) + 1}
  BY <1>3, <1>5
<1>7. /\ Others(t) /\ UNCHANGED <<count, ent, reads, cts>> /\ pc'[t] \in Recording
  BY RealEffect DEF HistInv
<1>8. Recorded(t)'
  BY <1>1, <1>7 DEF HistInv, Recorded, Recording, Id
<1>9. Unique' /\ Stored'
  <2>1. ASSUME NEW j \in Key, NEW i \in DOMAIN db'[j] PROVE \E h \in hist : h.id = db'[j][i]
    <3>1. CASE j = k /\ i = Len(db[k]) + 1
      BY <1>1, <1>6, <3>1 DEF HistInv, Recorded, Recording
    <3>2. CASE i \in DOMAIN db[j] /\ db'[j][i] = db[j][i]
      BY <3>2 DEF HistInv, Stored
    <3>3. QED
      BY <1>5, <1>6, <2>1, <3>1, <3>2
  <2>2. QED
    BY <1>1, <2>1 DEF HistInv, Unique, Stored
<1>10. HistInv'
  BY <1>1, <1>7, <1>8, <1>9, RealHistory
<1>11. QED
  BY <1>1, <1>2, <1>5, <1>6, <1>10

LEMMA RecordEffect ==
  ASSUME LockTableAssumption, HistInv, Inv', NEW t \in Thread, Record(t),
         NEW k \in Key, k = Smallest(todo[t])
  PROVE  /\ HistInv' /\ UNCHANGED <<hist, db, tuple, todo>> /\ pc[t] = "record"
         /\ \E h \in hist : h.id = Id(t) /\ h.cts = cts[t]
         /\ \A j \in Key : j # k => log'[j] = log[j]
         /\ \A i \in DOMAIN log[k] : i \in DOMAIN log'[k] /\ log'[k][i] = log[k][i]
         /\ Len(log[k]) < MaxLog =>
              Len(log[k]) + 1 \in DOMAIN log'[k] /\ log'[k][Len(log[k]) + 1] = cts[t]
<1>1. pc[t] = "record" /\ UNCHANGED <<hist, db, tuple, todo>>
  BY DEF Record, commitVars
<1>2. log \in [Key -> Seq(Nat)] /\ log[k] \in Seq(Nat) /\ cts[t] \in Nat
  BY HistoryTypes DEF HistInv, Inv, TypeOK
<1>3. log' = IF Len(log[k]) < MaxLog THEN [log EXCEPT ![k] = Append(@, cts[t])] ELSE log
  BY DEF Record
<1>4. /\ \A j \in Key : j # k => log'[j] = log[j]
      /\ log'[k] = IF Len(log[k]) < MaxLog THEN Append(log[k], cts[t]) ELSE log[k]
  BY <1>2, <1>3
<1>5. /\ \A i \in DOMAIN log[k] : i \in DOMAIN log'[k] /\ log'[k][i] = log[k][i]
      /\ Len(log[k]) < MaxLog =>
           Len(log[k]) + 1 \in DOMAIN log'[k] /\ log'[k][Len(log[k]) + 1] = cts[t]
  BY <1>2, <1>4
<1>6. /\ Others(t) /\ UNCHANGED <<count, ent, reads, cts>> /\ pc'[t] \in Recording
  BY RealEffect DEF HistInv
<1>7. \E h \in hist : h.id = Id(t) /\ h.cts = cts[t]
  BY <1>1 DEF HistInv, Recorded, Recording
<1>8. Recorded(t)'
  BY <1>1, <1>6, <1>7 DEF Recorded, Id
<1>9. Unique' /\ Stored'
  BY <1>1 DEF HistInv, Unique, Stored
<1>10. HistInv'
  BY <1>1, <1>6, <1>8, <1>9, RealHistory
<1>11. QED
  BY <1>1, <1>4, <1>5, <1>7, <1>10

LEMMA SameForward ==
  ASSUME Inv, tuple' = tuple
  PROVE  TuplesForward
  BY TupleTypes DEF TuplesForward

\* With nothing deleted the real steps keep the order, and the tuple of a key
\* that is installed moves forward.
LEMMA RealOrder ==
  ASSUME LockTableAssumption, NoDeletes, OrderInv, Inv', NEW t \in Thread,
         ValidateDone(t) \/ Install(t) \/ Record(t)
  PROVE  OrderInv' /\ TuplesForward
<1>1. HistInv /\ Inv
  BY DEF OrderInv, HistInv
<1>2. \A u \in Thread : Keeping(u)'
  BY <1>1, RealEffect DEF OrderInv, Others, Same, Keeping
<1>3. CASE ValidateDone(t)
  <2>1. /\ HistInv' /\ db' = db /\ tuple' = tuple
        /\ \A h \in hist' : h \in hist \/ h.id = Id(t)
        /\ \A k \in Key : \A i \in DOMAIN db[k] : db[k][i] # Id(t)
    BY <1>1, <1>3, DoneEffect, Uncommitted DEF Over
  <2>2. Below' /\ InOrder'
    BY <2>1 DEF OrderInv, Below, InOrder
  <2>3. TuplesForward
    BY <1>1, <2>1, SameForward
  <2>4. QED
    BY <1>2, <2>1, <2>2, <2>3 DEF OrderInv
<1>4. CASE Install(t)
  <2>1. PICK k \in Key : k = Smallest(todo[t]) /\ k \in todo[t]
    BY <1>1, <1>4, ThreadTypes DEF Install
  <2>2. /\ HistInv' /\ hist' = hist /\ pc[t] = "install"
        /\ \A j \in Key : j # k => tuple'[j] = tuple[j] /\ db'[j] = db[j]
        /\ db'[k][Len(db[k]) + 1] = Id(t)
        /\ \A i \in DOMAIN db[k] : db'[k][i] = db[k][i]
        /\ DOMAIN db'[k] = DOMAIN db[k] \cup {Len(db[k]) + 1}
    BY <1>1, <1>4, <2>1, InstallEffect
  <2>3. tuple'[k].wts = cts[t] /\ tuple'[k].rts = cts[t]
    <3>1. ent[t][k].wr # "delete"
      BY DEF OrderInv, Keeping
    <3>2. tuple'[k] = (IF ent[t][k].wr = "delete" THEN Absent
                       ELSE [kind |-> "value", wts |-> cts[t], rts |-> cts[t]])
      BY <1>1, <1>4, <2>1, InstallEffect
    <3>3. QED
      BY <3>1, <3>2
  <2>4. /\ tuple[k].wts < cts[t] /\ tuple[k].rts <= cts[t] /\ cts[t] \in Nat
        /\ tuple[k].wts \in Nat /\ tuple[k].rts \in Nat
    <3>1. k \in Stamped(t) /\ Times(t)
      BY <1>1, <2>1, <2>2 DEF Stamped, Looking, Inv
    <3>2. QED
      BY <1>1, <3>1, HistoryTypes, TupleTypes DEF Times
  <2>5. TuplesForward
    <3>1. tuple'[k].wts >= tuple[k].wts /\ tuple'[k].rts >= tuple[k].rts
      BY <2>3, <2>4
    <3>2. \A j \in Key : j # k => /\ tuple'[j].wts >= tuple[j].wts
                                   /\ tuple'[j].rts >= tuple[j].rts
      <4>1. \A j \in Key : j # k => tuple'[j] = tuple[j]
        BY <2>2
      <4>2. QED
        BY <1>1, <4>1, TupleTypes
    <3>3. QED
      BY <3>1, <3>2 DEF TuplesForward
  <2>6. \A h \in hist : h.cts \in Nat /\ (h.id = Id(t) => h.cts = cts[t])
    BY <1>1, <2>2, HistoryTypes DEF HistInv, Recorded, Recording, Unique
  <2>7. /\ \A i \in DOMAIN db[k] : i \in Nat /\ i < Len(db[k]) + 1
        /\ \A i \in DOMAIN db[k] : \A h \in hist : h.id = db[k][i] => h.cts < cts[t]
    <3>1. \A i \in DOMAIN db[k] : i \in Nat /\ i < Len(db[k]) + 1
      BY <1>1, HistoryTypes
    <3>2. ASSUME NEW i \in DOMAIN db[k], NEW h \in hist, h.id = db[k][i] PROVE h.cts < cts[t]
      <4>1. h.cts <= tuple[k].wts
        BY <3>2 DEF OrderInv, Below
      <4>2. QED
        BY <2>4, <2>6, <4>1
    <3>3. QED
      BY <3>1, <3>2
  <2>8. Below'
    <3>1. ASSUME NEW j \in Key, j # k, NEW i \in DOMAIN db'[j], NEW h \in hist, h.id = db'[j][i]
          PROVE  h.cts <= tuple'[j].wts
      BY <2>2, <3>1 DEF OrderInv, Below
    <3>2. ASSUME NEW i \in DOMAIN db'[k], NEW h \in hist, h.id = db'[k][i]
          PROVE  h.cts <= tuple'[k].wts
      BY <2>2, <2>3, <2>4, <2>6, <2>7, <3>2
    <3>3. QED
      BY <2>2, <3>1, <3>2 DEF Below
  <2>9. InOrder'
    <3>1. ASSUME NEW j \in Key, j # k, NEW i \in DOMAIN db'[j], NEW l \in DOMAIN db'[j],
                 NEW g \in hist, NEW h \in hist, i < l, g.id = db'[j][i], h.id = db'[j][l]
          PROVE  g.cts < h.cts
      BY <2>2, <3>1 DEF OrderInv, InOrder
    <3>2. ASSUME NEW i \in DOMAIN db'[k], NEW l \in DOMAIN db'[k],
                 NEW g \in hist, NEW h \in hist, i < l, g.id = db'[k][i], h.id = db'[k][l]
          PROVE  g.cts < h.cts
      <4>1. CASE l \in DOMAIN db[k] /\ i \in DOMAIN db[k]
        BY <2>2, <3>2, <4>1 DEF OrderInv, InOrder
      <4>2. CASE l = Len(db[k]) + 1 /\ i \in DOMAIN db[k]
        BY <2>2, <2>6, <2>7, <3>2, <4>2
      <4>3. i \in DOMAIN db[k]
        <5>1. Len(db[k]) \in Nat
          BY <1>1, HistoryTypes
        <5>2. QED
          BY <2>2, <2>7, <3>2, <5>1
      <4>4. QED
        BY <2>2, <4>1, <4>2, <4>3
    <3>3. QED
      BY <2>2, <3>1, <3>2 DEF InOrder
  <2>10. QED
    BY <1>2, <2>2, <2>5, <2>8, <2>9 DEF OrderInv
<1>5. CASE Record(t)
  <2>1. PICK k \in Key : k = Smallest(todo[t])
    <3>1. todo[t] # {}
      BY <1>1, <1>5 DEF Record, Inv, Books
    <3>2. QED
      BY <1>1, <3>1, ThreadTypes
  <2>2. HistInv' /\ hist' = hist /\ db' = db /\ tuple' = tuple
    BY <1>1, <1>5, <2>1, RecordEffect
  <2>3. Below' /\ InOrder'
    <3>1. hist' = hist /\ db' = db /\ tuple' = tuple
      BY <2>2
    <3>2. Below'
      BY <3>1 DEF OrderInv, Below
    <3>3. InOrder'
      BY <3>1 DEF OrderInv, InOrder
    <3>4. QED
      BY <3>2, <3>3
  <2>4. TuplesForward
    BY <1>1, <2>2, SameForward
  <2>5. QED
    BY <1>2, <2>2, <2>3, <2>4 DEF OrderInv
<1>6. QED
  BY <1>3, <1>4, <1>5

\* The log of a key has room for the write that is about to be logged.
RoomInLog == \A t \in Thread : pc[t] = "record" => Len(log[Smallest(todo[t])]) < MaxLog

\* What is covered stays covered by a real step, when the log has room.

LEMMA RealCovers ==
  ASSUME LockTableAssumption, TicTocDiskAssumption, Forgiving, HistInv, Inv', RoomInLog,
         NEW t \in Thread, ValidateDone(t) \/ Install(t) \/ Record(t),
         NEW c \in Key, NEW v \in Nat, Covered(c, v)
  PROVE  Covered(c, v)'
<1>1. Inv /\ Others(t)
  BY RealEffect DEF HistInv
<1>2. ASSUME NEW u \in Thread, u # t
      PROVE  pc'[u] = pc[u] /\ todo'[u] = todo[u] /\ Id(u)' = Id(u)
  BY <1>1, <1>2, SameThread DEF Others, Same
<1>3. db[c] \in Seq(Txn) /\ Len(db[c]) \in Nat
  BY <1>1, HistoryTypes
<1>4. CASE ValidateDone(t)
  <2>1. /\ db' = db /\ log' = log /\ hist \subseteq hist' /\ pc[t] = "validate"
    BY <1>4, DoneEffect
  <2>2. ASSUME NEW j \in v + 1 .. Len(db[c]) PROVE Logged(c, j)' \/ Pending(c, j)'
    <3>1. CASE Logged(c, j)
      BY <2>1, <3>1 DEF Logged
    <3>2. CASE Pending(c, j)
      BY <1>2, <2>1, <3>2 DEF Pending
    <3>3. QED
      BY <2>2, <3>1, <3>2 DEF Covered
  <2>3. QED
    BY <2>1, <2>2 DEF Covered
<1>5. CASE Install(t)
  <2>1. PICK k \in Key : k = Smallest(todo[t])
    BY <1>1, <1>5, ThreadTypes DEF Install
  <2>2. /\ hist' = hist /\ log' = log /\ todo' = todo /\ pc[t] = "install" /\ pc'[t] = "record"
        /\ \A j \in Key : j # k => db'[j] = db[j]
        /\ Len(db'[k]) = Len(db[k]) + 1 /\ db'[k][Len(db[k]) + 1] = Id(t)
        /\ \A i \in DOMAIN db[k] : db'[k][i] = db[k][i]
    BY <1>5, <2>1, InstallEffect
  <2>3. Id(t)' = Id(t)
    BY <1>1, <1>5, RealEffect DEF Id
  <2>4. ASSUME NEW j \in v + 1 .. Len(db[c]) PROVE Logged(c, j)' \/ Pending(c, j)'
    <3>1. db'[c][j] = db[c][j]
      BY <1>3, <2>2
    <3>2. CASE Logged(c, j)
      BY <2>2, <3>1, <3>2 DEF Logged
    <3>3. CASE Pending(c, j)
      BY <1>2, <2>2, <3>1, <3>3 DEF Pending
    <3>4. QED
      BY <2>4, <3>2, <3>3 DEF Covered
  <2>5. CASE c = k
    <3>1. PICK n \in Nat : n = Len(db[c]) + 1
      BY <1>3
    <3>2. ASSUME NEW j \in v + 1 .. Len(db'[c]) PROVE Logged(c, j)' \/ Pending(c, j)'
      <4>1. Pending(c, n)'
        BY <2>1, <2>2, <2>3, <2>5, <3>1 DEF Pending
      <4>2. j \in v + 1 .. Len(db[c]) \/ j = n
        BY <1>3, <2>2, <2>5, <3>1, <3>2
      <4>3. QED
        BY <2>4, <4>1, <4>2
    <3>3. QED
      BY <3>2 DEF Covered
  <2>6. CASE c # k
    BY <2>2, <2>4, <2>6 DEF Covered
  <2>7. QED
    BY <2>5, <2>6
<1>6. CASE Record(t)
  <2>1. PICK k \in Key : k = Smallest(todo[t])
    <3>1. todo[t] # {}
      BY <1>1, <1>6 DEF Record, Inv, Books
    <3>2. QED
      BY <1>1, <3>1, ThreadTypes
  <2>2. /\ hist' = hist /\ db' = db
        /\ \A j \in Key : j # k => log'[j] = log[j]
        /\ \A i \in DOMAIN log[k] : i \in DOMAIN log'[k] /\ log'[k][i] = log[k][i]
    BY <1>6, <2>1, RecordEffect
  <2>3. PICK h \in hist : h.id = Id(t) /\ h.cts = cts[t]
    BY <1>6, <2>1, RecordEffect
  <2>4. Len(log[k]) + 1 \in DOMAIN log'[k] /\ log'[k][Len(log[k]) + 1] = cts[t]
    BY <1>6, <2>1, RecordEffect DEF RoomInLog
  <2>5. ASSUME NEW j \in v + 1 .. Len(db[c]) PROVE Logged(c, j)' \/ Pending(c, j)'
    <3>1. CASE Logged(c, j)
      <4>1. PICK i \in DOMAIN log[c] : \E g \in hist : g.id = db[c][j] /\ g.cts = log[c][i]
        BY <3>1 DEF Logged
      <4>2. i \in DOMAIN log'[c] /\ log'[c][i] = log[c][i]
        BY <2>2
      <4>3. QED
        BY <2>2, <4>1, <4>2 DEF Logged
    <3>2. ASSUME NEW u \in Thread, pc[u] = "record", Smallest(todo[u]) = c, db[c][j] = Id(u)
          PROVE  Logged(c, j)' \/ Pending(c, j)'
      <4>1. CASE u # t
        BY <1>2, <2>2, <3>2, <4>1 DEF Pending
      <4>2. CASE u = t
        BY <2>1, <2>2, <2>3, <2>4, <3>2, <4>2 DEF Logged
      <4>3. QED
        BY <4>1, <4>2
    <3>3. QED
      BY <2>5, <3>1, <3>2 DEF Covered, Pending
  <2>6. QED
    BY <2>2, <2>5 DEF Covered
<1>7. QED
  BY <1>4, <1>5, <1>6

LEMMA RealFollow ==
  ASSUME LockTableAssumption, TicTocDiskAssumption, Forgiving, FollowInv, Inv', RoomInLog,
         NEW t \in Thread, ValidateDone(t) \/ Install(t) \/ Record(t)
  PROVE  FollowInv'
<1>1. HistInv /\ Inv
  BY DEF FollowInv, HistInv
<1>2. HistInv'
  <2>1. CASE ValidateDone(t)
    BY <1>1, <2>1, DoneEffect
  <2>2. CASE Install(t) \/ Record(t)
    <3>1. todo[t] # {}
      BY <1>1, <2>2 DEF Install, Record, Inv, Books
    <3>2. PICK k \in Key : k = Smallest(todo[t])
      BY <1>1, <3>1, ThreadTypes
    <3>3. QED
      BY <1>1, <2>2, <3>2, InstallEffect, RecordEffect
  <2>3. QED
    BY <2>1, <2>2
<1>3. /\ Others(t) /\ reads' = reads /\ calls' = calls /\ pc'[t] # "check" /\ pc[t] # "unpin"
  BY <1>1, RealEffect DEF Recording, ValidateDone, Install, Record
<1>4. ASSUME NEW u \in Thread PROVE Followed(u)'
  <2>1. ASSUME pc'[u] # "unpin", NEW r \in reads[u] PROVE Covered(r.key, r.ver)'
    <3>1. pc[u] # "unpin"
      BY <1>3, <2>1 DEF Others, Same
    <3>2. r.key \in Key /\ r.ver \in Nat
      BY <1>1, <2>1, HistoryTypes
    <3>3. PICK c \in Key, v \in Nat : c = r.key /\ v = r.ver
      BY <3>2
    <3>4. Covered(c, v)
      BY <2>1, <3>1, <3>3 DEF FollowInv, Followed
    <3>5. Covered(c, v)'
      BY <1>1, <3>4, RealCovers
    <3>6. QED
      BY <3>3, <3>5
  <2>2. ASSUME pc'[u] = "check" PROVE Covered(CallKey(u), got[u])'
    <3>1. u # t
      BY <1>3, <2>2
    <3>2. pc[u] = "check" /\ got'[u] = got[u] /\ CallKey(u)' = CallKey(u)
      BY <1>3, <2>2, <3>1 DEF Others, Same, CallKey
    <3>3. CallKey(u) \in Key /\ got[u] \in Nat
      BY <1>1, <3>2, CheckKeysType DEF CheckKeys, Inv, Books
    <3>4. PICK c \in Key, v \in Nat : c = CallKey(u) /\ v = got[u]
      BY <3>3
    <3>5. Covered(c, v)
      BY <3>2, <3>4 DEF FollowInv, Followed
    <3>6. Covered(c, v)'
      BY <1>1, <3>5, RealCovers
    <3>7. c = CallKey(u)' /\ v = got'[u]
      BY <3>2, <3>4
    <3>8. QED
      BY <3>6, <3>7 DEF Covered, Logged, Pending
  <2>3. QED
    BY <1>3, <2>1, <2>2 DEF Followed
<1>5. QED
  BY <1>2, <1>4 DEF FollowInv

-----------------------------------------------------------------------------
(* The theorems about the history.                                         *)

LEMMA InitHistory ==
  ASSUME LockTableAssumption, TicTocDiskAssumption, Init
  PROVE  OrderInv /\ FollowInv
<1>1. /\ Inv /\ hist = {} /\ \A k \in Key : db[k] = <<>>
      /\ \A t \in Thread : /\ pc[t] = "idle" /\ reads[t] = {} /\ calls[t] = <<>>
                           /\ \A k \in Key : ent[t][k] = NoEntry
  BY InitInv DEF Init
<1>2. HistInv
  BY <1>1 DEF HistInv, Recorded, Recording, ReadsListed, Counted, Unique, Stored
<1>3. (\A t \in Thread : Keeping(t)) /\ Below /\ InOrder
  BY <1>1 DEF Keeping, NoEntry, Below, InOrder
<1>4. \A t \in Thread : Followed(t)
  BY <1>1 DEF Followed
<1>5. QED
  BY <1>2, <1>3, <1>4 DEF OrderInv, FollowInv

\* Every step is a quiet one of some thread, or a real one.
LEMMA QuietOrReal ==
  ASSUME LockTableAssumption, TicTocDiskAssumption, HistInv, NEW t \in Thread,
         Begin(t) \/ Step(t) \/ Abort(t)
  PROVE  Quiet(t) \/ ValidateDone(t) \/ Install(t) \/ Record(t)
<1>1. CASE Begin(t) \/ Calls(t)
  BY <1>1, CallQuiet, ReadQuiet DEF Calls
<1>2. CASE Locking(t)
  BY <1>2, CommitQuiet DEF Locking
<1>3. CASE Deciding(t) \/ Abort(t)
  BY <1>3, DecideQuiet, ExtendQuiet DEF Deciding
<1>4. CASE Ending(t)
  BY <1>4, DecideQuiet, EndQuiet DEF Ending
<1>5. QED
  BY <1>1, <1>2, <1>3, <1>4 DEF Step

LEMMA StutterHistory ==
  ASSUME UNCHANGED vars
  PROVE  /\ TuplesForward <=> \A k \in Key : /\ tuple[k].wts >= tuple[k].wts
                                              /\ tuple[k].rts >= tuple[k].rts
         /\ Inv' /\ OrderInv => OrderInv'
         /\ Inv' /\ FollowInv => FollowInv'
<1>1. /\ UNCHANGED <<locked, mine, tuple, db, log, refs, ready, pc, back, count, calls,
                     order, ent, got, reads, todo, cts, rc, seen, hist>>
  BY DEF vars, lockVars, histVars, txnVars, commitVars
<1>2. Inv' /\ HistInv => HistInv'
  BY <1>1 DEF HistInv, Recorded, ReadsListed, Counted, Unique, Stored, Id
<1>3. (\A t \in Thread : Keeping(t)) /\ Below /\ InOrder
        => (\A t \in Thread : Keeping(t)') /\ Below' /\ InOrder'
  BY <1>1 DEF Keeping, Below, InOrder
<1>4. ASSUME \A t \in Thread : Followed(t), NEW t \in Thread PROVE Followed(t)'
  <2>1. ASSUME pc'[t] # "unpin", NEW r \in reads'[t] PROVE Covered(r.key, r.ver)'
    BY <1>1, <1>4, <2>1 DEF Followed, Covered, Logged, Pending, Id
  <2>2. ASSUME pc'[t] = "check" PROVE Covered(CallKey(t), got[t])'
    BY <1>1, <1>4, <2>2 DEF Followed, Covered, Logged, Pending, Id, CallKey
  <2>3. QED
    BY <2>1, <2>2 DEF Followed
<1>5. QED
  BY <1>1, <1>2, <1>3, <1>4 DEF OrderInv, FollowInv, TuplesForward

LEMMA NextOrder ==
  ASSUME LockTableAssumption, TicTocDiskAssumption, NoDeletes, OrderInv, [Next]_vars
  PROVE  OrderInv' /\ TuplesForward
<1>1. Inv /\ HistInv /\ Inv'
  BY NextInv DEF OrderInv, HistInv
<1>2. CASE UNCHANGED vars
  BY <1>1, <1>2, StutterHistory, TupleTypes
<1>3. ASSUME NEW t \in Thread, Begin(t) \/ Step(t) \/ Abort(t)
      PROVE  OrderInv' /\ TuplesForward
  <2>1. CASE Quiet(t)
    BY <1>1, <2>1, QuietOrder DEF Quiet
  <2>2. CASE ValidateDone(t) \/ Install(t) \/ Record(t)
    BY <1>1, <2>2, RealOrder
  <2>3. QED
    BY <1>1, <1>3, <2>1, <2>2, QuietOrReal
<1>4. QED
  BY <1>2, <1>3 DEF Next, Finished

LEMMA NextFollow ==
  ASSUME LockTableAssumption, TicTocDiskAssumption, Forgiving, FollowInv, RoomInLog, [Next]_vars
  PROVE  FollowInv'
<1>1. Inv /\ HistInv /\ Inv'
  BY NextInv DEF FollowInv, HistInv
<1>2. CASE UNCHANGED vars
  BY <1>1, <1>2, StutterHistory
<1>3. ASSUME NEW t \in Thread, Begin(t) \/ Step(t) \/ Abort(t)
      PROVE  FollowInv'
  <2>1. CASE Quiet(t)
    BY <1>1, <2>1, QuietFollow
  <2>2. CASE ValidateDone(t) \/ Install(t) \/ Record(t)
    BY <1>1, <2>2, RealFollow
  <2>3. QED
    BY <1>1, <1>3, <2>1, <2>2, QuietOrReal
<1>4. QED
  BY <1>2, <1>3 DEF Next, Finished

\* The timestamp of a stored write is its transaction's.
LEMMA TsOfStored ==
  ASSUME HistInv, NEW k \in Key, NEW i \in DOMAIN db[k]
  PROVE  \E h \in hist : h.id = db[k][i] /\ h.cts = Iso!TsOf(db[k][i])
<1>1. \E h \in hist : h.id = db[k][i]
  BY DEF HistInv, Stored
<1>2. QED
  BY <1>1 DEF Iso!TsOf

\* While nothing deletes, every key's writes are stored in the order of the
\* commit timestamps.
THEOREM CommitOrder == NoDeletes => (Spec => []VersionsInCommitOrder)
<1> SUFFICES ASSUME NoDeletes PROVE Spec => []VersionsInCommitOrder
  OBVIOUS
<1>1. Init => OrderInv
  BY LockTableAssumption, TicTocDiskAssumption, InitHistory
<1>2. OrderInv /\ [Next]_vars => OrderInv'
  BY LockTableAssumption, TicTocDiskAssumption, NextOrder
<1>3. OrderInv => VersionsInCommitOrder
  BY TsOfStored DEF OrderInv, InOrder, VersionsInCommitOrder, Iso!InCommitOrder
<1>4. QED
  BY <1>1, <1>2, <1>3, PTL DEF Spec

\* While nothing deletes, neither timestamp of a stored tuple ever goes back,
\* whatever the threads read, extend and install.
THEOREM StampsForward == NoDeletes => (Spec => TimestampsForward)
<1> SUFFICES ASSUME NoDeletes PROVE Spec => TimestampsForward
  OBVIOUS
<1>1. Init => OrderInv
  BY LockTableAssumption, TicTocDiskAssumption, InitHistory
<1>2. OrderInv /\ [Next]_vars => OrderInv'
  BY LockTableAssumption, TicTocDiskAssumption, NextOrder
<1>3. OrderInv /\ [Next]_vars =>
        [\A k \in Key : /\ tuple'[k].wts >= tuple[k].wts
                        /\ tuple'[k].rts >= tuple[k].rts]_vars
  BY LockTableAssumption, TicTocDiskAssumption, NextOrder DEF TuplesForward
<1>4. QED
  BY <1>1, <1>2, <1>3, PTL DEF Spec, TimestampsForward

\* As long as the log of a key has room when a write is logged, it holds every
\* write since any running transaction read the key, but for the one that is
\* being installed: what a forgiven validation concludes from it is right.
THEOREM LogComplete == Forgiving => (Spec /\ []RoomInLog => []HistoryComplete)
<1> SUFFICES ASSUME Forgiving PROVE Spec /\ []RoomInLog => []HistoryComplete
  OBVIOUS
<1>1. Init => FollowInv
  BY LockTableAssumption, TicTocDiskAssumption, InitHistory
<1>2. FollowInv /\ RoomInLog /\ [Next]_vars => FollowInv'
  BY LockTableAssumption, TicTocDiskAssumption, NextFollow
<1>3. FollowInv => HistoryComplete
  <2>1. SUFFICES ASSUME FollowInv, NEW t \in Thread, pc[t] # "unpin", NEW r \in reads[t],
                        NEW j \in r.ver + 1 .. Len(db[r.key])
                 PROVE  \/ \E i \in DOMAIN log[r.key] : log[r.key][i] = Iso!TsOf(db[r.key][j])
                        \/ \E u \in Thread : /\ pc[u] = "record" /\ Smallest(todo[u]) = r.key
                                              /\ db[r.key][j] = Id(u)
    BY DEF HistoryComplete, FollowInv, HistInv, Inv
  <2>2. r.key \in Key /\ r.ver \in Nat /\ db[r.key] \in Seq(Txn)
    BY <2>1, HistoryTypes DEF FollowInv, HistInv
  <2>3. j \in DOMAIN db[r.key]
    BY <2>1, <2>2
  <2>4. Logged(r.key, j) \/ Pending(r.key, j)
    BY <2>1 DEF FollowInv, Followed, Covered
  <2>5. CASE Logged(r.key, j)
    <3>1. PICK i \in DOMAIN log[r.key] : \E h \in hist : h.id = db[r.key][j] /\ h.cts = log[r.key][i]
      BY <2>5 DEF Logged
    <3>2. PICK h \in hist : h.id = db[r.key][j] /\ h.cts = Iso!TsOf(db[r.key][j])
      BY <2>1, <2>2, <2>3, TsOfStored DEF FollowInv
    <3>3. log[r.key][i] = Iso!TsOf(db[r.key][j])
      BY <2>1, <3>1, <3>2 DEF FollowInv, HistInv, Unique
    <3>4. QED
      BY <3>3
  <2>6. QED
    BY <2>4, <2>5 DEF Pending
<1>4. QED
  BY <1>1, <1>2, <1>3, PTL DEF Spec

-----------------------------------------------------------------------------
(* Serializability.                                                        *)

\* No transaction looks up a key that it writes, or one key twice.
LooksUpOnce == \A t \in Thread :
  /\ ReadSet(t) \cap WriteSet(t) = {}
  /\ pc[t] \in {"own", "read", "check"} => \A r \in reads[t] : r.key # CallKey(t)

\* Version v of a key was stored, no later than w.
Written(k, v, w) == /\ v <= Len(db[k])
                    /\ \A h \in hist : v > 0 /\ h.id = db[k][v] => h.cts <= w

\* Version v of a key is its version up to c: every later one, stored or to be
\* stored by a commit that has locked the key, has a later timestamp.
Current(k, v, c) ==
  /\ tuple[k].kind = "orphan" \/ c <= tuple[k].rts
  /\ \A j \in v + 1 .. Len(db[k]) : \A h \in hist : h.id = db[k][j] => c < h.cts
  /\ \A u \in Thread : k \in Stamped(u) => c < cts[u]

\* The reads that a validation has found to be valid.
Sure(t) ==
  CASE pc[t] \in {"validate", "ask", "stamps", "differs", "extend"} -> ReadSet(t) \ todo[t]
    [] pc[t] = "next" -> (ReadSet(t) \ todo[t]) \cup {Validated(t)}
    [] OTHER -> {}

\* What a thread has read is current up to the rts it has seen, and up to its
\* commit_ts once that has been validated.
KnownReads(t) == \A r \in reads[t] :
  /\ Written(r.key, r.ver, ent[t][r.key].wts)
  /\ ent[t][r.key].wts <= ent[t][r.key].rts
  /\ Current(r.key, r.ver, ent[t][r.key].rts)
  /\ r.key \in Sure(t) => Current(r.key, r.ver, cts[t])
KnownCheck(t) == pc[t] = "check" => /\ Written(CallKey(t), got[t], seen[t].wts)
                                    /\ Current(CallKey(t), got[t], seen[t].rts)

\* What it knows of the tuples it looks at and of those it has locked.
KnownTuples(t) ==
  /\ pc[t] = "differs" => tuple[Validated(t)].wts >= seen[t].wts
  /\ pc[t] = "ask" => Forgiving /\ tuple[Validated(t)].wts > cts[t]
  /\ pc[t] = "record" => tuple[Smallest(todo[t])].wts = cts[t]
KnownStamps(t) == \A k \in Stamped(t) : tuple[k].kind # "orphan" /\ tuple[k].rts < cts[t]

Known(t) == KnownReads(t) /\ KnownCheck(t) /\ KnownTuples(t) /\ KnownStamps(t)

\* What a committed transaction has read is current at its commit_ts.
Kept == \A h \in hist : \A r \in h.reads : Written(r.key, r.ver, h.cts)
                                            /\ Current(r.key, r.ver, h.cts)

\* b has read a write of a, or one that came after it; nothing goes in a circle.
ReadFrom(a, b) == \E r \in b.reads : \E i \in DOMAIN db[r.key] :
                    i <= r.ver /\ db[r.key][i] = a.id
NoReadCycle == ~\E S \in SUBSET hist : S # {} /\ \A a \in S : \E b \in S \ {a} : ReadFrom(a, b)

SerialInv ==
  /\ OrderInv /\ (Forgiving => FollowInv)
  /\ \A t \in Thread : Known(t)
  /\ Kept /\ NoReadCycle /\ IsFiniteSet(hist)

\* What every step does to the tuples, the versions and the commits under way.
Advance ==
  /\ \A k \in Key : tuple[k].kind = "orphan" => tuple'[k].kind = "orphan"
  /\ \A k \in Key : /\ Len(db[k]) <= Len(db'[k])
                    /\ \A i \in DOMAIN db[k] : db'[k][i] = db[k][i]
  /\ \A k \in Key : \A j \in DOMAIN db'[k] : \A h \in hist' : h.id = db'[k][j] =>
       \/ j \in DOMAIN db[k] /\ h \in hist
       \/ \E u \in Thread : k \in Stamped(u) /\ h.cts = cts[u]
  /\ \A u \in Thread : \A k \in Stamped(u)' :
       \/ k \in Stamped(u) /\ cts[u] <= cts'[u]
       \/ tuple[k].kind # "orphan" /\ tuple[k].rts < cts'[u]

\* What a step of t does.
Effect(t) ==
  /\ Others(t) /\ (\A u \in Thread : u # t => seen'[u] = seen[u])
  /\ Advance
  /\ \A u \in Thread, k \in Key : u # t /\ k \in LockSet(u) => tuple'[k] = tuple[k]

LEMMA SerialTypes ==
  ASSUME LockTableAssumption, Inv
  PROVE  /\ \A h \in hist : \A r \in h.reads : r.key \in Key /\ r.ver \in Nat
         /\ \A t \in Thread : /\ seen[t] \in Tuple /\ seen[t].wts \in Nat /\ seen[t].rts \in Nat
                              /\ seen[t].wts <= seen[t].rts /\ cts[t] \in Nat
                              /\ \A k \in Key : ent[t][k].wts \in Nat /\ ent[t][k].rts \in Nat
                              /\ Stamped(t) \subseteq Key
<1>1. \A u \in Tuple : u.wts \in Nat /\ u.rts \in Nat /\ u.wts <= u.rts
  BY DEF Tuple, Absent, Orphan
<1>2. \A h \in hist : \A r \in h.reads : r.key \in Key /\ r.ver \in Nat
  BY DEF Inv, TypeOK, Commit, Read
<1>3. ASSUME NEW t \in Thread
      PROVE  /\ seen[t] \in Tuple /\ cts[t] \in Nat
             /\ \A k \in Key : ent[t][k].wts \in Nat /\ ent[t][k].rts \in Nat
  BY DEF Inv, TypeOK, Entry
<1>4. \A t \in Thread : Stamped(t) \subseteq Key
  BY KnownLocked, Zenon
<1>5. QED
  BY <1>1, <1>2, <1>3, <1>4

\* What is current stays so, and what is written.
LEMMA CurrentStays ==
  ASSUME LockTableAssumption, Inv, Inv', Advance, TuplesForward,
         NEW k \in Key, NEW v \in Nat, NEW c \in Nat, Current(k, v, c)
  PROVE  Current(k, v, c)'
<1>1. tuple'[k].kind = "orphan" \/ c <= tuple'[k].rts
  <2>1. tuple[k].rts \in Nat /\ tuple'[k].rts >= tuple[k].rts
    BY TupleTypes DEF TuplesForward
  <2>2. tuple'[k].rts \in Nat
    <3>1. tuple'[k] \in Tuple
      BY DEF Inv, TypeOK
    <3>2. QED
      BY <3>1 DEF Tuple, Absent, Orphan
  <2>3. QED
    BY <2>1, <2>2 DEF Current, Advance
<1>2. ASSUME NEW j \in v + 1 .. Len(db'[k]), NEW h \in hist', h.id = db'[k][j]
      PROVE  c < h.cts
  <2>1. db[k] \in Seq(Txn) /\ db'[k] \in Seq(Txn)
    BY DEF Inv, TypeOK
  <2>2. j \in DOMAIN db'[k] /\ (j \in DOMAIN db[k] => j \in v + 1 .. Len(db[k]))
    BY <2>1
  <2>3. CASE j \in DOMAIN db[k] /\ h \in hist
    BY <1>2, <2>2, <2>3 DEF Current, Advance
  <2>4. CASE \E u \in Thread : k \in Stamped(u) /\ h.cts = cts[u]
    BY <2>4 DEF Current
  <2>5. QED
    BY <1>2, <2>2, <2>3, <2>4 DEF Advance
<1>3. ASSUME NEW u \in Thread, k \in Stamped(u)' PROVE c < cts'[u]
  <2>1. cts[u] \in Nat /\ cts'[u] \in Nat /\ tuple[k].rts \in Nat
    BY TupleTypes DEF Inv, TypeOK
  <2>2. CASE k \in Stamped(u) /\ cts[u] <= cts'[u]
    BY <2>1, <2>2 DEF Current
  <2>3. CASE tuple[k].kind # "orphan" /\ tuple[k].rts < cts'[u]
    BY <2>1, <2>3 DEF Current
  <2>4. QED
    BY <1>3, <2>2, <2>3 DEF Advance
<1>4. QED
  BY <1>1, <1>2, <1>3 DEF Current

LEMMA WrittenStays ==
  ASSUME LockTableAssumption, HistInv, HistInv', Advance, hist \subseteq hist',
         NEW k \in Key, NEW v \in Nat, NEW w \in Nat, Written(k, v, w)
  PROVE  Written(k, v, w)'
<1>1. db[k] \in Seq(Txn) /\ db'[k] \in Seq(Txn) /\ Len(db[k]) <= Len(db'[k])
  BY DEF HistInv, Inv, TypeOK, Advance
<1>2. v <= Len(db'[k])
  BY <1>1 DEF Written
<1>3. ASSUME NEW h \in hist', v > 0, h.id = db'[k][v] PROVE h.cts <= w
  <2>1. v \in DOMAIN db[k]
    BY <1>1, <1>3 DEF Written
  <2>2. db'[k][v] = db[k][v]
    BY <2>1 DEF Advance
  <2>3. PICK g \in hist : g.id = db[k][v]
    BY <2>1 DEF HistInv, Stored
  <2>4. g = h
    BY <1>3, <2>2, <2>3 DEF HistInv, Unique
  <2>5. QED
    BY <1>3, <2>3, <2>4 DEF Written
<1>4. QED
  BY <1>2, <1>3 DEF Written

\* A later timestamp asks for more.
LEMMA CurrentEarlier ==
  ASSUME LockTableAssumption, Inv, NEW k \in Key, NEW v \in Nat, NEW c \in Nat, NEW d \in Nat,
         d <= c, Current(k, v, c)
  PROVE  Current(k, v, d)
<1>1. /\ tuple[k].rts \in Nat /\ \A h \in hist : h.cts \in Nat
      /\ \A u \in Thread : cts[u] \in Nat
  BY TupleTypes, HistoryTypes
<1>2. QED
  BY <1>1 DEF Current

LEMMA LaterWritten ==
  ASSUME Inv, NEW k \in Key, NEW v \in Nat, NEW w \in Nat, NEW x \in Nat,
         w <= x, Written(k, v, w)
  PROVE  Written(k, v, x)
<1>1. \A h \in hist : h.cts \in Nat
  BY HistoryTypes
<1>2. QED
  BY <1>1 DEF Written

\* What the other threads know stays true.
LEMMA OthersKnow ==
  ASSUME LockTableAssumption, HistInv, HistInv', NEW t \in Thread, Effect(t), TuplesForward,
         hist \subseteq hist', NEW u \in Thread, u # t, Known(u)
  PROVE  Known(u)'
<1>1. /\ Same(u) /\ reads'[u] = reads[u] /\ seen'[u] = seen[u] /\ Inv /\ Inv' /\ Advance
  BY DEF Effect, Others, HistInv
<1>2. /\ Stamped(u)' = Stamped(u) /\ Validated(u)' = Validated(u) /\ CallKey(u)' = CallKey(u)
      /\ ReadSet(u)' = ReadSet(u) /\ cts'[u] = cts[u] /\ ent'[u] = ent[u] /\ pc'[u] = pc[u]
      /\ todo'[u] = todo[u] /\ got'[u] = got[u]
  BY <1>1, SameThread DEF Same
<1>3. Sure(u)' = Sure(u)
  BY <1>2 DEF Sure
<1>4. KnownReads(u)'
  <2>1. ASSUME NEW r \in reads[u]
        PROVE  /\ Written(r.key, r.ver, ent[u][r.key].wts)'
               /\ ent[u][r.key].wts <= ent[u][r.key].rts
               /\ Current(r.key, r.ver, ent[u][r.key].rts)'
               /\ r.key \in Sure(u) => Current(r.key, r.ver, cts[u])'
    <3>1. PICK k \in Key, v \in Nat : k = r.key /\ v = r.ver
      BY <1>1, <2>1, HistoryTypes
    <3>2. PICK w \in Nat, c \in Nat, d \in Nat : w = ent[u][k].wts /\ c = ent[u][k].rts /\ d = cts[u]
      BY <1>1, SerialTypes
    <3>3. /\ Written(k, v, w) /\ w <= c /\ Current(k, v, c)
          /\ k \in Sure(u) => Current(k, v, d)
      BY <2>1, <3>1, <3>2 DEF Known, KnownReads
    <3>4. /\ Written(k, v, w)' /\ Current(k, v, c)' /\ (k \in Sure(u) => Current(k, v, d)')
      BY <1>1, <3>3, WrittenStays, CurrentStays
    <3>5. /\ w = ent'[u][k].wts /\ c = ent'[u][k].rts /\ d = cts'[u]
      BY <1>2, <3>2
    <3>6. QED
      BY <1>2, <3>1, <3>2, <3>3, <3>4, <3>5 DEF Written, Current
  <2>2. QED
    BY <1>1, <1>2, <1>3, <2>1 DEF KnownReads, Written, Current
<1>5. KnownCheck(u)'
  <2>1. ASSUME pc[u] = "check"
        PROVE  /\ Written(CallKey(u), got[u], seen[u].wts)'
               /\ Current(CallKey(u), got[u], seen[u].rts)'
    <3>1. CallKey(u) \in Key /\ got[u] \in Nat
      BY <1>1, <2>1, CheckKeysType DEF CheckKeys, Inv, Books
    <3>2. PICK k \in Key, v \in Nat, w \in Nat, c \in Nat :
            k = CallKey(u) /\ v = got[u] /\ w = seen[u].wts /\ c = seen[u].rts
      BY <1>1, <3>1, SerialTypes
    <3>3. Written(k, v, w) /\ Current(k, v, c)
      BY <2>1, <3>2 DEF Known, KnownCheck
    <3>4. Written(k, v, w)' /\ Current(k, v, c)'
      BY <1>1, <3>3, WrittenStays, CurrentStays
    <3>5. k = CallKey(u)' /\ v = got'[u] /\ w = seen'[u].wts /\ c = seen'[u].rts
      BY <1>1, <1>2, <3>2
    <3>6. QED
      BY <3>4, <3>5 DEF Written, Current
  <2>2. QED
    BY <1>2, <2>1 DEF KnownCheck
<1>6. /\ Stamped(u) \subseteq LockSet(u) /\ LockSet(u) \subseteq Key
      /\ \A k \in LockSet(u) : tuple'[k] = tuple[k]
  BY <1>1, KnownLocked DEF Effect
<1>7. KnownStamps(u)'
  BY <1>2, <1>6 DEF Known, KnownStamps
<1>8. KnownTuples(u)'
  <2>1. ASSUME pc[u] \in {"differs", "ask"}
        PROVE  /\ tuple[Validated(u)].wts \in Nat /\ tuple'[Validated(u)].wts \in Nat
               /\ tuple'[Validated(u)].wts >= tuple[Validated(u)].wts
               /\ seen[u].wts \in Nat /\ cts[u] \in Nat
    <3>1. Validated(u) \in Key
      <4>1. todo[u] # {}
        BY <1>1, <2>1 DEF Inv, Books, Looking
      <4>2. QED
        BY <1>1, <2>1, <4>1, ValidatedMember DEF Looking
    <3>2. tuple'[Validated(u)] \in Tuple
      BY <3>1, <1>1 DEF Inv, TypeOK
    <3>3. tuple'[Validated(u)].wts \in Nat
      BY <3>2 DEF Tuple, Absent, Orphan
    <3>4. QED
      BY <1>1, <3>1, <3>3, TupleTypes, SerialTypes DEF TuplesForward
  <2>2. pc[u] = "record" => tuple'[Smallest(todo[u])] = tuple[Smallest(todo[u])]
    <3>1. ASSUME pc[u] = "record" PROVE Smallest(todo[u]) \in LockSet(u)
      BY <1>1, <3>1, ThreadTypes DEF Books, LockSet, Phase
    <3>2. QED
      BY <1>6, <3>1
  <2>3. pc[u] = "differs" => tuple'[Validated(u)].wts >= seen[u].wts
    BY <2>1 DEF Known, KnownTuples
  <2>4. pc[u] = "ask" => Forgiving /\ tuple'[Validated(u)].wts > cts[u]
    BY <2>1 DEF Known, KnownTuples
  <2>5. pc[u] = "record" => tuple'[Smallest(todo[u])].wts = cts[u]
    BY <2>2 DEF Known, KnownTuples
  <2>6. QED
    BY <1>1, <1>2, <2>3, <2>4, <2>5 DEF KnownTuples
<1>9. QED
  BY <1>4, <1>5, <1>7, <1>8 DEF Known

\* A step that stores nothing and stamps nothing anew, or later than it is read.
LEMMA StillEffect ==
  ASSUME LockTableAssumption, HistInv, NEW t \in Thread, Others(t), UNCHANGED <<tuple, db>>,
         \A u \in Thread : u # t => seen'[u] = seen[u],
         \A h \in hist' : h \in hist \/ \A k \in Key : \A j \in DOMAIN db[k] : h.id # db[k][j],
         \A k \in Stamped(t)' : \/ k \in Stamped(t) /\ cts[t] <= cts'[t]
                                \/ tuple[k].kind # "orphan" /\ tuple[k].rts < cts'[t]
  PROVE  Effect(t)
<1>1. ASSUME NEW u \in Thread, NEW k \in Stamped(u)'
      PROVE  \/ k \in Stamped(u) /\ cts[u] <= cts'[u]
             \/ tuple[k].kind # "orphan" /\ tuple[k].rts < cts'[u]
  <2>1. CASE u = t
    BY <1>1, <2>1
  <2>2. CASE u # t
    <3>1. Same(u) /\ cts[u] \in Nat
      BY <2>2, HistoryTypes DEF Others, HistInv
    <3>2. Stamped(u)' = Stamped(u) /\ cts'[u] = cts[u]
      BY <3>1, SameThread DEF Same
    <3>3. QED
      BY <1>1, <3>1, <3>2
  <2>3. QED
    BY <2>1, <2>2
<1>2. \A k \in Key : Len(db[k]) \in Nat
  BY HistoryTypes DEF HistInv
<1>3. Advance
  <2>1. \A k \in Key : tuple[k].kind = "orphan" => tuple'[k].kind = "orphan"
    OBVIOUS
  <2>2. \A k \in Key : /\ Len(db[k]) <= Len(db'[k])
                      /\ \A i \in DOMAIN db[k] : db'[k][i] = db[k][i]
    BY <1>2
  <2>3. \A k \in Key : \A j \in DOMAIN db'[k] : \A h \in hist' : h.id = db'[k][j] =>
          j \in DOMAIN db[k] /\ h \in hist
    OBVIOUS
  <2>4. QED
    BY <1>1, <2>1, <2>2, <2>3 DEF Advance
<1>4. QED
  BY <1>3 DEF Effect

\* What a thread knows stays true when its step leaves what it has read.
LEMMA ReadsStayKnown ==
  ASSUME LockTableAssumption, HistInv, HistInv', NEW t \in Thread, Effect(t), TuplesForward,
         hist \subseteq hist', KnownReads(t), NEW r \in reads[t],
         ent'[t][r.key].wts = ent[t][r.key].wts, ent'[t][r.key].rts = ent[t][r.key].rts
  PROVE  /\ Written(r.key, r.ver, ent[t][r.key].wts)'
         /\ ent'[t][r.key].wts <= ent'[t][r.key].rts
         /\ Current(r.key, r.ver, ent[t][r.key].rts)'
         /\ r.key \in Sure(t) /\ cts'[t] = cts[t] => Current(r.key, r.ver, cts[t])'
<1>1. Inv /\ Inv' /\ Advance
  BY DEF HistInv, Effect
<1>2. PICK k \in Key, v \in Nat : k = r.key /\ v = r.ver
  BY <1>1, HistoryTypes
<1>3. PICK w \in Nat, c \in Nat, d \in Nat : w = ent[t][k].wts /\ c = ent[t][k].rts /\ d = cts[t]
  BY <1>1, SerialTypes
<1>4. /\ Written(k, v, w) /\ w <= c /\ Current(k, v, c)
      /\ k \in Sure(t) => Current(k, v, d)
  BY <1>2, <1>3 DEF KnownReads
<1>5. /\ Written(k, v, w)' /\ Current(k, v, c)' /\ (k \in Sure(t) => Current(k, v, d)')
  BY <1>1, <1>4, WrittenStays, CurrentStays
<1>6. w = ent'[t][k].wts /\ c = ent'[t][k].rts /\ (cts'[t] = cts[t] => d = cts'[t])
  BY <1>2, <1>3
<1>7. QED
  BY <1>2, <1>4, <1>5, <1>6 DEF Written, Current

LEMMA StillKnown ==
  ASSUME LockTableAssumption, HistInv, HistInv', NEW t \in Thread, Effect(t), tuple' = tuple,
         hist \subseteq hist', Known(t), reads'[t] \subseteq reads[t],
         \A r \in reads'[t] : /\ ent'[t][r.key].wts = ent[t][r.key].wts
                              /\ ent'[t][r.key].rts = ent[t][r.key].rts,
         pc'[t] \notin {"check", "differs", "ask", "record"},
         Stamped(t)' \subseteq Stamped(t), Sure(t)' \subseteq Sure(t),
         cts'[t] = cts[t] \/ (Stamped(t)' = {} /\ Sure(t)' = {})
  PROVE  Known(t)'
<1>1. TuplesForward
  BY SameForward DEF HistInv
<1>2. KnownReads(t)'
  BY <1>1, ReadsStayKnown DEF Known, KnownReads, Written, Current
<1>3. KnownCheck(t)' /\ KnownTuples(t)'
  BY DEF KnownCheck, KnownTuples
<1>4. KnownStamps(t)'
  BY DEF Known, KnownStamps
<1>5. QED
  BY <1>2, <1>3, <1>4 DEF Known

\* What the committed transactions have read stays current.
LEMMA KeptStays ==
  ASSUME LockTableAssumption, HistInv, HistInv', Advance, TuplesForward, hist \subseteq hist', Kept,
         \A h \in hist' : h \in hist
           \/ \A r \in h.reads : Written(r.key, r.ver, h.cts)' /\ Current(r.key, r.ver, h.cts)'
  PROVE  Kept'
<1>1. ASSUME NEW h \in hist, NEW r \in h.reads
      PROVE  Written(r.key, r.ver, h.cts)' /\ Current(r.key, r.ver, h.cts)'
  <2>1. PICK k \in Key, v \in Nat, c \in Nat : k = r.key /\ v = r.ver /\ c = h.cts
    BY <1>1, SerialTypes, HistoryTypes DEF HistInv
  <2>2. Written(k, v, c) /\ Current(k, v, c)
    BY <1>1, <2>1 DEF Kept
  <2>3. Written(k, v, c)' /\ Current(k, v, c)'
    BY <2>2, WrittenStays, CurrentStays DEF HistInv
  <2>4. QED
    BY <2>1, <2>3 DEF Written, Current
<1>2. QED
  BY <1>1 DEF Kept, Written, Current

\* What a step has to keep that commits and stores nothing.
LEMMA QuietSerial ==
  ASSUME LockTableAssumption, SerialInv, OrderInv', Forgiving => FollowInv', NEW t \in Thread,
         Effect(t), TuplesForward, UNCHANGED <<db, hist>>, Known(t)'
  PROVE  SerialInv'
<1>1. HistInv /\ HistInv' /\ Advance
  BY DEF SerialInv, OrderInv, Effect
<1>2. \A u \in Thread : Known(u)'
  BY <1>1, OthersKnow DEF SerialInv
<1>3. Kept'
  BY <1>1, KeptStays DEF SerialInv
<1>4. NoReadCycle'
  <2>1. \A a, b \in hist : ReadFrom(a, b)' <=> ReadFrom(a, b)
    BY DEF ReadFrom
  <2>2. QED
    BY <2>1 DEF SerialInv, NoReadCycle
<1>5. QED
  BY <1>2, <1>3, <1>4 DEF SerialInv

\* A step that only moves on.
LEMMA PlainStep ==
  ASSUME LockTableAssumption, HistInv, HistInv', NEW t \in Thread, Quiet(t), Known(t),
         tuple' = tuple, \A u \in Thread : u # t => seen'[u] = seen[u],
         reads'[t] \subseteq reads[t],
         \A r \in reads'[t] : /\ ent'[t][r.key].wts = ent[t][r.key].wts
                              /\ ent'[t][r.key].rts = ent[t][r.key].rts,
         pc'[t] \notin {"check", "differs", "ask", "record"},
         Stamped(t)' \subseteq Stamped(t), Sure(t)' \subseteq Sure(t),
         cts'[t] = cts[t] \/ (Stamped(t)' = {} /\ Sure(t)' = {})
  PROVE  Effect(t) /\ Known(t)'
<1>1. Others(t) /\ UNCHANGED <<tuple, db, hist>> /\ cts[t] \in Nat
  BY HistoryTypes DEF Quiet, HistInv
<1>2. \A k \in Stamped(t)' : k \in Stamped(t) /\ cts[t] <= cts'[t]
  BY <1>1
<1>3. \A h \in hist' : h \in hist \/ \A k \in Key : \A j \in DOMAIN db[k] : h.id # db[k][j]
  BY <1>1
<1>4. \A k \in Stamped(t)' : \/ k \in Stamped(t) /\ cts[t] <= cts'[t]
                             \/ tuple[k].kind # "orphan" /\ tuple[k].rts < cts'[t]
  BY <1>2
<1>5. Effect(t)
  BY <1>1, <1>3, <1>4, StillEffect, Zenon
<1>6. QED
  BY <1>1, <1>5, StillKnown

LEMMA NothingStamped ==
  ASSUME NEW t \in Thread,
         pc'[t] \notin {"stamp", "validate", "ask", "install", "record", "release"} \cup Looking
  PROVE  Stamped(t)' = {} /\ Sure(t)' = {}
BY DEF Stamped, Sure, Looking

LEMMA CallKnow ==
  ASSUME LockTableAssumption, TicTocDiskAssumption, HistInv, HistInv', NEW t \in Thread, Known(t),
         Begin(t) \/ LocalWrite(t) \/ Lookup(t) \/ HistAlloc(t) \/ HistSpin(t)
  PROVE  Effect(t) /\ Known(t)'
<1>1. /\ pc \in [Thread -> Label] /\ back \in [Thread -> {"idle", "own", "read", "lock"}]
      /\ ent \in [Thread -> [Key -> Entry]] /\ back[t] \in {"own", "read", "lock", "idle"}
  BY DEF HistInv, Inv, TypeOK
<1>2. Quiet(t)
  BY CallQuiet
<1>3. UNCHANGED <<tuple, reads, seen, cts>>
  BY DEF Begin, LocalWrite, Lookup, HistAlloc, HistSpin, txnVars, commitVars
<1>4. pc'[t] \in {"run", "alloc", "spin", "own", "read", "lock", "idle"}
  <2>1. CASE Begin(t) \/ HistAlloc(t) \/ HistSpin(t)
    BY <1>1, <2>1 DEF Begin, HistAlloc, HistSpin, Goto
  <2>2. CASE LocalWrite(t)
    BY <2>2 DEF LocalWrite, Calling
  <2>3. CASE Lookup(t)
    BY <1>1, <2>3 DEF Lookup, Pin, Goto
  <2>4. QED
    BY <2>1, <2>2, <2>3
<1>5. \A k \in Key : ent'[t][k].wts = ent[t][k].wts /\ ent'[t][k].rts = ent[t][k].rts
  <2>1. CASE Begin(t) \/ HistAlloc(t) \/ HistSpin(t)
    BY <2>1 DEF Begin, HistAlloc, HistSpin, txnVars
  <2>2. CASE LocalWrite(t)
    BY <1>1, <2>2 DEF LocalWrite, Entry
  <2>3. CASE Lookup(t)
    BY <1>1, <2>3 DEF Lookup, Entry
  <2>4. QED
    BY <2>1, <2>2, <2>3
<1>6. \A r \in reads[t] : r.key \in Key
  BY HistoryTypes DEF HistInv
<1>7. Stamped(t)' = {} /\ Sure(t)' = {}
  BY <1>4, NothingStamped DEF Looking
<1>8. QED
  BY <1>2, <1>3, <1>4, <1>5, <1>6, <1>7, PlainStep

LEMMA CommitKnow ==
  ASSUME LockTableAssumption, TicTocDiskAssumption, HistInv, HistInv', NEW t \in Thread, Known(t),
         \/ CommitBegin(t) \/ LockPin(t) \/ LockTry(t) \/ BackOffUnlock(t) \/ LockRetry(t)
         \/ LockDone(t)
  PROVE  Effect(t) /\ Known(t)'
<1>1. /\ pc \in [Thread -> Label] /\ todo \in [Thread -> SUBSET Key]
      /\ ent \in [Thread -> [Key -> Entry]]
  BY DEF HistInv, Inv, TypeOK
<1>2. Quiet(t)
  BY CommitQuiet
<1>3. UNCHANGED <<tuple, reads, seen>>
  BY DEF CommitBegin, LockPin, LockTry, BackOffUnlock, LockRetry, LockDone, txnVars, commitVars
<1>4. \A k \in Key : ent'[t][k].wts = ent[t][k].wts /\ ent'[t][k].rts = ent[t][k].rts
  <2>1. CASE LockPin(t)
    BY <1>1, <2>1 DEF LockPin, Entry
  <2>2. CASE CommitBegin(t) \/ LockTry(t) \/ BackOffUnlock(t) \/ LockRetry(t) \/ LockDone(t)
    BY <2>2 DEF CommitBegin, LockTry, BackOffUnlock, LockRetry, LockDone, txnVars
  <2>3. QED
    BY <2>1, <2>2
<1>5. \A r \in reads[t] : r.key \in Key
  BY HistoryTypes DEF HistInv
<1>6. pc'[t] \in {"alloc", "spin", "lock", "backoff", "stamp"} /\ Stamped(t)' = {} /\ Sure(t)' = {}
  <2>1. CASE LockDone(t)
    <3>1. pc'[t] = "stamp" /\ todo'[t] = WriteSet(t) /\ ent' = ent
      BY <1>1, <2>1 DEF LockDone, Goto, txnVars
    <3>2. WriteSet(t)' = WriteSet(t)
      BY <3>1 DEF WriteSet
    <3>3. Stamped(t)' = {} /\ Sure(t)' = {}
      BY <3>1, <3>2 DEF Stamped, Sure, Looking
    <3>4. QED
      BY <3>1, <3>3
  <2>2. CASE CommitBegin(t) \/ LockPin(t) \/ LockTry(t) \/ BackOffUnlock(t) \/ LockRetry(t)
    <3>1. pc'[t] \in {"alloc", "spin", "lock", "backoff"}
      BY <1>1, <2>2 DEF CommitBegin, LockPin, LockTry, BackOffUnlock, LockRetry, Pin, BackOff, Goto
    <3>2. QED
      BY <3>1, NothingStamped DEF Looking
  <2>3. QED
    BY <2>1, <2>2
<1>7. QED
  BY <1>2, <1>3, <1>4, <1>5, <1>6, PlainStep

LEMMA EndKnow ==
  ASSUME LockTableAssumption, TicTocDiskAssumption, HistInv, HistInv', NEW t \in Thread, Known(t),
         \/ Release(t) \/ AbortUnlock(t) \/ Abort(t) \/ CommitEnd(t) \/ Unpin(t) \/ Finish(t)
  PROVE  Effect(t) /\ Known(t)'
<1>1. /\ pc \in [Thread -> Label] /\ todo \in [Thread -> SUBSET Key]
      /\ ent \in [Thread -> [Key -> Entry]] /\ reads \in [Thread -> SUBSET Read]
      /\ seen \in [Thread -> Tuple]
  BY DEF HistInv, Inv, TypeOK
<1>2. Quiet(t)
  BY DecideQuiet, EndQuiet
<1>3. tuple' = tuple /\ \A u \in Thread : u # t => seen'[u] = seen[u]
  BY <1>1 DEF Release, AbortUnlock, Abort, CommitEnd, Unpin, Finish
<1>4. /\ reads'[t] \subseteq reads[t]
      /\ \A r \in reads'[t] : /\ ent'[t][r.key].wts = ent[t][r.key].wts
                              /\ ent'[t][r.key].rts = ent[t][r.key].rts
  <2>1. CASE Finish(t)
    BY <1>1, <2>1 DEF Finish
  <2>2. CASE Unpin(t)
    <3>1. /\ reads' = reads /\ ent' = [ent EXCEPT ![t][First(t, todo[t])].held = FALSE]
      BY <2>2 DEF Unpin
    <3>2. \A k \in Key : ent'[t][k].wts = ent[t][k].wts /\ ent'[t][k].rts = ent[t][k].rts
      BY <1>1, <3>1 DEF Entry
    <3>3. QED
      BY <3>1, <3>2, HistoryTypes DEF HistInv
  <2>3. CASE Release(t) \/ AbortUnlock(t) \/ Abort(t) \/ CommitEnd(t)
    BY <2>3 DEF Release, AbortUnlock, Abort, CommitEnd, txnVars
  <2>4. QED
    BY <2>1, <2>2, <2>3
<1>5. /\ pc'[t] \in {"install", "unlock", "unpin", "idle"}
      /\ Stamped(t)' \subseteq Stamped(t) /\ Sure(t)' = {}
      /\ cts'[t] = cts[t] \/ Stamped(t)' = {}
  <2>1. CASE Release(t)
    <3>1. pc[t] = "release" /\ pc'[t] = "install" /\ todo'[t] = todo[t] \ {Smallest(todo[t])}
          /\ cts' = cts
      BY <1>1, <2>1 DEF Release, ReleaseNext, Goto
    <3>2. QED
      BY <3>1 DEF Stamped, Sure, Looking
  <2>2. CASE AbortUnlock(t) \/ Abort(t) \/ CommitEnd(t) \/ Unpin(t) \/ Finish(t)
    <3>1. pc'[t] \in {"unlock", "unpin", "idle"}
      BY <1>1, <2>2 DEF AbortUnlock, Abort, CommitEnd, Unpin, Finish, Goto
    <3>2. QED
      BY <3>1, NothingStamped DEF Looking
  <2>3. QED
    BY <2>1, <2>2
<1>6. QED
  BY <1>2, <1>3, <1>4, <1>5, PlainStep

\* A lookup reads the newest version, and no commit has stamped the key with a
\* timestamp that is not after its rts.
LEMMA LookupReadKnow ==
  ASSUME LockTableAssumption, SerialInv, HistInv', NEW t \in Thread, LookupRead(t)
  PROVE  Effect(t) /\ Known(t)'
<1>1. HistInv /\ Inv /\ Known(t) /\ Quiet(t)
  BY ReadQuiet DEF SerialInv, OrderInv, HistInv
<1>2. PICK k \in Key : k = CallKey(t)
  BY <1>1, ThreadTypes DEF LookupRead, Books, Phase
<1>3. /\ pc \in [Thread -> Label] /\ got \in [Thread -> Nat \cup {Own}]
      /\ seen \in [Thread -> Tuple]
  BY <1>1 DEF Inv, TypeOK
<1>4. /\ pc[t] = "read" /\ Mergeable(k) /\ got' = [got EXCEPT ![t] = Len(db[k])]
      /\ seen' = [seen EXCEPT ![t] = tuple[k]] /\ pc' = [pc EXCEPT ![t] = "check"]
      /\ UNCHANGED <<tuple, db, calls, ent, reads, cts, hist, todo>>
  BY <1>2 DEF LookupRead, Goto
<1>5. /\ pc'[t] = "check" /\ got'[t] = Len(db[k]) /\ seen'[t] = tuple[k] /\ CallKey(t)' = k
      /\ \A u \in Thread : u # t => seen'[u] = seen[u]
  BY <1>2, <1>3, <1>4 DEF CallKey
<1>6. Stamped(t)' = {} /\ Sure(t)' = {} /\ Others(t)
  BY <1>1, <1>5, NothingStamped DEF Looking, Quiet
<1>7. Effect(t)
  BY <1>1, <1>4, <1>5, <1>6, StillEffect
<1>8. KnownReads(t)'
  <2>1. TuplesForward /\ hist \subseteq hist'
    BY <1>1, <1>4, SameForward
  <2>2. QED
    BY <1>1, <1>4, <1>6, <1>7, <2>1, ReadsStayKnown DEF Known, KnownReads, Written, Current
<1>9. KnownCheck(t)'
  <2>1. db[k] \in Seq(Txn) /\ Len(db[k]) \in Nat
    BY <1>1, HistoryTypes
  <2>2. Written(k, Len(db[k]), tuple[k].wts)
    <3>1. Len(db[k]) > 0 => Len(db[k]) \in DOMAIN db[k]
      BY <2>1
    <3>2. QED
      BY <2>1, <3>1 DEF Written, SerialInv, OrderInv, Below
  <2>3. tuple[k].rts \in Nat
    BY <1>1, TupleTypes
  <2>4. \A u \in Thread : k \in Stamped(u)' => tuple[k].rts < cts'[u]
    <3>1. ASSUME NEW u \in Thread, u # t
          PROVE  Stamped(u)' = Stamped(u) /\ cts'[u] = cts[u]
      BY <1>4, <1>6, <3>1, SameThread DEF Others
    <3>2. QED
      BY <1>6, <3>1 DEF SerialInv, Known, KnownStamps
  <2>5. Current(k, Len(db[k]), tuple[k].rts)'
    <3>1. tuple' = tuple /\ db' = db
      BY <1>4
    <3>2. \A j \in Len(db[k]) + 1 .. Len(db[k]) : FALSE
      BY <2>1
    <3>3. tuple[k].rts <= tuple[k].rts
      BY <2>3
    <3>4. QED
      BY <2>4, <3>1, <3>2, <3>3 DEF Current
  <2>6. QED
    BY <1>4, <1>5, <2>2, <2>5 DEF KnownCheck, Written, Current
<1>10. KnownTuples(t)' /\ KnownStamps(t)'
  BY <1>5, <1>6 DEF KnownTuples, KnownStamps
<1>11. QED
  BY <1>7, <1>8, <1>9, <1>10 DEF Known

LEMMA LookupCheckKnow ==
  ASSUME LockTableAssumption, LooksUpOnce, SerialInv, HistInv', NEW t \in Thread,
         LookupCheck(t) \/ LookupOwn(t)
  PROVE  Effect(t) /\ Known(t)'
<1>1. HistInv /\ Inv /\ Known(t) /\ Quiet(t)
  BY TicTocDiskAssumption, ReadQuiet, CallQuiet DEF SerialInv, OrderInv, HistInv
<1>2. PICK k \in Key : k = CallKey(t)
  BY <1>1, ThreadTypes DEF LookupCheck, LookupOwn, Books, Phase
<1>3. /\ pc \in [Thread -> Label] /\ ent \in [Thread -> [Key -> Entry]]
      /\ reads \in [Thread -> SUBSET Read]
  BY <1>1 DEF Inv, TypeOK
<1>4. UNCHANGED <<tuple, db, seen, cts, hist, todo>>
  BY DEF LookupCheck, LookupOwn, commitVars
<1>5. pc'[t] \in {"read", "run"} /\ pc[t] \in {"check", "own"}
  BY <1>3 DEF LookupCheck, LookupOwn, Goto
<1>6. Stamped(t)' = {} /\ Sure(t)' = {} /\ Others(t)
  BY <1>1, <1>5, NothingStamped DEF Looking, Quiet
<1>7. Effect(t)
  BY <1>1, <1>4, <1>6, StillEffect
<1>8. \A r \in reads[t] : r.key \in Key /\ r.key # k
  BY <1>1, <1>2, <1>5, HistoryTypes DEF LooksUpOnce
<1>9. TuplesForward /\ hist \subseteq hist' /\ Inv'
  BY <1>1, <1>4, SameForward DEF HistInv
<1>10. /\ \A j \in Key : j # k => ent'[t][j].wts = ent[t][j].wts /\ ent'[t][j].rts = ent[t][j].rts
  <2>1. CASE ent' = ent
    BY <2>1
  <2>2. ASSUME NEW n \in Tuple, ent' = [ent EXCEPT ![t][k].wts = n.wts, ![t][k].rts = n.rts]
        PROVE  \A j \in Key : j # k => ent'[t][j] = ent[t][j]
    BY <1>3, <2>2
  <2>3. tuple[k] \in Tuple /\ seen[t] \in Tuple
    BY <1>1 DEF Inv, TypeOK
  <2>4. CASE LookupCheck(t)
    BY <1>2, <2>1, <2>2, <2>3, <2>4 DEF LookupCheck
  <2>5. CASE LookupOwn(t)
    BY <1>2, <2>1, <2>2, <2>3, <2>5 DEF LookupOwn
  <2>6. QED
    BY <2>4, <2>5
<1>11. ASSUME NEW r \in reads[t]
       PROVE  /\ Written(r.key, r.ver, ent[t][r.key].wts)'
              /\ ent'[t][r.key].wts <= ent'[t][r.key].rts
              /\ Current(r.key, r.ver, ent[t][r.key].rts)'
  BY <1>1, <1>7, <1>8, <1>9, <1>10, <1>11, ReadsStayKnown DEF Known
<1>12. KnownReads(t)'
  <2>1. CASE reads'[t] = reads[t]
    BY <1>6, <1>11, <2>1 DEF KnownReads, Written, Current
  <2>2. CASE LookupCheck(t) /\ ~Busy(CallKey(t))
    <3>1. /\ pc[t] = "check" /\ reads' = [reads EXCEPT ![t] = @ \cup {[key |-> k, ver |-> got[t]]}]
          /\ ent' = [ent EXCEPT ![t][k].wts = seen[t].wts, ![t][k].rts = seen[t].rts]
      BY <1>2, <2>2 DEF LookupCheck
    <3>2. PICK v \in Nat, w \in Nat, c \in Nat :
            v = got[t] /\ w = seen[t].wts /\ c = seen[t].rts /\ w <= c
      BY <1>1, <3>1, SerialTypes DEF Inv, Books
    <3>3. Written(k, v, w) /\ Current(k, v, c)
      BY <1>1, <1>2, <3>1, <3>2 DEF Known, KnownCheck
    <3>4. Written(k, v, w)' /\ Current(k, v, c)'
      BY <1>1, <1>7, <1>9, <3>3, WrittenStays, CurrentStays DEF Effect
    <3>5. ent'[t][k].wts = w /\ ent'[t][k].rts = c
      BY <1>3, <3>1, <3>2 DEF Entry
    <3>6. reads'[t] = reads[t] \cup {[key |-> k, ver |-> v]}
      BY <1>3, <3>1, <3>2
    <3>7. ASSUME NEW r \in reads'[t], r.key = k, r.ver = v
          PROVE  /\ Written(r.key, r.ver, ent[t][r.key].wts)'
                 /\ ent'[t][r.key].wts <= ent'[t][r.key].rts
                 /\ Current(r.key, r.ver, ent[t][r.key].rts)'
      BY <3>2, <3>4, <3>5, <3>7 DEF Written, Current
    <3>8. \A r \in reads'[t] : r \in reads[t] \/ (r.key = k /\ r.ver = v)
      BY <3>6
    <3>9. QED
      BY <1>6, <1>11, <3>7, <3>8 DEF KnownReads, Written, Current
  <2>3. QED
    BY <1>2, <2>1, <2>2 DEF LookupCheck, LookupOwn
<1>13. KnownCheck(t)' /\ KnownTuples(t)' /\ KnownStamps(t)'
  BY <1>5, <1>6 DEF KnownCheck, KnownTuples, KnownStamps
<1>14. QED
  BY <1>7, <1>12, <1>13 DEF Known

\* A commit_ts is after the rts of what it stamps.
LEMMA StampKnow ==
  ASSUME LockTableAssumption, SerialInv, HistInv', NEW t \in Thread, Stamp(t)
  PROVE  Effect(t) /\ Known(t)'
<1>1. HistInv /\ Inv /\ Known(t) /\ Quiet(t)
  BY CommitQuiet DEF SerialInv, OrderInv, HistInv
<1>2. PICK k \in Key : k = Smallest(todo[t]) /\ k \in todo[t] /\ k \in WriteSet(t)
  BY <1>1, ThreadTypes DEF Stamp, Books
<1>3. /\ pc[t] = "stamp" /\ Mergeable(k) /\ cts' = [cts EXCEPT ![t] = Largest({@, tuple[k].rts + 1})]
      /\ todo' = [todo EXCEPT ![t] = @ \ {k}]
      /\ UNCHANGED <<tuple, db, hist, reads, ent, seen, pc>>
  BY <1>2 DEF Stamp, txnVars
<1>4. /\ cts[t] \in Nat /\ tuple[k].rts \in Nat /\ cts'[t] = Largest({cts[t], tuple[k].rts + 1})
      /\ todo'[t] = todo[t] \ {k}
  BY <1>1, <1>3, TupleTypes DEF Inv, TypeOK
<1>5. cts'[t] \in Nat /\ cts[t] <= cts'[t] /\ tuple[k].rts + 1 <= cts'[t]
  <2>1. tuple[k].rts + 1 \in Nat
    BY <1>4
  <2>2. QED
    BY <1>4, <2>1, LargerOfTwo
<1>6. Stamped(t)' \subseteq Stamped(t) \cup {k} /\ Sure(t)' = {}
  <2>1. WriteSet(t)' = WriteSet(t)
    BY <1>3 DEF WriteSet
  <2>2. QED
    BY <1>3, <1>4, <2>1 DEF Stamped, Sure
<1>7. \A j \in Stamped(t)' : \/ j \in Stamped(t) /\ cts[t] <= cts'[t]
                             \/ tuple[j].kind # "orphan" /\ tuple[j].rts < cts'[t]
  BY <1>3, <1>4, <1>5, <1>6 DEF Mergeable
<1>8. Effect(t)
  BY <1>1, <1>3, <1>7, StillEffect DEF Quiet
<1>9. KnownReads(t)'
  <2>1. TuplesForward /\ hist \subseteq hist'
    BY <1>1, <1>3, SameForward
  <2>2. QED
    BY <1>1, <1>3, <1>6, <1>8, <2>1, ReadsStayKnown DEF Known, KnownReads, Written, Current
<1>10. KnownStamps(t)'
  <2>1. ASSUME NEW j \in Stamped(t) PROVE tuple[j].kind # "orphan" /\ tuple[j].rts < cts'[t]
    <3>1. j \in Key /\ tuple[j].rts \in Nat
      BY <1>1, <2>1, SerialTypes, TupleTypes
    <3>2. QED
      BY <1>1, <1>4, <1>5, <2>1, <3>1 DEF Known, KnownStamps
  <2>2. tuple[k].kind # "orphan" /\ tuple[k].rts < cts'[t]
    BY <1>3, <1>4, <1>5 DEF Mergeable
  <2>3. QED
    BY <1>3, <1>6, <2>1, <2>2 DEF KnownStamps
<1>11. KnownCheck(t)' /\ KnownTuples(t)'
  BY <1>3 DEF KnownCheck, KnownTuples
<1>12. QED
  BY <1>8, <1>9, <1>10, <1>11 DEF Known

\* What a read is known to be current for is kept when the commit has its
\* commit_ts and takes some reads for valid.
LEMMA SureKnown ==
  ASSUME LockTableAssumption, HistInv, HistInv', NEW t \in Thread, Effect(t), TuplesForward,
         hist \subseteq hist', Known(t), reads'[t] = reads[t], ent'[t] = ent[t], cts'[t] = cts[t],
         \A r \in reads[t] : r.key \in Sure(t)' =>
           r.key \in Sure(t) \/ Current(r.key, r.ver, cts[t])'
  PROVE  KnownReads(t)'
<1>1. ASSUME NEW r \in reads[t]
      PROVE  /\ Written(r.key, r.ver, ent[t][r.key].wts)'
             /\ ent'[t][r.key].wts <= ent'[t][r.key].rts
             /\ Current(r.key, r.ver, ent[t][r.key].rts)'
             /\ r.key \in Sure(t)' => Current(r.key, r.ver, cts[t])'
  BY <1>1, ReadsStayKnown DEF Known
<1>2. QED
  BY <1>1 DEF KnownReads, Written, Current

LEMMA StampDoneKnow ==
  ASSUME LockTableAssumption, SerialInv, HistInv', NEW t \in Thread, StampDone(t)
  PROVE  Effect(t) /\ Known(t)'
<1>1. HistInv /\ Inv /\ Known(t) /\ Quiet(t) /\ cts[t] \in Nat
  BY CommitQuiet, HistoryTypes DEF SerialInv, OrderInv, HistInv
<1>2. /\ pc[t] = "stamp" /\ todo[t] = {} /\ pc'[t] = "validate"
      /\ todo'[t] = {k \in ReadSet(t) : ent[t][k].rts < cts[t]}
      /\ UNCHANGED <<tuple, db, hist, reads, ent, seen, cts>>
  BY <1>1 DEF StampDone, Goto, txnVars, Inv, TypeOK
<1>3. WriteSet(t)' = WriteSet(t) /\ ReadSet(t)' = ReadSet(t)
  BY <1>2 DEF WriteSet, ReadSet
<1>4. Stamped(t)' = Stamped(t) /\ Sure(t)' = ReadSet(t) \ {k \in ReadSet(t) : ent[t][k].rts < cts[t]}
  BY <1>2, <1>3 DEF Stamped, Sure
<1>5. Effect(t)
  BY <1>1, <1>2, <1>4, StillEffect DEF Quiet
<1>6. TuplesForward /\ hist \subseteq hist' /\ Inv' /\ Advance
  BY <1>1, <1>2, <1>5, SameForward DEF HistInv, Effect
<1>7. ASSUME NEW r \in reads[t], r.key \in Sure(t)' PROVE Current(r.key, r.ver, cts[t])'
  <2>1. PICK k \in Key, v \in Nat, c \in Nat, d \in Nat :
          k = r.key /\ v = r.ver /\ c = ent[t][k].rts /\ d = cts[t]
    BY <1>1, <1>7, HistoryTypes, SerialTypes
  <2>2. Current(k, v, c) /\ d <= c
    BY <1>1, <1>4, <1>7, <2>1 DEF Known, KnownReads
  <2>3. Current(k, v, d)
    BY <1>1, <2>2, CurrentEarlier
  <2>4. Current(k, v, d)'
    BY <1>1, <1>6, <2>3, CurrentStays
  <2>5. QED
    BY <1>2, <2>1, <2>4 DEF Current
<1>8. KnownReads(t)'
  BY <1>1, <1>2, <1>5, <1>6, <1>7, SureKnown
<1>9. KnownCheck(t)' /\ KnownTuples(t)' /\ KnownStamps(t)'
  BY <1>1, <1>2, <1>4 DEF Known, KnownCheck, KnownTuples, KnownStamps
<1>10. QED
  BY <1>5, <1>8, <1>9 DEF Known

\* No later version than the read one is there while the stored wts is the one
\* that was read.
LEMMA NewestRead ==
  ASSUME LockTableAssumption, SerialInv, NEW t \in Thread, NEW r \in reads[t],
         tuple[r.key].wts = ent[t][r.key].wts
  PROVE  \A j \in r.ver + 1 .. Len(db[r.key]) : FALSE
<1>1. HistInv /\ Inv
  BY DEF SerialInv, OrderInv, HistInv
<1>2. PICK k \in Key, v \in Nat : k = r.key /\ v = r.ver
  BY <1>1, HistoryTypes
<1>3. SUFFICES ASSUME NEW j \in v + 1 .. Len(db[k]) PROVE FALSE
  BY <1>2
<1>4. j \in DOMAIN db[k]
  BY <1>1, HistoryTypes
<1>5. PICK h \in hist : h.id = db[k][j]
  BY <1>1, <1>4 DEF HistInv, Stored
<1>6. h.cts <= tuple[k].wts
  BY <1>4, <1>5 DEF SerialInv, OrderInv, Below
<1>7. ent[t][k].rts < h.cts /\ ent[t][k].wts <= ent[t][k].rts
  BY <1>2, <1>5 DEF SerialInv, Known, KnownReads, Current
<1>8. h.cts \in Nat /\ ent[t][k].wts \in Nat /\ ent[t][k].rts \in Nat
  BY <1>1, HistoryTypes, SerialTypes
<1>9. QED
  BY <1>2, <1>6, <1>7, <1>8

LEMMA TryLockKnow ==
  ASSUME LockTableAssumption, HistInv, HistInv', NEW t \in Thread, Known(t),
         ValidateLock(t) \/ ValidateNext(t)
  PROVE  Effect(t) /\ Known(t)'
<1>1. /\ pc \in [Thread -> Label] /\ todo \in [Thread -> SUBSET Key]
      /\ pc[t] \in {"validate", "next"}
  BY DEF HistInv, Inv, TypeOK, ValidateLock, ValidateNext
<1>2. Quiet(t)
  BY DecideQuiet
<1>3. UNCHANGED <<tuple, ent, reads, seen, cts>>
  BY DEF ValidateLock, ValidateNext, txnVars
<1>4. WriteSet(t)' = WriteSet(t) /\ ReadSet(t)' = ReadSet(t)
  BY <1>3 DEF WriteSet, ReadSet
<1>5. pc'[t] \in {"stamps", "validate"} /\ Stamped(t)' = Stamped(t) /\ Sure(t)' \subseteq Sure(t)
  <2>1. CASE ValidateLock(t)
    <3>1. pc[t] = "validate" /\ pc'[t] = "stamps" /\ todo' = todo
      BY <1>1, <2>1 DEF ValidateLock, Goto
    <3>2. QED
      BY <1>4, <3>1 DEF Stamped, Sure, Looking
  <2>2. CASE ValidateNext(t)
    <3>1. pc[t] = "next" /\ pc'[t] = "validate" /\ todo'[t] = todo[t] \ {Validated(t)}
      BY <1>1, <2>2 DEF ValidateNext, Goto
    <3>2. QED
      BY <1>4, <3>1 DEF Stamped, Sure, Looking
  <2>3. QED
    BY <2>1, <2>2
<1>6. QED
  BY <1>2, <1>3, <1>5, PlainStep

\* Giving up leaves nothing to know.
LEMMA GiveUpKnow ==
  ASSUME LockTableAssumption, HistInv, HistInv', NEW t \in Thread, Known(t), Quiet(t), GiveUp(t),
         UNCHANGED <<tuple, ent, reads, cts>>, \A u \in Thread : u # t => seen'[u] = seen[u]
  PROVE  Effect(t) /\ Known(t)'
<1>1. pc'[t] = "unlock"
  BY DEF GiveUp, Goto, HistInv, Inv, TypeOK
<1>2. Stamped(t)' = {} /\ Sure(t)' = {}
  BY <1>1, NothingStamped DEF Looking
<1>3. QED
  BY <1>1, <1>2, PlainStep

\* A version that is the newest, at a timestamp up to its rts.
LEMMA CurrentNewest ==
  ASSUME LockTableAssumption, SerialInv, NEW k \in Key, NEW v \in Nat, NEW c \in Nat,
         \A j \in v + 1 .. Len(db[k]) : FALSE, c <= tuple[k].rts
  PROVE  Current(k, v, c)
<1>1. \A u \in Thread : k \in Stamped(u) => c < cts[u]
  <2>1. tuple[k].rts \in Nat /\ \A u \in Thread : cts[u] \in Nat
    BY TupleTypes, HistoryTypes DEF SerialInv, OrderInv, HistInv
  <2>2. QED
    BY <2>1 DEF SerialInv, Known, KnownStamps
<1>2. QED
  BY <1>1 DEF Current

LEMMA StampsKnow ==
  ASSUME LockTableAssumption, SerialInv, HistInv', NEW t \in Thread, ValidateStamps(t)
  PROVE  Effect(t) /\ Known(t)'
<1>1. HistInv /\ Inv /\ Known(t) /\ Quiet(t) /\ cts[t] \in Nat
  BY DecideQuiet, HistoryTypes DEF SerialInv, OrderInv, HistInv
<1>2. pc[t] = "stamps" /\ todo[t] # {}
  BY <1>1 DEF ValidateStamps, Inv, Books, Looking
<1>3. PICK k \in Key : k = Validated(t)
  BY <1>1, <1>2, ValidatedMember DEF Looking
<1>4. /\ UNCHANGED <<tuple, db, hist, reads, ent, cts>> /\ seen' = [seen EXCEPT ![t] = tuple[k]]
  BY <1>3 DEF ValidateStamps, txnVars
<1>5. seen'[t] = tuple[k] /\ \A u \in Thread : u # t => seen'[u] = seen[u]
  BY <1>1, <1>4 DEF Inv, TypeOK
<1>6. CASE GiveUp(t)
  BY <1>1, <1>4, <1>5, <1>6, GiveUpKnow
<1>7. CASE /\ Goto(t, CASE tuple[k].wts # ent[t][k].wts -> "differs"
                        [] tuple[k].wts = ent[t][k].wts /\ tuple[k].rts < cts[t] -> "extend"
                        [] OTHER -> "next")
           /\ UNCHANGED todo
  <2>1. /\ \/ pc'[t] \in {"differs", "extend"}
           \/ pc'[t] = "next" /\ tuple[k].wts = ent[t][k].wts /\ cts[t] <= tuple[k].rts
        /\ todo'[t] = todo[t]
    <3>1. pc \in [Thread -> Label] /\ tuple[k].rts \in Nat
      BY <1>1, TupleTypes DEF Inv, TypeOK
    <3>2. QED
      BY <1>1, <1>7, <3>1 DEF Goto
  <2>2. /\ WriteSet(t)' = WriteSet(t) /\ ReadSet(t)' = ReadSet(t) /\ Validated(t)' = k
    <3>1. order' = order
      BY DEF ValidateStamps, txnVars
    <3>2. QED
      BY <1>3, <1>4, <2>1, <3>1 DEF WriteSet, ReadSet, Validated, First
  <2>3. /\ Stamped(t)' = Stamped(t)
        /\ Sure(t)' \subseteq Sure(t) \cup (IF pc'[t] = "next" THEN {k} ELSE {})
    BY <1>2, <2>1, <2>2 DEF Stamped, Sure, Looking
  <2>4. Effect(t)
    BY <1>1, <1>4, <1>5, <2>3, StillEffect DEF Quiet
  <2>5. TuplesForward /\ hist \subseteq hist' /\ Inv' /\ Advance
    BY <1>1, <1>4, <2>4, SameForward DEF HistInv, Effect
  <2>6. ASSUME NEW r \in reads[t], r.key \in Sure(t)', r.key \notin Sure(t)
        PROVE  Current(r.key, r.ver, cts[t])'
    <3>1. r.key = k /\ tuple[k].wts = ent[t][k].wts /\ cts[t] <= tuple[k].rts
      BY <2>1, <2>3, <2>6
    <3>2. PICK v \in Nat, c \in Nat : v = r.ver /\ c = cts[t]
      BY <1>1, <2>6, HistoryTypes
    <3>3. \A j \in v + 1 .. Len(db[k]) : FALSE
      BY <2>6, <3>1, <3>2, NewestRead
    <3>4. Current(k, v, c)
      BY <3>1, <3>2, <3>3, CurrentNewest
    <3>5. Current(k, v, c)'
      BY <1>1, <2>5, <3>4, CurrentStays
    <3>6. QED
      BY <1>4, <3>1, <3>2, <3>5 DEF Current
  <2>7. KnownReads(t)'
    <3>1. ent'[t] = ent[t] /\ reads'[t] = reads[t] /\ cts'[t] = cts[t]
      BY <1>4
    <3>2. QED
      BY <1>1, <2>4, <2>5, <2>6, <3>1, SureKnown
  <2>8. KnownCheck(t)' /\ KnownTuples(t)' /\ KnownStamps(t)'
    <3>1. tuple[k].wts >= tuple[k].wts
      <4>1. tuple[k].wts \in Nat
        BY <1>1, TupleTypes
      <4>2. QED
        BY <4>1
    <3>2. QED
      BY <1>1, <1>4, <1>5, <2>1, <2>2, <2>3, <3>1 DEF Known, KnownCheck, KnownTuples, KnownStamps
  <2>9. QED
    BY <2>4, <2>7, <2>8 DEF Known
<1>8. QED
  BY <1>3, <1>6, <1>7 DEF ValidateStamps

LEMMA DiffersKnow ==
  ASSUME LockTableAssumption, HistInv, HistInv', NEW t \in Thread, Known(t), ValidateDiffers(t)
  PROVE  Effect(t) /\ Known(t)'
<1>1. Inv /\ Quiet(t) /\ UNCHANGED <<tuple, db, hist, reads, ent, cts, order, seen>>
      /\ pc[t] = "differs" /\ cts[t] \in Nat
  BY DecideQuiet, HistoryTypes DEF HistInv, ValidateDiffers, txnVars
<1>2. CASE GiveUp(t)
  BY <1>1, <1>2, GiveUpKnow
<1>3. CASE Forgiving /\ seen[t].wts > cts[t] /\ Goto(t, "ask") /\ UNCHANGED todo
  <2>1. pc'[t] = "ask" /\ todo' = todo
    BY <1>1, <1>3 DEF Goto, Inv, TypeOK
  <2>2. WriteSet(t)' = WriteSet(t) /\ ReadSet(t)' = ReadSet(t) /\ Validated(t)' = Validated(t)
    BY <1>1, <2>1 DEF WriteSet, ReadSet, Validated, First
  <2>3. Stamped(t)' = Stamped(t) /\ Sure(t)' = Sure(t)
    BY <1>1, <2>1, <2>2 DEF Stamped, Sure, Looking
  <2>4. Effect(t)
    BY <1>1, <2>3, StillEffect DEF Quiet
  <2>5. TuplesForward /\ hist \subseteq hist'
    BY <1>1, SameForward
  <2>6. KnownReads(t)'
    <3>1. ent'[t] = ent[t] /\ reads'[t] = reads[t] /\ cts'[t] = cts[t]
      BY <1>1
    <3>2. QED
      BY <2>3, <2>4, <2>5, <3>1, SureKnown
  <2>7. tuple[Validated(t)].wts > cts[t]
    <3>1. todo[t] # {}
      BY <1>1 DEF Inv, Books, Looking
    <3>2. Validated(t) \in Key
      BY <1>1, <3>1, ValidatedMember DEF Looking
    <3>3. tuple[Validated(t)].wts \in Nat /\ seen[t].wts \in Nat
      BY <1>1, <3>2, TupleTypes, SerialTypes
    <3>4. QED
      BY <1>1, <1>3, <3>3 DEF Known, KnownTuples
  <2>8. KnownCheck(t)' /\ KnownTuples(t)' /\ KnownStamps(t)'
    BY <1>1, <1>3, <2>1, <2>2, <2>3, <2>7 DEF Known, KnownCheck, KnownTuples, KnownStamps
  <2>9. QED
    BY <2>4, <2>6, <2>8 DEF Known
<1>4. QED
  BY <1>2, <1>3 DEF ValidateDiffers

\* A validation that the log forgives: every later version is in the log, after
\* the window, or is the one that is stored now, which is after it too.
LEMMA AskKnow ==
  ASSUME LockTableAssumption, SerialInv, HistInv', NEW t \in Thread, ValidateAsk(t)
  PROVE  Effect(t) /\ Known(t)'
<1>1. /\ HistInv /\ Inv /\ Known(t) /\ Quiet(t) /\ cts[t] \in Nat /\ pc[t] = "ask"
      /\ UNCHANGED <<tuple, db, hist, reads, ent, cts, order, seen>>
  BY DecideQuiet, HistoryTypes DEF SerialInv, OrderInv, HistInv, ValidateAsk, txnVars
<1>2. PICK k \in Key : k = Validated(t)
  <2>1. todo[t] # {}
    BY <1>1 DEF Inv, Books
  <2>2. QED
    BY <1>1, <2>1, ValidatedMember
<1>3. CASE GiveUp(t)
  BY <1>1, <1>3, GiveUpKnow
<1>4. CASE ~Intermediate(t, k)
  <2>1. pc'[t] = "validate" /\ todo'[t] = todo[t] \ {k}
    BY <1>1, <1>2, <1>4 DEF ValidateAsk, Goto, Inv, TypeOK
  <2>2. WriteSet(t)' = WriteSet(t) /\ ReadSet(t)' = ReadSet(t)
    BY <1>1 DEF WriteSet, ReadSet
  <2>3. Stamped(t)' = Stamped(t) /\ Sure(t)' \subseteq Sure(t) \cup {k}
    BY <1>1, <2>1, <2>2 DEF Stamped, Sure, Looking
  <2>4. Effect(t)
    BY <1>1, <2>3, StillEffect DEF Quiet
  <2>5. TuplesForward /\ hist \subseteq hist' /\ Inv' /\ Advance
    BY <1>1, <2>4, SameForward DEF HistInv, Effect
  <2>6. ASSUME NEW r \in reads[t], r.key = k PROVE Current(r.key, r.ver, cts[t])'
    <3>1. PICK v \in Nat, c \in Nat, d \in Nat : v = r.ver /\ c = ent[t][k].rts /\ d = cts[t]
      BY <1>1, <2>6, HistoryTypes, SerialTypes
    <3>2. /\ Current(k, v, c) /\ Covered(k, v) /\ ent[t][k].wts <= c /\ ent[t][k].wts \in Nat
          /\ tuple[k].wts > d /\ tuple[k].wts \in Nat /\ tuple[k].rts \in Nat
          /\ tuple[k].wts <= tuple[k].rts
      BY <1>1, <1>2, <2>6, <3>1, TupleTypes, SerialTypes
         DEF Known, KnownReads, KnownTuples, SerialInv, FollowInv, Followed
    <3>3. ASSUME NEW j \in v + 1 .. Len(db[k]), NEW h \in hist, h.id = db[k][j]
          PROVE  d < h.cts
      <4>1. c < h.cts /\ h.cts \in Nat
        BY <1>1, <3>2, <3>3, HistoryTypes DEF Current
      <4>2. CASE Logged(k, j)
        <5>1. PICK i \in DOMAIN log[k] : h.cts = log[k][i]
          BY <1>1, <3>3, <4>2 DEF Logged, HistInv, Unique
        <5>2. ent[t][k].wts < log[k][i]
          BY <3>2, <4>1, <5>1
        <5>3. ~(log[k][i] <= cts[t])
          BY <1>4, <5>2 DEF Intermediate
        <5>4. QED
          BY <3>1, <4>1, <5>1, <5>3
      <4>3. CASE Pending(k, j)
        <5>1. PICK u \in Thread : pc[u] = "record" /\ Smallest(todo[u]) = k /\ db[k][j] = Id(u)
          BY <4>3 DEF Pending
        <5>2. h.cts = cts[u]
          BY <1>1, <3>3, <5>1 DEF HistInv, Recorded, Recording, Unique
        <5>3. tuple[k].wts = cts[u]
          BY <5>1 DEF SerialInv, Known, KnownTuples
        <5>4. QED
          BY <3>2, <5>2, <5>3
      <4>4. QED
        BY <3>2, <3>3, <4>2, <4>3 DEF Covered
    <3>4. \A u \in Thread : k \in Stamped(u) => d < cts[u]
      <4>1. \A u \in Thread : cts[u] \in Nat
        BY <1>1, HistoryTypes
      <4>2. \A u \in Thread : k \in Stamped(u) => tuple[k].rts < cts[u]
        BY DEF SerialInv, Known, KnownStamps
      <4>3. d < tuple[k].rts
        BY <3>2
      <4>4. QED
        BY <3>2, <4>1, <4>2, <4>3
    <3>5. Current(k, v, d)
      BY <3>2, <3>3, <3>4 DEF Current
    <3>6. Current(k, v, d)'
      BY <1>1, <2>5, <3>5, CurrentStays
    <3>7. QED
      BY <1>1, <2>6, <3>1, <3>6 DEF Current
  <2>7. KnownReads(t)'
    <3>1. ent'[t] = ent[t] /\ reads'[t] = reads[t] /\ cts'[t] = cts[t]
      BY <1>1
    <3>2. \A r \in reads[t] : r.key \in Sure(t)' =>
            r.key \in Sure(t) \/ Current(r.key, r.ver, cts[t])'
      BY <2>3, <2>6
    <3>3. QED
      BY <1>1, <2>4, <2>5, <3>1, <3>2, SureKnown
  <2>8. KnownCheck(t)' /\ KnownTuples(t)' /\ KnownStamps(t)'
    BY <1>1, <2>1, <2>3 DEF Known, KnownCheck, KnownTuples, KnownStamps
  <2>9. QED
    BY <2>4, <2>7, <2>8 DEF Known
<1>5. QED
  BY <1>2, <1>3, <1>4 DEF ValidateAsk

\* The rts of a version that is still the newest goes up to commit_ts, under a
\* lock that is for this read alone.
LEMMA ExtendKnow ==
  ASSUME LockTableAssumption, LooksUpOnce, SerialInv, HistInv', NEW t \in Thread,
         ValidateExtend(t)
  PROVE  Effect(t) /\ Known(t)'
<1>1. /\ HistInv /\ Inv /\ Inv' /\ Known(t) /\ Quiet(t) /\ cts[t] \in Nat /\ pc[t] = "extend"
      /\ Books(t) /\ Times(t)
  BY ExtendQuiet, HistoryTypes DEF SerialInv, OrderInv, HistInv, ValidateExtend, Inv
<1>2. PICK k \in Key : k = Validated(t) /\ k \in ReadSet(t) /\ k \notin WriteSet(t)
  <2>1. todo[t] # {}
    BY <1>1 DEF Books, Looking
  <2>2. QED
    BY <1>1, <2>1, ValidatedMember DEF Looking, LooksUpOnce
<1>3. /\ tuple' = [tuple EXCEPT ![k] = IF @.kind = "value" THEN [@ EXCEPT !.rts = cts[t]]
                                       ELSE Orphan]
      /\ pc' = [pc EXCEPT ![t] = "next"]
      /\ UNCHANGED <<db, order, ent, reads, todo, cts, rc, hist, seen>>
  BY <1>2 DEF ValidateExtend, MoveRts, Goto, txnVars, commitVars
<1>4. /\ tuple'[k].kind = "orphan" \/ tuple'[k].rts = cts[t]
      /\ tuple[k].kind = "orphan" => tuple'[k].kind = "orphan"
      /\ \A j \in Key : j # k => tuple'[j] = tuple[j]
      /\ pc'[t] = "next"
  <2>1. tuple \in [Key -> Tuple] /\ tuple[k] \in Tuple /\ pc \in [Thread -> Label]
    BY <1>1 DEF Inv, TypeOK
  <2>2. QED
    BY <1>1, <1>3, <2>1 DEF Tuple, Absent, Orphan
<1>5. k \in LockSet(t) /\ \A u \in Thread : u # t => k \notin LockSet(u)
  <2>1. rc[t] = "ok"
    BY <1>1, <1>2 DEF Books, Looking, Inv, TypeOK
  <2>2. k \in LockSet(t)
    BY <1>1, <1>2, <2>1 DEF LockSet, Phase
  <2>3. QED
    BY <1>1, <2>2, LockedAlone
<1>6. /\ Stamped(t) = WriteSet(t) /\ Stamped(t)' = WriteSet(t) /\ Sure(t)' \subseteq Sure(t) \cup {k}
  <2>1. /\ WriteSet(t)' = WriteSet(t) /\ ReadSet(t)' = ReadSet(t) /\ Validated(t)' = k
    BY <1>2, <1>3 DEF WriteSet, ReadSet, Validated, First
  <2>2. QED
    BY <1>1, <1>3, <1>4, <2>1 DEF Stamped, Sure, Looking
<1>7. \A u \in Thread : /\ Stamped(u)' = Stamped(u) /\ cts'[u] = cts[u] /\ k \notin Stamped(u)
  <2>1. ASSUME NEW u \in Thread, u # t PROVE Stamped(u)' = Stamped(u) /\ k \notin Stamped(u)
    BY <1>1, <1>5, <2>1, SameThread, KnownLocked DEF Quiet, Others
  <2>2. QED
    BY <1>2, <1>3, <1>6, <2>1
<1>8. Effect(t)
  <2>1. \A u \in Thread : cts[u] \in Nat
    BY <1>1, HistoryTypes
  <2>2. \A j \in Key : Len(db[j]) <= Len(db[j])
    BY <1>1, HistoryTypes
  <2>3. Advance
    <3>1. \A j \in Key : tuple[j].kind = "orphan" => tuple'[j].kind = "orphan"
      BY <1>4
    <3>2. \A j \in Key : /\ Len(db[j]) <= Len(db'[j])
                         /\ \A i \in DOMAIN db[j] : db'[j][i] = db[j][i]
      BY <1>3, <2>2
    <3>3. \A j \in Key : \A i \in DOMAIN db'[j] : \A h \in hist' : h.id = db'[j][i] =>
            i \in DOMAIN db[j] /\ h \in hist
      BY <1>3
    <3>4. \A u \in Thread : \A j \in Stamped(u)' : j \in Stamped(u) /\ cts[u] <= cts'[u]
      BY <1>7, <2>1
    <3>5. QED
      BY <3>1, <3>2, <3>3, <3>4 DEF Advance
  <2>4. \A u \in Thread, j \in Key : u # t /\ j \in LockSet(u) => tuple'[j] = tuple[j]
    BY <1>4, <1>5
  <2>5. QED
    BY <1>1, <1>3, <2>3, <2>4 DEF Effect, Quiet
<1>9. TuplesForward /\ hist \subseteq hist'
  BY <1>1, <1>3 DEF Quiet
<1>10. ASSUME NEW r \in reads[t], r.key = k PROVE Current(r.key, r.ver, cts[t])'
  <2>1. \A j \in r.ver + 1 .. Len(db[k]) : FALSE
    BY <1>1, <1>2, <1>10, NewestRead DEF Times
  <2>2. cts[t] <= cts[t]
    BY <1>1
  <2>3. /\ tuple'[k].kind = "orphan" \/ cts[t] <= tuple'[k].rts
        /\ \A j \in r.ver + 1 .. Len(db'[k]) : FALSE
        /\ \A u \in Thread : k \notin Stamped(u)'
    BY <1>3, <1>4, <1>7, <2>1, <2>2
  <2>4. PICK v : v = r.ver
    OBVIOUS
  <2>5. Current(k, v, cts[t])'
    BY <1>3, <2>3, <2>4 DEF Current
  <2>6. QED
    BY <1>10, <2>4, <2>5
<1>11. KnownReads(t)'
  <2>1. ent'[t] = ent[t] /\ reads'[t] = reads[t] /\ cts'[t] = cts[t]
    BY <1>3
  <2>2. \A r \in reads[t] : r.key \in Sure(t)' =>
          r.key \in Sure(t) \/ Current(r.key, r.ver, cts[t])'
    BY <1>6, <1>10
  <2>3. QED
    BY <1>1, <1>8, <1>9, <2>1, <2>2, SureKnown
<1>12. KnownCheck(t)' /\ KnownTuples(t)' /\ KnownStamps(t)'
  <2>1. \A j \in WriteSet(t) : tuple'[j] = tuple[j]
    BY <1>2, <1>4 DEF WriteSet
  <2>2. QED
    BY <1>1, <1>3, <1>4, <1>6, <2>1 DEF Known, KnownCheck, KnownTuples, KnownStamps
<1>13. QED
  BY <1>8, <1>11, <1>12 DEF Known

\* A transaction that passes validation: all it has read is current at its
\* commit_ts, and nobody has read from it.
LEMMA DoneSerial ==
  ASSUME LockTableAssumption, SerialInv, OrderInv', Forgiving => FollowInv', NEW t \in Thread,
         ValidateDone(t)
  PROVE  SerialInv'
<1>1. HistInv /\ HistInv' /\ Inv /\ Inv' /\ Known(t) /\ Books(t) /\ Times(t) /\ cts[t] \in Nat
  BY HistoryTypes DEF SerialInv, OrderInv, HistInv, Inv
<1>2. /\ Others(t) /\ UNCHANGED <<count, ent, reads, cts>>
      /\ \A h \in hist' : h \in hist \/ h.id = Id(t)
  BY <1>1, RealEffect, DoneEffect
<1>3. /\ pc[t] = "validate" /\ todo[t] = {} /\ pc'[t] = "install" /\ todo'[t] = WriteSet(t)
      /\ hist' = hist \cup {[id |-> Id(t), cts |-> cts[t], reads |-> reads[t]]}
      /\ UNCHANGED <<tuple, db, seen>>
  BY <1>1 DEF ValidateDone, Goto, Inv, TypeOK
<1>4. \A k \in Key : \A i \in DOMAIN db[k] : db[k][i] # Id(t)
  BY <1>1, <1>3, Uncommitted DEF Over
<1>5. Stamped(t)' = Stamped(t) /\ Sure(t) = ReadSet(t) /\ Sure(t)' = {}
  <2>1. WriteSet(t)' = WriteSet(t)
    BY <1>2 DEF WriteSet
  <2>2. QED
    BY <1>3, <2>1 DEF Stamped, Sure
<1>6. Effect(t)
  <2>1. \A h \in hist' : h \in hist \/ \A k \in Key : \A j \in DOMAIN db[k] : h.id # db[k][j]
    BY <1>2, <1>4
  <2>2. \A k \in Stamped(t)' : k \in Stamped(t) /\ cts[t] <= cts'[t]
    BY <1>1, <1>2, <1>5
  <2>3. QED
    BY <1>1, <1>2, <1>3, <2>1, <2>2, StillEffect
<1>7. TuplesForward /\ hist \subseteq hist' /\ Advance
  BY <1>1, <1>3, <1>6, SameForward DEF Effect
<1>8. Known(t)'
  BY <1>1, <1>2, <1>3, <1>5, <1>6, <1>7, StillKnown
<1>9. \A u \in Thread : Known(u)'
  BY <1>1, <1>6, <1>7, <1>8, OthersKnow DEF SerialInv
<1>10. ASSUME NEW r \in reads[t]
       PROVE  Written(r.key, r.ver, cts[t])' /\ Current(r.key, r.ver, cts[t])'
  <2>1. PICK k \in Key, v \in Nat, w \in Nat, d \in Nat :
          k = r.key /\ v = r.ver /\ w = ent[t][k].wts /\ d = cts[t]
    BY <1>1, HistoryTypes, SerialTypes
  <2>2. k \in ReadSet(t)
    BY <1>1, <2>1 DEF HistInv, ReadsListed, ReadSet
  <2>3. w <= d
    BY <1>1, <1>3, <2>1, <2>2 DEF Times, Phase, Committing
  <2>4. Written(k, v, w) /\ Current(k, v, d)
    BY <1>1, <1>5, <2>1, <2>2 DEF Known, KnownReads
  <2>5. Written(k, v, d)
    BY <1>1, <2>3, <2>4, LaterWritten
  <2>6. Written(k, v, d)' /\ Current(k, v, d)'
    BY <1>1, <1>7, <2>4, <2>5, WrittenStays, CurrentStays
  <2>7. QED
    BY <1>2, <2>1, <2>6 DEF Written, Current
<1>11. Kept'
  <2>1. ASSUME NEW h \in hist', h \notin hist, NEW r \in h.reads
        PROVE  Written(r.key, r.ver, h.cts)' /\ Current(r.key, r.ver, h.cts)'
    <3>1. h.cts = cts[t] /\ h.reads = reads[t]
      BY <1>3, <2>1
    <3>2. QED
      BY <1>2, <1>10, <2>1, <3>1 DEF Written, Current
  <2>2. QED
    BY <1>1, <1>7, <2>1, KeptStays DEF SerialInv
<1>12. NoReadCycle'
  <2>1. \A a, b : ReadFrom(a, b)' <=> ReadFrom(a, b)
    BY <1>3 DEF ReadFrom
  <2>2. ASSUME NEW a \in hist', a \notin hist, NEW b \in hist' PROVE ~ReadFrom(a, b)
    <3>1. a.id = Id(t)
      BY <1>2, <2>2
    <3>2. \A r \in b.reads : r.key \in Key
      BY <1>1, <2>2 DEF Inv, TypeOK, Commit, Read
    <3>3. QED
      BY <1>4, <3>1, <3>2 DEF ReadFrom
  <2>3. ASSUME NEW S \in SUBSET hist', S # {}, \A a \in S : \E b \in S \ {a} : ReadFrom(a, b)
        PROVE  FALSE
    <3>1. S \subseteq hist
      BY <2>2, <2>3
    <3>2. QED
      BY <2>3, <3>1 DEF SerialInv, NoReadCycle
  <2>4. QED
    BY <2>1, <2>3 DEF NoReadCycle
<1>13. IsFiniteSet(hist')
  BY <1>3, FS_AddElement DEF SerialInv
<1>14. QED
  BY <1>9, <1>11, <1>12, <1>13 DEF SerialInv

\* A version that is installed has a timestamp that every read of the key by a
\* committed transaction is before.
LEMMA InstallSerial ==
  ASSUME LockTableAssumption, SerialInv, OrderInv', Forgiving => FollowInv', TuplesForward,
         NEW t \in Thread, Install(t)
  PROVE  SerialInv'
<1>1. HistInv /\ HistInv' /\ Inv /\ Inv' /\ Known(t) /\ Books(t) /\ Keeping(t) /\ cts[t] \in Nat
  BY HistoryTypes DEF SerialInv, OrderInv, HistInv, Inv
<1>2. PICK k \in Key : k = Smallest(todo[t])
  BY <1>1, ThreadTypes DEF Install
<1>3. /\ UNCHANGED <<hist, log, todo>> /\ pc[t] = "install" /\ k \in todo[t]
      /\ pc'[t] = (IF Forgiving THEN "record" ELSE "release")
      /\ tuple'[k] = (IF ent[t][k].wr = "delete" THEN Absent
                      ELSE [kind |-> "value", wts |-> cts[t], rts |-> cts[t]])
      /\ \A j \in Key : j # k => tuple'[j] = tuple[j] /\ db'[j] = db[j]
      /\ Len(db'[k]) = Len(db[k]) + 1 /\ db'[k][Len(db[k]) + 1] = Id(t)
      /\ \A i \in DOMAIN db[k] : db'[k][i] = db[k][i]
      /\ DOMAIN db'[k] = DOMAIN db[k] \cup {Len(db[k]) + 1}
  BY <1>1, <1>2, InstallEffect
<1>4. Others(t) /\ UNCHANGED <<ent, reads, cts, seen>>
  BY <1>1, RealEffect DEF Install, commitVars
<1>5. /\ Stamped(t) = todo[t] /\ Stamped(t)' = todo[t] \ {k} /\ Sure(t)' = {}
      /\ k \in Stamped(t)
  BY <1>2, <1>3 DEF Stamped, Sure, Looking
<1>6. k \in LockSet(t) /\ tuple[k].kind # "orphan"
  BY <1>1, <1>5, KnownLocked DEF Known, KnownStamps
<1>7. Advance
  <2>1. \A j \in Key : tuple[j].kind = "orphan" => tuple'[j].kind = "orphan"
    BY <1>3, <1>6
  <2>2. ASSUME NEW j \in Key
        PROVE  Len(db[j]) <= Len(db'[j]) /\ \A i \in DOMAIN db[j] : db'[j][i] = db[j][i]
    <3>1. Len(db[j]) \in Nat
      BY <1>1, HistoryTypes
    <3>2. QED
      BY <1>3, <3>1
  <2>3. ASSUME NEW j \in Key, NEW i \in DOMAIN db'[j], NEW h \in hist', h.id = db'[j][i]
        PROVE  \/ i \in DOMAIN db[j] /\ h \in hist
               \/ \E u \in Thread : j \in Stamped(u) /\ h.cts = cts[u]
    <3>1. CASE i \in DOMAIN db[j]
      BY <1>3, <2>3, <3>1
    <3>2. CASE i \notin DOMAIN db[j]
      <4>1. j = k /\ i = Len(db[k]) + 1
        BY <1>3, <2>3, <3>2
      <4>2. h \in hist /\ h.id = Id(t)
        BY <1>3, <2>3, <4>1
      <4>3. h.cts = cts[t]
        BY <1>1, <1>3, <4>2 DEF HistInv, Recorded, Recording, Unique
      <4>4. QED
        BY <1>5, <4>1, <4>3
    <3>3. QED
      BY <3>1, <3>2
  <2>4. ASSUME NEW u \in Thread, NEW j \in Stamped(u)'
        PROVE  j \in Stamped(u) /\ cts[u] <= cts'[u]
    <3>1. cts[u] \in Nat
      BY <1>1, HistoryTypes
    <3>2. CASE u = t
      BY <1>4, <1>5, <2>4, <3>1, <3>2
    <3>3. CASE u # t
      BY <1>4, <2>4, <3>1, <3>3, SameThread DEF Others
    <3>4. QED
      BY <3>2, <3>3
  <2>5. QED
    BY <2>1, <2>2, <2>3, <2>4 DEF Advance
<1>8. Effect(t)
  <2>1. \A u \in Thread, j \in Key : u # t /\ j \in LockSet(u) => tuple'[j] = tuple[j]
    BY <1>1, <1>3, <1>6, LockedAlone
  <2>2. QED
    BY <1>4, <1>7, <2>1 DEF Effect
<1>9. Known(t)'
  <2>1. KnownReads(t)'
    BY <1>1, <1>3, <1>4, <1>5, <1>8, SureKnown
  <2>2. KnownCheck(t)' /\ KnownTuples(t)'
    <3>1. pc'[t] \notin {"check", "differs", "ask"}
      BY <1>3
    <3>2. tuple'[k].wts = cts[t]
      BY <1>1, <1>3 DEF Keeping
    <3>3. QED
      BY <1>2, <1>3, <1>4, <3>1, <3>2 DEF KnownCheck, KnownTuples
  <2>3. KnownStamps(t)'
    <3>1. \A j \in todo[t] \ {k} : tuple'[j] = tuple[j]
      BY <1>1, <1>3 DEF Inv, TypeOK
    <3>2. QED
      BY <1>1, <1>4, <1>5, <3>1 DEF Known, KnownStamps
  <2>4. QED
    BY <2>1, <2>2, <2>3 DEF Known
<1>10. \A u \in Thread : Known(u)'
  BY <1>1, <1>3, <1>8, <1>9, OthersKnow DEF SerialInv
<1>11. Kept'
  BY <1>1, <1>3, <1>7, KeptStays DEF SerialInv
<1>12. NoReadCycle'
  <2>1. ASSUME NEW a \in hist, NEW b \in hist, ReadFrom(a, b)' PROVE ReadFrom(a, b)
    <3>1. PICK r \in b.reads : \E i \in DOMAIN db'[r.key] : i <= r.ver /\ db'[r.key][i] = a.id
      BY <2>1 DEF ReadFrom
    <3>2. PICK i \in DOMAIN db'[r.key] : i <= r.ver /\ db'[r.key][i] = a.id
      BY <3>1
    <3>3. r.key \in Key /\ r.ver \in Nat /\ r.ver <= Len(db[r.key])
      BY <1>1, SerialTypes DEF SerialInv, Kept, Written
    <3>4. db[r.key] \in Seq(Txn) /\ db'[r.key] \in Seq(Txn)
      BY <1>1, <3>3 DEF Inv, TypeOK
    <3>5. i \in DOMAIN db[r.key]
      BY <3>2, <3>3, <3>4
    <3>6. db'[r.key][i] = db[r.key][i]
      BY <1>3, <3>3, <3>5
    <3>7. QED
      BY <3>2, <3>5, <3>6 DEF ReadFrom
  <2>2. QED
    BY <1>3, <2>1 DEF SerialInv, NoReadCycle
<1>13. QED
  BY <1>3, <1>10, <1>11, <1>12 DEF SerialInv

LEMMA RecordSerial ==
  ASSUME LockTableAssumption, SerialInv, OrderInv', Forgiving => FollowInv', NEW t \in Thread,
         Record(t)
  PROVE  SerialInv'
<1>1. HistInv /\ HistInv' /\ Inv /\ Inv' /\ Known(t) /\ cts[t] \in Nat
  BY HistoryTypes DEF SerialInv, OrderInv, HistInv
<1>2. /\ pc[t] = "record" /\ pc'[t] = "release" /\ Others(t)
      /\ UNCHANGED <<tuple, db, hist, todo, ent, reads, cts, seen>>
  BY <1>1, RealEffect DEF Record, Goto, Inv, TypeOK, commitVars
<1>3. Stamped(t)' = Stamped(t) /\ Sure(t)' = {}
  BY <1>2 DEF Stamped, Sure, Looking
<1>4. \A k \in Stamped(t)' : k \in Stamped(t) /\ cts[t] <= cts'[t]
  BY <1>1, <1>2, <1>3
<1>5. Effect(t)
  BY <1>1, <1>2, <1>4, StillEffect
<1>6. Known(t)'
  BY <1>1, <1>2, <1>3, <1>5, StillKnown
<1>7. QED
  BY <1>1, <1>2, <1>5, <1>6, SameForward, QuietSerial

LEMMA InitSerial ==
  ASSUME LockTableAssumption, TicTocDiskAssumption, Init
  PROVE  SerialInv
<1>1. /\ hist = {} /\ \A t \in Thread : pc[t] = "idle" /\ reads[t] = {}
  BY DEF Init
<1>2. \A t \in Thread : Known(t)
  BY <1>1 DEF Known, KnownReads, KnownCheck, KnownTuples, KnownStamps, Stamped, Looking
<1>3. Kept /\ NoReadCycle /\ IsFiniteSet(hist)
  BY <1>1, FS_EmptySet DEF Kept, NoReadCycle
<1>4. QED
  BY <1>2, <1>3, InitHistory DEF SerialInv

LEMMA StutterSerial ==
  ASSUME SerialInv, UNCHANGED vars, OrderInv', Forgiving => FollowInv'
  PROVE  SerialInv'
<1>1. /\ UNCHANGED <<tuple, db, pc, back, calls, order, ent, got, reads, todo, cts, rc, seen, hist>>
  BY DEF vars, txnVars, commitVars
<1>2. \A u \in Thread : /\ Stamped(u)' = Stamped(u) /\ Sure(u)' = Sure(u)
                        /\ Validated(u)' = Validated(u) /\ CallKey(u)' = CallKey(u)
  BY <1>1 DEF Stamped, Sure, Validated, First, CallKey, WriteSet, ReadSet
<1>3. ASSUME NEW t \in Thread PROVE Known(t)'
  <2>1. Known(t)
    BY DEF SerialInv
  <2>2. KnownReads(t)'
    BY <1>1, <1>2, <2>1 DEF Known, KnownReads, Written, Current
  <2>3. KnownCheck(t)'
    BY <1>1, <1>2, <2>1 DEF Known, KnownCheck, Written, Current
  <2>4. KnownTuples(t)' /\ KnownStamps(t)'
    BY <1>1, <1>2, <2>1 DEF Known, KnownTuples, KnownStamps
  <2>5. QED
    BY <2>2, <2>3, <2>4 DEF Known
<1>4. Kept'
  BY <1>1, <1>2 DEF SerialInv, Kept, Written, Current
<1>5. NoReadCycle' /\ IsFiniteSet(hist')
  <2>1. \A a, b : ReadFrom(a, b)' <=> ReadFrom(a, b)
    BY <1>1 DEF ReadFrom
  <2>2. QED
    BY <1>1, <2>1 DEF SerialInv, NoReadCycle
<1>6. QED
  BY <1>3, <1>4, <1>5 DEF SerialInv

LEMMA NextSerial ==
  ASSUME LockTableAssumption, TicTocDiskAssumption, NoDeletes, LooksUpOnce,
         Forgiving => RoomInLog, SerialInv, [Next]_vars
  PROVE  SerialInv'
<1>1. /\ HistInv /\ OrderInv' /\ HistInv' /\ TuplesForward /\ (Forgiving => FollowInv')
      /\ \A t \in Thread : Known(t)
  BY NextOrder, NextFollow DEF SerialInv, OrderInv
<1>2. CASE UNCHANGED vars
  BY <1>1, <1>2, StutterSerial
<1>3. ASSUME NEW t \in Thread, Begin(t) \/ Step(t) \/ Abort(t)
      PROVE  SerialInv'
  <2>1. CASE ValidateDone(t)
    BY <1>1, <2>1, DoneSerial
  <2>2. CASE Install(t)
    BY <1>1, <2>2, InstallSerial
  <2>3. CASE Record(t)
    BY <1>1, <2>3, RecordSerial
  <2>4. CASE ~(ValidateDone(t) \/ Install(t) \/ Record(t))
    <3>1. Quiet(t)
      BY <1>1, <1>3, <2>4, QuietOrReal
    <3> SUFFICES Effect(t) /\ Known(t)'
      BY <1>1, <3>1, QuietSerial DEF Quiet
    <3>2. CASE Begin(t) \/ Abort(t)
      BY <1>1, <3>2, CallKnow, EndKnow
    <3>3. CASE Calls(t)
      BY <1>1, <3>3, CallKnow, LookupReadKnow, LookupCheckKnow DEF Calls
    <3>4. CASE Locking(t)
      BY <1>1, <3>4, CommitKnow, StampKnow, StampDoneKnow DEF Locking
    <3>5. CASE Deciding(t)
      BY <1>1, <2>4, <3>5, TryLockKnow, StampsKnow, DiffersKnow, AskKnow, ExtendKnow DEF Deciding
    <3>6. CASE Ending(t)
      BY <1>1, <2>4, <3>6, EndKnow DEF Ending
    <3>7. QED
      BY <1>3, <3>2, <3>3, <3>4, <3>5, <3>6 DEF Step
  <2>5. QED
    BY <2>1, <2>2, <2>3, <2>4
<1>4. QED
  BY <1>2, <1>3 DEF Next, Finished

\* The conflicts of the definition.
Conflicts(a, b) ==
  \/ \E k \in Key : \E i, j \in DOMAIN db[k] : i < j /\ db[k][i] = a.id /\ db[k][j] = b.id
  \/ ReadFrom(a, b)
  \/ \E r \in a.reads : \E j \in DOMAIN db[r.key] : j > r.ver /\ db[r.key][j] = b.id

LEMMA SerializableIs ==
  Serializable <=> ~\E S \in SUBSET hist : S # {} /\ \A a \in S : \E b \in S \ {a} : Conflicts(a, b)
BY DEF Serializable, Iso!Acyclic, Iso!Conflict, Conflicts, ReadFrom

\* A conflict goes to a transaction with a commit_ts that is no earlier, and to
\* one with the same only if that one has read from it.
LEMMA ConflictForward ==
  ASSUME SerialInv, NEW a \in hist, NEW b \in hist, Conflicts(a, b)
  PROVE  a.cts <= b.cts /\ (a.cts = b.cts => ReadFrom(a, b))
<1>1. /\ OrderInv /\ HistInv /\ Inv /\ a.cts \in Nat /\ b.cts \in Nat
      /\ \A k \in Key : db[k] \in Seq(Txn)
  BY HistoryTypes DEF SerialInv, OrderInv, HistInv
<1>2. \A h \in hist : \A r \in h.reads : r.key \in Key /\ r.ver \in Nat
  BY <1>1 DEF Inv, TypeOK, Commit, Read
<1>3. CASE \E k \in Key : \E i, j \in DOMAIN db[k] : i < j /\ db[k][i] = a.id /\ db[k][j] = b.id
  BY <1>1, <1>3 DEF OrderInv, InOrder
<1>4. CASE ReadFrom(a, b)
  <2>1. PICK r \in b.reads : \E i \in DOMAIN db[r.key] : i <= r.ver /\ db[r.key][i] = a.id
    BY <1>4 DEF ReadFrom
  <2>2. PICK i \in DOMAIN db[r.key] : i <= r.ver /\ db[r.key][i] = a.id
    BY <2>1
  <2>3. Written(r.key, r.ver, b.cts) /\ r.key \in Key /\ r.ver \in Nat
    BY <1>2 DEF SerialInv, Kept
  <2>4. r.ver \in DOMAIN db[r.key] /\ r.ver > 0
    BY <1>1, <2>2, <2>3 DEF Written
  <2>5. PICK h \in hist : h.id = db[r.key][r.ver]
    BY <1>1, <2>3, <2>4 DEF HistInv, Stored
  <2>6. h.cts <= b.cts /\ h.cts \in Nat
    BY <1>1, <2>3, <2>4, <2>5, HistoryTypes DEF Written
  <2>7. a.cts <= h.cts
    <3>1. CASE i = r.ver
      BY <1>1, <2>2, <2>5, <2>6, <3>1 DEF HistInv, Unique
    <3>2. CASE i < r.ver
      BY <1>1, <2>2, <2>3, <2>4, <2>5, <2>6, <3>2 DEF OrderInv, InOrder
    <3>3. QED
      BY <1>1, <2>2, <2>3, <3>1, <3>2
  <2>8. QED
    BY <1>1, <1>4, <2>6, <2>7
<1>5. CASE \E r \in a.reads : \E j \in DOMAIN db[r.key] : j > r.ver /\ db[r.key][j] = b.id
  <2>1. PICK r \in a.reads : \E j \in DOMAIN db[r.key] : j > r.ver /\ db[r.key][j] = b.id
    BY <1>5
  <2>2. Current(r.key, r.ver, a.cts) /\ r.key \in Key /\ r.ver \in Nat
    BY <1>2 DEF SerialInv, Kept
  <2>3. PICK j \in r.ver + 1 .. Len(db[r.key]) : db[r.key][j] = b.id
    BY <1>1, <2>1, <2>2
  <2>4. a.cts < b.cts
    BY <2>2, <2>3 DEF Current
  <2>5. QED
    BY <1>1, <2>4
<1>6. QED
  BY <1>3, <1>4, <1>5 DEF Conflicts

\* Among the transactions of a cycle those with the latest commit_ts would have
\* read from one another in a cycle of their own.
LEMMA SerialOrder ==
  ASSUME SerialInv
  PROVE  Serializable
<1>1. SUFFICES ASSUME NEW S \in SUBSET hist, S # {},
                      \A a \in S : \E b \in S \ {a} : Conflicts(a, b)
               PROVE  FALSE
  BY SerializableIs
<1>2. \A h \in hist : h.cts \in Nat
  BY HistoryTypes DEF SerialInv, OrderInv, HistInv
<1> DEFINE C == {h.cts : h \in S}
<1>3. C \in SUBSET Nat /\ C # {}
  BY <1>1, <1>2
<1>4. IsFiniteSet(C)
  <2>1. IsFiniteSet(S)
    BY <1>1, FS_Subset DEF SerialInv
  <2>2. [h \in S |-> h.cts] \in Surjection(S, C)
    BY DEF Surjection
  <2>3. QED
    BY <2>1, <2>2, FS_Surjection
<1>5. PICK m \in C : \A n \in C : n <= m
  BY <1>3, <1>4, LargestMember
<1> DEFINE M == {h \in S : h.cts = m}
<1>6. M # {} /\ M \in SUBSET hist
  BY <1>1, <1>5
<1>7. ASSUME NEW a \in M PROVE \E b \in M \ {a} : ReadFrom(a, b)
  <2>1. PICK b \in S \ {a} : Conflicts(a, b)
    BY <1>1, <1>7
  <2>2. a.cts <= b.cts /\ (a.cts = b.cts => ReadFrom(a, b))
    BY <1>1, <2>1, ConflictForward
  <2>3. a.cts = m /\ b.cts <= m /\ a.cts \in Nat /\ b.cts \in Nat
    BY <1>1, <1>2, <1>5
  <2>4. b.cts = m
    BY <2>2, <2>3
  <2>5. QED
    BY <2>1, <2>2, <2>3, <2>4
<1>8. QED
  BY <1>6, <1>7 DEF SerialInv, NoReadCycle

-----------------------------------------------------------------------------
(* Programs whose transactions look up each key once.                      *)

\* A program that looks up no key twice, and none that it writes.
LookupsApart == \A t \in Thread : \A n \in DOMAIN Programs[t] : \A p \in Programs[t][n] :
  \A i, j \in DOMAIN p : p[i].op = "lookup" /\ j # i => p[j].key # p[i].key

\* The calls that a transaction has still to make are apart from those it made.
PlanApart(t, c) ==
  /\ \A i, j \in DOMAIN c : c[i].op = "lookup" /\ j # i => c[j].key # c[i].key
  /\ \A i \in DOMAIN c : IF c[i].op = "lookup"
                         THEN c[i].key \notin WriteSet(t) /\ \A r \in reads[t] : r.key # c[i].key
                         ELSE c[i].key \notin ReadSet(t)
CallsApart(t) ==
  /\ PlanApart(t, calls[t])
  /\ ReadSet(t) \cap WriteSet(t) = {}
  /\ Phase(t) \in {"own", "read", "check"} => Head(calls[t]).op = "lookup"
  /\ pc[t] = "idle" => ReadSet(t) = {} /\ WriteSet(t) = {} /\ reads[t] = {}

ApartInv == HistInv /\ \A t \in Thread : CallsApart(t)

\* What is left of calls that are apart.
LEMMA ApartTail ==
  ASSUME Inv, NEW t \in Thread, calls[t] # <<>>, CallsApart(t)
  PROVE  /\ PlanApart(t, Tail(calls[t]))
         /\ LET c == Head(calls[t]) IN
              /\ c \in Op
              /\ IF c.op = "lookup" THEN c.key \notin WriteSet(t) ELSE c.key \notin ReadSet(t)
              /\ \A i \in DOMAIN Tail(calls[t]) :
                   /\ c.op = "lookup" => Tail(calls[t])[i].key # c.key
                   /\ Tail(calls[t])[i].op = "lookup" => Tail(calls[t])[i].key # c.key
<1>1. calls[t] \in Seq(Op)
  BY DEF Inv, TypeOK
<1>2. 1 \in DOMAIN calls[t] /\ Head(calls[t]) = calls[t][1] /\ Head(calls[t]) \in Op
  BY <1>1
<1>3. \A i \in DOMAIN Tail(calls[t]) : /\ i + 1 \in DOMAIN calls[t] /\ i + 1 # 1 /\ i \in Nat
                                       /\ Tail(calls[t])[i] = calls[t][i + 1]
  BY <1>1
<1>4. \A i, j \in DOMAIN Tail(calls[t]) : i # j => i + 1 # j + 1
  BY <1>3
<1>5. PlanApart(t, calls[t])
  BY DEF CallsApart
<1>6. PlanApart(t, Tail(calls[t]))
  BY <1>3, <1>4, <1>5 DEF PlanApart
<1>7. QED
  BY <1>2, <1>3, <1>5, <1>6 DEF PlanApart

\* A step that makes no call.
LEMMA ApartSame ==
  ASSUME NEW t \in Thread, CallsApart(t), calls'[t] = calls[t], reads'[t] = reads[t],
         ReadSet(t)' = ReadSet(t), WriteSet(t)' = WriteSet(t),
         Phase(t)' \in {"own", "read", "check"} => Phase(t) \in {"own", "read", "check"},
         pc'[t] # "idle"
  PROVE  CallsApart(t)'
  BY DEF CallsApart, PlanApart

LEMMA CallApart ==
  ASSUME LockTableAssumption, TicTocDiskAssumption, LookupsApart, ApartInv, NEW t \in Thread,
         Begin(t) \/ LocalWrite(t) \/ Lookup(t) \/ LookupOwn(t) \/ LookupRead(t) \/ LookupCheck(t)
  PROVE  CallsApart(t)'
<1>1. /\ pc \in [Thread -> Label] /\ back \in [Thread -> {"idle", "own", "read", "lock"}]
      /\ count \in [Thread -> Nat] /\ calls \in [Thread -> Seq(Op)]
      /\ ent \in [Thread -> [Key -> Entry]] /\ reads \in [Thread -> SUBSET Read]
      /\ HistInv /\ Inv /\ CallsApart(t) /\ calls[t] \in Seq(Op)
  BY DEF ApartInv, HistInv, Inv, TypeOK
<1>2. CASE Begin(t)
  <2>1. PICK p \in Programs[t][count[t] + 1] : calls' = [calls EXCEPT ![t] = p]
    BY <1>2 DEF Begin
  <2>2. /\ pc[t] = "idle" /\ count[t] < Len(Programs[t]) /\ ent' = ent /\ reads' = reads
        /\ pc' = [pc EXCEPT ![t] = "run"]
    BY <1>2 DEF Begin, Goto
  <2>3. \A i, j \in DOMAIN p : p[i].op = "lookup" /\ j # i => p[j].key # p[i].key
    <3>1. Programs[t] \in Seq(SUBSET Seq(Op)) /\ count[t] \in Nat
      BY <1>1 DEF TicTocDiskAssumption
    <3>2. count[t] + 1 \in DOMAIN Programs[t]
      BY <2>2, <3>1
    <3>3. QED
      BY <3>2 DEF LookupsApart
  <2>4. ReadSet(t)' = {} /\ WriteSet(t)' = {} /\ reads'[t] = {}
    BY <1>1, <2>2 DEF CallsApart, ReadSet, WriteSet
  <2>5. calls'[t] = p /\ pc'[t] = "run" /\ Phase(t)' = "run"
    BY <1>1, <2>1, <2>2 DEF Phase
  <2>6. QED
    BY <2>3, <2>4, <2>5 DEF CallsApart, PlanApart
<1>3. CASE LocalWrite(t)
  <2>1. PICK k \in Key : k = CallKey(t)
    BY <1>1, <1>3, ThreadTypes DEF LocalWrite, Calling
  <2>2. /\ pc' = pc /\ back' = back /\ pc[t] = "run" /\ calls[t] # <<>>
        /\ Head(calls[t]).op \in {"write", "delete"}
        /\ calls' = [calls EXCEPT ![t] = Tail(@)] /\ reads' = reads
        /\ ent' = [ent EXCEPT ![t][k].wr = Head(calls[t]).op]
    BY <1>3, <2>1 DEF LocalWrite, Calling, Return
  <2>3. \A j \in Key : /\ ent'[t][j].rd = ent[t][j].rd
                       /\ j # k => ent'[t][j].wr = ent[t][j].wr
    BY <1>1, <2>2 DEF Entry
  <2>4. ReadSet(t)' = ReadSet(t) /\ WriteSet(t)' \subseteq WriteSet(t) \cup {k}
    BY <2>3 DEF ReadSet, WriteSet
  <2>5. calls'[t] = Tail(calls[t]) /\ Phase(t)' = "run" /\ pc'[t] = "run"
    BY <1>1, <2>2 DEF Phase
  <2>6. /\ PlanApart(t, Tail(calls[t])) /\ k \notin ReadSet(t)
        /\ \A i \in DOMAIN Tail(calls[t]) : Tail(calls[t])[i].op = "lookup" => Tail(calls[t])[i].key # k
    BY <1>1, <2>1, <2>2, ApartTail DEF CallKey
  <2>7. ReadSet(t)' \cap WriteSet(t)' = {}
    BY <1>1, <2>4, <2>6 DEF CallsApart
  <2>8. PlanApart(t, calls[t])'
    <3>1. PICK c : c = Tail(calls[t])
      OBVIOUS
    <3>2. PlanApart(t, c)'
      BY <2>2, <2>4, <2>6, <3>1 DEF PlanApart
    <3>3. QED
      BY <2>5, <3>1, <3>2
  <2>9. QED
    BY <2>5, <2>7, <2>8 DEF CallsApart
<1>4. CASE Lookup(t)
  <2>1. PICK k \in Key : k = CallKey(t)
    BY <1>1, <1>4, ThreadTypes DEF Lookup, Calling
  <2>2. /\ pc[t] = "run" /\ calls[t] # <<>> /\ Head(calls[t]).op = "lookup"
        /\ calls' = calls /\ reads' = reads
        /\ ent' = [ent EXCEPT ![t][k].rd = TRUE, ![t][k].held = Forgiving]
    BY <1>4, <2>1 DEF Lookup, Calling
  <2>3. pc'[t] # "idle"
    BY <1>1, <1>4 DEF Lookup, Pin, Goto
  <2>4. \A j \in Key : /\ ent'[t][j].wr = ent[t][j].wr
                       /\ j # k => ent'[t][j].rd = ent[t][j].rd
    <3>1. ent[t] \in [Key -> Entry] /\ ent[t][k] \in Entry
      BY <1>1
    <3>2. ent'[t] = [ent[t] EXCEPT ![k].rd = TRUE, ![k].held = Forgiving]
      BY <1>1, <2>2
    <3>3. ent'[t][k].wr = ent[t][k].wr
      BY <3>1, <3>2 DEF Entry
    <3>4. \A j \in Key : j # k => ent'[t][j] = ent[t][j]
      BY <3>1, <3>2
    <3>5. QED
      BY <3>3, <3>4
  <2>5. WriteSet(t)' = WriteSet(t) /\ ReadSet(t)' \subseteq ReadSet(t) \cup {k}
    BY <2>4 DEF ReadSet, WriteSet
  <2>6. k \notin WriteSet(t)
    BY <1>1, <2>1, <2>2, ApartTail DEF CallKey
  <2>7. \A i \in DOMAIN calls[t] : calls[t][i].op # "lookup" => calls[t][i].key # k
    <3>1. Head(calls[t]) = calls[t][1] /\ 1 \in DOMAIN calls[t]
      BY <1>1, <2>2
    <3>2. QED
      BY <1>1, <2>1, <2>2, <3>1 DEF CallsApart, PlanApart, CallKey
  <2>8. PlanApart(t, calls[t])'
    BY <1>1, <2>2, <2>5, <2>7 DEF CallsApart, PlanApart
  <2>9. QED
    BY <1>1, <2>2, <2>3, <2>5, <2>6, <2>8 DEF CallsApart
<1>5. CASE LookupOwn(t)
  <2>1. PICK k \in Key : k = CallKey(t)
    BY <1>1, <1>5, ThreadTypes DEF LookupOwn, Inv, Books, Phase
  <2>2. /\ pc[t] = "own" /\ pc' = [pc EXCEPT ![t] = "run"] /\ reads' = reads
        /\ calls' = [calls EXCEPT ![t] = Tail(@)]
        /\ \/ ent' = ent
           \/ ent' = [ent EXCEPT ![t][k].wts = tuple[k].wts, ![t][k].rts = tuple[k].rts]
    BY <1>5, <2>1 DEF LookupOwn, Return, Goto
  <2>3. \A j \in Key : ent'[t][j].rd = ent[t][j].rd /\ ent'[t][j].wr = ent[t][j].wr
    <3>1. CASE ent' = [ent EXCEPT ![t][k].wts = tuple[k].wts, ![t][k].rts = tuple[k].rts]
      BY <1>1, <3>1 DEF Entry
    <3>2. QED
      BY <2>2, <3>1
  <2>4. WriteSet(t)' = WriteSet(t) /\ ReadSet(t)' = ReadSet(t)
    BY <2>3 DEF ReadSet, WriteSet
  <2>5. calls[t] # <<>>
    BY <1>1, <2>2 DEF Inv, Books, Phase
  <2>6. calls'[t] = Tail(calls[t]) /\ Phase(t)' = "run" /\ pc'[t] = "run"
    BY <1>1, <2>2 DEF Phase
  <2>7. PlanApart(t, calls[t])'
    BY <1>1, <2>2, <2>4, <2>5, <2>6, ApartTail DEF PlanApart
  <2>8. QED
    BY <1>1, <2>2, <2>4, <2>6, <2>7 DEF CallsApart
<1>6. CASE LookupRead(t) \/ (LookupCheck(t) /\ pc'[t] = "read")
  <2>1. UNCHANGED <<calls, reads, ent>> /\ pc[t] \in {"read", "check"} /\ pc'[t] \in {"read", "check"}
    <3>1. CASE LookupRead(t)
      BY <1>1, <3>1 DEF LookupRead, Goto
    <3>2. CASE LookupCheck(t) /\ pc'[t] = "read"
      BY <1>1, <3>2 DEF LookupCheck, Goto
    <3>3. QED
      BY <1>6, <3>1, <3>2
  <2>2. WriteSet(t)' = WriteSet(t) /\ ReadSet(t)' = ReadSet(t)
    BY <2>1 DEF ReadSet, WriteSet
  <2>3. QED
    BY <1>1, <2>1, <2>2, ApartSame DEF Phase
<1>7. CASE LookupCheck(t) /\ pc'[t] # "read"
  <2>1. PICK k \in Key : k = CallKey(t)
    BY <1>1, <1>7, ThreadTypes DEF LookupCheck, Inv, Books, Phase
  <2>2. /\ pc[t] = "check" /\ pc' = [pc EXCEPT ![t] = "run"]
        /\ reads' = [reads EXCEPT ![t] = @ \cup {[key |-> k, ver |-> got[t]]}]
        /\ calls' = [calls EXCEPT ![t] = Tail(@)]
        /\ ent' = [ent EXCEPT ![t][k].wts = seen[t].wts, ![t][k].rts = seen[t].rts]
    BY <1>1, <1>7, <2>1 DEF LookupCheck, Return, Goto
  <2>3. \A j \in Key : ent'[t][j].rd = ent[t][j].rd /\ ent'[t][j].wr = ent[t][j].wr
    BY <1>1, <2>2 DEF Entry
  <2>4. WriteSet(t)' = WriteSet(t) /\ ReadSet(t)' = ReadSet(t)
    BY <2>3 DEF ReadSet, WriteSet
  <2>5. calls[t] # <<>> /\ Head(calls[t]).op = "lookup"
    BY <1>1, <2>2 DEF Inv, Books, Phase, CallsApart
  <2>6. /\ calls'[t] = Tail(calls[t]) /\ Phase(t)' = "run" /\ pc'[t] = "run"
        /\ \A r \in reads'[t] : r \in reads[t] \/ r.key = k
    BY <1>1, <2>2 DEF Phase
  <2>7. /\ PlanApart(t, Tail(calls[t]))
        /\ \A i \in DOMAIN Tail(calls[t]) : Tail(calls[t])[i].key # k
    BY <1>1, <2>1, <2>5, ApartTail DEF CallKey
  <2>8. PlanApart(t, calls[t])'
    BY <2>4, <2>6, <2>7 DEF PlanApart
  <2>9. QED
    BY <1>1, <2>4, <2>6, <2>8 DEF CallsApart
<1>8. QED
  BY <1>2, <1>3, <1>4, <1>5, <1>6, <1>7

\* The rest of a transaction makes no call, until it is wiped.
LEMMA RestApart ==
  ASSUME LockTableAssumption, TicTocDiskAssumption, ApartInv, NEW t \in Thread,
         \/ HistAlloc(t) \/ HistSpin(t) \/ Locking(t) \/ Deciding(t) \/ Ending(t) \/ Abort(t)
  PROVE  CallsApart(t)'
<1>1. /\ pc \in [Thread -> Label] /\ back \in [Thread -> {"idle", "own", "read", "lock"}]
      /\ calls \in [Thread -> Seq(Op)] /\ todo \in [Thread -> SUBSET Key]
      /\ ent \in [Thread -> [Key -> Entry]] /\ reads \in [Thread -> SUBSET Read]
      /\ HistInv /\ Inv /\ CallsApart(t) /\ ent[t] \in [Key -> Entry] /\ Books(t)
  BY DEF ApartInv, HistInv, Inv, TypeOK
<1>2. CASE Finish(t)
  <2>1. /\ pc'[t] = "idle" /\ calls'[t] = <<>> /\ reads'[t] = {}
        /\ ent'[t] = [k \in Key |-> NoEntry]
    BY <1>1, <1>2 DEF Finish, Goto
  <2>2. ReadSet(t)' = {} /\ WriteSet(t)' = {}
    BY <2>1 DEF ReadSet, WriteSet, NoEntry
  <2>3. QED
    BY <2>1, <2>2 DEF CallsApart, PlanApart, Phase
<1>3. CASE LockPin(t) \/ Unpin(t)
  <2>1. PICK k, b : ent' = [ent EXCEPT ![t][k].held = b]
    BY <1>3 DEF LockPin, Unpin
  <2>2. \A j \in Key : ent'[t][j].rd = ent[t][j].rd /\ ent'[t][j].wr = ent[t][j].wr
    <3>1. ent'[t] = [ent[t] EXCEPT ![k].held = b]
      BY <1>1, <2>1
    <3>2. ASSUME NEW j \in Key
          PROVE  ent'[t][j] = ent[t][j] \/ ent'[t][j] = [ent[t][j] EXCEPT !.held = b]
      BY <1>1, <3>1
    <3>3. ASSUME NEW e \in Entry
          PROVE  [e EXCEPT !.held = b].rd = e.rd /\ [e EXCEPT !.held = b].wr = e.wr
      BY DEF Entry
    <3>4. QED
      BY <1>1, <3>2, <3>3
  <2>3. ReadSet(t)' = ReadSet(t) /\ WriteSet(t)' = WriteSet(t)
    BY <2>2 DEF ReadSet, WriteSet
  <2>4. UNCHANGED <<calls, reads>> /\ pc'[t] # "idle" /\ Phase(t)' \in {"lock", "unpin"}
    BY <1>1, <1>3 DEF LockPin, Unpin, Pin, Goto, Phase
  <2>5. QED
    BY <1>1, <2>3, <2>4, ApartSame
<1>4. CASE HistAlloc(t) \/ HistSpin(t)
  <2>1. UNCHANGED <<calls, reads, ent, back>> /\ pc[t] \in {"alloc", "spin"} /\ pc'[t] = back[t]
    BY <1>1, <1>4 DEF HistAlloc, HistSpin, Goto, txnVars
  <2>2. ReadSet(t)' = ReadSet(t) /\ WriteSet(t)' = WriteSet(t)
    BY <2>1 DEF ReadSet, WriteSet
  <2>3. back[t] \in {"own", "read", "lock"} /\ Phase(t)' = Phase(t)
    BY <1>1, <2>1 DEF Books, Phase
  <2>4. QED
    BY <1>1, <2>1, <2>2, <2>3, ApartSame
<1>5. CASE ~(HistAlloc(t) \/ HistSpin(t) \/ LockPin(t) \/ Unpin(t) \/ Finish(t))
  <2>1. UNCHANGED <<calls, reads, ent>>
    BY <1>5 DEF Locking, Deciding, Ending, Abort, CommitBegin, LockTry, BackOffUnlock,
       LockRetry, LockDone, Stamp, StampDone, ValidateLock, ValidateStamps, ValidateDiffers,
       ValidateAsk, ValidateExtend, ValidateNext, ValidateDone, Install, Record, Release,
       AbortUnlock, CommitEnd, txnVars
  <2>2. pc'[t] \notin {"idle", "own", "read", "check", "alloc", "spin"}
    <3>1. CASE Locking(t)
      BY <1>1, <1>5, <3>1 DEF Locking, CommitBegin, LockTry, BackOff, BackOffUnlock,
         LockRetry, LockDone, Stamp, StampDone, Goto
    <3>2. CASE Deciding(t)
      BY <1>1, <3>2 DEF Deciding, ValidateLock, ValidateStamps, ValidateDiffers,
         ValidateAsk, ValidateExtend, ValidateNext, ValidateDone, GiveUp, Goto
    <3>3. CASE Ending(t) \/ Abort(t)
      BY <1>1, <1>5, <3>3 DEF Ending, Install, Record, Release, AbortUnlock, CommitEnd,
         Abort, Goto
    <3>4. QED
      BY <1>5, <3>1, <3>2, <3>3
  <2>3. ReadSet(t)' = ReadSet(t) /\ WriteSet(t)' = WriteSet(t) /\ Phase(t)' = pc'[t]
    BY <2>1, <2>2 DEF ReadSet, WriteSet, Phase
  <2>4. QED
    BY <1>1, <2>1, <2>2, <2>3, ApartSame
<1>6. QED
  BY <1>2, <1>3, <1>4, <1>5

LEMMA NextApart ==
  ASSUME LockTableAssumption, TicTocDiskAssumption, NoDeletes, LookupsApart, OrderInv, ApartInv, [Next]_vars
  PROVE  ApartInv'
<1>1. HistInv /\ HistInv'
  BY NextOrder DEF OrderInv
<1>2. CASE UNCHANGED vars
  <2>1. UNCHANGED <<calls, reads, ent, pc, back>>
    BY <1>2 DEF vars, txnVars
  <2>2. QED
    BY <1>1, <2>1 DEF ApartInv, CallsApart, PlanApart, ReadSet, WriteSet, Phase
<1>3. ASSUME NEW t \in Thread, Begin(t) \/ Step(t) \/ Abort(t), NEW u \in Thread
      PROVE  CallsApart(u)'
  <2>1. CASE u = t
    BY <1>3, <2>1, CallApart, RestApart DEF Step, Calls
  <2>2. CASE u # t
    <3>1. Others(t)
      BY <1>1, <1>3, QuietOrReal, RealEffect DEF Quiet, HistInv
    <3>2. Same(u) /\ reads'[u] = reads[u]
      BY <2>2, <3>1 DEF Others
    <3>3. /\ ReadSet(u)' = ReadSet(u) /\ WriteSet(u)' = WriteSet(u) /\ Phase(u)' = Phase(u)
          /\ calls'[u] = calls[u] /\ pc'[u] = pc[u]
      BY <3>2, SameThread DEF Same
    <3>4. QED
      BY <3>2, <3>3 DEF ApartInv, CallsApart, PlanApart
  <2>3. QED
    BY <2>1, <2>2
<1>4. QED
  BY <1>1, <1>2, <1>3 DEF Next, Finished, ApartInv

LEMMA InitApart ==
  ASSUME LockTableAssumption, TicTocDiskAssumption, Init
  PROVE  ApartInv
<1>1. \A t \in Thread : /\ pc[t] = "idle" /\ reads[t] = {} /\ calls[t] = <<>>
                        /\ \A k \in Key : ent[t][k] = NoEntry
  BY DEF Init
<1>2. \A t \in Thread : ReadSet(t) = {} /\ WriteSet(t) = {} /\ Phase(t) = "idle"
  <2>1. ~NoEntry.rd /\ NoEntry.wr = "none"
    BY DEF NoEntry
  <2>2. QED
    BY <1>1, <2>1 DEF ReadSet, WriteSet, Phase
<1>3. QED
  BY <1>1, <1>2, InitHistory DEF ApartInv, CallsApart, PlanApart, FollowInv

LEMMA ApartLooksOnce == ASSUME ApartInv PROVE LooksUpOnce
<1>1. ASSUME NEW t \in Thread, pc[t] \in {"own", "read", "check"}, NEW r \in reads[t]
      PROVE  r.key # CallKey(t)
  <2>1. calls[t] # <<>> /\ Head(calls[t]).op = "lookup" /\ calls[t] \in Seq(Op)
    BY <1>1 DEF ApartInv, CallsApart, HistInv, Inv, Books, TypeOK, Phase
  <2>2. 1 \in DOMAIN calls[t] /\ Head(calls[t]) = calls[t][1]
    BY <2>1
  <2>3. QED
    BY <1>1, <2>1, <2>2 DEF ApartInv, CallsApart, PlanApart, CallKey
<1>2. QED
  BY <1>1 DEF ApartInv, CallsApart, LooksUpOnce

\* Programs that look up no key twice, and none that they write, make
\* transactions that do not either.
THEOREM LookupsOnce == NoDeletes /\ LookupsApart => (Spec => []LooksUpOnce)
<1> SUFFICES ASSUME NoDeletes, LookupsApart PROVE Spec => []LooksUpOnce
  OBVIOUS
<1>1. Init => OrderInv /\ ApartInv
  BY LockTableAssumption, TicTocDiskAssumption, InitHistory, InitApart
<1>2. OrderInv /\ ApartInv /\ [Next]_vars => OrderInv' /\ ApartInv'
  BY LockTableAssumption, TicTocDiskAssumption, NextOrder, NextApart
<1>3. OrderInv /\ ApartInv => LooksUpOnce
  BY ApartLooksOnce
<1>4. QED
  BY <1>1, <1>2, <1>3, PTL DEF Spec

\* What committed has a serial order, and versions are stored in the order of
\* the commit timestamps, for any number of threads, keys and transactions, as
\* long as no program deletes, looks up a key that it writes or looks one up
\* twice, and, where validation forgives, the log has room for what it logs.
THEOREM SerialCommits ==
  NoDeletes /\ LookupsApart
    => (Spec /\ [](Forgiving => RoomInLog) => []SerialInTimestampOrder)
<1> SUFFICES ASSUME NoDeletes, LookupsApart
             PROVE  Spec /\ [](Forgiving => RoomInLog) => []SerialInTimestampOrder
  OBVIOUS
<1>1. Init => SerialInv
  BY LockTableAssumption, TicTocDiskAssumption, InitSerial
<1>2. SerialInv /\ LooksUpOnce /\ (Forgiving => RoomInLog) /\ [Next]_vars => SerialInv'
  BY LockTableAssumption, TicTocDiskAssumption, NextSerial
<1>3. SerialInv => SerialInTimestampOrder
  <2>1. SerialInv => VersionsInCommitOrder
    BY TsOfStored DEF SerialInv, OrderInv, InOrder, VersionsInCommitOrder, Iso!InCommitOrder
  <2>2. QED
    BY <2>1, SerialOrder DEF SerialInTimestampOrder
<1>4. Spec => []LooksUpOnce
  BY LookupsOnce
<1>5. QED
  BY <1>1, <1>2, <1>3, <1>4, PTL DEF Spec

=============================================================================
