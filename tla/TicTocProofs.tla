---------------------------- MODULE TicTocProofs ----------------------------
(***************************************************************************)
(* Proofs about TicToc.  Lemmas about the timestamp cache come first: what *)
(* its operators return and what its operations change, for any keys, any  *)
(* sketch and any way to reclaim.                                          *)
(* One inductive invariant then joins the types, what each thread's        *)
(* variables say of one another, the reference counts and the ownership of *)
(* the lock bits: none of the last three is inductive alone.  An unlock    *)
(* keeps the lock bits right only because the list a thread unlocks is     *)
(* what it locked; an eviction does because a key that nobody refers to is *)
(* locked by nobody.  There is a lemma per action.                         *)
(* Then, the writes of a key reach SplinterDB in the order of the commit   *)
(* timestamps, and the timestamps a key is known by never go back.  Both   *)
(* rest on what a transaction that has stamped a locked key knows: its     *)
(* commit timestamp is later than the key's wts, and nobody else moves     *)
(* that wts while the lock is held.  Last comes isolation.                 *)
(***************************************************************************)
EXTENDS TicToc, TLAPS, FiniteSetTheorems, WellFoundedInduction

-----------------------------------------------------------------------------
(* The timestamp cache.                                                    *)

\* The order of the numbers as a relation.
Less == {p \in Nat \X Nat : p[1] < p[2]}

\* The order of the numbers is well founded; the set form of induction.
LEMMA LessWellFounded == IsWellFoundedOn(Less, Nat)
  BY NatLessThanWellFounded, Zenon DEF OpToRel, Less

\* Smallest is the least element of a set of numbers that is not empty.
LEMMA SmallestMember ==
  ASSUME NEW S \in SUBSET Nat, S # {}
  PROVE  Smallest(S) \in S /\ \A n \in S : Smallest(S) <= n
<1>1. PICK m \in S : \A n \in S : <<n, m>> \notin Less
  BY WFMin, LessWellFounded, Zenon
<1>2. ASSUME NEW a \in Nat, NEW b \in Nat, <<a, b>> \notin Less
      PROVE  ~(a < b)
  BY <1>2, Zenon DEF Less
<1>3. \A n \in S : ~(n < m)
  BY <1>1, <1>2, Zenon
<1>4. \A n \in S : m <= n
  BY <1>3
<1>5. QED
  BY <1>4 DEF Smallest

\* Induction over the numbers, for a set that is closed under successor.
LEMMA InductiveSet ==
  ASSUME NEW S \in SUBSET Nat, 0 \in S, \A n \in S : n + 1 \in S
  PROVE  S = Nat
<1>1. SUFFICES ASSUME Nat \ S # {} PROVE FALSE
  OBVIOUS
<1>2. PICK m \in Nat \ S : \A n \in Nat \ S : m <= n
  BY <1>1, SmallestMember
<1>3. m - 1 \in Nat /\ m - 1 \notin Nat \ S
  BY <1>2
<1>4. (m - 1) + 1 \in S
  BY <1>3
<1>5. QED
  BY <1>2, <1>4

\* A finite set of numbers has an upper bound.
LEMMA BoundedAbove ==
  ASSUME NEW S \in SUBSET Nat, IsFiniteSet(S)
  PROVE  \E b \in Nat : \A n \in S : n <= b
<1>1. PICK n \in Nat : ExistsBijection(1..n, S)
  BY FS_NatBijection
<1>2. PICK f \in [1..n -> S] : \A s \in S : \E i \in 1..n : f[i] = s
  BY <1>1 DEF ExistsBijection, Bijection, Surjection, Injection
<1> DEFINE Good == {i \in Nat : i <= n => \E b \in Nat : \A j \in 1..i : f[j] <= b}
<1>3. 0 \in Good
  OBVIOUS
<1>4. ASSUME NEW i \in Good PROVE i + 1 \in Good
  <2>1. SUFFICES ASSUME i + 1 <= n
                 PROVE  \E b \in Nat : \A j \in 1..(i + 1) : f[j] <= b
    BY <1>4
  <2>2. PICK b \in Nat : \A j \in 1..i : f[j] <= b
    BY <2>1, <1>4
  <2>3. \A j \in 1..(i + 1) : f[j] \in Nat
    <3>1. \A j \in 1..(i + 1) : j \in 1..n
      BY <2>1
    <3>2. QED
      BY <3>1
  <2>4. \A j \in 1..(i + 1) : j = i + 1 \/ j \in 1..i
    OBVIOUS
  <2>5. \A j \in 1..(i + 1) : f[j] <= b + f[i + 1]
    BY <2>2, <2>3, <2>4
  <2>6. b + f[i + 1] \in Nat
    BY <2>3
  <2>7. QED
    BY <2>5, <2>6
<1>5. Good = Nat
  <2>1. Good \in SUBSET Nat
    OBVIOUS
  <2> HIDE DEF Good
  <2>2. QED
    BY <1>3, <1>4, <2>1, InductiveSet
<1>6. \A i \in Nat : i <= n => \E b \in Nat : \A j \in 1..i : f[j] <= b
  BY <1>5
<1>7. n <= n
  OBVIOUS
<1>8. PICK b \in Nat : \A j \in 1..n : f[j] <= b
  BY <1>6, <1>7, Zenon
<1>9. QED
  BY <1>8, <1>2

\* A finite set of numbers that is not empty has a greatest element.
LEMMA LargestMember ==
  ASSUME NEW S \in SUBSET Nat, S # {}, IsFiniteSet(S)
  PROVE  \E m \in S : \A n \in S : n <= m
<1> DEFINE Bound == {b \in Nat : \A n \in S : n <= b}
<1>1. Bound # {} /\ Bound \in SUBSET Nat
  BY BoundedAbove
<1>2. PICK m \in Bound : \A b \in Bound : m <= b
  BY <1>1, SmallestMember
<1>3. CASE m \in S
  BY <1>2, <1>3
<1>4. CASE m \notin S
  <2>1. \A n \in S : n \in Nat /\ n <= m - 1
    BY <1>2, <1>4
  <2>2. m \in Nat /\ m - 1 >= 0
    <3>1. PICK n \in S : n \in Nat /\ n <= m - 1
      BY <2>1
    <3>2. QED
      BY <3>1
  <2>3. m - 1 \in Nat /\ m - 1 \in Bound
    BY <2>1, <2>2
  <2>4. QED
    BY <2>2, <2>3, <1>2
<1>5. QED
  BY <1>3, <1>4

\* The read timestamp of a timestamp_set is a number no less than its wts.
LEMMA RtsType ==
  ASSUME NEW ts \in TimestampSet
  PROVE  Rts(ts) \in Nat /\ ts.wts \in Nat /\ ts.wts <= Rts(ts)
BY DEF Rts, TimestampSet

\* Setting and clearing the lock bit leaves a timestamp_set.
LEMMA LockType ==
  ASSUME NEW ts \in TimestampSet
  PROVE  /\ Locked(ts) \in TimestampSet /\ Locked(ts).lock
         /\ Unlocked(ts) \in TimestampSet /\ ~Unlocked(ts).lock
BY DEF Locked, Unlocked, TimestampSet

\* The timestamps of a new entry are a timestamp_set, unlocked.
LEMMA ZeroType == ZeroTs \in TimestampSet /\ ~ZeroTs.lock
BY DEF ZeroTs, TimestampSet

\* sketch_insert_timestamp_set keeps the delta above zero and the lock bit of
\* the cell.
LEMMA MergeMaxType ==
  ASSUME NEW ts \in TimestampSet, NEW new \in TimestampSet
  PROVE  MergeMax(ts, new) \in TimestampSet /\ MergeMax(ts, new).lock = ts.lock
BY DEF MergeMax, Larger, Rts, TimestampSet

\* sketch_get returns a timestamp_set though wts and rts may come from
\* different rows: the smallest wts is no later than the smallest rts.
LEMMA SketchGetType ==
  ASSUME CacheAssumption, CacheTypeOK, NEW k \in Key
  PROVE  SketchGet(k) \in TimestampSet
<1> DEFINE W == {sketch[r][Hash[r][k]].wts : r \in Row}
           R == {Rts(sketch[r][Hash[r][k]]) : r \in Row}
<1>1. \A r \in Row : sketch[r][Hash[r][k]] \in TimestampSet
  BY DEF CacheAssumption, CacheTypeOK
<1>2. W \in SUBSET Nat /\ R \in SUBSET Nat
  BY <1>1, RtsType
<1>3. W # {} /\ R # {}
  BY DEF CacheAssumption
<1>4. Smallest(W) \in Nat /\ \A n \in W : Smallest(W) <= n
  BY <1>2, <1>3, SmallestMember
<1>5. Smallest(R) \in R
  BY <1>2, <1>3, SmallestMember
<1>6. PICK r \in Row : Smallest(R) = Rts(sketch[r][Hash[r][k]])
  BY <1>5
<1>7. Smallest(R) \in Nat /\ Smallest(W) <= Smallest(R)
  <2> DEFINE ts == sketch[r][Hash[r][k]]
  <2>1. ts.wts \in W /\ ts \in TimestampSet
    BY <1>1
  <2>2. Rts(ts) \in Nat /\ ts.wts \in Nat /\ ts.wts <= Rts(ts)
    BY <2>1, RtsType
  <2>3. Smallest(W) <= ts.wts
    BY <2>1, <1>4
  <2>4. QED
    BY <2>2, <2>3, <1>4, <1>6
<1>8. Smallest(R) - Smallest(W) \in Nat
  BY <1>4, <1>7
<1>9. QED
  BY <1>4, <1>8 DEF SketchGet, TimestampSet
\* A read timestamp moved to a commit timestamp that is no earlier leaves a
\* timestamp_set, under the same lock bit.
LEMMA ExtendedType ==
  ASSUME NEW ts \in TimestampSet, NEW c \in Nat, Rts(ts) <= c
  PROVE  Extended(ts, c) \in TimestampSet /\ Extended(ts, c).lock = ts.lock
BY DEF Extended, Rts, TimestampSet

\* sketch_insert keeps the type of the sketch.
LEMMA SketchInsertType ==
  ASSUME CacheAssumption, CacheTypeOK, NEW k \in Key, SketchInsert(k, cell[k])
  PROVE  sketch' \in [Row -> [Col -> TimestampSet]]
<1>1. cell[k] \in TimestampSet
  BY DEF CacheTypeOK
<1>2. ASSUME NEW r \in Row
      PROVE  sketch'[r] \in [Col -> TimestampSet]
  <2>1. sketch[r] \in [Col -> TimestampSet] /\ Hash[r][k] \in Col
    BY DEF CacheAssumption, CacheTypeOK
  <2>2. MergeMax(sketch[r][Hash[r][k]], cell[k]) \in TimestampSet
    BY <1>1, <2>1, MergeMaxType
  <2>3. sketch'[r] = [sketch[r] EXCEPT ![Hash[r][k]] =
                       MergeMax(sketch[r][Hash[r][k]], cell[k])]
    BY DEF SketchInsert
  <2>4. QED
    BY <2>1, <2>2, <2>3
<1>3. sketch' = [r \in Row |-> sketch'[r]]
  BY DEF SketchInsert
<1>4. QED
  BY <1>2, <1>3

\* Taking a reference to a key keeps the cells of the other keys, and the cell
\* of the key itself when it is in the table.
LEMMA InsertAndGetEffect ==
  ASSUME CacheAssumption, CacheTypeOK, NEW k \in Key, InsertAndGet(k)
  PROVE  /\ CacheTypeOK'
         /\ cached' = cached \cup {k}
         /\ \A j \in Key : j # k \/ k \in cached => cell'[j] = cell[j]
         /\ k \notin cached /\ ~cell[k].lock => ~cell'[k].lock
         /\ Reclaim # "never" => refs' = [refs EXCEPT ![k] = @ + 1]
<1>1. CASE Reclaim = "never"
  <2>1. InsertUncounted(k)
    BY <1>1 DEF InsertAndGet
  <2>2. QED
    BY <1>1, <2>1 DEF InsertUncounted, CacheTypeOK
<1>2. CASE Reclaim # "never"
  <2>1. InsertCounted(k)
    BY <1>2 DEF InsertAndGet
  <2> DEFINE new == MergeMax(ZeroTs, SketchGet(k))
  <2>2. new \in TimestampSet /\ ~new.lock
    BY SketchGetType, ZeroType, MergeMaxType
  <2> HIDE DEF new
  <2>3. cell' = IF k \in cached THEN cell ELSE [cell EXCEPT ![k] = new]
    BY <2>1 DEF InsertCounted, new
  <2>4. cell' \in [Key -> TimestampSet]
    BY <2>2, <2>3 DEF CacheTypeOK
  <2>5. refs' \in [Key -> Nat] /\ cached' \in SUBSET Key
    BY <2>1 DEF InsertCounted, CacheTypeOK
  <2>6. CacheTypeOK'
    BY <2>1, <2>4, <2>5 DEF InsertCounted, CacheTypeOK
  <2>7. \A j \in Key : j # k \/ k \in cached => cell'[j] = cell[j]
    BY <2>3 DEF CacheTypeOK
  <2>8. k \notin cached => ~cell'[k].lock
    BY <2>2, <2>3 DEF CacheTypeOK
  <2>9. QED
    BY <2>1, <2>6, <2>7, <2>8 DEF InsertCounted
<1>3. QED
  BY <1>1, <1>2

\* What the removal of an entry changes: the key leaves the table with its lock
\* bit clear, and no other entry is touched.
LEMMA ForgetEffect ==
  ASSUME CacheAssumption, CacheTypeOK, NEW k \in Key, Forget(k)
  PROVE  /\ CacheTypeOK'
         /\ cached' = cached \ {k}
         /\ refs' = [refs EXCEPT ![k] = 0]
         /\ ~cell'[k].lock
         /\ \A j \in Key : j # k => cell'[j] = cell[j]
<1>1. cell' = [cell EXCEPT ![k] = ZeroTs] /\ SketchInsert(k, cell[k])
  BY DEF Forget
<1>2. cell' \in [Key -> TimestampSet] /\ ~cell'[k].lock
  BY <1>1, ZeroType DEF CacheTypeOK
<1>3. sketch' \in [Row -> [Col -> TimestampSet]]
  BY <1>1, SketchInsertType
<1>4. CacheTypeOK'
  BY <1>2, <1>3 DEF Forget, CacheTypeOK
<1>5. QED
  BY <1>1, <1>2, <1>4 DEF Forget, CacheTypeOK

\* Giving a reference back either forgets the key, or only counts.
LEMMA ReleaseEffect ==
  ASSUME CacheAssumption, CacheTypeOK, NEW k \in Key, refs[k] > 0, Release(k)
  PROVE  \/ Reclaim = "eager" /\ refs[k] = 1 /\ Forget(k)
         \/ /\ CacheTypeOK' /\ UNCHANGED <<cell, cached>>
            /\ refs' = [refs EXCEPT ![k] = @ - 1]
<1>1. CASE Reclaim = "eager" /\ refs[k] = 1
  BY <1>1 DEF Release
<1>2. CASE ~(Reclaim = "eager" /\ refs[k] = 1)
  <2>1. refs' = [refs EXCEPT ![k] = @ - 1] /\ UNCHANGED <<cell, cached, sketch>>
    BY <1>2 DEF Release
  <2>2. refs[k] - 1 \in Nat
    BY DEF CacheTypeOK
  <2>3. CacheTypeOK'
    BY <2>1, <2>2 DEF CacheTypeOK
  <2>4. QED
    BY <2>1, <2>3
<1>3. QED
  BY <1>1, <1>2

\* The cache no transaction uses has its type, no lock and no reference.
LEMMA CacheInitType ==
  ASSUME CacheAssumption, NEW rts \in [Key -> Nat], CacheInit(rts)
  PROVE  /\ CacheTypeOK /\ \A k \in Key : ~cell[k].lock
         /\ Reclaim # "never" => refs = [k \in Key |-> 0]
<1>1. ASSUME NEW n \in Nat
      PROVE  [ZeroTs EXCEPT !.delta = n] \in TimestampSet
             /\ ~[ZeroTs EXCEPT !.delta = n].lock
  BY DEF ZeroTs, TimestampSet
<1>2. cell \in [Key -> TimestampSet] /\ \A k \in Key : ~cell[k].lock
  <2>1. cell = [k \in Key |-> IF Reclaim = "never"
                             THEN [ZeroTs EXCEPT !.delta = rts[k]] ELSE ZeroTs]
    BY DEF CacheInit
  <2>2. QED
    BY <1>1, <2>1, ZeroType
<1>3. cached \in SUBSET Key /\ refs \in [Key -> Nat]
      /\ (Reclaim # "never" => refs = [k \in Key |-> 0])
  BY DEF CacheInit
<1>4. sketch \in [Row -> [Col -> TimestampSet]]
  <2> DEFINE Start == {[ZeroTs EXCEPT !.delta = n] : n \in {0} \cup {rts[k] : k \in Key}}
  <2>1. sketch \in [Row -> [Col -> Start]]
    BY DEF CacheInit
  <2>2. Start \subseteq TimestampSet
    BY <1>1
  <2> HIDE DEF Start
  <2>3. QED
    BY <2>1, <2>2
<1>5. QED
  BY <1>2, <1>3, <1>4 DEF CacheTypeOK
\* The timestamps of a merge are the larger ones.
LEMMA MergeMaxLarger ==
  ASSUME NEW ts \in TimestampSet, NEW new \in TimestampSet
  PROVE  /\ MergeMax(ts, new).wts >= ts.wts /\ MergeMax(ts, new).wts >= new.wts
         /\ Rts(MergeMax(ts, new)) >= Rts(ts) /\ Rts(MergeMax(ts, new)) >= Rts(new)
BY DEF MergeMax, Larger, Rts, TimestampSet

\* What a new entry takes from the sketch is what the sketch says.
LEMMA MergeMaxZero ==
  ASSUME NEW ts \in TimestampSet
  PROVE  MergeMax(ZeroTs, ts).wts = ts.wts /\ Rts(MergeMax(ZeroTs, ts)) = Rts(ts)
BY DEF MergeMax, ZeroTs, Larger, Rts, TimestampSet

\* The sketch's answer is no later than any of the key's cells, and each of
\* its timestamps is that of one of them.
SketchMinimal ==
  \A k \in Key :
    /\ \A r \in Row : /\ SketchGet(k).wts <= sketch[r][Hash[r][k]].wts
                      /\ Rts(SketchGet(k)) <= Rts(sketch[r][Hash[r][k]])
    /\ \E r \in Row : SketchGet(k).wts = sketch[r][Hash[r][k]].wts
    /\ \E r \in Row : Rts(SketchGet(k)) = Rts(sketch[r][Hash[r][k]])

LEMMA SketchGetMinimal == CacheTypeOK => SketchMinimal
<1> SUFFICES ASSUME CacheTypeOK, NEW k \in Key
             PROVE  /\ \A r \in Row : /\ SketchGet(k).wts <= sketch[r][Hash[r][k]].wts
                                      /\ Rts(SketchGet(k)) <= Rts(sketch[r][Hash[r][k]])
                    /\ \E r \in Row : SketchGet(k).wts = sketch[r][Hash[r][k]].wts
                    /\ \E r \in Row : Rts(SketchGet(k)) = Rts(sketch[r][Hash[r][k]])
  BY DEF SketchMinimal
<1> DEFINE W == {sketch[r][Hash[r][k]].wts : r \in Row}
           R == {Rts(sketch[r][Hash[r][k]]) : r \in Row}
<1>1. \A r \in Row : sketch[r][Hash[r][k]] \in TimestampSet
  BY CacheAssumption DEF CacheAssumption, CacheTypeOK
<1>2. W \in SUBSET Nat /\ R \in SUBSET Nat
  BY <1>1, RtsType
<1>3. W # {} /\ R # {}
  BY CacheAssumption DEF CacheAssumption
<1>4. /\ Smallest(W) \in W /\ Smallest(R) \in R
      /\ (\A n \in W : Smallest(W) <= n) /\ (\A n \in R : Smallest(R) <= n)
  BY <1>2, <1>3, SmallestMember
<1>5. SketchGet(k) = [lock |-> FALSE, wts |-> Smallest(W), delta |-> Smallest(R) - Smallest(W)]
  BY DEF SketchGet
<1>6. SketchGet(k).wts = Smallest(W) /\ Rts(SketchGet(k)) = Smallest(R)
  <2>1. Smallest(W) \in Nat /\ Smallest(R) \in Nat
    BY <1>2, <1>4
  <2> HIDE DEF W, R
  <2>2. QED
    BY <1>5, <2>1 DEF Rts
<1>7. QED
  BY <1>4, <1>6

\* No key's timestamps, as the cache would answer them, go back.
VisibleGrows ==
  \A k \in Key : Visible(k)'.wts >= Visible(k).wts /\ Rts(Visible(k))' >= Rts(Visible(k))

\* The answer of the sketch goes forward when its cells do.
LEMMA SketchGrows ==
  ASSUME CacheTypeOK, CacheTypeOK', NEW k \in Key,
         \A r \in Row, c \in Col : /\ sketch'[r][c].wts >= sketch[r][c].wts
                                   /\ Rts(sketch'[r][c]) >= Rts(sketch[r][c])
  PROVE  SketchGet(k)'.wts >= SketchGet(k).wts /\ Rts(SketchGet(k))' >= Rts(SketchGet(k))
<1>1. SketchMinimal /\ SketchMinimal'
  BY SketchGetMinimal, PTL
<1>2. \A r \in Row : /\ Hash[r][k] \in Col
                     /\ sketch[r][Hash[r][k]] \in TimestampSet
                     /\ sketch'[r][Hash[r][k]] \in TimestampSet
  BY CacheAssumption DEF CacheAssumption, CacheTypeOK
<1>3. \A r \in Row : /\ sketch[r][Hash[r][k]].wts \in Nat /\ Rts(sketch[r][Hash[r][k]]) \in Nat
                     /\ sketch'[r][Hash[r][k]].wts \in Nat /\ Rts(sketch'[r][Hash[r][k]]) \in Nat
  BY <1>2, RtsType
<1>4. SketchGet(k).wts \in Nat /\ Rts(SketchGet(k)) \in Nat
  BY <1>1, <1>3 DEF SketchMinimal
<1>5. PICK r \in Row : SketchGet(k)'.wts = sketch'[r][Hash[r][k]].wts
  BY <1>1 DEF SketchMinimal
<1>6. PICK q \in Row : Rts(SketchGet(k))' = Rts(sketch'[q][Hash[q][k]])
  BY <1>1 DEF SketchMinimal
<1>7. SketchGet(k)'.wts >= SketchGet(k).wts
  <2>1. SketchGet(k).wts <= sketch[r][Hash[r][k]].wts
    BY <1>1 DEF SketchMinimal
  <2>2. QED
    BY <1>2, <1>3, <1>4, <1>5, <2>1
<1>8. Rts(SketchGet(k))' >= Rts(SketchGet(k))
  <2>1. Rts(SketchGet(k)) <= Rts(sketch[q][Hash[q][k]])
    BY <1>1 DEF SketchMinimal
  <2>2. QED
    BY <1>2, <1>3, <1>4, <1>6, <2>1
<1>9. QED
  BY <1>7, <1>8

\* An entry that leaves the table takes no timestamp back: the sketch answers
\* for its key with timestamps at least as late, and for no key with earlier
\* ones.
LEMMA ForgetGrows ==
  ASSUME CacheTypeOK, Reclaim # "never", NEW k \in cached, Forget(k)
  PROVE  VisibleGrows
<1>1. k \in Key /\ cell[k] \in TimestampSet
  BY DEF CacheTypeOK
<1>2. CacheTypeOK' /\ cached' = cached \ {k} /\ \A j \in Key : j # k => cell'[j] = cell[j]
  BY <1>1, ForgetEffect, CacheAssumption
<1>3. ASSUME NEW r \in Row, NEW c \in Col
      PROVE  /\ sketch[r][c] \in TimestampSet
             /\ sketch'[r][c] = IF c = Hash[r][k] THEN MergeMax(sketch[r][c], cell[k])
                                ELSE sketch[r][c]
  <2>1. sketch' = [q \in Row |-> [sketch[q] EXCEPT ![Hash[q][k]] = MergeMax(@, cell[k])]]
    BY DEF Forget, SketchInsert
  <2>2. sketch[r] \in [Col -> TimestampSet]
    BY DEF CacheTypeOK
  <2>3. sketch'[r] = [sketch[r] EXCEPT ![Hash[r][k]] = MergeMax(@, cell[k])]
    BY <2>1
  <2>4. QED
    BY <2>2, <2>3
<1>4. \A r \in Row, c \in Col : /\ sketch'[r][c].wts >= sketch[r][c].wts
                                /\ Rts(sketch'[r][c]) >= Rts(sketch[r][c])
  <2>1. ASSUME NEW ts \in TimestampSet PROVE ts.wts >= ts.wts /\ Rts(ts) >= Rts(ts)
    BY RtsType
  <2>2. QED
    BY <1>1, <1>3, <2>1, MergeMaxLarger
<1>5. ASSUME NEW j \in Key, j \in cached, j # k
      PROVE  Visible(j)' = Visible(j)
  BY <1>2, <1>5 DEF Visible
<1>6. ASSUME NEW j \in Key, j \notin cached
      PROVE  Visible(j)'.wts >= Visible(j).wts /\ Rts(Visible(j))' >= Rts(Visible(j))
  <2>1. Visible(j) = SketchGet(j) /\ Visible(j)' = SketchGet(j)' /\ Rts(Visible(j))' = Rts(SketchGet(j))'
    BY <1>2, <1>6 DEF Visible, Rts
  <2>2. QED
    BY <1>2, <1>4, <2>1, SketchGrows
<1>7. Visible(k)'.wts >= Visible(k).wts /\ Rts(Visible(k))' >= Rts(Visible(k))
  <2>1. Visible(k) = cell[k] /\ Visible(k)' = SketchGet(k)' /\ Rts(Visible(k))' = Rts(SketchGet(k))'
    BY <1>1, <1>2 DEF Visible, Rts
  <2>2. SketchMinimal'
    BY <1>2, SketchGetMinimal, PTL
  <2>3. \A r \in Row : /\ Hash[r][k] \in Col
                       /\ sketch'[r][Hash[r][k]].wts >= cell[k].wts
                       /\ Rts(sketch'[r][Hash[r][k]]) >= Rts(cell[k])
    <3>1. \A r \in Row : Hash[r][k] \in Col
      BY <1>1, CacheAssumption DEF CacheAssumption
    <3>2. QED
      BY <1>1, <1>3, <3>1, MergeMaxLarger
  <2>4. QED
    BY <1>1, <2>1, <2>2, <2>3 DEF SketchMinimal
<1>8. ASSUME NEW j \in Key PROVE Visible(j).wts \in Nat /\ Rts(Visible(j)) \in Nat
  <2>1. Visible(j) \in TimestampSet
    BY SketchGetType, CacheAssumption DEF Visible, CacheTypeOK
  <2>2. QED
    BY <2>1, RtsType
<1>9. ASSUME NEW j \in Key, j \in cached, j # k PROVE Rts(Visible(j))' = Rts(Visible(j))
  BY <1>5, <1>9 DEF Rts
<1>10. QED
  BY <1>5, <1>6, <1>7, <1>8, <1>9 DEF VisibleGrows

\* Neither does an entry that a key is given.
LEMMA InsertGrows ==
  ASSUME CacheTypeOK, NEW k \in Key, InsertAndGet(k)
  PROVE  VisibleGrows
<1>1. ASSUME NEW j \in Key
      PROVE  /\ Visible(j) \in TimestampSet /\ Visible(j).wts \in Nat /\ Rts(Visible(j)) \in Nat
  <2>1. Visible(j) \in TimestampSet
    BY SketchGetType, CacheAssumption DEF Visible, CacheTypeOK
  <2>2. QED
    BY <2>1, RtsType
<1>2. CASE Reclaim = "never"
  <2>1. UNCHANGED cell
    BY <1>2 DEF InsertAndGet, InsertUncounted
  <2>2. \A j \in Key : Visible(j)' = Visible(j) /\ Rts(Visible(j))' = Rts(Visible(j))
    BY <1>2, <2>1 DEF Visible, Rts
  <2>3. QED
    BY <1>1, <2>2 DEF VisibleGrows
<1>3. CASE Reclaim # "never"
  <2>1. /\ cached' = cached \cup {k} /\ sketch' = sketch
        /\ cell' = IF k \in cached THEN cell
                   ELSE [cell EXCEPT ![k] = MergeMax(ZeroTs, SketchGet(k))]
    BY <1>3 DEF InsertAndGet, InsertCounted
  <2>2. ASSUME NEW j \in Key, j # k \/ k \in cached
        PROVE  Visible(j)' = Visible(j) /\ Rts(Visible(j))' = Rts(Visible(j))
    <3>1. cell'[j] = cell[j] /\ SketchGet(j)' = SketchGet(j) /\ (j \in cached' <=> j \in cached)
      BY <2>1, <2>2 DEF CacheTypeOK, SketchGet
    <3>2. QED
      BY <1>3, <3>1 DEF Visible, Rts
  <2>3. ASSUME k \notin cached
        PROVE  Visible(k)'.wts = Visible(k).wts /\ Rts(Visible(k))' = Rts(Visible(k))
    <3>1. cell'[k] = MergeMax(ZeroTs, SketchGet(k))
      BY <2>1, <2>3 DEF CacheTypeOK
    <3>2. Visible(k)' = cell'[k] /\ Visible(k) = SketchGet(k) /\ Rts(Visible(k))' = Rts(cell'[k])
      BY <1>3, <2>1, <2>3 DEF Visible, Rts
    <3>3. QED
      BY <1>1, <3>1, <3>2, MergeMaxZero
  <2>4. QED
    BY <1>1, <2>2, <2>3 DEF VisibleGrows
<1>4. QED
  BY <1>2, <1>3

-----------------------------------------------------------------------------
(* Entries, references and lock bits.                                      *)

\* The inductive invariant.
Inv == TypeOK /\ LoopsOverPinnedEntries /\ RefsCountHolders /\ LockOwnership

\* The step is not one of thread u.
Same(u) ==
  /\ pc'[u] = pc[u] /\ back'[u] = back[u] /\ count'[u] = count[u]
  /\ calls'[u] = calls[u] /\ order'[u] = order[u] /\ ent'[u] = ent[u]
  /\ todo'[u] = todo[u] /\ cts'[u] = cts[u] /\ v1'[u] = v1[u]

\* A thread whose variables stay has the locks it had.
LEMMA SamePhase ==
  ASSUME NEW u \in Thread, Same(u)
  PROVE  /\ Phase(u)' = Phase(u)
         /\ LockSet(u)' = LockSet(u)
         /\ WriteSet(u)' = WriteSet(u)
BY DEF Same, Phase, LockSet, WriteSet

\* A thread whose variables stay keeps its bookkeeping.
LEMMA SameBooks ==
  ASSUME NEW u \in Thread, Same(u), Bookkeeping(u)
  PROVE  Bookkeeping(u)'
<1>1. Phase(u)' = Phase(u) /\ LockSet(u)' = LockSet(u)
  BY SamePhase
<1>2. QED
  BY <1>1 DEF Same, Bookkeeping, WriteSet, ReadSet, CallKey, Pinned

\* A step of one thread disturbs the bookkeeping of that thread alone.
LEMMA OthersBooks ==
  ASSUME Inv, NEW t \in Thread, Bookkeeping(t)',
         \A u \in Thread : u # t => Same(u)
  PROVE  LoopsOverPinnedEntries'
BY SameBooks DEF Inv, LoopsOverPinnedEntries

\* Reference counts stay right when neither they nor the holders change.
LEMMA SameRefs ==
  ASSUME Inv, \A u \in Thread, k \in Key : ent'[u][k].held = ent[u][k].held,
         refs' = refs, cached' = cached
  PROVE  RefsCountHolders'
<1>1. ASSUME NEW k \in Key
      PROVE  {u \in Thread : ent'[u][k].held} = {u \in Thread : ent[u][k].held}
  OBVIOUS
<1>2. QED
  BY <1>1 DEF Inv, RefsCountHolders

\* Lock ownership stays right when no lock bit and no lock set changes.
LEMMA SameLocks ==
  ASSUME Inv, NEW t \in Thread, \A u \in Thread : u # t => Same(u),
         LockSet(t)' = LockSet(t),
         \A k \in Key : cell'[k].lock = cell[k].lock
  PROVE  LockOwnership'
<1>1. \A u \in Thread : LockSet(u)' = LockSet(u)
  BY SamePhase
<1>2. QED
  BY <1>1 DEF Inv, LockOwnership

\* Lock ownership stays right when a thread sets a lock bit that was clear.
LEMMA LockTaken ==
  ASSUME Inv, NEW t \in Thread, \A u \in Thread : u # t => Same(u),
         NEW k \in Key, ~cell[k].lock, cell'[k].lock,
         LockSet(t)' = LockSet(t) \cup {k},
         \A j \in Key : j # k => cell'[j].lock = cell[j].lock
  PROVE  LockOwnership'
<1>1. \A u \in Thread : u # t => LockSet(u)' = LockSet(u)
  BY SamePhase
<1>2. \A u \in Thread : k \notin LockSet(u)
  BY DEF Inv, LockOwnership
<1>3. QED
  BY <1>1, <1>2 DEF Inv, LockOwnership

\* Lock ownership stays right when a thread clears a lock bit it owns.
LEMMA LockDropped ==
  ASSUME Inv, NEW t \in Thread, \A u \in Thread : u # t => Same(u),
         NEW k \in Key, k \in LockSet(t), ~cell'[k].lock,
         LockSet(t)' = LockSet(t) \ {k},
         \A j \in Key : j # k => cell'[j].lock = cell[j].lock
  PROVE  LockOwnership'
<1>1. \A u \in Thread : u # t => LockSet(u)' = LockSet(u)
  BY SamePhase
<1>2. \A u \in Thread : u # t => k \notin LockSet(u)
  BY DEF Inv, LockOwnership
<1>3. QED
  BY <1>1, <1>2 DEF Inv, LockOwnership

\* A key no transaction holds is not locked: its entry may be dropped.
LEMMA UnheldUnlocked ==
  ASSUME Inv, NEW k \in Key, \A u \in Thread : ~ent[u][k].held
  PROVE  ~cell[k].lock
<1>1. \A u \in Thread : k \notin LockSet(u)
  BY DEF Inv, LoopsOverPinnedEntries, Bookkeeping
<1>2. QED
  BY <1>1 DEF Inv, LockOwnership

\* The invariant survives a step of one thread that changes no lock and no pin.
LEMMA QuietStep ==
  ASSUME Inv, NEW t \in Thread, TypeOK', Bookkeeping(t)',
         \A u \in Thread : u # t => Same(u),
         \A k \in Key : ent'[t][k].held = ent[t][k].held,
         refs' = refs, cached' = cached,
         LockSet(t)' = LockSet(t),
         \A k \in Key : cell'[k].lock = cell[k].lock
  PROVE  Inv'
<1>1. LoopsOverPinnedEntries'
  BY OthersBooks
<1>2. RefsCountHolders'
  BY SameRefs DEF Same
<1>3. LockOwnership'
  BY SameLocks
<1>4. QED
  BY <1>1, <1>2, <1>3 DEF Inv

\* The types of one thread's variables, and what they imply for the keys that
\* its loops take next.
LEMMA ThreadTypes ==
  ASSUME Inv, NEW t \in Thread
  PROVE  /\ ent[t] \in [Key -> Entry]
         /\ order[t] \in Seq(Key)
         /\ calls[t] \in Seq(Op)
         /\ todo[t] \subseteq Key
         /\ cts[t] \in Nat
         /\ v1[t] \in TimestampSet
         /\ calls[t] # <<>> => CallKey(t) \in Key
         /\ todo[t] # {} => Smallest(todo[t]) \in todo[t]
         /\ Bookkeeping(t)
<1>1. /\ ent[t] \in [Key -> Entry] /\ order[t] \in Seq(Key)
      /\ calls[t] \in Seq(Op) /\ todo[t] \subseteq Key /\ cts[t] \in Nat
      /\ v1[t] \in TimestampSet
  BY DEF Inv, TypeOK
<1>2. ASSUME calls[t] # <<>> PROVE CallKey(t) \in Key
  <2>1. Head(calls[t]) \in Op
    BY <1>1, <1>2
  <2>2. QED
    BY <2>1 DEF CallKey, Op
<1>3. ASSUME todo[t] # {} PROVE Smallest(todo[t]) \in todo[t]
  BY <1>1, <1>3, SmallestMember, CacheAssumption DEF CacheAssumption
<1>4. QED
  BY <1>1, <1>2, <1>3 DEF Inv, LoopsOverPinnedEntries

\* rw_entry_get keeps the entries in place and leaves one for the key.
LEMMA AddEntryEffect ==
  ASSUME Inv, NEW t \in Thread, NEW k \in Key, AddEntry(t, k)
  PROVE  /\ order' \in [Thread -> Seq(Key)]
         /\ \A u \in Thread : u # t => order'[u] = order[u]
         /\ \A i \in DOMAIN order[t] :
              i \in DOMAIN order'[t] /\ order'[t][i] = order[t][i]
         /\ \E i \in DOMAIN order'[t] : order'[t][i] = k
<1>1. order \in [Thread -> Seq(Key)] /\ order[t] \in Seq(Key)
  BY DEF Inv, TypeOK
<1>2. CASE \E i \in DOMAIN order[t] : order[t][i] = k
  BY <1>1, <1>2 DEF AddEntry
<1>3. CASE ~\E i \in DOMAIN order[t] : order[t][i] = k
  <2> DEFINE new == Append(order[t], k)
  <2>1. order' = [order EXCEPT ![t] = new]
    BY <1>3 DEF AddEntry
  <2>2. new \in Seq(Key) /\ Len(new) = Len(order[t]) + 1 /\ new[Len(new)] = k
    BY <1>1
  <2>3. \A i \in DOMAIN order[t] : i \in DOMAIN new /\ new[i] = order[t][i]
    BY <1>1
  <2>4. Len(new) \in DOMAIN new
    BY <1>1, <2>2
  <2> HIDE DEF new
  <2>5. order'[t] = new
    BY <1>1, <2>1
  <2>6. QED
    BY <1>1, <2>1, <2>2, <2>3, <2>4, <2>5
<1>4. QED
  BY <1>2, <1>3

\* transactional_splinterdb_begin preserves the invariant.
LEMMA BeginStep ==
  ASSUME TicTocAssumption, Inv, NEW t \in Thread, Begin(t)
  PROVE  Inv'
<1> USE DEF Begin, Goto, cacheVars, commitVars
<1>1. TypeOK'
  <2>1. count[t] \in Nat /\ Programs[t] \in Seq(SUBSET Seq(Op))
    BY DEF Inv, TypeOK, TicTocAssumption
  <2>2. Programs[t][count[t] + 1] \subseteq Seq(Op)
    BY <2>1
  <2>3. calls' \in [Thread -> Seq(Op)]
    BY <2>2 DEF Inv, TypeOK
  <2>4. pc' \in [Thread -> Label] /\ count' \in [Thread -> Nat]
    BY <2>1 DEF Inv, TypeOK, Label
  <2>5. QED
    BY <2>3, <2>4 DEF Inv, TypeOK, CacheTypeOK
<1>2. \A u \in Thread : u # t => Same(u)
  BY DEF Inv, TypeOK, Same
<1>3. /\ pc[t] = "idle" /\ pc'[t] = "run"
      /\ ent' = ent /\ order' = order
      /\ refs' = refs /\ cached' = cached /\ cell' = cell
  BY DEF Inv, TypeOK
<1>4. Phase(t)' = "run" /\ LockSet(t)' = {} /\ LockSet(t) = {}
  BY <1>3 DEF Phase, LockSet
<1>5. Bookkeeping(t)
  BY ThreadTypes
<1>6. Bookkeeping(t)'
  BY <1>3, <1>4, <1>5 DEF Bookkeeping, ReadSet
<1>7. QED
  BY <1>1, <1>2, <1>3, <1>4, <1>6, QuietStep

\* local_write preserves the invariant.
LEMMA LocalWriteStep ==
  ASSUME Inv, NEW t \in Thread, LocalWrite(t)
  PROVE  Inv'
<1> DEFINE k == CallKey(t)
<1>1. /\ k \in Key /\ calls[t] \in Seq(Op) /\ order[t] \in Seq(Key)
      /\ calls[t] # <<>> /\ ent[t][k] \in Entry /\ Bookkeeping(t)
  BY ThreadTypes DEF LocalWrite, Calling
<1>2. /\ ent \in [Thread -> [Key -> Entry]] /\ order \in [Thread -> Seq(Key)]
      /\ calls \in [Thread -> Seq(Op)]
  BY DEF Inv, TypeOK
<1> HIDE DEF k
<1>3. /\ ent' = [ent EXCEPT ![t][k].wr = TRUE]
      /\ AddEntry(t, k) /\ calls' = [calls EXCEPT ![t] = Tail(calls[t])]
      /\ pc[t] = "run"
      /\ UNCHANGED <<pc, back, todo, count, cts, v1, got, reads, hist, db,
                     cell, cached, refs, sketch>>
  BY DEF LocalWrite, Calling, Return, cacheVars, commitVars, k
<1>4. TypeOK'
  <2>1. [ent[t][k] EXCEPT !.wr = TRUE] \in Entry
    BY <1>1 DEF Entry
  <2>2. ent' \in [Thread -> [Key -> Entry]]
    BY <1>1, <1>2, <1>3, <2>1
  <2>3. order' \in [Thread -> Seq(Key)] /\ calls' \in [Thread -> Seq(Op)]
    BY <1>1, <1>2, <1>3, AddEntryEffect
  <2>4. QED
    BY <1>3, <2>2, <2>3 DEF Inv, TypeOK, CacheTypeOK, Label
<1>5. \A u \in Thread : u # t => Same(u)
  BY <1>1, <1>2, <1>3, AddEntryEffect DEF Same
<1>6. Phase(t)' = "run" /\ LockSet(t)' = {} /\ LockSet(t) = {}
  BY <1>3 DEF Phase, LockSet
<1>7. \A j \in Key : /\ ent'[t][j].held = ent[t][j].held
                     /\ ent'[t][j].rd = ent[t][j].rd
                     /\ j # k => ent'[t][j].wr = ent[t][j].wr
  BY <1>1, <1>2, <1>3 DEF Entry
<1>8. /\ \A i \in DOMAIN order[t] : i \in DOMAIN order'[t] /\ order'[t][i] = order[t][i]
      /\ \E i \in DOMAIN order'[t] : order'[t][i] = k
  BY <1>1, <1>3, AddEntryEffect
<1>9. Bookkeeping(t)'
  BY <1>1, <1>3, <1>6, <1>7, <1>8 DEF Bookkeeping, ReadSet
<1>10. QED
  BY <1>3, <1>4, <1>5, <1>6, <1>7, <1>9, QuietStep

\* The load of lookup's loop preserves the invariant.
LEMMA LookupLoadStep ==
  ASSUME Inv, NEW t \in Thread, LookupLoad(t)
  PROVE  Inv'
<1>1. /\ Phase(t) = "load" /\ pc[t] = "load" /\ Bookkeeping(t)
      /\ v1' = [v1 EXCEPT ![t] = cell[CallKey(t)]]
      /\ pc' = [pc EXCEPT ![t] = IF cell[CallKey(t)].lock THEN "confirm" ELSE "read"]
      /\ UNCHANGED <<back, todo, count, calls, order, ent, cts, got, reads, hist,
                     db, cell, cached, refs, sketch>>
  BY ThreadTypes DEF LookupLoad, Goto, cacheVars, txnVars, Phase
<1>2. CallKey(t) \in Key /\ cell[CallKey(t)] \in TimestampSet
  BY <1>1, ThreadTypes DEF Bookkeeping, Inv, TypeOK, CacheTypeOK
<1>3. TypeOK'
  BY <1>1, <1>2 DEF Inv, TypeOK, CacheTypeOK, Label
<1>4. \A u \in Thread : u # t => Same(u)
  BY <1>1 DEF Same, Inv, TypeOK
<1>5. pc'[t] \in {"read", "confirm"}
  BY <1>1 DEF Inv, TypeOK
<1>6. Phase(t)' = pc'[t] /\ LockSet(t)' = {} /\ LockSet(t) = {}
  BY <1>1, <1>5 DEF Phase, LockSet
<1>7. Bookkeeping(t)'
  BY <1>1, <1>5, <1>6 DEF Bookkeeping, ReadSet, CallKey
<1>8. QED
  BY <1>1, <1>3, <1>4, <1>6, <1>7, QuietStep

\* lookup's read of the value preserves the invariant.
LEMMA LookupReadStep ==
  ASSUME Inv, NEW t \in Thread, LookupRead(t)
  PROVE  Inv'
<1>1. /\ pc[t] = "read" /\ Bookkeeping(t)
      /\ got' = [got EXCEPT ![t] = IF ent[t][CallKey(t)].wr THEN Own
                                   ELSE Len(db[CallKey(t)])]
      /\ pc' = [pc EXCEPT ![t] = "confirm"]
      /\ UNCHANGED <<back, todo, count, calls, order, ent, cts, v1, reads, hist,
                     db, cell, cached, refs, sketch>>
  BY ThreadTypes DEF LookupRead, Goto, cacheVars, commitVars
<1>2. CallKey(t) \in Key /\ db[CallKey(t)] \in Seq(Txn)
  BY <1>1, ThreadTypes DEF Bookkeeping, Phase, Inv, TypeOK
<1>3. TypeOK'
  BY <1>1, <1>2 DEF Inv, TypeOK, CacheTypeOK, Label
<1>4. \A u \in Thread : u # t => Same(u)
  BY <1>1 DEF Same, Inv, TypeOK
<1>5. pc'[t] = "confirm"
  BY <1>1 DEF Inv, TypeOK
<1>6. Phase(t) = "read" /\ Phase(t)' = "confirm" /\ LockSet(t)' = {} /\ LockSet(t) = {}
  BY <1>1, <1>5 DEF Phase, LockSet
<1>7. Bookkeeping(t)'
  BY <1>1, <1>5, <1>6 DEF Bookkeeping, ReadSet, CallKey
<1>8. QED
  BY <1>1, <1>3, <1>4, <1>6, <1>7, QuietStep

\* lookup's compare-and-swap, whether it succeeds or not, preserves the
\* invariant.
LEMMA LookupConfirmStep ==
  ASSUME Inv, NEW t \in Thread, LookupConfirm(t)
  PROVE  Inv'
<1> DEFINE k == CallKey(t)
<1>1. /\ pc[t] = "confirm" /\ Phase(t) = "confirm" /\ Bookkeeping(t)
      /\ UNCHANGED <<back, todo, count, order, cts, v1, got, hist,
                     db, cell, cached, refs, sketch>>
  BY ThreadTypes DEF LookupConfirm, cacheVars, commitVars, Phase
<1>2. k \in Key /\ calls[t] \in Seq(Op) /\ calls[t] # <<>>
  BY <1>1, ThreadTypes DEF Bookkeeping
<1>3. ent \in [Thread -> [Key -> Entry]] /\ ent[t][k] \in Entry
      /\ v1[t].wts \in Nat /\ Rts(v1[t]) \in Nat
  BY <1>2, RtsType DEF Inv, TypeOK
<1> HIDE DEF k
<1>4. CASE cell[k] # v1[t]
  <2>1. /\ pc' = [pc EXCEPT ![t] = "load"] /\ UNCHANGED <<calls, ent, reads>>
    BY <1>4 DEF LookupConfirm, Goto, k
  <2>2. TypeOK'
    BY <1>1, <2>1 DEF Inv, TypeOK, CacheTypeOK, Label
  <2>3. \A u \in Thread : u # t => Same(u)
    BY <1>1, <2>1 DEF Same, Inv, TypeOK
  <2>4. pc'[t] = "load"
    BY <2>1 DEF Inv, TypeOK
  <2>5. Phase(t)' = "load" /\ LockSet(t)' = {} /\ LockSet(t) = {}
    BY <1>1, <2>4 DEF Phase, LockSet
  <2>6. Bookkeeping(t)'
    BY <1>1, <2>1, <2>4, <2>5 DEF Bookkeeping, ReadSet, CallKey
  <2>7. QED
    BY <1>1, <2>1, <2>2, <2>3, <2>5, <2>6, QuietStep
<1>5. CASE cell[k] = v1[t]
  <2> DEFINE e == [ent[t][k] EXCEPT !.wts = v1[t].wts, !.rts = Rts(v1[t])]
             read == [key |-> k, ver |-> got[t], locked |-> v1[t].lock]
  <2>1. /\ ent' = [ent EXCEPT ![t][k] = e]
        /\ reads' = IF got[t] = Own THEN reads
                    ELSE [reads EXCEPT ![t] = @ \cup {read}]
        /\ calls' = [calls EXCEPT ![t] = Tail(@)]
        /\ pc' = [pc EXCEPT ![t] = "run"]
    <3>1. /\ ent' = [ent EXCEPT ![t][k].wts = v1[t].wts, ![t][k].rts = Rts(v1[t])]
          /\ reads' = IF got[t] = Own THEN reads
                      ELSE [reads EXCEPT ![t] = @ \cup {read}]
          /\ Return(t) /\ Goto(t, "run")
      BY <1>5, Zenon DEF LookupConfirm, k
    <3>2. ent' = [ent EXCEPT ![t][k] = e]
      BY <1>2, <1>3, <3>1
    <3>3. QED
      BY <3>1, <3>2 DEF Goto, Return
  <2>2. e \in Entry /\ e.rd = ent[t][k].rd /\ e.wr = ent[t][k].wr
        /\ e.held = ent[t][k].held
    BY <1>3 DEF Entry
  <2>3. got[t] # Own => read \in Read
    <3>1. got[t] # Own => got[t] \in Nat \cup {Nothing}
      BY DEF Inv, TypeOK
    <3>2. v1[t].lock \in BOOLEAN
      BY DEF Inv, TypeOK, TimestampSet
    <3>3. QED
      BY <1>2, <3>1, <3>2 DEF Read
  <2> HIDE DEF e, read
  <2>4. ent' \in [Thread -> [Key -> Entry]]
    BY <1>2, <1>3, <2>1, <2>2
  <2>5. reads' \in [Thread -> SUBSET Read] /\ calls' \in [Thread -> Seq(Op)]
    BY <1>2, <2>1, <2>3 DEF Inv, TypeOK
  <2>6. TypeOK'
    BY <1>1, <2>1, <2>4, <2>5 DEF Inv, TypeOK, CacheTypeOK, Label
  <2>7. \A u \in Thread : u # t => Same(u)
    BY <1>1, <1>3, <2>1 DEF Same, Inv, TypeOK
  <2>8. pc'[t] = "run"
    BY <2>1 DEF Inv, TypeOK
  <2>9. \A j \in Key : /\ ent'[t][j].held = ent[t][j].held
                       /\ ent'[t][j].rd = ent[t][j].rd
                       /\ ent'[t][j].wr = ent[t][j].wr
    BY <1>2, <1>3, <2>1, <2>2
  <2>10. Phase(t)' = "run" /\ LockSet(t)' = {} /\ LockSet(t) = {}
    BY <1>1, <2>8 DEF Phase, LockSet
  <2>11. Bookkeeping(t)'
    BY <1>1, <2>8, <2>9, <2>10 DEF Bookkeeping, ReadSet
  <2>12. QED
    BY <1>1, <2>6, <2>7, <2>9, <2>10, <2>11, QuietStep
<1>6. QED
  BY <1>4, <1>5

\* The load check of a lazy table preserves the invariant.
LEMMA CheckLoadStep ==
  ASSUME Inv, NEW t \in Thread, CheckLoad(t)
  PROVE  Inv'
<1>1. /\ pc[t] = "check_load" /\ Bookkeeping(t)
      /\ pc' = [pc EXCEPT ![t] = IF Overloaded THEN "evict" ELSE back[t]]
      /\ UNCHANGED <<back, todo, count, calls, order, ent, cts, v1, got, reads,
                     hist, db, cell, cached, refs, sketch>>
  BY ThreadTypes DEF CheckLoad, Goto, cacheVars, txnVars, commitVars
<1>2. back[t] \in {"load", "lock"}
  BY <1>1 DEF Bookkeeping
<1>3. pc'[t] = "evict" \/ pc'[t] = back[t]
  BY <1>1, <1>2 DEF Inv, TypeOK
<1>4. TypeOK'
  BY <1>1, <1>2, <1>3 DEF Inv, TypeOK, CacheTypeOK, Label
<1>5. \A u \in Thread : u # t => Same(u)
  BY <1>1 DEF Same, Inv, TypeOK
<1>6. Phase(t) = back[t] /\ Phase(t)' = back[t] /\ LockSet(t)' = LockSet(t)
  BY <1>1, <1>2, <1>3 DEF Phase, LockSet, WriteSet
<1>7. Bookkeeping(t)'
  BY <1>1, <1>2, <1>3, <1>6 DEF Bookkeeping, ReadSet, CallKey, WriteSet
<1>8. QED
  BY <1>1, <1>4, <1>5, <1>6, <1>7, QuietStep

\* The holders of a key are finitely many, and its reference count is their
\* number.
LEMMA HolderCount ==
  ASSUME Inv, TicTocAssumption, NEW k \in Key
  PROVE  /\ IsFiniteSet({u \in Thread : ent[u][k].held})
         /\ Reclaim # "never" =>
              refs[k] = Cardinality({u \in Thread : ent[u][k].held})
<1>1. IsFiniteSet({u \in Thread : ent[u][k].held})
  BY FS_Subset DEF TicTocAssumption
<1>2. QED
  BY <1>1 DEF Inv, RefsCountHolders

\* What thread t's pin of a key leaves behind, when label is where it goes.
Repinned(t, label) ==
  /\ CacheTypeOK' /\ RefsCountHolders'
  /\ \A j \in Key : cell'[j].lock = cell[j].lock
  /\ pc' \in [Thread -> Label]
  /\ back' \in [Thread -> {"idle", "load", "lock"}]
  /\ \A u \in Thread : u # t => pc'[u] = pc[u] /\ back'[u] = back[u]
  /\ \/ pc'[t] = label
     \/ pc'[t] = "check_load" /\ back'[t] = label /\ Reclaim = "lazy"
  /\ Phase(t)' = label

\* rw_entry_iceberg_insert keeps the counts right and every lock bit where it
\* was, also when it fills a new entry from the sketch.
LEMMA PinEffect ==
  ASSUME CacheAssumption, TicTocAssumption, Inv, NEW t \in Thread, NEW k \in Key,
         NEW label, label = "load" \/ label = "lock", Pin(t, k, label),
         ent'[t][k].held = TRUE,
         \A u \in Thread, j \in Key :
           u # t \/ j # k => ent'[u][j].held = ent[u][j].held
  PROVE  Repinned(t, label)
<1>1. /\ CacheTypeOK /\ pc \in [Thread -> Label]
      /\ back \in [Thread -> {"idle", "load", "lock"}]
      /\ label \in Label /\ "check_load" \in Label
  BY DEF Inv, TypeOK, Label
<1>2. CASE ent[t][k].held
  <2>1. pc' = [pc EXCEPT ![t] = label]
        /\ UNCHANGED <<cell, cached, refs, sketch, back>>
    BY <1>2 DEF Pin, Goto, cacheVars
  <2>2. \A u \in Thread, j \in Key : ent'[u][j].held = ent[u][j].held
    <3>1. ent[t][k].held \in BOOLEAN
      BY DEF Inv, TypeOK, Entry
    <3>2. ent'[t][k].held = ent[t][k].held
      BY <1>2, <3>1
    <3>3. QED
      BY <3>2
  <2>3. RefsCountHolders'
    BY <2>1, <2>2, SameRefs
  <2>4. QED
    BY <1>1, <2>1, <2>3 DEF Repinned, CacheTypeOK, Phase
<1>3. CASE ~ent[t][k].held
  <2>1. /\ InsertAndGet(k) /\ back' = [back EXCEPT ![t] = label]
        /\ pc' = [pc EXCEPT ![t] = IF ChecksLoad(k) THEN "check_load" ELSE label]
    BY <1>3 DEF Pin, Goto
  <2>2. /\ CacheTypeOK' /\ cached' = cached \cup {k}
        /\ \A j \in Key : j # k \/ k \in cached => cell'[j] = cell[j]
        /\ k \notin cached /\ ~cell[k].lock => ~cell'[k].lock
        /\ Reclaim # "never" => refs' = [refs EXCEPT ![k] = @ + 1]
    BY <1>1, <2>1, InsertAndGetEffect
  <2>3. \A j \in Key : cell'[j].lock = cell[j].lock
    <3>1. CASE k \in cached
      BY <2>2, <3>1
    <3>2. CASE k \notin cached
      <4>1. ~cell[k].lock
        BY <3>2, UnheldUnlocked DEF Inv, RefsCountHolders
      <4>2. cell[k].lock \in BOOLEAN /\ cell'[k].lock \in BOOLEAN
        BY <1>1, <2>2 DEF CacheTypeOK, TimestampSet
      <4>3. QED
        BY <2>2, <3>2, <4>1, <4>2
    <3>3. QED
      BY <3>1, <3>2
  <2>4. RefsCountHolders'
    <3>1. \A j \in Key : j \notin cached' => \A u \in Thread : ~ent'[u][j].held
      BY <2>2 DEF Inv, RefsCountHolders
    <3>2. ASSUME NEW j \in Key, Reclaim # "never"
          PROVE  refs'[j] = Cardinality({u \in Thread : ent'[u][j].held})
      <4> DEFINE H == {u \in Thread : ent[u][j].held}
      <4>1. IsFiniteSet(H) /\ refs[j] = Cardinality(H)
        BY <3>2, HolderCount
      <4>2. CASE j # k
        <5>1. {u \in Thread : ent'[u][j].held} = H
          BY <4>2
        <5>2. refs'[j] = refs[j]
          BY <1>1, <2>2, <3>2, <4>2 DEF CacheTypeOK
        <5>3. QED
          BY <4>1, <5>1, <5>2
      <4>3. CASE j = k
        <5>1. {u \in Thread : ent'[u][j].held} = H \cup {t} /\ t \notin H
          BY <1>3, <4>3
        <5>2. refs'[j] = refs[j] + 1
          BY <1>1, <2>2, <3>2, <4>3 DEF CacheTypeOK
        <5> HIDE DEF H
        <5>3. Cardinality(H \cup {t}) = Cardinality(H) + 1
          BY <4>1, <5>1, FS_AddElement
        <5>4. QED
          BY <4>1, <4>3, <5>1, <5>2, <5>3
      <4>4. QED
        BY <4>2, <4>3
    <3>3. QED
      BY <3>1, <3>2 DEF RefsCountHolders
  <2>5. QED
    BY <1>1, <2>1, <2>2, <2>3, <2>4 DEF Repinned, Phase, ChecksLoad
<1>4. QED
  BY <1>2, <1>3

\* The start of lookup preserves the invariant.
LEMMA LookupPinStep ==
  ASSUME CacheAssumption, TicTocAssumption, Inv, NEW t \in Thread, LookupPin(t)
  PROVE  Inv'
<1> DEFINE k == CallKey(t)
           e == [ent[t][k] EXCEPT !.rd = TRUE, !.held = TRUE]
<1>1. /\ k \in Key /\ calls[t] # <<>> /\ ent[t][k] \in Entry /\ Bookkeeping(t)
      /\ ent \in [Thread -> [Key -> Entry]]
  BY ThreadTypes DEF LookupPin, Calling, Inv, TypeOK
<1>2. /\ AddEntry(t, k) /\ Pin(t, k, "load") /\ pc[t] = "run"
      /\ ent' = [ent EXCEPT ![t][k] = e]
      /\ got' = [got EXCEPT ![t] = Nothing]
      /\ UNCHANGED <<db, count, calls, reads, todo, cts, v1, hist>>
  BY DEF LookupPin, Calling, commitVars
<1>3. e \in Entry /\ e.rd /\ e.held = TRUE /\ e.wr = ent[t][k].wr
  BY <1>1 DEF Entry
<1>4. k = CallKey(t)
  OBVIOUS
<1> HIDE DEF k, e
<1>5. ent' \in [Thread -> [Key -> Entry]] /\ ent'[t][k] = e
  BY <1>1, <1>2, <1>3
<1>6. \A u \in Thread, j \in Key : u # t \/ j # k => ent'[u][j] = ent[u][j]
  BY <1>1, <1>2, <1>3
<1>7. /\ CacheTypeOK' /\ RefsCountHolders'
      /\ \A j \in Key : cell'[j].lock = cell[j].lock
      /\ pc' \in [Thread -> Label] /\ back' \in [Thread -> {"idle", "load", "lock"}]
      /\ \A u \in Thread : u # t => pc'[u] = pc[u] /\ back'[u] = back[u]
      /\ \/ pc'[t] = "load"
         \/ pc'[t] = "check_load" /\ back'[t] = "load" /\ Reclaim = "lazy"
      /\ Phase(t)' = "load"
  <2>1. ent'[t][k].held = TRUE
    BY <1>3, <1>5
  <2>2. \A u \in Thread, j \in Key :
          u # t \/ j # k => ent'[u][j].held = ent[u][j].held
    BY <1>6
  <2>3. k \in Key /\ Pin(t, k, "load")
    BY <1>1, <1>2
  <2>4. Repinned(t, "load")
    BY <2>1, <2>2, <2>3, PinEffect
  <2>5. QED
    BY <2>4 DEF Repinned
<1>8. /\ order' \in [Thread -> Seq(Key)]
      /\ \A u \in Thread : u # t => order'[u] = order[u]
      /\ \A i \in DOMAIN order[t] : i \in DOMAIN order'[t] /\ order'[t][i] = order[t][i]
      /\ \E i \in DOMAIN order'[t] : order'[t][i] = k
  BY <1>1, <1>2, AddEntryEffect
<1>9. TypeOK'
  <2>1. got' \in [Thread -> Nat \cup {Own, Nothing}]
    BY <1>2 DEF Inv, TypeOK
  <2>2. QED
    BY <1>2, <1>5, <1>7, <1>8, <2>1 DEF Inv, TypeOK
<1>10. \A u \in Thread : u # t => Same(u)
  BY <1>1, <1>2, <1>7, <1>8 DEF Same
<1>11. LockSet(t)' = {} /\ LockSet(t) = {}
  BY <1>2, <1>7 DEF LockSet, Phase
<1>12. Bookkeeping(t)'
  <2>1. CallKey(t)' = k /\ calls'[t] = calls[t]
    BY <1>2, <1>4 DEF CallKey
  <2>2. \A j \in Key : j # k => ent'[t][j] = ent[t][j]
    BY <1>6
  <2>3. pc'[t] \in {"load", "check_load"}
    BY <1>7
  <2>4. \A j \in Key : ent'[t][j].rd \/ ent'[t][j].wr \/ ent'[t][j].held =>
          \E i \in DOMAIN order'[t] : order'[t][i] = j
    BY <1>1, <1>8, <2>2 DEF Bookkeeping
  <2>5. \A j \in ReadSet(t)' : ent'[t][j].held
    BY <1>1, <1>2, <1>3, <1>5, <2>2 DEF Bookkeeping, ReadSet
  <2>6. QED
    BY <1>1, <1>3, <1>5, <1>7, <1>11, <2>1, <2>3, <2>4, <2>5 DEF Bookkeeping
<1>13. LoopsOverPinnedEntries'
  BY <1>10, <1>12, OthersBooks
<1>14. LockOwnership'
  BY <1>7, <1>10, <1>11, SameLocks
<1>15. QED
  BY <1>7, <1>9, <1>13, <1>14 DEF Inv

\* The pin of a key about to be locked preserves the invariant.
LEMMA LockPinStep ==
  ASSUME CacheAssumption, TicTocAssumption, Inv, NEW t \in Thread, LockPin(t)
  PROVE  Inv'
<1> DEFINE k == Smallest(todo[t])
           e == [ent[t][k] EXCEPT !.held = TRUE]
<1>1. /\ k \in todo[t] /\ k \in Key /\ ent[t][k] \in Entry /\ Bookkeeping(t)
      /\ ent \in [Thread -> [Key -> Entry]]
  BY ThreadTypes DEF LockPin, Inv, TypeOK
<1>2. /\ Pin(t, k, "lock") /\ pc[t] = "lock"
      /\ ent' = [ent EXCEPT ![t][k] = e]
      /\ UNCHANGED <<db, count, calls, order, got, reads, todo, cts, v1, hist>>
  BY DEF LockPin, commitVars
<1>3. /\ e \in Entry /\ e.held = TRUE
      /\ e.wr = ent[t][k].wr /\ e.rd = ent[t][k].rd
  BY <1>1 DEF Entry
<1> HIDE DEF k, e
<1>4. ent' \in [Thread -> [Key -> Entry]] /\ ent'[t][k] = e
  BY <1>1, <1>2, <1>3
<1>5. \A u \in Thread, j \in Key : u # t \/ j # k => ent'[u][j] = ent[u][j]
  BY <1>1, <1>2, <1>3
<1>6. /\ CacheTypeOK' /\ RefsCountHolders'
      /\ \A j \in Key : cell'[j].lock = cell[j].lock
      /\ pc' \in [Thread -> Label] /\ back' \in [Thread -> {"idle", "load", "lock"}]
      /\ \A u \in Thread : u # t => pc'[u] = pc[u] /\ back'[u] = back[u]
      /\ \/ pc'[t] = "lock"
         \/ pc'[t] = "check_load" /\ back'[t] = "lock" /\ Reclaim = "lazy"
      /\ Phase(t)' = "lock"
  <2>1. ent'[t][k].held = TRUE
    BY <1>3, <1>4
  <2>2. \A u \in Thread, j \in Key :
          u # t \/ j # k => ent'[u][j].held = ent[u][j].held
    BY <1>5
  <2>3. k \in Key /\ Pin(t, k, "lock")
    BY <1>1, <1>2
  <2>4. Repinned(t, "lock")
    BY <2>1, <2>2, <2>3, PinEffect
  <2>5. QED
    BY <2>4 DEF Repinned
<1>7. TypeOK'
  BY <1>2, <1>4, <1>6 DEF Inv, TypeOK
<1>8. \A u \in Thread : u # t => Same(u)
  BY <1>1, <1>2, <1>5, <1>6 DEF Same
<1>9. \A j \in Key : /\ ent'[t][j].wr = ent[t][j].wr
                     /\ ent'[t][j].rd = ent[t][j].rd
                     /\ ent[t][j].held => ent'[t][j].held
  BY <1>1, <1>3, <1>4, <1>5
<1>10. WriteSet(t)' = WriteSet(t) /\ ReadSet(t)' = ReadSet(t)
  BY <1>9 DEF WriteSet, ReadSet
<1>11. Phase(t) = "lock" /\ LockSet(t)' = LockSet(t)
  BY <1>2, <1>6, <1>10 DEF LockSet, Phase
<1>12. Bookkeeping(t)'
  <2>1. pc'[t] \in {"lock", "check_load"}
    BY <1>6
  <2>2. \A j \in Key : ent'[t][j].rd \/ ent'[t][j].wr \/ ent'[t][j].held =>
          \E i \in DOMAIN order'[t] : order'[t][i] = j
    <3>1. k \in WriteSet(t)
      BY <1>1, <1>11 DEF Bookkeeping
    <3>2. \A j \in Key : ent'[t][j].held => ent[t][j].held \/ ent[t][j].wr
      BY <1>5, <3>1 DEF WriteSet
    <3>3. QED
      BY <1>1, <1>2, <1>9, <3>2 DEF Bookkeeping
  <2>3. \A j \in ReadSet(t)' : ent'[t][j].held
    BY <1>1, <1>2, <1>9, <1>10 DEF Bookkeeping, ReadSet
  <2>4. \A j \in LockSet(t)' : ent'[t][j].held
    BY <1>1, <1>9, <1>11 DEF Bookkeeping, LockSet, WriteSet
  <2>5. /\ todo'[t] \subseteq WriteSet(t)'
        /\ \A w \in WriteSet(t)' \ todo'[t], j \in todo'[t] : w < j
    BY <1>1, <1>2, <1>10, <1>11 DEF Bookkeeping
  <2>6. QED
    BY <1>6, <2>1, <2>2, <2>3, <2>4, <2>5 DEF Bookkeeping
<1>13. LoopsOverPinnedEntries'
  BY <1>8, <1>12, OthersBooks
<1>14. LockOwnership'
  BY <1>6, <1>8, <1>11, SameLocks
<1>15. QED
  BY <1>6, <1>7, <1>13, <1>14 DEF Inv

\* The clock of a lazy table preserves the invariant: it drops an entry without
\* references, which nobody holds and nobody has locked.
LEMMA EvictOneStep ==
  ASSUME CacheAssumption, TicTocAssumption, Inv, NEW t \in Thread, EvictOne(t)
  PROVE  Inv'
<1>1. /\ pc[t] = "evict" /\ Bookkeeping(t)
      /\ UNCHANGED <<back, todo, count, calls, order, ent, cts, v1, got, reads,
                     hist, db>>
      /\ \/ Evict /\ pc' = [pc EXCEPT ![t] = back[t]]
         \/ UNCHANGED <<cell, cached, refs, sketch, pc>>
  BY ThreadTypes DEF EvictOne, Goto, txnVars, commitVars, cacheVars
<1>2. back[t] \in {"load", "lock"} /\ Reclaim # "never"
  BY <1>1 DEF Bookkeeping
<1>3. CASE UNCHANGED <<cell, cached, refs, sketch, pc>>
  <2>1. TypeOK'
    BY <1>1, <1>3 DEF Inv, TypeOK, CacheTypeOK
  <2>2. \A u \in Thread : Same(u)
    BY <1>1, <1>3 DEF Same
  <2>3. LockSet(t)' = LockSet(t) /\ Bookkeeping(t)'
    BY <1>1, <2>2, SamePhase, SameBooks
  <2>4. QED
    BY <1>1, <1>3, <2>1, <2>2, <2>3, QuietStep
<1>4. CASE Evict /\ pc' = [pc EXCEPT ![t] = back[t]]
  <2>1. PICK k \in cached : refs[k] = 0 /\ Forget(k)
    BY <1>4 DEF Evict
  <2>2. k \in Key /\ CacheTypeOK
    BY <2>1 DEF Inv, TypeOK, CacheTypeOK
  <2>3. /\ CacheTypeOK' /\ cached' = cached \ {k}
        /\ refs' = [refs EXCEPT ![k] = 0] /\ ~cell'[k].lock
        /\ \A j \in Key : j # k => cell'[j] = cell[j]
    BY <2>1, <2>2, ForgetEffect
  <2>4. \A u \in Thread : ~ent[u][k].held
    <3> DEFINE H == {u \in Thread : ent[u][k].held}
    <3>1. IsFiniteSet(H) /\ Cardinality(H) = 0
      BY <1>2, <2>1, <2>2, HolderCount
    <3>2. H = {}
      BY <3>1, FS_EmptySet
    <3>3. QED
      BY <3>2
  <2>5. refs' = refs
    BY <2>1, <2>2, <2>3 DEF CacheTypeOK
  <2>6. \A j \in Key : cell'[j].lock = cell[j].lock
    <3>1. ~cell[k].lock
      BY <2>2, <2>4, UnheldUnlocked
    <3>2. cell[k].lock \in BOOLEAN /\ cell'[k].lock \in BOOLEAN
      BY <2>2, <2>3 DEF CacheTypeOK, TimestampSet
    <3>3. QED
      BY <2>3, <3>1, <3>2
  <2>7. RefsCountHolders'
    BY <1>1, <2>3, <2>4, <2>5 DEF Inv, RefsCountHolders
  <2>8. pc' \in [Thread -> Label] /\ pc'[t] = back[t]
        /\ \A u \in Thread : u # t => pc'[u] = pc[u]
    BY <1>2, <1>4 DEF Inv, TypeOK, Label
  <2>9. TypeOK'
    BY <1>1, <2>3, <2>8 DEF Inv, TypeOK
  <2>10. \A u \in Thread : u # t => Same(u)
    BY <1>1, <2>8 DEF Same
  <2>11. Phase(t) = back[t] /\ Phase(t)' = back[t] /\ LockSet(t)' = LockSet(t)
    BY <1>1, <1>2, <2>8 DEF Phase, LockSet, WriteSet
  <2>12. Bookkeeping(t)'
    BY <1>1, <1>2, <2>8, <2>11 DEF Bookkeeping, ReadSet, CallKey, WriteSet
  <2>13. LoopsOverPinnedEntries'
    BY <2>10, <2>12, OthersBooks
  <2>14. LockOwnership'
    BY <2>6, <2>10, <2>11, SameLocks
  <2>15. QED
    BY <2>7, <2>9, <2>13, <2>14 DEF Inv
<1>5. QED
  BY <1>1, <1>3, <1>4

\* A finite set has one element less without one of its elements.
LEMMA OneLess ==
  ASSUME NEW S, IsFiniteSet(S), NEW x \in S
  PROVE  /\ IsFiniteSet(S \ {x}) /\ Cardinality(S \ {x}) = Cardinality(S) - 1
         /\ Cardinality(S) \in Nat /\ Cardinality(S) > 0
         /\ Cardinality(S) = 1 => S = {x}
<1>1. IsFiniteSet(S \ {x}) /\ Cardinality(S \ {x}) = Cardinality(S) - 1
  BY FS_RemoveElement
<1>2. Cardinality(S) \in Nat /\ Cardinality(S \ {x}) \in Nat
  BY <1>1, FS_CardinalityType
<1>3. Cardinality(S \ {x}) = 0 => S \ {x} = {}
  BY <1>1, FS_EmptySet
<1>4. QED
  BY <1>1, <1>2, <1>3

\* The entries a transaction walks through are in its order.
LEMMA FirstMember ==
  ASSUME Inv, NEW t \in Thread, NEW S \in SUBSET Key, S # {},
         \A k \in S : ent[t][k].rd \/ ent[t][k].wr \/ ent[t][k].held
  PROVE  First(t, S) \in S
<1> DEFINE I == {i \in DOMAIN order[t] : order[t][i] \in S}
<1>1. order[t] \in Seq(Key) /\ Bookkeeping(t)
  BY ThreadTypes
<1>2. I \in SUBSET Nat
  BY <1>1
<1>3. \A k \in S : \E i \in DOMAIN order[t] : order[t][i] = k
  BY <1>1 DEF Bookkeeping
<1>4. I # {}
  BY <1>3
<1>5. Smallest(I) \in I
  BY <1>2, <1>4, SmallestMember
<1>6. QED
  BY <1>5 DEF First

\* rw_entry_iceberg_remove preserves the invariant: the count goes down with the
\* holders, and the entry leaves with the last of them.
LEMMA UnpinStep ==
  ASSUME CacheAssumption, TicTocAssumption, Inv, NEW t \in Thread, Unpin(t)
  PROVE  Inv'
<1> DEFINE k == First(t, todo[t])
           e == [ent[t][k] EXCEPT !.held = FALSE]
<1>1. /\ pc[t] = "unpin" /\ todo[t] # {} /\ Bookkeeping(t)
      /\ Release(k) /\ ent' = [ent EXCEPT ![t][k] = e]
      /\ todo' = [todo EXCEPT ![t] = @ \ {k}]
      /\ UNCHANGED <<db, pc, back, count, calls, order, got, reads, cts, v1, hist>>
  BY ThreadTypes DEF Unpin
<1>2. todo[t] = Pinned(t) /\ ent \in [Thread -> [Key -> Entry]] /\ CacheTypeOK
      /\ todo[t] \in SUBSET Key
  BY <1>1 DEF Bookkeeping, Inv, TypeOK
<1>3. k \in todo[t]
  BY <1>1, <1>2, FirstMember DEF Pinned
<1>4. k \in Key /\ ent[t][k].held /\ Reclaim # "never" /\ ent[t][k] \in Entry
  BY <1>2, <1>3 DEF Pinned
<1>5. e \in Entry /\ ~e.held /\ e.wr = ent[t][k].wr /\ e.rd = ent[t][k].rd
  BY <1>4 DEF Entry
<1> HIDE DEF k, e
<1>6. ent' \in [Thread -> [Key -> Entry]] /\ ent'[t][k] = e
  BY <1>1, <1>2, <1>4, <1>5
<1>7. \A u \in Thread, j \in Key : u # t \/ j # k => ent'[u][j] = ent[u][j]
  BY <1>1, <1>2, <1>4, <1>5
<1> DEFINE H(j) == {u \in Thread : ent[u][j].held}
<1>8. IsFiniteSet(H(k)) /\ refs[k] = Cardinality(H(k)) /\ t \in H(k)
  BY <1>4, HolderCount
<1>9. /\ Cardinality(H(k) \ {t}) = refs[k] - 1
      /\ refs[k] = 1 => H(k) = {t}
  <2> HIDE DEF H
  <2>1. QED
    BY <1>8, OneLess
<1>10. refs[k] > 0
  <2> HIDE DEF H
  <2>1. QED
    BY <1>8, OneLess
<1>11. {u \in Thread : ent'[u][k].held} = H(k) \ {t}
  BY <1>4, <1>5, <1>6, <1>7
<1>12. \A j \in Key : j # k => {u \in Thread : ent'[u][j].held} = H(j)
  BY <1>7
<1>13. \A u \in Thread : u # t => Same(u)
  BY <1>1, <1>2, <1>7 DEF Same, Inv, TypeOK
<1>14. LockSet(t)' = {} /\ LockSet(t) = {}
  BY <1>1 DEF LockSet, Phase
<1>15. Bookkeeping(t)'
  <2>1. todo'[t] = todo[t] \ {k}
    BY <1>1 DEF Inv, TypeOK
  <2>2. todo'[t] = Pinned(t)'
    BY <1>2, <1>4, <1>5, <1>6, <1>7, <2>1 DEF Pinned
  <2>3. \A j \in Key : /\ ent'[t][j].rd = ent[t][j].rd
                       /\ ent'[t][j].wr = ent[t][j].wr
                       /\ ent'[t][j].held => ent[t][j].held
    BY <1>4, <1>5, <1>6, <1>7
  <2>4. \A j \in Key : ent'[t][j].rd \/ ent'[t][j].wr \/ ent'[t][j].held =>
          \E i \in DOMAIN order'[t] : order'[t][i] = j
    BY <1>1, <2>3 DEF Bookkeeping
  <2>5. pc'[t] = "unpin" /\ Phase(t)' = "unpin"
    BY <1>1 DEF Phase
  <2>6. QED
    BY <1>14, <2>2, <2>4, <2>5 DEF Bookkeeping
<1>16. LoopsOverPinnedEntries'
  BY <1>13, <1>15, OthersBooks
<1>17. todo' \in [Thread -> SUBSET Key]
  BY <1>1, <1>2 DEF Inv, TypeOK
<1>18. CASE Reclaim = "eager" /\ refs[k] = 1 /\ Forget(k)
  <2>1. /\ CacheTypeOK' /\ cached' = cached \ {k}
        /\ refs' = [refs EXCEPT ![k] = 0] /\ ~cell'[k].lock
        /\ \A j \in Key : j # k => cell'[j] = cell[j]
    BY <1>2, <1>4, <1>18, ForgetEffect
  <2>2. H(k) \ {t} = {}
    BY <1>9, <1>18
  <2>3. \A u \in Thread : u # t => ~ent[u][k].held
    BY <2>2
  <2>4. ~cell[k].lock
    <3>1. \A u \in Thread : k \notin LockSet(u)
      BY <1>14, <2>3 DEF Inv, LoopsOverPinnedEntries, Bookkeeping
    <3>2. QED
      BY <1>4, <3>1 DEF Inv, LockOwnership
  <2>5. \A j \in Key : cell'[j].lock = cell[j].lock
    <3>1. cell[k].lock \in BOOLEAN /\ cell'[k].lock \in BOOLEAN
      BY <1>2, <1>4, <2>1 DEF CacheTypeOK, TimestampSet
    <3>2. QED
      BY <2>1, <2>4, <3>1
  <2>6. LockOwnership'
    BY <1>13, <1>14, <2>5, SameLocks
  <2>7. RefsCountHolders'
    <3>1. ASSUME NEW j \in Key
          PROVE  /\ refs'[j] = Cardinality({u \in Thread : ent'[u][j].held})
                 /\ j \notin cached' => \A u \in Thread : ~ent'[u][j].held
      <4>1. CASE j = k
        <5>1. refs'[k] = 0
          BY <1>2, <1>4, <2>1 DEF CacheTypeOK
        <5>2. \A u \in Thread : ~ent'[u][k].held
          BY <1>5, <1>6, <1>7, <1>4, <2>3
        <5>3. Cardinality({u \in Thread : ent'[u][k].held}) = refs[k] - 1
          BY <1>9, <1>11
        <5>4. Cardinality({u \in Thread : ent'[u][k].held}) = 0
          BY <1>18, <5>3
        <5>5. QED
          BY <4>1, <5>1, <5>2, <5>4
      <4>2. CASE j # k
        <5>1. refs'[j] = refs[j] /\ (j \in cached' <=> j \in cached)
          BY <1>2, <2>1, <4>2 DEF CacheTypeOK
        <5>2. refs[j] = Cardinality(H(j))
          BY <1>4, HolderCount
        <5>3. QED
          BY <1>12, <4>2, <5>1, <5>2, <1>7 DEF Inv, RefsCountHolders
      <4>3. QED
        BY <4>1, <4>2
    <3>2. QED
      BY <3>1 DEF RefsCountHolders
  <2>8. TypeOK'
    BY <1>1, <1>6, <1>17, <2>1 DEF Inv, TypeOK
  <2>9. QED
    BY <1>16, <2>6, <2>7, <2>8 DEF Inv
<1>19. CASE CacheTypeOK' /\ UNCHANGED <<cell, cached>> /\ refs' = [refs EXCEPT ![k] = @ - 1]
  <2>1. LockOwnership'
    BY <1>13, <1>14, <1>19, SameLocks
  <2>2. RefsCountHolders'
    <3>1. ASSUME NEW j \in Key
          PROVE  /\ refs'[j] = Cardinality({u \in Thread : ent'[u][j].held})
                 /\ j \notin cached' => \A u \in Thread : ~ent'[u][j].held
      <4>1. CASE j = k
        <5>1. refs'[k] = refs[k] - 1
          BY <1>2, <1>4, <1>19 DEF CacheTypeOK
        <5>2. k \in cached
          BY <1>4 DEF Inv, RefsCountHolders
        <5>3. Cardinality({u \in Thread : ent'[u][k].held}) = refs[k] - 1
          BY <1>9, <1>11
        <5>4. QED
          BY <4>1, <5>1, <5>2, <5>3, <1>19
      <4>2. CASE j # k
        <5>1. refs'[j] = refs[j]
          BY <1>2, <1>19, <4>2 DEF CacheTypeOK
        <5>2. refs[j] = Cardinality(H(j))
          BY <1>4, HolderCount
        <5>3. Cardinality({u \in Thread : ent'[u][j].held}) = refs[j]
          BY <1>12, <4>2, <5>2
        <5>4. j \notin cached => \A u \in Thread : ~ent'[u][j].held
          BY <1>7, <4>2 DEF Inv, RefsCountHolders
        <5>5. QED
          BY <1>19, <5>1, <5>3, <5>4
      <4>3. QED
        BY <4>1, <4>2
    <3>2. QED
      BY <3>1 DEF RefsCountHolders
  <2>3. TypeOK'
    BY <1>1, <1>6, <1>17, <1>19 DEF Inv, TypeOK
  <2>4. QED
    BY <1>16, <2>1, <2>2, <2>3 DEF Inv
<1>20. QED
  BY <1>1, <1>2, <1>4, <1>10, <1>18, <1>19, ReleaseEffect

\* The first commit_ts of a transaction is the latest wts that it read.
LEMMA LatestRead ==
  ASSUME CacheAssumption, Inv, NEW t \in Thread, NEW w,
         w = CHOOSE x \in {0} \cup {ent[t][k].wts : k \in ReadSet(t)} :
               \A k \in ReadSet(t) : ent[t][k].wts <= x
  PROVE  w \in Nat /\ \A k \in ReadSet(t) : ent[t][k].wts <= w
<1> DEFINE V == {ent[t][k].wts : k \in ReadSet(t)}
           W == {0} \cup V
           f == [k \in ReadSet(t) |-> ent[t][k].wts]
<1>1. IsFiniteSet(ReadSet(t))
  BY FS_Subset DEF ReadSet, CacheAssumption
<1>2. f \in Surjection(ReadSet(t), V)
  BY DEF Surjection
<1>3. \A k \in ReadSet(t) : ent[t][k].wts \in Nat
  BY ThreadTypes DEF ReadSet, Entry
<1>4. V \in SUBSET Nat
  BY <1>3
<1>5. IsFiniteSet(W) /\ W \in SUBSET Nat /\ W # {}
  <2> HIDE DEF f, V
  <2>1. IsFiniteSet(V)
    BY <1>1, <1>2, FS_Surjection
  <2>2. IsFiniteSet(V \cup {0}) /\ V \cup {0} = W
    BY <2>1, FS_AddElement
  <2>3. QED
    BY <1>4, <2>2
<1>6. \E x \in W : \A k \in ReadSet(t) : ent[t][k].wts <= x
  <2>1. PICK x \in W : \A n \in W : n <= x
    <3> HIDE DEF W
    <3>1. QED
      BY <1>5, LargestMember
  <2>2. QED
    BY <2>1
<1>7. w \in W /\ \A k \in ReadSet(t) : ent[t][k].wts <= w
  BY <1>6
<1>8. QED
  <2> HIDE DEF W
  <2>1. QED
    BY <1>5, <1>7

\* The start of commit preserves the invariant.
LEMMA CommitBeginStep ==
  ASSUME CacheAssumption, Inv, NEW t \in Thread, CommitBegin(t)
  PROVE  Inv'
<1> DEFINE W == {0} \cup {ent[t][k].wts : k \in ReadSet(t)}
           w == CHOOSE x \in W : \A k \in ReadSet(t) : ent[t][k].wts <= x
<1>1. /\ pc[t] = "run" /\ pc' = [pc EXCEPT ![t] = "lock"] /\ Bookkeeping(t)
      /\ todo' = [todo EXCEPT ![t] = WriteSet(t)]
      /\ cts' = [cts EXCEPT ![t] = w]
      /\ UNCHANGED <<cell, cached, refs, sketch, db, back, count, calls, order,
                     ent, got, reads, v1, hist>>
  BY ThreadTypes DEF CommitBegin, Goto, cacheVars, txnVars
<1>2. w \in Nat
  BY LatestRead
<1> HIDE DEF w, W
<1>3. WriteSet(t) \subseteq Key
  BY DEF WriteSet
<1>4. TypeOK'
  <2>1. todo' \in [Thread -> SUBSET Key] /\ cts' \in [Thread -> Nat]
    BY <1>1, <1>2, <1>3 DEF Inv, TypeOK
  <2>2. pc' \in [Thread -> Label]
    BY <1>1 DEF Inv, TypeOK, Label
  <2>3. QED
    BY <1>1, <2>1, <2>2 DEF Inv, TypeOK, CacheTypeOK
<1>5. \A u \in Thread : u # t => Same(u)
  BY <1>1 DEF Same, Inv, TypeOK
<1>6. pc'[t] = "lock" /\ todo'[t] = WriteSet(t) /\ WriteSet(t)' = WriteSet(t)
      /\ ReadSet(t)' = ReadSet(t)
  BY <1>1 DEF Inv, TypeOK, WriteSet, ReadSet
<1>7. Phase(t)' = "lock" /\ LockSet(t)' = {} /\ LockSet(t) = {}
  BY <1>1, <1>6 DEF Phase, LockSet
<1>8. Bookkeeping(t)'
  BY <1>1, <1>6, <1>7 DEF Bookkeeping
<1>9. QED
  BY <1>1, <1>4, <1>5, <1>7, <1>8, QuietStep

\* A lock that is not taken: exactly the locks taken so far are left to unlock.
LEMMA BackOffStep ==
  ASSUME CacheAssumption, Inv, NEW t \in Thread, todo[t] # {},
         pc[t] \in {"lock", "lock_cas"}, BackOff(t, Smallest(todo[t])),
         \A u \in Thread : u # t => v1'[u] = v1[u], v1' \in [Thread -> TimestampSet],
         UNCHANGED <<cell, cached, refs, sketch, db, back, txnVars, cts, hist>>
  PROVE  Inv'
<1> DEFINE k == Smallest(todo[t])
           S == {w \in WriteSet(t) : w < k}
<1>1. /\ pc' = [pc EXCEPT ![t] = "backoff"] /\ todo' = [todo EXCEPT ![t] = S]
      /\ Bookkeeping(t) /\ k \in todo[t] /\ todo[t] \subseteq Key
      /\ UNCHANGED <<count, calls, order, ent, got, reads>>
  BY ThreadTypes DEF BackOff, Goto, txnVars
<1>2. \A n \in todo[t] : k <= n
  BY <1>1, SmallestMember DEF CacheAssumption
<1>3. Phase(t) = pc[t] /\ LockSet(t) = WriteSet(t) \ todo[t]
  BY DEF Phase, LockSet
<1>4. /\ todo[t] \subseteq WriteSet(t) /\ WriteSet(t) \subseteq Key
      /\ \A w \in WriteSet(t) \ todo[t], n \in todo[t] : w < n
  BY <1>1, <1>3 DEF Bookkeeping, WriteSet
<1>5. S = WriteSet(t) \ todo[t]
  <2>1. \A w \in Key : w \in Nat
    BY DEF CacheAssumption
  <2>2. \A w \in WriteSet(t) : w < k => w \notin todo[t]
    BY <1>1, <1>2, <1>4, <2>1
  <2>3. QED
    BY <1>1, <1>4, <2>2
<1> HIDE DEF k, S
<1>6. TypeOK'
  <2>1. todo' \in [Thread -> SUBSET Key] /\ pc' \in [Thread -> Label]
    BY <1>1, <1>4, <1>5 DEF Inv, TypeOK, Label
  <2>2. QED
    BY <1>1, <2>1 DEF Inv, TypeOK, CacheTypeOK
<1>7. \A u \in Thread : u # t => Same(u)
  BY <1>1 DEF Same, Inv, TypeOK
<1>8. pc'[t] = "backoff" /\ todo'[t] = S /\ WriteSet(t)' = WriteSet(t)
      /\ ReadSet(t)' = ReadSet(t)
  BY <1>1 DEF Inv, TypeOK, WriteSet, ReadSet
<1>9. Phase(t)' = "backoff" /\ LockSet(t)' = LockSet(t)
  BY <1>3, <1>5, <1>8 DEF Phase, LockSet
<1>10. Bookkeeping(t)'
  <2>1. \A j \in S : ent[t][j].held
    BY <1>1, <1>3, <1>5 DEF Bookkeeping
  <2>2. \A j \in LockSet(t)' : ent'[t][j].held
    BY <1>1, <1>3, <1>5, <1>9, <2>1
  <2>3. QED
    BY <1>1, <1>4, <1>5, <1>8, <1>9, <2>2 DEF Bookkeeping
<1>11. QED
  BY <1>1, <1>6, <1>7, <1>9, <1>10, QuietStep

\* The load of rw_entry_try_lock preserves the invariant.
LEMMA LockLoadStep ==
  ASSUME CacheAssumption, Inv, NEW t \in Thread, LockLoad(t)
  PROVE  Inv'
<1> DEFINE k == Smallest(todo[t])
<1>1. /\ pc[t] = "lock" /\ todo[t] # {} /\ ent[t][k].held
      /\ Bookkeeping(t) /\ k \in todo[t] /\ k \in Key
      /\ v1' = [v1 EXCEPT ![t] = cell[k]]
      /\ UNCHANGED <<cell, cached, refs, sketch, db, back, count, calls, order,
                     ent, got, reads, cts, hist>>
  BY ThreadTypes DEF LockLoad, cacheVars, txnVars
<1>2. v1' \in [Thread -> TimestampSet] /\ cell[k] \in TimestampSet
  BY <1>1 DEF Inv, TypeOK, CacheTypeOK
<1>3. \A u \in Thread : u # t => v1'[u] = v1[u]
  BY <1>1 DEF Inv, TypeOK
<1>4. CASE cell[k].lock
  <2>1. BackOff(t, k)
    BY <1>4 DEF LockLoad
  <2>2. QED
    BY <1>1, <1>2, <1>3, <2>1, BackOffStep DEF txnVars
<1>5. CASE ~cell[k].lock
  <2>1. pc' = [pc EXCEPT ![t] = "lock_cas"] /\ todo' = todo
    BY <1>5 DEF LockLoad, Goto
  <2> HIDE DEF k
  <2>2. TypeOK'
    BY <1>1, <1>2, <2>1 DEF Inv, TypeOK, CacheTypeOK, Label
  <2>3. \A u \in Thread : u # t => Same(u)
    BY <1>1, <1>3, <2>1 DEF Inv, TypeOK, Same
  <2>4. pc'[t] = "lock_cas" /\ v1'[t] = cell[k]
    BY <1>1, <2>1 DEF Inv, TypeOK
  <2>5. WriteSet(t)' = WriteSet(t) /\ ReadSet(t)' = ReadSet(t)
    BY <1>1 DEF WriteSet, ReadSet
  <2>6. Phase(t) = "lock" /\ Phase(t)' = "lock_cas" /\ LockSet(t)' = LockSet(t)
    BY <1>1, <2>1, <2>4, <2>5 DEF Phase, LockSet
  <2>7. Bookkeeping(t)'
    <3>1. ent'[t][Smallest(todo'[t])].held /\ todo'[t] # {}
      BY <1>1, <2>1 DEF k
    <3>2. /\ todo'[t] \subseteq WriteSet(t)'
          /\ \A w \in WriteSet(t)' \ todo'[t], j \in todo'[t] : w < j
      BY <1>1, <2>1, <2>5, <2>6 DEF Bookkeeping
    <3>3. \A j \in LockSet(t)' : ent'[t][j].held
      BY <1>1, <2>6 DEF Bookkeeping
    <3>4. QED
      BY <1>1, <1>5, <2>4, <2>5, <2>6, <3>1, <3>2, <3>3 DEF Bookkeeping
  <2>8. QED
    BY <1>1, <2>2, <2>3, <2>6, <2>7, QuietStep
<1>6. QED
  BY <1>4, <1>5

\* rw_entry_try_lock's compare-and-swap preserves the invariant: it takes a lock
\* nobody had, or gives up those below.
LEMMA LockCasStep ==
  ASSUME CacheAssumption, Inv, NEW t \in Thread, LockCas(t)
  PROVE  Inv'
<1> DEFINE k == Smallest(todo[t])
<1>1. /\ pc[t] = "lock_cas" /\ Phase(t) = "lock_cas" /\ Bookkeeping(t)
      /\ UNCHANGED <<cached, refs, sketch, db, back, count, calls, order,
                     ent, got, reads, cts, v1, hist>>
  BY ThreadTypes DEF LockCas, txnVars, Phase
<1>2. todo[t] # {} /\ ent[t][k].held /\ ~v1[t].lock /\ k \in todo[t] /\ k \in Key
  BY <1>1, ThreadTypes DEF Bookkeeping
<1>3. CASE cell[k] # v1[t]
  <2>1. BackOff(t, k) /\ cell' = cell
    BY <1>3 DEF LockCas
  <2>2. v1' \in [Thread -> TimestampSet] /\ \A u \in Thread : u # t => v1'[u] = v1[u]
    BY <1>1 DEF Inv, TypeOK
  <2>3. QED
    BY <1>1, <1>2, <2>1, <2>2, BackOffStep DEF txnVars
<1>4. CASE cell[k] = v1[t]
  <2>1. /\ cell' = [cell EXCEPT ![k] = Locked(v1[t])]
        /\ todo' = [todo EXCEPT ![t] = @ \ {k}]
        /\ pc' = [pc EXCEPT ![t] = "lock"]
    BY <1>4 DEF LockCas, Goto
  <2> HIDE DEF k
  <2>2. Locked(v1[t]) \in TimestampSet /\ Locked(v1[t]).lock
    BY LockType DEF Inv, TypeOK
  <2>3. /\ cell' \in [Key -> TimestampSet] /\ cell'[k].lock
        /\ \A j \in Key : j # k => cell'[j] = cell[j]
    BY <1>2, <2>1, <2>2 DEF Inv, TypeOK, CacheTypeOK
  <2>4. TypeOK'
    BY <1>1, <2>1, <2>3 DEF Inv, TypeOK, CacheTypeOK, Label
  <2>5. \A u \in Thread : u # t => Same(u)
    BY <1>1, <2>1 DEF Inv, TypeOK, Same
  <2>6. pc'[t] = "lock" /\ todo'[t] = todo[t] \ {k}
    BY <2>1 DEF Inv, TypeOK
  <2>7. WriteSet(t)' = WriteSet(t) /\ ReadSet(t)' = ReadSet(t)
    BY <1>1 DEF WriteSet, ReadSet
  <2>8. /\ Phase(t)' = "lock" /\ LockSet(t) = WriteSet(t) \ todo[t]
        /\ LockSet(t)' = WriteSet(t)' \ todo'[t]
    BY <1>1, <2>6 DEF Phase, LockSet
  <2>9. /\ todo[t] \subseteq WriteSet(t)
        /\ \A w \in WriteSet(t) \ todo[t], j \in todo[t] : w < j
    BY <1>1 DEF Bookkeeping
  <2>10. LockSet(t)' = LockSet(t) \cup {k}
    BY <1>2, <2>6, <2>7, <2>8, <2>9
  <2>11. LockOwnership'
    BY <1>2, <1>4, <2>3, <2>5, <2>10, LockTaken
  <2>12. Bookkeeping(t)'
    <3>1. \A n \in todo[t] : k <= n
      BY <1>2, SmallestMember DEF CacheAssumption, Inv, TypeOK, k
    <3>2. \A w \in WriteSet(t)' \ todo'[t], j \in todo'[t] : w < j
      <4>1. \A n \in WriteSet(t) : n \in Nat
        BY DEF CacheAssumption, WriteSet
      <4>2. QED
        BY <1>2, <2>6, <2>7, <2>9, <3>1, <4>1
    <3>3. \A j \in LockSet(t)' : ent'[t][j].held
      BY <1>1, <1>2, <2>10 DEF Bookkeeping
    <3>4. QED
      BY <1>1, <2>6, <2>7, <2>8, <2>9, <3>2, <3>3 DEF Bookkeeping
  <2>13. LoopsOverPinnedEntries'
    BY <2>5, <2>12, OthersBooks
  <2>14. RefsCountHolders'
    BY <1>1, SameRefs
  <2>15. QED
    BY <2>4, <2>11, <2>13, <2>14 DEF Inv
<1>5. QED
  BY <1>3, <1>4

\* A thread that unlocks, or publishes, one key of its todo list.
LEMMA UnlockEffect ==
  ASSUME CacheAssumption, Inv, NEW t \in Thread, todo[t] # {},
         NEW label \in {"backoff", "unlock", "install"},
         pc[t] = label \/ (pc[t] = "publish" /\ label = "install"),
         pc' = [pc EXCEPT ![t] = label],
         NEW ts \in TimestampSet, ~ts.lock,
         cell' = [cell EXCEPT ![Smallest(todo[t])] = ts],
         todo' = [todo EXCEPT ![t] = @ \ {Smallest(todo[t])}],
         pc[t] \in {"backoff", "unlock", "publish"},
         UNCHANGED <<cached, refs, sketch, db, back, txnVars, cts, v1, hist>>
  PROVE  Inv'
<1> DEFINE k == Smallest(todo[t])
<1>1. /\ k \in todo[t] /\ k \in Key /\ Bookkeeping(t)
      /\ cell' = [cell EXCEPT ![k] = ts]
      /\ todo' = [todo EXCEPT ![t] = @ \ {k}]
      /\ UNCHANGED <<count, calls, order, ent, got, reads>>
  BY ThreadTypes DEF txnVars
<1> HIDE DEF k
<1>2. /\ cell' \in [Key -> TimestampSet] /\ ~cell'[k].lock
      /\ \A j \in Key : j # k => cell'[j] = cell[j]
  BY <1>1 DEF Inv, TypeOK, CacheTypeOK
<1>3. pc' \in [Thread -> Label] /\ todo' \in [Thread -> SUBSET Key]
      /\ pc'[t] = label /\ todo'[t] = todo[t] \ {k}
  BY <1>1 DEF Inv, TypeOK, Label
<1>4. TypeOK'
  BY <1>1, <1>2, <1>3 DEF Inv, TypeOK, CacheTypeOK
<1>5. \A u \in Thread : u # t => Same(u)
  BY <1>1 DEF Inv, TypeOK, Same
<1>6. WriteSet(t)' = WriteSet(t) /\ ReadSet(t)' = ReadSet(t)
  BY <1>1 DEF WriteSet, ReadSet
<1>7. /\ Phase(t) = pc[t] /\ Phase(t)' = label
      /\ LockSet(t) = todo[t] /\ LockSet(t)' = todo[t] \ {k}
  BY <1>3 DEF Phase, LockSet
<1>8. LockOwnership'
  BY <1>1, <1>2, <1>5, <1>7, LockDropped
<1>9. Bookkeeping(t)'
  BY <1>1, <1>3, <1>6, <1>7 DEF Bookkeeping
<1>10. LoopsOverPinnedEntries'
  BY <1>5, <1>9, OthersBooks
<1>11. RefsCountHolders'
  BY <1>1, SameRefs
<1>12. QED
  BY <1>4, <1>8, <1>10, <1>11 DEF Inv

\* rw_entry_unlock, after a lock or a validation failed, preserves the invariant.
LEMMA UnlockStep ==
  ASSUME CacheAssumption, Inv, NEW t \in Thread, BackOffUnlock(t) \/ AbortUnlock(t)
  PROVE  Inv'
<1> DEFINE k == Smallest(todo[t])
<1>1. /\ pc[t] \in {"backoff", "unlock"} /\ todo[t] # {}
      /\ cell' = [cell EXCEPT ![k] = Unlocked(cell[k])]
      /\ todo' = [todo EXCEPT ![t] = @ \ {k}]
      /\ UNCHANGED <<cached, refs, sketch, db, pc, back, txnVars, cts, v1, hist>>
  BY DEF BackOffUnlock, AbortUnlock, Unlock
<1>2. k \in Key
  BY <1>1, ThreadTypes
<1>3. Unlocked(cell[k]) \in TimestampSet /\ ~Unlocked(cell[k]).lock
  BY <1>2, LockType DEF Inv, TypeOK, CacheTypeOK
<1>4. pc' = [pc EXCEPT ![t] = pc[t]]
  BY <1>1 DEF Inv, TypeOK
<1>5. QED
  BY <1>1, <1>3, <1>4, UnlockEffect

\* The publication of the new timestamps, which unlocks, preserves the invariant.
LEMMA PublishStep ==
  ASSUME CacheAssumption, Inv, NEW t \in Thread, Publish(t)
  PROVE  Inv'
<1> DEFINE ts == [lock |-> FALSE, wts |-> cts[t], delta |-> 0]
<1>1. /\ pc[t] = "publish" /\ pc' = [pc EXCEPT ![t] = "install"]
      /\ cell' = [cell EXCEPT ![Smallest(todo[t])] = ts]
      /\ todo' = [todo EXCEPT ![t] = @ \ {Smallest(todo[t])}]
      /\ UNCHANGED <<cached, refs, sketch, db, back, txnVars, cts, v1, hist>>
  BY DEF Publish, Goto
<1>2. todo[t] # {} /\ ts \in TimestampSet /\ ~ts.lock
  BY <1>1, ThreadTypes DEF Bookkeeping, TimestampSet
<1> HIDE DEF ts
<1>3. QED
  BY <1>1, <1>2, UnlockEffect

\* A step that moves only one thread's program counter and todo list.
LEMMA ControlStep ==
  ASSUME Inv, NEW t \in Thread, NEW label \in Label, NEW S \in SUBSET Key,
         pc' = [pc EXCEPT ![t] = label], todo' = [todo EXCEPT ![t] = S],
         cts' \in [Thread -> Nat], \A u \in Thread : u # t => cts'[u] = cts[u],
         v1' \in [Thread -> TimestampSet], \A u \in Thread : u # t => v1'[u] = v1[u],
         hist' \in SUBSET Commit, db' \in [Key -> Seq(Txn)],
         UNCHANGED <<cell, cached, refs, sketch, back, txnVars>>,
         LockSet(t)' = LockSet(t), Bookkeeping(t)'
  PROVE  Inv'
<1>1. UNCHANGED <<count, calls, order, ent, got, reads>>
  BY DEF txnVars
<1>2. pc' \in [Thread -> Label] /\ todo' \in [Thread -> SUBSET Key]
  BY DEF Inv, TypeOK
<1>3. TypeOK'
  BY <1>1, <1>2 DEF Inv, TypeOK, CacheTypeOK
<1>4. \A u \in Thread : u # t => Same(u)
  BY <1>1 DEF Inv, TypeOK, Same
<1>5. QED
  BY <1>1, <1>3, <1>4, QuietStep

\* What such a step leaves of the thread's own entries.
LEMMA ControlFacts ==
  ASSUME Inv, NEW t \in Thread, NEW label, NEW S,
         pc' = [pc EXCEPT ![t] = label], todo' = [todo EXCEPT ![t] = S],
         UNCHANGED <<back, txnVars>>
  PROVE  /\ pc'[t] = label /\ todo'[t] = S
         /\ UNCHANGED <<ent, order, calls, back>>
         /\ WriteSet(t)' = WriteSet(t) /\ ReadSet(t)' = ReadSet(t)
         /\ WriteSet(t) \in SUBSET Key /\ ReadSet(t) \in SUBSET Key
         /\ Bookkeeping(t)
<1>1. Bookkeeping(t)
  BY ThreadTypes
<1>2. QED
  BY <1>1 DEF Inv, TypeOK, WriteSet, ReadSet, txnVars

\* The retry of the write set preserves the invariant.
LEMMA LockRetryStep ==
  ASSUME Inv, NEW t \in Thread, LockRetry(t)
  PROVE  Inv'
<1>1. /\ pc[t] = "backoff" /\ todo[t] = {}
      /\ pc' = [pc EXCEPT ![t] = "lock"] /\ todo' = [todo EXCEPT ![t] = WriteSet(t)]
      /\ UNCHANGED <<cell, cached, refs, sketch, db, back, txnVars, cts, v1, hist>>
  BY DEF LockRetry, Goto, cacheVars
<1>2. /\ pc'[t] = "lock" /\ todo'[t] = WriteSet(t)
      /\ UNCHANGED <<ent, order, calls, back>>
      /\ WriteSet(t)' = WriteSet(t) /\ ReadSet(t)' = ReadSet(t)
      /\ WriteSet(t) \in SUBSET Key /\ Bookkeeping(t)
  BY <1>1, ControlFacts
<1>3. Phase(t)' = "lock" /\ LockSet(t)' = {} /\ LockSet(t) = {}
  BY <1>1, <1>2 DEF Phase, LockSet
<1>4. Bookkeeping(t)'
  BY <1>1, <1>2, <1>3 DEF Bookkeeping
<1>5. "lock" \in Label /\ cts' \in [Thread -> Nat] /\ v1' \in [Thread -> TimestampSet]
      /\ hist' \in SUBSET Commit /\ db' \in [Key -> Seq(Txn)]
  BY <1>1 DEF Inv, TypeOK, Label
<1>6. QED
  BY <1>1, <1>2, <1>3, <1>4, <1>5, ControlStep

\* The end of the locking loop preserves the invariant.
LEMMA LockDoneStep ==
  ASSUME Inv, NEW t \in Thread, LockDone(t)
  PROVE  Inv'
<1>1. /\ pc[t] = "lock" /\ todo[t] = {}
      /\ pc' = [pc EXCEPT ![t] = "stamp"] /\ todo' = [todo EXCEPT ![t] = WriteSet(t)]
      /\ UNCHANGED <<cell, cached, refs, sketch, db, back, txnVars, cts, v1, hist>>
  BY DEF LockDone, Goto, cacheVars
<1>2. /\ pc'[t] = "stamp" /\ todo'[t] = WriteSet(t)
      /\ UNCHANGED <<ent, order, calls, back>>
      /\ WriteSet(t)' = WriteSet(t) /\ ReadSet(t)' = ReadSet(t)
      /\ WriteSet(t) \in SUBSET Key /\ Bookkeeping(t)
  BY <1>1, ControlFacts
<1>3. Phase(t)' = "stamp" /\ LockSet(t)' = WriteSet(t) /\ LockSet(t) = WriteSet(t)
  BY <1>1, <1>2 DEF Phase, LockSet
<1>4. Bookkeeping(t)'
  BY <1>1, <1>2, <1>3 DEF Bookkeeping
<1>5. "stamp" \in Label /\ cts' \in [Thread -> Nat] /\ v1' \in [Thread -> TimestampSet]
      /\ hist' \in SUBSET Commit /\ db' \in [Key -> Seq(Txn)]
  BY <1>1 DEF Inv, TypeOK, Label
<1>6. QED
  BY <1>1, <1>2, <1>3, <1>4, <1>5, ControlStep

\* A step of the commit_ts loop preserves the invariant.
LEMMA StampStep ==
  ASSUME CacheAssumption, Inv, NEW t \in Thread, Stamp(t)
  PROVE  Inv'
<1> DEFINE k == Smallest(todo[t])
           S == todo[t] \ {k}
           c == Larger(cts[t], Rts(cell[k]) + 1)
<1>1. /\ pc[t] = "stamp" /\ todo[t] # {}
      /\ todo' = [todo EXCEPT ![t] = S] /\ cts' = [cts EXCEPT ![t] = c]
      /\ UNCHANGED <<cell, cached, refs, sketch, pc, db, back, txnVars, v1, hist>>
  BY DEF Stamp, cacheVars
<1>2. k \in Key /\ cts[t] \in Nat /\ S \in SUBSET Key
  BY <1>1, ThreadTypes
<1>3. Rts(cell[k]) \in Nat
  BY <1>2, RtsType DEF Inv, TypeOK, CacheTypeOK
<1>4. c \in Nat
  BY <1>2, <1>3 DEF Larger
<1>5. S \subseteq todo[t]
  OBVIOUS
<1> HIDE DEF k, S, c
<1>6. pc' = [pc EXCEPT ![t] = "stamp"]
  BY <1>1 DEF Inv, TypeOK
<1>7. /\ pc'[t] = "stamp" /\ todo'[t] = S
      /\ UNCHANGED <<ent, order, calls, back>>
      /\ WriteSet(t)' = WriteSet(t) /\ ReadSet(t)' = ReadSet(t)
      /\ Bookkeeping(t)
  BY <1>1, <1>6, ControlFacts
<1>8. Phase(t) = "stamp" /\ Phase(t)' = "stamp" /\ LockSet(t)' = LockSet(t)
  BY <1>1, <1>7 DEF Phase, LockSet
<1>9. Bookkeeping(t)'
  BY <1>1, <1>5, <1>7, <1>8 DEF Bookkeeping
<1>10. "stamp" \in Label /\ cts' \in [Thread -> Nat]
       /\ (\A u \in Thread : u # t => cts'[u] = cts[u])
       /\ v1' \in [Thread -> TimestampSet]
       /\ hist' \in SUBSET Commit /\ db' \in [Key -> Seq(Txn)]
  BY <1>1, <1>4 DEF Inv, TypeOK, Label
<1>11. QED
  BY <1>1, <1>2, <1>6, <1>8, <1>9, <1>10, ControlStep

\* The choice of the reads to validate preserves the invariant.
LEMMA StampDoneStep ==
  ASSUME Inv, NEW t \in Thread, StampDone(t)
  PROVE  Inv'
<1> DEFINE S == {k \in ReadSet(t) : ent[t][k].rts < cts[t]}
<1>1. /\ pc[t] = "stamp" /\ todo[t] = {}
      /\ pc' = [pc EXCEPT ![t] = "validate"] /\ todo' = [todo EXCEPT ![t] = S]
      /\ UNCHANGED <<cell, cached, refs, sketch, db, back, txnVars, cts, v1, hist>>
  BY DEF StampDone, Goto, cacheVars
<1>2. S \subseteq ReadSet(t)
  OBVIOUS
<1> HIDE DEF S
<1>3. /\ pc'[t] = "validate" /\ todo'[t] = S
      /\ UNCHANGED <<ent, order, calls, back>>
      /\ WriteSet(t)' = WriteSet(t) /\ ReadSet(t)' = ReadSet(t)
      /\ ReadSet(t) \in SUBSET Key /\ Bookkeeping(t)
  BY <1>1, ControlFacts
<1>4. Phase(t)' = "validate" /\ LockSet(t)' = WriteSet(t) /\ LockSet(t) = WriteSet(t)
  BY <1>1, <1>3 DEF Phase, LockSet
<1>5. Bookkeeping(t)'
  BY <1>1, <1>2, <1>3, <1>4 DEF Bookkeeping
<1>6. "validate" \in Label /\ cts' \in [Thread -> Nat] /\ v1' \in [Thread -> TimestampSet]
      /\ hist' \in SUBSET Commit /\ db' \in [Key -> Seq(Txn)] /\ S \in SUBSET Key
  BY <1>1, <1>2, <1>3 DEF Inv, TypeOK, Label
<1>7. QED
  BY <1>1, <1>3, <1>4, <1>5, <1>6, ControlStep

\* Validation fails.
LEMMA GiveUpStep ==
  ASSUME Inv, NEW t \in Thread, pc[t] = "validate" \/ pc[t] = "validate_bit",
         GiveUp(t), v1' \in [Thread -> TimestampSet],
         \A u \in Thread : u # t => v1'[u] = v1[u],
         UNCHANGED <<cell, cached, refs, sketch, db, back, txnVars, cts, hist>>
  PROVE  Inv'
<1>1. pc' = [pc EXCEPT ![t] = "unlock"] /\ todo' = [todo EXCEPT ![t] = WriteSet(t)]
  BY DEF GiveUp, Goto
<1>2. /\ pc'[t] = "unlock" /\ todo'[t] = WriteSet(t)
      /\ UNCHANGED <<ent, order, calls, back>>
      /\ WriteSet(t)' = WriteSet(t) /\ ReadSet(t)' = ReadSet(t)
      /\ WriteSet(t) \in SUBSET Key /\ Bookkeeping(t)
  BY <1>1, ControlFacts
<1>3. Phase(t)' = "unlock" /\ LockSet(t)' = WriteSet(t) /\ LockSet(t) = WriteSet(t)
  BY <1>2 DEF Phase, LockSet
<1>4. Bookkeeping(t)'
  BY <1>2, <1>3 DEF Bookkeeping
<1>5. "unlock" \in Label /\ cts' \in [Thread -> Nat]
      /\ hist' \in SUBSET Commit /\ db' \in [Key -> Seq(Txn)]
  BY DEF Inv, TypeOK, Label
<1>6. QED
  BY <1>1, <1>2, <1>3, <1>4, <1>5, ControlStep

\* The load of the validation loop preserves the invariant.
LEMMA ValidateLoadStep ==
  ASSUME Inv, NEW t \in Thread, ValidateLoad(t)
  PROVE  Inv'
<1> DEFINE k == First(t, todo[t])
<1>1. /\ pc[t] = "validate" /\ todo[t] # {} /\ Bookkeeping(t)
      /\ v1' = [v1 EXCEPT ![t] = cell[k]] /\ todo[t] \in SUBSET Key
      /\ UNCHANGED <<cell, cached, refs, sketch, db, back, txnVars, cts, hist>>
  BY ThreadTypes DEF ValidateLoad, cacheVars
<1>2. todo[t] \subseteq ReadSet(t)
  BY <1>1 DEF Bookkeeping
<1>3. k \in todo[t]
  BY <1>1, <1>2, FirstMember DEF ReadSet
<1>4. k \in Key /\ cell[k] \in TimestampSet
  BY <1>1, <1>3 DEF Inv, TypeOK, CacheTypeOK
<1>5. \/ Rts(cell[k]) <= cts[t] /\ Goto(t, "validate_bit") /\ UNCHANGED todo
      \/ GiveUp(t)
      \/ todo' = [todo EXCEPT ![t] = @ \ {k}] /\ UNCHANGED pc
  <2>1. Rts(cell[k]) \in Nat /\ cts[t] \in Nat
    BY <1>4, RtsType, ThreadTypes
  <2> HIDE DEF k
  <2>2. CASE Rts(cell[k]) <= cts[t]
    BY <2>1, <2>2 DEF ValidateLoad, k
  <2>3. CASE Rts(cell[k]) > cts[t] /\ ent[t][k].wts # cell[k].wts
    BY <2>1, <2>3 DEF ValidateLoad, k
  <2>4. CASE Rts(cell[k]) > cts[t] /\ ent[t][k].wts = cell[k].wts
    BY <2>1, <2>4 DEF ValidateLoad, k
  <2>5. QED
    BY <2>1, <2>2, <2>3, <2>4
<1> HIDE DEF k
<1>6. /\ v1' \in [Thread -> TimestampSet] /\ v1'[t] = cell[k]
      /\ \A u \in Thread : u # t => v1'[u] = v1[u]
  BY <1>1, <1>4 DEF Inv, TypeOK
<1>7. /\ {"validate", "validate_bit"} \subseteq Label /\ cts' \in [Thread -> Nat]
      /\ hist' \in SUBSET Commit /\ db' \in [Key -> Seq(Txn)]
  BY <1>1 DEF Inv, TypeOK, Label
<1>8. LockSet(t) = WriteSet(t)
  BY <1>1 DEF Phase, LockSet
<1>9. ASSUME NEW label \in {"validate", "validate_bit"}, NEW S \in SUBSET todo[t],
             label = "validate_bit" => S = todo[t] /\ Rts(cell[k]) <= cts[t],
             pc' = [pc EXCEPT ![t] = label], todo' = [todo EXCEPT ![t] = S]
      PROVE  Inv'
  <2>1. /\ pc'[t] = label /\ todo'[t] = S
        /\ UNCHANGED <<ent, order, calls, back>>
        /\ WriteSet(t)' = WriteSet(t) /\ ReadSet(t)' = ReadSet(t)
    BY <1>1, <1>9, ControlFacts
  <2>2. Phase(t)' = label /\ LockSet(t)' = WriteSet(t)
    BY <1>1, <2>1 DEF Phase, LockSet
  <2>3. cts'[t] = cts[t]
    BY <1>1
  <2>4. Bookkeeping(t)'
    BY <1>1, <1>2, <1>6, <1>8, <1>9, <2>1, <2>2, <2>3 DEF Bookkeeping
  <2>5. label \in Label /\ S \in SUBSET Key
    BY <1>1, <1>7
  <2>6. QED
    BY <1>1, <1>6, <1>7, <1>8, <1>9, <2>2, <2>4, <2>5, ControlStep
<1>10. CASE Rts(cell[k]) <= cts[t] /\ Goto(t, "validate_bit") /\ UNCHANGED todo
  <2>1. todo' = [todo EXCEPT ![t] = todo[t]]
    BY <1>10 DEF Inv, TypeOK
  <2>2. QED
    BY <1>9, <1>10, <2>1 DEF Goto
<1>11. CASE todo' = [todo EXCEPT ![t] = @ \ {k}] /\ UNCHANGED pc
  <2>1. pc' = [pc EXCEPT ![t] = "validate"]
    BY <1>1, <1>11 DEF Inv, TypeOK
  <2>2. QED
    BY <1>9, <1>11, <2>1
<1>12. CASE GiveUp(t)
  BY <1>1, <1>6, <1>12, GiveUpStep
<1>13. QED
  BY <1>5, <1>10, <1>11, <1>12

\* The test of validation preserves the invariant.
LEMMA ValidateBitStep ==
  ASSUME Inv, NEW t \in Thread, ValidateBit(t)
  PROVE  Inv'
<1>1. /\ pc[t] = "validate_bit"
      /\ UNCHANGED <<cell, cached, refs, sketch, db, back, txnVars, cts, v1, hist>>
      /\ \/ GiveUp(t)
         \/ pc' = [pc EXCEPT ![t] = "validate_cas"] /\ UNCHANGED todo
  BY DEF ValidateBit, cacheVars, Goto
<1>2. /\ v1' \in [Thread -> TimestampSet] /\ cts' \in [Thread -> Nat]
      /\ hist' \in SUBSET Commit /\ db' \in [Key -> Seq(Txn)]
      /\ "validate_cas" \in Label /\ todo[t] \in SUBSET Key
      /\ \A u \in Thread : u # t => v1'[u] = v1[u]
  BY <1>1 DEF Inv, TypeOK, Label
<1>3. CASE pc' = [pc EXCEPT ![t] = "validate_cas"] /\ UNCHANGED todo
  <2>1. todo' = [todo EXCEPT ![t] = todo[t]]
    BY <1>3 DEF Inv, TypeOK
  <2>2. /\ pc'[t] = "validate_cas" /\ todo'[t] = todo[t]
        /\ UNCHANGED <<ent, order, calls, back>>
        /\ WriteSet(t)' = WriteSet(t) /\ ReadSet(t)' = ReadSet(t)
        /\ Bookkeeping(t)
    BY <1>1, <1>3, <2>1, ControlFacts
  <2>3. Phase(t)' = "validate_cas" /\ LockSet(t)' = WriteSet(t) /\ LockSet(t) = WriteSet(t)
    BY <1>1, <2>2 DEF Phase, LockSet
  <2>4. cts'[t] = cts[t] /\ v1'[t] = v1[t]
    BY <1>1
  <2>5. Bookkeeping(t)'
    BY <1>1, <2>2, <2>3, <2>4 DEF Bookkeeping
  <2>6. QED
    BY <1>1, <1>2, <1>3, <2>1, <2>3, <2>5, ControlStep
<1>4. CASE GiveUp(t)
  BY <1>1, <1>2, <1>4, GiveUpStep
<1>5. QED
  BY <1>1, <1>3, <1>4

\* The extension of a read timestamp preserves the invariant: it keeps the lock
\* bit, and commit_ts is no earlier than the read timestamp it replaces.
LEMMA ValidateCasStep ==
  ASSUME Inv, NEW t \in Thread, ValidateCas(t)
  PROVE  Inv'
<1> DEFINE k == First(t, todo[t])
<1>1. /\ pc[t] = "validate_cas" /\ pc' = [pc EXCEPT ![t] = "validate"]
      /\ Bookkeeping(t) /\ todo[t] \in SUBSET Key
      /\ v1[t] \in TimestampSet /\ cts[t] \in Nat
      /\ UNCHANGED <<cached, refs, sketch, db, back, txnVars, cts, v1, hist>>
      /\ \/ /\ cell[k] = v1[t]
            /\ cell' = [cell EXCEPT ![k] = Extended(v1[t], cts[t])]
            /\ todo' = [todo EXCEPT ![t] = @ \ {k}]
         \/ UNCHANGED <<cell, todo>>
  BY ThreadTypes DEF ValidateCas, Goto
<1>2. todo[t] # {} /\ todo[t] \subseteq ReadSet(t) /\ Rts(v1[t]) <= cts[t]
  BY <1>1 DEF Bookkeeping
<1>3. k \in todo[t]
  BY <1>1, <1>2, FirstMember DEF ReadSet
<1>4. /\ Extended(v1[t], cts[t]) \in TimestampSet
      /\ Extended(v1[t], cts[t]).lock = v1[t].lock
  BY <1>1, <1>2, ExtendedType
<1> HIDE DEF k
<1>5. /\ cell' \in [Key -> TimestampSet]
      /\ \A j \in Key : cell'[j].lock = cell[j].lock
  <2> DEFINE ext == Extended(v1[t], cts[t])
  <2>1. /\ cell \in [Key -> TimestampSet] /\ k \in Key
    BY <1>1, <1>3 DEF Inv, TypeOK, CacheTypeOK
  <2>2. ext \in TimestampSet /\ ext.lock = v1[t].lock
    BY <1>4
  <2>3. \/ cell[k] = v1[t] /\ cell' = [cell EXCEPT ![k] = ext]
        \/ cell' = cell
    BY <1>1
  <2> HIDE DEF ext
  <2>4. QED
    BY <2>1, <2>2, <2>3
<1>6. /\ todo' \in [Thread -> SUBSET Key] /\ todo'[t] \subseteq todo[t]
      /\ \A u \in Thread : u # t => todo'[u] = todo[u]
  <2>1. todo \in [Thread -> SUBSET Key]
    BY DEF Inv, TypeOK
  <2>2. todo' = [todo EXCEPT ![t] = @ \ {k}] \/ todo' = todo
    BY <1>1
  <2>3. QED
    BY <2>1, <2>2
<1>7. /\ pc' \in [Thread -> Label] /\ pc'[t] = "validate"
      /\ \A u \in Thread : u # t => pc'[u] = pc[u]
  BY <1>1 DEF Inv, TypeOK, Label
<1>8. UNCHANGED <<count, calls, order, ent, got, reads>>
  BY <1>1 DEF txnVars
<1>9. TypeOK'
  BY <1>1, <1>5, <1>6, <1>7, <1>8 DEF Inv, TypeOK, CacheTypeOK
<1>10. \A u \in Thread : u # t => Same(u)
  BY <1>1, <1>6, <1>7, <1>8 DEF Same
<1>11. WriteSet(t)' = WriteSet(t) /\ ReadSet(t)' = ReadSet(t)
  BY <1>8 DEF WriteSet, ReadSet
<1>12. Phase(t)' = "validate" /\ LockSet(t)' = WriteSet(t) /\ LockSet(t) = WriteSet(t)
  BY <1>1, <1>7, <1>11 DEF Phase, LockSet
<1>13. Bookkeeping(t)'
  BY <1>1, <1>2, <1>6, <1>7, <1>8, <1>11, <1>12 DEF Bookkeeping
<1>14. QED
  BY <1>1, <1>5, <1>8, <1>9, <1>10, <1>12, <1>13, QuietStep

\* The end of validation preserves the invariant.
LEMMA ValidateDoneStep ==
  ASSUME Inv, NEW t \in Thread, ValidateDone(t)
  PROVE  Inv'
<1> DEFINE h == [id |-> Id(t), cts |-> cts[t], reads |-> reads[t]]
<1>1. /\ pc[t] = "validate" /\ todo[t] = {} /\ hist' = hist \cup {h}
      /\ pc' = [pc EXCEPT ![t] = "install"] /\ todo' = [todo EXCEPT ![t] = WriteSet(t)]
      /\ UNCHANGED <<cell, cached, refs, sketch, db, back, txnVars, cts, v1>>
  BY DEF ValidateDone, Goto, cacheVars
<1>2. h \in Commit
  <2>1. Id(t) \in Txn /\ cts[t] \in Nat /\ reads[t] \in SUBSET Read
    BY DEF Inv, TypeOK, Id, Txn
  <2>2. QED
    BY <2>1 DEF Commit
<1> HIDE DEF h
<1>3. /\ pc'[t] = "install" /\ todo'[t] = WriteSet(t)
      /\ UNCHANGED <<ent, order, calls, back>>
      /\ WriteSet(t)' = WriteSet(t) /\ ReadSet(t)' = ReadSet(t)
      /\ WriteSet(t) \in SUBSET Key /\ Bookkeeping(t)
  BY <1>1, ControlFacts
<1>4. Phase(t)' = "install" /\ LockSet(t)' = WriteSet(t) /\ LockSet(t) = WriteSet(t)
  BY <1>1, <1>3 DEF Phase, LockSet
<1>5. Bookkeeping(t)'
  BY <1>1, <1>3, <1>4 DEF Bookkeeping
<1>6. "install" \in Label /\ cts' \in [Thread -> Nat] /\ v1' \in [Thread -> TimestampSet]
      /\ hist' \in SUBSET Commit /\ db' \in [Key -> Seq(Txn)]
  BY <1>1, <1>2 DEF Inv, TypeOK, Label
<1>7. QED
  BY <1>1, <1>3, <1>4, <1>5, <1>6, ControlStep

\* A write to SplinterDB preserves the invariant.
LEMMA InstallStep ==
  ASSUME CacheAssumption, Inv, NEW t \in Thread, Install(t)
  PROVE  Inv'
<1> DEFINE k == Smallest(todo[t])
<1>1. /\ pc[t] = "install" /\ todo[t] # {}
      /\ db' = [db EXCEPT ![k] = Append(@, Id(t))]
      /\ pc' = [pc EXCEPT ![t] = "publish"]
      /\ UNCHANGED <<cell, cached, refs, sketch, back, txnVars, todo, cts, v1, hist>>
  BY DEF Install, Goto, cacheVars, commitVars
<1>2. k \in Key
  BY <1>1, ThreadTypes
<1> HIDE DEF k
<1>3. db' \in [Key -> Seq(Txn)]
  <2>1. Id(t) \in Txn /\ db[k] \in Seq(Txn)
    BY <1>2 DEF Inv, TypeOK, Id, Txn
  <2> DEFINE ids == Append(db[k], Id(t))
  <2>2. ids \in Seq(Txn)
    BY <2>1
  <2>3. db' = [db EXCEPT ![k] = ids]
    BY <1>1
  <2> HIDE DEF ids
  <2>4. QED
    BY <2>2, <2>3 DEF Inv, TypeOK
<1>4. todo' = [todo EXCEPT ![t] = todo[t]]
  BY <1>1 DEF Inv, TypeOK
<1>5. /\ pc'[t] = "publish" /\ todo'[t] = todo[t]
      /\ UNCHANGED <<ent, order, calls, back>>
      /\ WriteSet(t)' = WriteSet(t) /\ ReadSet(t)' = ReadSet(t)
      /\ Bookkeeping(t)
  BY <1>1, <1>4, ControlFacts
<1>6. Phase(t)' = "publish" /\ LockSet(t)' = todo[t] /\ LockSet(t) = todo[t]
  BY <1>1, <1>5 DEF Phase, LockSet
<1>7. Bookkeeping(t)'
  BY <1>1, <1>5, <1>6 DEF Bookkeeping
<1>8. "publish" \in Label /\ cts' \in [Thread -> Nat] /\ v1' \in [Thread -> TimestampSet]
      /\ hist' \in SUBSET Commit /\ todo[t] \in SUBSET Key
  BY <1>1 DEF Inv, TypeOK, Label
<1>9. QED
  BY <1>1, <1>3, <1>4, <1>6, <1>7, <1>8, ControlStep

\* The transaction is over and gives its pins back.
LEMMA ReturnStep ==
  ASSUME Inv, NEW t \in Thread, Abort(t) \/ CommitEnd(t)
  PROVE  Inv'
<1>1. /\ pc[t] = "run" \/ (pc[t] \in {"install", "unlock"} /\ todo[t] = {})
      /\ pc' = [pc EXCEPT ![t] = "unpin"] /\ todo' = [todo EXCEPT ![t] = Pinned(t)]
      /\ UNCHANGED <<cell, cached, refs, sketch, db, back, txnVars, cts, v1, hist>>
  BY DEF Abort, CommitEnd, Goto, cacheVars
<1>2. /\ pc'[t] = "unpin" /\ todo'[t] = Pinned(t)
      /\ UNCHANGED <<ent, order, calls, back>>
      /\ WriteSet(t)' = WriteSet(t) /\ ReadSet(t)' = ReadSet(t)
      /\ Bookkeeping(t)
  BY <1>1, ControlFacts
<1>3. Phase(t)' = "unpin" /\ LockSet(t)' = {} /\ LockSet(t) = {}
  BY <1>1, <1>2 DEF Phase, LockSet
<1>4. Pinned(t) \in SUBSET Key /\ Pinned(t)' = Pinned(t)
  BY <1>2 DEF Pinned
<1>5. Bookkeeping(t)'
  BY <1>2, <1>3, <1>4 DEF Bookkeeping
<1>6. "unpin" \in Label /\ cts' \in [Thread -> Nat] /\ v1' \in [Thread -> TimestampSet]
      /\ hist' \in SUBSET Commit /\ db' \in [Key -> Seq(Txn)]
  BY <1>1 DEF Inv, TypeOK, Label
<1>7. QED
  BY <1>1, <1>3, <1>4, <1>5, <1>6, ControlStep

\* The end of transaction_deinit preserves the invariant: nothing is pinned.
LEMMA FinishStep ==
  ASSUME Inv, NEW t \in Thread, Finish(t)
  PROVE  Inv'
<1>1. /\ pc[t] = "unpin" /\ todo[t] = {} /\ Bookkeeping(t)
      /\ pc' = [pc EXCEPT ![t] = "idle"]
      /\ calls' = [calls EXCEPT ![t] = <<>>] /\ order' = [order EXCEPT ![t] = <<>>]
      /\ ent' = [ent EXCEPT ![t] = [k \in Key |-> NoEntry]]
      /\ got' = [got EXCEPT ![t] = Nothing] /\ reads' = [reads EXCEPT ![t] = {}]
      /\ cts' = [cts EXCEPT ![t] = 0] /\ v1' = [v1 EXCEPT ![t] = ZeroTs]
      /\ UNCHANGED <<cell, cached, refs, sketch, db, back, count, todo, hist>>
  BY ThreadTypes DEF Finish, Goto, cacheVars
<1>2. [k \in Key |-> NoEntry] \in [Key -> Entry] /\ NoEntry.held = FALSE
      /\ NoEntry.rd = FALSE /\ NoEntry.wr = FALSE /\ ZeroTs \in TimestampSet
  BY ZeroType DEF NoEntry, Entry
<1>3. TypeOK'
  <2>1. /\ pc' \in [Thread -> Label] /\ calls' \in [Thread -> Seq(Op)]
        /\ order' \in [Thread -> Seq(Key)]
    BY <1>1 DEF Inv, TypeOK, Label
  <2>2. /\ ent' \in [Thread -> [Key -> Entry]]
        /\ got' \in [Thread -> Nat \cup {Own, Nothing}]
        /\ reads' \in [Thread -> SUBSET Read]
    BY <1>1, <1>2 DEF Inv, TypeOK
  <2>3. cts' \in [Thread -> Nat] /\ v1' \in [Thread -> TimestampSet]
    BY <1>1, <1>2 DEF Inv, TypeOK
  <2>4. QED
    BY <1>1, <2>1, <2>2, <2>3 DEF Inv, TypeOK, CacheTypeOK
<1>4. \A u \in Thread : u # t => Same(u)
  BY <1>1 DEF Inv, TypeOK, Same
<1>5. pc'[t] = "idle" /\ todo'[t] = {} /\ ent'[t] = [k \in Key |-> NoEntry]
  BY <1>1 DEF Inv, TypeOK
<1>6. \A k \in Key : ~ent'[t][k].rd /\ ~ent'[t][k].wr /\ ~ent'[t][k].held
  BY <1>2, <1>5
<1>7. Phase(t)' = "idle" /\ LockSet(t)' = {} /\ LockSet(t) = {}
  BY <1>1, <1>5 DEF Phase, LockSet
<1>8. Bookkeeping(t)'
  BY <1>5, <1>6, <1>7 DEF Bookkeeping, ReadSet
<1>9. LoopsOverPinnedEntries'
  BY <1>4, <1>8, OthersBooks
<1>10. LockOwnership'
  BY <1>1, <1>4, <1>7, SameLocks
<1>11. RefsCountHolders'
  <2>1. \A u \in Thread, k \in Key : ent'[u][k].held => ent[u][k].held
    BY <1>4, <1>6 DEF Same
  <2>2. ASSUME Reclaim # "never"
        PROVE  \A u \in Thread, k \in Key : ent'[u][k].held = ent[u][k].held
    <3>1. \A k \in Key : ~ent[t][k].held
      BY <1>1, <2>2 DEF Bookkeeping, Pinned
    <3>2. \A k \in Key : ent[t][k].held \in BOOLEAN /\ ent'[t][k].held \in BOOLEAN
      BY <1>3 DEF Inv, TypeOK, Entry
    <3>3. QED
      BY <1>4, <1>6, <3>1, <3>2 DEF Same
  <2>3. CASE Reclaim # "never"
    BY <1>1, <2>2, <2>3, SameRefs
  <2>4. CASE Reclaim = "never"
    BY <1>1, <2>1, <2>4 DEF Inv, RefsCountHolders
  <2>5. QED
    BY <2>3, <2>4
<1>12. QED
  BY <1>3, <1>9, <1>10, <1>11 DEF Inv

\* The invariant holds initially.
LEMMA InitInv ==
  ASSUME CacheAssumption, TicTocAssumption, Init
  PROVE  Inv
<1>1. /\ CacheInit(StartRts) /\ db = [k \in Key |-> <<>>]
      /\ pc = [t \in Thread |-> "idle"] /\ back = [t \in Thread |-> "idle"]
      /\ count = [t \in Thread |-> 0] /\ calls = [t \in Thread |-> <<>>]
      /\ order = [t \in Thread |-> <<>>]
      /\ ent = [t \in Thread |-> [k \in Key |-> NoEntry]]
      /\ todo = [t \in Thread |-> {}] /\ cts = [t \in Thread |-> 0]
      /\ v1 = [t \in Thread |-> ZeroTs] /\ got = [t \in Thread |-> Nothing]
      /\ reads = [t \in Thread |-> {}] /\ hist = {}
  BY DEF Init
<1>2. NoEntry \in Entry /\ ~NoEntry.held /\ ~NoEntry.rd /\ ~NoEntry.wr
  BY DEF NoEntry, Entry
<1>3. /\ CacheTypeOK /\ \A k \in Key : ~cell[k].lock
      /\ Reclaim # "never" => refs = [k \in Key |-> 0]
  BY <1>1, CacheInitType DEF TicTocAssumption
<1>4. TypeOK
  BY <1>1, <1>2, <1>3, ZeroType DEF TypeOK, Label
<1>5. \A t \in Thread : Phase(t) = "idle" /\ LockSet(t) = {}
  BY <1>1 DEF Phase, LockSet
<1>6. \A t \in Thread, k \in Key : ~ent[t][k].rd /\ ~ent[t][k].wr /\ ~ent[t][k].held
  BY <1>1, <1>2
<1>7. LoopsOverPinnedEntries
  BY <1>1, <1>5, <1>6 DEF LoopsOverPinnedEntries, Bookkeeping, ReadSet
<1>8. RefsCountHolders
  <2>1. \A k \in Key : {t \in Thread : ent[t][k].held} = {}
    BY <1>6
  <2>2. QED
    BY <1>3, <1>6, <2>1, FS_EmptySet DEF RefsCountHolders
<1>9. LockOwnership
  BY <1>3, <1>5 DEF LockOwnership
<1>10. QED
  BY <1>4, <1>7, <1>8, <1>9 DEF Inv

\* Every step preserves the invariant.
LEMMA NextInv ==
  ASSUME CacheAssumption, TicTocAssumption, Inv, [Next]_vars
  PROVE  Inv'
<1>1. CASE UNCHANGED vars
  <2>1. UNCHANGED <<cell, cached, refs, sketch, db, pc, back, count, calls, order,
                    ent, got, reads, todo, cts, v1, hist>>
    BY <1>1 DEF vars, cacheVars, txnVars, commitVars
  <2>2. TypeOK'
    BY <2>1 DEF Inv, TypeOK, CacheTypeOK
  <2>3. \A t \in Thread : Same(t)
    BY <2>1 DEF Same
  <2>4. LoopsOverPinnedEntries'
    BY <2>3, SameBooks DEF Inv, LoopsOverPinnedEntries
  <2>5. RefsCountHolders'
    BY <2>1 DEF Inv, RefsCountHolders
  <2>6. \A t \in Thread : LockSet(t)' = LockSet(t)
    BY <2>3, SamePhase
  <2>7. LockOwnership'
    BY <2>1, <2>6 DEF Inv, LockOwnership
  <2>8. QED
    BY <2>2, <2>4, <2>5, <2>7 DEF Inv
<1>2. ASSUME NEW t \in Thread, Calls(t)
      PROVE  Inv'
  BY <1>2, LocalWriteStep, LookupPinStep, LookupLoadStep, LookupReadStep,
     LookupConfirmStep, CheckLoadStep, EvictOneStep DEF Calls
<1>3. ASSUME NEW t \in Thread, Locking(t)
      PROVE  Inv'
  BY <1>3, CommitBeginStep, LockPinStep, LockLoadStep, LockCasStep,
     UnlockStep, LockRetryStep, LockDoneStep DEF Locking
<1>4. ASSUME NEW t \in Thread, Deciding(t)
      PROVE  Inv'
  BY <1>4, StampStep, StampDoneStep, ValidateLoadStep, ValidateBitStep,
     ValidateCasStep, ValidateDoneStep DEF Deciding
<1>5. ASSUME NEW t \in Thread, Ending(t)
      PROVE  Inv'
  BY <1>5, InstallStep, PublishStep, UnlockStep, ReturnStep, UnpinStep,
     FinishStep DEF Ending
<1>6. ASSUME NEW t \in Thread, Begin(t) \/ Abort(t)
      PROVE  Inv'
  BY <1>6, BeginStep, ReturnStep
<1>7. QED
  BY <1>1, <1>2, <1>3, <1>4, <1>5, <1>6 DEF Next, Step, Finished

\* The invariant holds throughout.
THEOREM Invariance == Spec => []Inv
<1>1. Init => Inv
  BY InitInv, CacheAssumption, TicTocAssumption
<1>2. Inv /\ [Next]_vars => Inv'
  BY NextInv, CacheAssumption, TicTocAssumption
<1>3. QED
  BY <1>1, <1>2, PTL DEF Spec

\* Every variable keeps its type, for any keys, threads and programs.
THEOREM TypeCorrectness == Spec => []TypeOK
<1>1. Inv => TypeOK
  BY DEF Inv
<1>2. QED
  BY <1>1, Invariance, PTL

\* The loops of lookup, commit and transaction_deinit only touch entries that
\* their transaction has pinned.
THEOREM PinnedThroughout == Spec => []LoopsOverPinnedEntries
<1>1. Inv => LoopsOverPinnedEntries
  BY DEF Inv
<1>2. QED
  BY <1>1, Invariance, PTL

\* The reference count of a key in the timestamp table is always the number of
\* transactions that hold a pointer to its entry, and an entry that somebody
\* holds is in the table, whichever way the build reclaims entries.
THEOREM RefsCorrectness == Spec => []RefsCountHolders
<1>1. Inv => RefsCountHolders
  BY DEF Inv
<1>2. QED
  BY <1>1, Invariance, PTL

\* A lock bit is set exactly while one commit owns it, and two commits never
\* own the same: mutual exclusion of the writers of a key.
THEOREM LocksExclusive == Spec => []LockOwnership
<1>1. Inv => LockOwnership
  BY DEF Inv
<1>2. QED
  BY <1>1, Invariance, PTL

-----------------------------------------------------------------------------
(* The order of the writes, and the timestamps of a key.                   *)

\* The keys of a commit for which commit_ts has been chosen and that it has
\* still to publish.
Stamped(t) ==
  CASE pc[t] = "stamp" -> WriteSet(t) \ todo[t]
    [] pc[t] \in {"validate", "validate_bit", "validate_cas"} -> WriteSet(t)
    [] pc[t] \in {"install", "publish"} -> todo[t]
    [] OTHER -> {}

\* The labels of a thread whose transaction may have committed.
Over == {"install", "publish", "unpin", "idle"}

\* The keys a commit has stamped are known by earlier writes.
CtsAbove(t) == \A k \in Stamped(t) : cell[k].wts < cts[t]

\* A transaction that installs has committed.
Recorded(t) == pc[t] \in {"install", "publish"} =>
                 \E h \in hist : h.id = Id(t) /\ h.cts = cts[t]

\* Transactions are counted: a committed one does not come again.
Counted == \A h \in hist : /\ h.id[2] <= count[h.id[1]]
                           /\ h.id[2] = count[h.id[1]] => pc[h.id[1]] \in Over
Unique  == \A g, h \in hist : g.id = h.id => g = h

\* What is stored was committed, in order, and is known by its timestamp: all
\* but the version whose writer has still to publish.
Stored == \A k \in Key : \A i \in DOMAIN db[k] : \E h \in hist : h.id = db[k][i]
Publishing(t, k) == pc[t] = "publish" /\ k = Smallest(todo[t])
Below ==
  \A k \in Key : \A i \in DOMAIN db[k] : \A h \in hist : h.id = db[k][i] =>
    \/ h.cts <= Visible(k).wts
    \/ i = Len(db[k]) /\ \E t \in Thread : Publishing(t, k) /\ h.id = Id(t)
InOrder ==
  \A k \in Key : \A i, j \in DOMAIN db[k] : \A g, h \in hist :
    i < j /\ g.id = db[k][i] /\ h.id = db[k][j] => g.cts < h.cts

OrderInv ==
  /\ Inv
  /\ \A t \in Thread : CtsAbove(t) /\ Recorded(t)
  /\ Counted /\ Unique /\ Stored /\ Below /\ InOrder

\* What is stamped is locked, and so held.
LEMMA StampedLocked ==
  ASSUME Inv, NEW t \in Thread
  PROVE  \A k \in Stamped(t) : k \in LockSet(t) /\ k \in Key /\ ent[t][k].held
<1>1. /\ Bookkeeping(t) /\ todo[t] \subseteq Key /\ WriteSet(t) \subseteq Key
  BY ThreadTypes DEF WriteSet
<1>2. QED
  BY <1>1 DEF Stamped, LockSet, Phase, Bookkeeping

\* A thread that has not moved has stamped what it had.
LEMMA SameStamped ==
  ASSUME NEW u \in Thread, Same(u)
  PROVE  /\ Stamped(u)' = Stamped(u) /\ Id(u)' = Id(u)
         /\ \A k \in Key : Publishing(u, k)' = Publishing(u, k)
BY DEF Same, Stamped, WriteSet, Id, Publishing

\* Timestamps are numbers.
LEMMA OrderTypes ==
  ASSUME Inv
  PROVE  /\ \A k \in Key : /\ cell[k] \in TimestampSet /\ cell[k].wts \in Nat
                           /\ Visible(k) \in TimestampSet /\ Visible(k).wts \in Nat
                           /\ Rts(Visible(k)) \in Nat /\ Rts(cell[k]) \in Nat
                           /\ cell[k].wts <= Rts(cell[k])
         /\ \A h \in hist : h.cts \in Nat /\ h.id \in Txn /\ h.id[1] \in Thread /\ h.id[2] \in Nat
         /\ \A t \in Thread : cts[t] \in Nat /\ count[t] \in Nat /\ Id(t) \in Txn
         /\ \A k \in Key : db[k] \in Seq(Txn) /\ Len(db[k]) \in Nat
<1>1. \A k \in Key : cell[k] \in TimestampSet /\ Visible(k) \in TimestampSet
  BY SketchGetType, CacheAssumption DEF Visible, Inv, TypeOK, CacheTypeOK
<1>2. \A h \in hist : h.cts \in Nat /\ h.id \in Txn
  BY DEF Inv, TypeOK, Commit
<1>3. \A t \in Thread : cts[t] \in Nat /\ count[t] \in Nat
  BY DEF Inv, TypeOK
<1>4. \A k \in Key : db[k] \in Seq(Txn)
  BY DEF Inv, TypeOK
<1>5. QED
  BY <1>1, <1>2, <1>3, <1>4, RtsType DEF Id, Txn

\* The wts by which a key is known, in the table or in the sketch, goes forward.
WritesForward == \A k \in Key : Visible(k)'.wts >= Visible(k).wts

CellsTyped == \A k \in Key : /\ Visible(k).wts \in Nat /\ Rts(Visible(k)) \in Nat
                             /\ cell[k].wts \in Nat /\ Rts(cell[k]) \in Nat
LEMMA CellsType == Inv => CellsTyped
  BY OrderTypes DEF CellsTyped

\* The same for the read timestamps.  It fails when the compare-and-swap of
\* another's validation finds the timestamps it loaded under a lock and the
\* key locked again (transaction_tictoc_sketch.h:545), by one who has stamped.
RtsAbove(t)  == \A k \in Stamped(t) : Rts(cell[k]) <= cts[t]
Swaps(t, k)  == ValidateCas(t) /\ k = First(t, todo[t]) /\ cell[k] = v1[t]
OwnSwaps     == \A t, u \in Thread, k \in Key : Swaps(t, k) /\ k \in Stamped(u) => u = t

\* A step of t that commits, stores and publishes nothing.  The timestamps the
\* cache answers do not go back; the wts of a key another thread holds stays,
\* and its rts is moved by a validation only.
Quiet(t) ==
  /\ \A u \in Thread : u # t => Same(u)
  /\ hist' = hist /\ db' = db
  /\ pc[t] # "publish" /\ pc'[t] \notin {"install", "publish"}
  /\ \/ count'[t] = count[t] /\ (pc[t] \in Over => pc'[t] \in Over)
     \/ count'[t] = count[t] + 1
  /\ VisibleGrows
  /\ \A u \in Thread, k \in Key : u # t /\ ent[u][k].held =>
       /\ cell'[k].wts = cell[k].wts
       /\ Rts(cell'[k]) = Rts(cell[k]) \/ Swaps(t, k)
  /\ CtsAbove(t)' /\ (RtsAbove(t) => RtsAbove(t)')

\* A quiet step preserves the invariant.
LEMMA QuietOrder ==
  ASSUME OrderInv, Inv', NEW t \in Thread, Quiet(t)
  PROVE  OrderInv'
<1>1. ASSUME NEW u \in Thread, u # t
      PROVE  /\ Same(u) /\ Stamped(u)' = Stamped(u) /\ Id(u)' = Id(u)
             /\ \A k \in Key : Publishing(u, k)' = Publishing(u, k)
  BY <1>1, SameStamped DEF Quiet
<1>2. ASSUME NEW u \in Thread PROVE CtsAbove(u)'
  <2>1. CASE u = t
    BY <2>1 DEF Quiet
  <2>2. CASE u # t
    <3>1. \A k \in Stamped(u) : k \in Key /\ ent[u][k].held /\ cell[k].wts < cts[u]
      BY StampedLocked DEF OrderInv, CtsAbove
    <3>2. QED
      BY <1>1, <2>2, <3>1 DEF Quiet, CtsAbove, Same
  <2>3. QED
    BY <2>1, <2>2
<1>3. ASSUME NEW u \in Thread PROVE Recorded(u)'
  BY <1>1 DEF Quiet, OrderInv, Recorded, Same
<1>4. Counted'
  <2>1. ASSUME NEW h \in hist
        PROVE  h.id[2] <= count'[h.id[1]] /\ (h.id[2] = count'[h.id[1]] => pc'[h.id[1]] \in Over)
    <3>1. /\ h.id[1] \in Thread /\ h.id[2] \in Nat /\ count[h.id[1]] \in Nat
          /\ h.id[2] <= count[h.id[1]] /\ (h.id[2] = count[h.id[1]] => pc[h.id[1]] \in Over)
      BY OrderTypes DEF OrderInv, Counted
    <3>2. CASE h.id[1] = t
      BY <3>1, <3>2 DEF Quiet
    <3>3. CASE h.id[1] # t
      BY <1>1, <3>1, <3>3 DEF Same
    <3>4. QED
      BY <3>2, <3>3
  <2>2. QED
    BY <2>1 DEF Counted, Quiet
<1>5. Unique' /\ Stored' /\ InOrder'
  BY DEF Quiet, OrderInv, Unique, Stored, InOrder
<1>6. Below'
  <2>1. ASSUME NEW k \in Key, NEW i \in DOMAIN db[k], NEW h \in hist, h.id = db[k][i]
        PROVE  \/ h.cts <= Visible(k)'.wts
               \/ i = Len(db[k]) /\ \E u \in Thread : Publishing(u, k)' /\ h.id = Id(u)'
    <3>1. CASE h.cts <= Visible(k).wts
      <4>1. h.cts \in Nat /\ Visible(k).wts \in Nat /\ Visible(k)'.wts >= Visible(k).wts
        BY OrderTypes DEF OrderInv, Quiet, VisibleGrows
      <4>2. CellsTyped'
        BY CellsType, PTL
      <4>3. QED
        BY <3>1, <4>1, <4>2 DEF CellsTyped
    <3>2. ASSUME i = Len(db[k]), NEW u \in Thread, Publishing(u, k), h.id = Id(u)
          PROVE  i = Len(db[k]) /\ \E w \in Thread : Publishing(w, k)' /\ h.id = Id(w)'
      <4>1. u # t
        BY <3>2 DEF Publishing, Quiet
      <4>2. QED
        BY <1>1, <3>2, <4>1
    <3>3. QED
      BY <2>1, <3>1, <3>2 DEF OrderInv, Below
  <2>2. QED
    BY <2>1 DEF Below, Quiet
<1>7. QED
  BY <1>2, <1>3, <1>4, <1>5, <1>6 DEF OrderInv

\* A step that leaves the cache alone keeps its answers.
LEMMA StillGrows ==
  ASSUME Inv, UNCHANGED <<cell, cached, sketch>>
  PROVE  VisibleGrows
<1>1. \A k \in Key : Visible(k)' = Visible(k) /\ Rts(Visible(k))' = Rts(Visible(k))
  BY DEF Visible, SketchGet, Rts
<1>2. QED
  BY <1>1, OrderTypes DEF VisibleGrows

\* One that changes the timestamps of an entry in the table does when they go
\* forward.
LEMMA CellGrows ==
  ASSUME Inv, NEW k \in cached, NEW ts, cell' = [cell EXCEPT ![k] = ts],
         cached' = cached, sketch' = sketch,
         ts.wts >= cell[k].wts, Rts(ts) >= Rts(cell[k])
  PROVE  VisibleGrows
<1>1. k \in Key /\ cell'[k] = ts /\ \A j \in Key : j # k => cell'[j] = cell[j]
  BY DEF Inv, TypeOK, CacheTypeOK
<1>2. \A j \in Key : j # k => Visible(j)' = Visible(j) /\ Rts(Visible(j))' = Rts(Visible(j))
  BY <1>1 DEF Visible, SketchGet, Rts
<1>3. Visible(k) = cell[k] /\ Visible(k)' = ts /\ Rts(Visible(k))' = Rts(ts)
  BY <1>1 DEF Visible, Rts
<1>4. QED
  BY <1>2, <1>3, OrderTypes DEF VisibleGrows

\* A thread that is not yet at its commit timestamps, or no longer, has stamped
\* nothing.
LEMMA NoneStamped ==
  ASSUME NEW t \in Thread,
         \/ pc'[t] \notin {"stamp", "validate", "validate_bit", "validate_cas",
                           "install", "publish"}
         \/ pc'[t] = "stamp" /\ WriteSet(t)' \subseteq todo'[t]
         \/ pc'[t] \in {"install", "publish"} /\ todo'[t] = {}
  PROVE  CtsAbove(t)' /\ RtsAbove(t)'
<1>1. Stamped(t)' = {}
  BY DEF Stamped
<1>2. QED
  BY <1>1 DEF CtsAbove, RtsAbove
\* The steps that leave the timestamps of the cache alone and stamp nothing.
LEMMA IdleQuiet ==
  ASSUME OrderInv, NEW t \in Thread,
         \/ Begin(t) \/ LocalWrite(t) \/ LookupLoad(t) \/ LookupRead(t) \/ LookupConfirm(t)
         \/ CheckLoad(t) \/ CommitBegin(t) \/ LockLoad(t) \/ LockRetry(t) \/ LockDone(t)
         \/ Abort(t) \/ CommitEnd(t) \/ Finish(t)
  PROVE  Quiet(t)
<1>1. /\ pc \in [Thread -> Label] /\ back \in [Thread -> {"idle", "load", "lock"}]
      /\ count \in [Thread -> Nat] /\ calls \in [Thread -> Seq(Op)]
      /\ order \in [Thread -> Seq(Key)] /\ ent \in [Thread -> [Key -> Entry]]
      /\ todo \in [Thread -> SUBSET Key] /\ cts \in [Thread -> Nat]
      /\ v1 \in [Thread -> TimestampSet] /\ Bookkeeping(t)
  BY ThreadTypes DEF OrderInv, Inv, TypeOK
<1>2. UNCHANGED <<cell, cached, sketch, hist, db>>
  BY DEF Begin, LocalWrite, LookupLoad, LookupRead, LookupConfirm, CheckLoad, CommitBegin,
         LockLoad, LockRetry, LockDone, Abort, CommitEnd, Finish, cacheVars
<1>3. \A u \in Thread : u # t => Same(u)
  <2>1. CASE Begin(t) \/ LookupLoad(t) \/ LookupRead(t) \/ CheckLoad(t)
    BY <1>1, <2>1 DEF Begin, LookupLoad, LookupRead, CheckLoad, Goto, commitVars, txnVars, Same
  <2>2. CASE LocalWrite(t)
    BY <1>1, <2>2 DEF LocalWrite, AddEntry, Return, commitVars, Same
  <2>3. CASE LookupConfirm(t)
    BY <1>1, <2>3 DEF LookupConfirm, Return, Goto, commitVars, Same
  <2>4. CASE CommitBegin(t) \/ LockLoad(t) \/ LockRetry(t) \/ LockDone(t)
    BY <1>1, <2>4 DEF CommitBegin, LockLoad, LockRetry, LockDone, BackOff, Goto, txnVars, Same
  <2>5. CASE Abort(t) \/ CommitEnd(t) \/ Finish(t)
    BY <1>1, <2>5 DEF Abort, CommitEnd, Finish, Goto, txnVars, Same
  <2>6. QED
    BY <2>1, <2>2, <2>3, <2>4, <2>5
<1>4. /\ pc[t] # "publish" /\ pc'[t] \notin {"install", "publish"}
      /\ \/ count'[t] = count[t] /\ (pc[t] \in Over => pc'[t] \in Over)
         \/ count'[t] = count[t] + 1
      /\ \/ pc'[t] \notin {"stamp", "validate", "validate_bit", "validate_cas",
                           "install", "publish"}
         \/ pc'[t] = "stamp" /\ WriteSet(t)' \subseteq todo'[t]
  <2>1. CASE Begin(t)
    BY <1>1, <2>1 DEF Begin, Goto
  <2>2. CASE LocalWrite(t)
    BY <1>1, <2>2 DEF LocalWrite, Calling, Over
  <2>3. CASE LookupLoad(t) \/ LookupRead(t) \/ LookupConfirm(t)
    BY <1>1, <2>3 DEF LookupLoad, LookupRead, LookupConfirm, Goto, txnVars, Over
  <2>4. CASE CheckLoad(t)
    BY <1>1, <2>4 DEF CheckLoad, Goto, txnVars, Over
  <2>5. CASE CommitBegin(t) \/ LockLoad(t) \/ LockRetry(t)
    BY <1>1, <2>5 DEF CommitBegin, LockLoad, LockRetry, BackOff, Goto, txnVars, Over
  <2>6. CASE LockDone(t)
    BY <1>1, <2>6 DEF LockDone, Goto, txnVars, Over, WriteSet
  <2>7. CASE Abort(t) \/ CommitEnd(t)
    BY <1>1, <2>7 DEF Abort, CommitEnd, Goto, txnVars, Over
  <2>8. CASE Finish(t)
    BY <1>1, <2>8 DEF Finish, Goto, Over
  <2>9. QED
    BY <2>1, <2>2, <2>3, <2>4, <2>5, <2>6, <2>7, <2>8
<1>5. CtsAbove(t)' /\ RtsAbove(t)'
  BY <1>4, NoneStamped
<1>6. VisibleGrows
  BY <1>2, StillGrows DEF OrderInv
<1>7. QED
  BY <1>2, <1>3, <1>4, <1>5, <1>6 DEF Quiet

\* The choice of the commit timestamp, and the decisions of the validation.
LEMMA DecidingQuiet ==
  ASSUME OrderInv, NEW t \in Thread,
         Stamp(t) \/ StampDone(t) \/ ValidateLoad(t) \/ ValidateBit(t)
  PROVE  Quiet(t)
<1>1. /\ pc \in [Thread -> Label] /\ todo \in [Thread -> SUBSET Key]
      /\ cts \in [Thread -> Nat] /\ v1 \in [Thread -> TimestampSet] /\ Bookkeeping(t)
  BY ThreadTypes DEF OrderInv, Inv, TypeOK
<1>2. /\ UNCHANGED <<cell, cached, sketch, hist, db>>
      /\ UNCHANGED <<count, ent, order, calls, back>>
  BY DEF Stamp, StampDone, ValidateLoad, ValidateBit, cacheVars, txnVars
<1>3. \A u \in Thread : u # t => Same(u)
  <2>1. CASE Stamp(t) \/ StampDone(t)
    BY <1>1, <1>2, <2>1 DEF Stamp, StampDone, Goto, Same
  <2>2. CASE ValidateLoad(t) \/ ValidateBit(t)
    BY <1>1, <1>2, <2>2 DEF ValidateLoad, ValidateBit, GiveUp, Goto, Same
  <2>3. QED
    BY <2>1, <2>2
<1>4. WriteSet(t)' = WriteSet(t) /\ WriteSet(t) \subseteq Key
  BY <1>2 DEF WriteSet
<1>5. VisibleGrows
  BY <1>2, StillGrows DEF OrderInv
<1>6. \A k \in Key : cell[k].wts \in Nat /\ Rts(cell[k]) \in Nat /\ cell[k].wts <= Rts(cell[k])
  BY OrderTypes DEF OrderInv
<1>7. CASE Stamp(t)
  <2> DEFINE k == Smallest(todo[t])
             c == Larger(cts[t], Rts(cell[k]) + 1)
  <2>1. /\ pc[t] = "stamp" /\ pc' = pc /\ k \in todo[t] /\ k \in Key
        /\ cts'[t] = c /\ todo'[t] = todo[t] \ {k} /\ cts[t] \in Nat
    BY <1>1, <1>7, ThreadTypes DEF Stamp, OrderInv
  <2>2. c >= cts[t] /\ c > Rts(cell[k]) /\ c \in Nat
    BY <1>6, <2>1 DEF Larger
  <2>3. Stamped(t)' = WriteSet(t) \ todo'[t] /\ Stamped(t) = WriteSet(t) \ todo[t]
    BY <1>4, <2>1 DEF Stamped
  <2> HIDE DEF k, c
  <2>4. \A j \in Stamped(t)' : j \in Key /\ (j = k \/ j \in Stamped(t))
    BY <1>4, <2>1, <2>3
  <2>5. CtsAbove(t)'
    <3>1. ASSUME NEW j \in Stamped(t)' PROVE cell[j].wts < c
      <4>1. CASE j = k
        BY <1>6, <2>1, <2>2, <4>1
      <4>2. CASE j \in Stamped(t)
        BY <1>6, <2>1, <2>2, <2>4, <4>2 DEF OrderInv, CtsAbove
      <4>3. QED
        BY <2>4, <4>1, <4>2
    <3>2. QED
      BY <1>2, <2>1, <3>1 DEF CtsAbove
  <2>6. RtsAbove(t) => RtsAbove(t)'
    <3>1. ASSUME NEW j \in Stamped(t)', RtsAbove(t) PROVE Rts(cell[j]) <= c
      <4>1. CASE j = k
        BY <1>6, <2>1, <2>2, <4>1
      <4>2. CASE j \in Stamped(t)
        BY <1>6, <2>1, <2>2, <2>4, <3>1, <4>2 DEF RtsAbove
      <4>3. QED
        BY <2>4, <4>1, <4>2
    <3>2. QED
      BY <1>2, <2>1, <3>1 DEF RtsAbove
  <2>7. QED
    BY <1>2, <1>3, <1>5, <2>1, <2>5, <2>6 DEF Quiet, Over
<1>8. CASE StampDone(t) \/ ValidateLoad(t) \/ ValidateBit(t)
  <2>1. /\ cts'[t] = cts[t]
        /\ pc[t] \in {"stamp", "validate", "validate_bit"}
        /\ pc[t] = "stamp" => todo[t] = {}
        /\ pc'[t] \in {"validate", "validate_bit", "validate_cas", "unlock"}
    <3>1. CASE StampDone(t)
      BY <1>1, <3>1 DEF StampDone, Goto
    <3>2. CASE ValidateLoad(t)
      BY <1>1, <3>2 DEF ValidateLoad, GiveUp, Goto
    <3>3. CASE ValidateBit(t)
      BY <1>1, <3>3 DEF ValidateBit, GiveUp, Goto
    <3>4. QED
      BY <1>8, <3>1, <3>2, <3>3
  <2>2. Stamped(t) = WriteSet(t) /\ Stamped(t)' \subseteq WriteSet(t)
    BY <1>4, <2>1 DEF Stamped
  <2>3. CtsAbove(t)' /\ (RtsAbove(t) => RtsAbove(t)')
    BY <1>2, <2>1, <2>2 DEF OrderInv, CtsAbove, RtsAbove
  <2>4. QED
    BY <1>2, <1>3, <1>5, <2>1, <2>3 DEF Quiet, Over
<1>9. QED
  BY <1>7, <1>8
\* What others hold is in the table; what leaves it, nobody else holds.
LEMMA PinningQuiet ==
  ASSUME OrderInv, NEW t \in Thread, LookupPin(t) \/ LockPin(t)
  PROVE  Quiet(t)
<1>1. /\ pc \in [Thread -> Label] /\ back \in [Thread -> {"idle", "load", "lock"}]
      /\ ent \in [Thread -> [Key -> Entry]] /\ CacheTypeOK /\ order \in [Thread -> Seq(Key)]
  BY DEF OrderInv, Inv, TypeOK
<1>2. PICK k \in Key, label \in {"load", "lock"} :
        /\ Pin(t, k, label) /\ pc[t] \in {"run", "lock"}
        /\ \A u \in Thread : u # t => ent'[u] = ent[u] /\ order'[u] = order[u]
  <2>1. CASE LookupPin(t)
    <3>1. CallKey(t) \in Key /\ AddEntry(t, CallKey(t)) /\ Pin(t, CallKey(t), "load") /\ pc[t] = "run"
          /\ \A u \in Thread : u # t => ent'[u] = ent[u]
      BY <1>1, <2>1, ThreadTypes DEF LookupPin, Calling, OrderInv
    <3>2. \A u \in Thread : u # t => order'[u] = order[u]
      BY <1>1, <3>1 DEF AddEntry
    <3>3. QED
      BY <3>1, <3>2
  <2>2. CASE LockPin(t)
    <3>1. Smallest(todo[t]) \in Key /\ Pin(t, Smallest(todo[t]), "lock") /\ pc[t] = "lock"
          /\ order' = order /\ \A u \in Thread : u # t => ent'[u] = ent[u]
      BY <1>1, <2>2, ThreadTypes DEF LockPin, OrderInv
    <3>2. QED
      BY <3>1
  <2>3. QED
    BY <2>1, <2>2
<1>3. /\ UNCHANGED <<db, count, calls, cts, todo, v1, hist>>
      /\ pc'[t] \in {"load", "lock", "check_load"}
      /\ \A u \in Thread : u # t => Same(u)
  <2>1. UNCHANGED <<db, count, calls, cts, todo, v1, hist>>
    BY DEF LookupPin, LockPin, commitVars
  <2>2. /\ pc'[t] \in {"load", "lock", "check_load"}
        /\ \A u \in Thread : u # t => pc'[u] = pc[u] /\ back'[u] = back[u]
    BY <1>1, <1>2 DEF Pin, Goto
  <2>3. QED
    BY <1>2, <2>1, <2>2 DEF Same
<1>4. InsertAndGet(k) \/ UNCHANGED cacheVars
  BY <1>2 DEF Pin
<1>5. VisibleGrows /\ \A j \in Key : j \in cached => cell'[j] = cell[j]
  <2>1. CASE InsertAndGet(k)
    BY <1>1, <2>1, InsertGrows, InsertAndGetEffect, CacheAssumption
  <2>2. CASE UNCHANGED cacheVars
    BY <2>2, StillGrows DEF cacheVars, OrderInv
  <2>3. QED
    BY <1>4, <2>1, <2>2
<1>6. \A u \in Thread, j \in Key : ent[u][j].held => cell'[j] = cell[j]
  BY <1>5 DEF OrderInv, Inv, RefsCountHolders
<1>7. CtsAbove(t)' /\ RtsAbove(t)'
  BY <1>3, NoneStamped
<1>8. QED
  BY <1>2, <1>3, <1>5, <1>6, <1>7 DEF Quiet, Over

LEMMA ForgettingQuiet ==
  ASSUME OrderInv, NEW t \in Thread, EvictOne(t) \/ Unpin(t)
  PROVE  Quiet(t)
<1>1. /\ pc \in [Thread -> Label] /\ back \in [Thread -> {"idle", "load", "lock"}]
      /\ ent \in [Thread -> [Key -> Entry]] /\ CacheTypeOK /\ todo \in [Thread -> SUBSET Key]
      /\ Bookkeeping(t)
  BY ThreadTypes DEF OrderInv, Inv, TypeOK
<1>2. /\ UNCHANGED <<db, hist, count>>
      /\ \A u \in Thread : u # t => Same(u)
      /\ pc[t] \in {"evict", "unpin"} /\ pc'[t] \in {"evict", "load", "lock", "unpin"}
      /\ pc[t] \in Over => pc'[t] \in Over
  <2>1. CASE EvictOne(t)
    BY <1>1, <2>1 DEF EvictOne, Goto, txnVars, commitVars, Same, Bookkeeping, Over
  <2>2. CASE Unpin(t)
    BY <1>1, <2>2 DEF Unpin, Same, Over
  <2>3. QED
    BY <2>1, <2>2
<1>3. \/ UNCHANGED <<cell, cached, sketch>>
      \/ \E k \in cached : /\ Reclaim # "never" /\ Forget(k)
                           /\ \A u \in Thread : u # t => ~ent[u][k].held
  <2>1. CASE EvictOne(t) /\ Evict
    <3>1. PICK k \in cached : refs[k] = 0 /\ Forget(k)
      BY <2>1 DEF Evict
    <3>2. Reclaim # "never"
      BY <1>1, <2>1 DEF EvictOne, Bookkeeping
    <3> DEFINE H == {u \in Thread : ent[u][k].held}
    <3>3. IsFiniteSet(H) /\ Cardinality(H) = 0
      BY <1>1, <3>1, <3>2, HolderCount, TicTocAssumption DEF OrderInv, CacheTypeOK
    <3>4. H = {}
      BY <3>3, FS_EmptySet
    <3>5. QED
      BY <3>1, <3>2, <3>4
  <2>2. CASE EvictOne(t) /\ ~Evict
    BY <2>2 DEF EvictOne, cacheVars
  <2>3. CASE Unpin(t)
    <3> DEFINE k == First(t, todo[t])
    <3>1. todo[t] = Pinned(t) /\ todo[t] # {} /\ todo[t] \in SUBSET Key /\ Release(k)
      BY <1>1, <2>3 DEF Unpin, Bookkeeping
    <3>2. k \in todo[t]
      BY <1>1, <3>1, FirstMember DEF Pinned, OrderInv
    <3>3. k \in Key /\ ent[t][k].held /\ Reclaim # "never"
      BY <3>1, <3>2 DEF Pinned
    <3> HIDE DEF k
    <3> DEFINE H == {u \in Thread : ent[u][k].held}
    <3>4. IsFiniteSet(H) /\ refs[k] = Cardinality(H) /\ t \in H
      BY <3>3, HolderCount, TicTocAssumption DEF OrderInv
    <3>5. refs[k] = 1 => H = {t}
      <4> HIDE DEF H
      <4>1. QED
        BY <3>4, OneLess
    <3>6. k \in cached
      BY <3>3 DEF OrderInv, Inv, RefsCountHolders
    <3>7. CASE Reclaim = "eager" /\ refs[k] = 1
      BY <3>1, <3>3, <3>5, <3>6, <3>7 DEF Release
    <3>8. CASE ~(Reclaim = "eager" /\ refs[k] = 1)
      BY <3>1, <3>8 DEF Release
    <3>9. QED
      BY <3>7, <3>8
  <2>4. QED
    BY <2>1, <2>2, <2>3
<1>4. CtsAbove(t)' /\ RtsAbove(t)'
  BY <1>2, NoneStamped
<1>5. CASE UNCHANGED <<cell, cached, sketch>>
  <2>1. VisibleGrows
    BY <1>5, StillGrows DEF OrderInv
  <2>2. QED
    BY <1>2, <1>4, <1>5, <2>1 DEF Quiet
<1>6. ASSUME NEW k \in cached, Reclaim # "never", Forget(k),
             \A u \in Thread : u # t => ~ent[u][k].held
      PROVE  Quiet(t)
  <2>1. k \in Key /\ VisibleGrows
    BY <1>1, <1>6, ForgetGrows DEF CacheTypeOK
  <2>2. \A j \in Key : j # k => cell'[j] = cell[j]
    BY <1>1, <1>6, <2>1, ForgetEffect, CacheAssumption
  <2>3. \A u \in Thread, j \in Key : u # t /\ ent[u][j].held => cell'[j] = cell[j]
    BY <1>6, <2>2
  <2>4. QED
    BY <1>2, <1>4, <2>1, <2>3 DEF Quiet
<1>7. QED
  BY <1>3, <1>5, <1>6

\* Taking a lock and giving it back keep the timestamps of the key.
LEMMA LockBitQuiet ==
  ASSUME OrderInv, NEW t \in Thread, LockCas(t) \/ BackOffUnlock(t) \/ AbortUnlock(t)
  PROVE  Quiet(t)
<1> DEFINE k == Smallest(todo[t])
<1>1. /\ pc \in [Thread -> Label] /\ todo \in [Thread -> SUBSET Key] /\ Bookkeeping(t)
      /\ CacheTypeOK /\ v1 \in [Thread -> TimestampSet]
  BY ThreadTypes DEF OrderInv, Inv, TypeOK
<1>2. /\ UNCHANGED <<cached, sketch, db, hist, back, count, calls, order, ent, cts, v1>>
      /\ pc[t] \in {"lock_cas", "backoff", "unlock"} /\ pc'[t] \in {"lock", "backoff", "unlock"}
      /\ \A u \in Thread : u # t => pc'[u] = pc[u] /\ todo'[u] = todo[u]
      /\ todo[t] # {}
  <2>1. CASE LockCas(t)
    BY <1>1, <2>1 DEF LockCas, BackOff, Goto, txnVars, Bookkeeping
  <2>2. CASE BackOffUnlock(t) \/ AbortUnlock(t)
    BY <1>1, <2>2 DEF BackOffUnlock, AbortUnlock, Unlock, txnVars
  <2>3. QED
    BY <2>1, <2>2
<1>3. k \in todo[t] /\ k \in Key /\ ent[t][k].held
  <2>1. k \in todo[t] /\ k \in Key
    BY <1>1, <1>2, ThreadTypes DEF OrderInv
  <2>2. pc[t] = "lock_cas" => ent[t][k].held
    BY <1>1 DEF Bookkeeping
  <2>3. pc[t] # "lock_cas" => k \in LockSet(t)
    BY <1>2, <2>1 DEF LockSet, Phase
  <2>4. QED
    BY <1>1, <2>1, <2>2, <2>3 DEF Bookkeeping
<1>4. k \in cached
  BY <1>3 DEF OrderInv, Inv, RefsCountHolders
<1>5. \/ UNCHANGED cell
      \/ \E ts \in TimestampSet : /\ cell' = [cell EXCEPT ![k] = ts]
                                  /\ ts.wts = cell[k].wts /\ Rts(ts) = Rts(cell[k])
  <2>1. ASSUME NEW b \in TimestampSet
        PROVE  /\ Locked(b) \in TimestampSet /\ Locked(b).wts = b.wts /\ Rts(Locked(b)) = Rts(b)
               /\ Unlocked(b) \in TimestampSet /\ Unlocked(b).wts = b.wts /\ Rts(Unlocked(b)) = Rts(b)
    BY <2>1 DEF Locked, Unlocked, Rts, TimestampSet
  <2>2. cell[k] \in TimestampSet
    BY <1>1, <1>3 DEF CacheTypeOK
  <2>3. CASE LockCas(t)
    BY <2>1, <2>2, <2>3 DEF LockCas
  <2>4. CASE BackOffUnlock(t) \/ AbortUnlock(t)
    BY <2>1, <2>2, <2>4 DEF BackOffUnlock, AbortUnlock, Unlock
  <2>5. QED
    BY <2>3, <2>4
<1> HIDE DEF k
<1>6. \A u \in Thread : u # t => Same(u)
  BY <1>2 DEF Same
<1>7. CtsAbove(t)' /\ RtsAbove(t)'
  BY <1>2, NoneStamped
<1>8. \A j \in Key : cell[j].wts \in Nat /\ Rts(cell[j]) \in Nat
  BY OrderTypes DEF OrderInv
<1>9. CASE UNCHANGED cell
  <2>1. VisibleGrows
    BY <1>2, <1>9, StillGrows DEF OrderInv
  <2>2. QED
    BY <1>2, <1>6, <1>7, <1>9, <2>1 DEF Quiet, Over
<1>10. ASSUME NEW ts \in TimestampSet, cell' = [cell EXCEPT ![k] = ts],
              ts.wts = cell[k].wts, Rts(ts) = Rts(cell[k])
       PROVE  Quiet(t)
  <2>1. VisibleGrows
    <3>1. ts.wts >= cell[k].wts /\ Rts(ts) >= Rts(cell[k])
      BY <1>3, <1>8, <1>10
    <3>2. cached' = cached /\ sketch' = sketch /\ Inv
      BY <1>2 DEF OrderInv
    <3>3. QED
      BY <1>4, <1>10, <3>1, <3>2, CellGrows
  <2>2. \A j \in Key : cell'[j].wts = cell[j].wts /\ Rts(cell'[j]) = Rts(cell[j])
    BY <1>1, <1>10 DEF CacheTypeOK
  <2>3. QED
    BY <1>2, <1>6, <1>7, <2>1, <2>2 DEF Quiet, Over
<1>11. QED
  BY <1>5, <1>9, <1>10

\* The extension of a read timestamp keeps the wts of the key.
LEMMA ValidateCasQuiet ==
  ASSUME OrderInv, NEW t \in Thread, ValidateCas(t)
  PROVE  Quiet(t)
<1> DEFINE k == First(t, todo[t])
           ext == Extended(v1[t], cts[t])
<1>1. /\ pc \in [Thread -> Label] /\ todo \in [Thread -> SUBSET Key] /\ Bookkeeping(t)
      /\ CacheTypeOK /\ v1[t] \in TimestampSet /\ cts[t] \in Nat /\ todo[t] \in SUBSET Key
  BY ThreadTypes DEF OrderInv, Inv, TypeOK
<1>2. /\ UNCHANGED <<cached, sketch, db, hist, back, count, calls, order, ent, cts, v1>>
      /\ pc[t] = "validate_cas" /\ pc'[t] = "validate"
      /\ \A u \in Thread : u # t => pc'[u] = pc[u] /\ todo'[u] = todo[u]
      /\ \/ cell[k] = v1[t] /\ cell' = [cell EXCEPT ![k] = ext]
         \/ UNCHANGED cell
  BY <1>1 DEF ValidateCas, Goto, txnVars
<1>3. todo[t] # {} /\ todo[t] \subseteq ReadSet(t) /\ Rts(v1[t]) <= cts[t]
      /\ \A j \in ReadSet(t) : ent[t][j].held
  BY <1>1, <1>2 DEF Bookkeeping
<1>4. k \in todo[t] /\ k \in Key /\ k \in cached
  <2>1. k \in todo[t]
    BY <1>1, <1>3, FirstMember DEF ReadSet, OrderInv
  <2>2. QED
    BY <1>1, <1>3, <2>1 DEF OrderInv, Inv, RefsCountHolders
<1>5. ext.wts = v1[t].wts /\ Rts(ext) = cts[t]
  BY <1>1 DEF Extended, Rts, TimestampSet
<1>6. \A u \in Thread : u # t => Same(u)
  BY <1>2 DEF Same
<1>7. Stamped(t)' = Stamped(t)
  BY <1>2 DEF Stamped, WriteSet
<1>8. \A j \in Key : cell[j].wts \in Nat /\ Rts(cell[j]) \in Nat
  BY OrderTypes DEF OrderInv
<1>9. \A j \in Stamped(t) : j \in Key
  BY StampedLocked DEF OrderInv
<1>10. ASSUME UNCHANGED cell PROVE Quiet(t)
  <2>1. VisibleGrows
    BY <1>2, <1>10, StillGrows DEF OrderInv
  <2>2. CtsAbove(t)' /\ (RtsAbove(t) => RtsAbove(t)')
    BY <1>2, <1>7, <1>10 DEF OrderInv, CtsAbove, RtsAbove
  <2>3. QED
    BY <1>2, <1>6, <1>10, <2>1, <2>2 DEF Quiet, Over
<1> HIDE DEF ext
<1>11. ASSUME cell[k] = v1[t], cell' = [cell EXCEPT ![k] = ext] PROVE Quiet(t)
  <2> HIDE DEF k
  <2>1. VisibleGrows
    <3>1. ext.wts >= cell[k].wts /\ Rts(ext) >= Rts(cell[k])
      BY <1>3, <1>4, <1>5, <1>8, <1>11
    <3>2. cached' = cached /\ sketch' = sketch /\ Inv
      BY <1>2 DEF OrderInv
    <3>3. QED
      BY <1>4, <1>11, <3>1, <3>2, CellGrows
  <2>2. \A j \in Key : /\ cell'[j].wts = cell[j].wts
                       /\ j # k => cell'[j] = cell[j]
                       /\ j = k => Rts(cell'[j]) = cts[t]
    BY <1>1, <1>4, <1>5, <1>11 DEF CacheTypeOK
  <2>3. CtsAbove(t)' /\ (RtsAbove(t) => RtsAbove(t)')
    <3>1. cts'[t] = cts[t] /\ cts[t] <= cts[t]
      BY <1>1, <1>2
    <3>2. QED
      BY <1>7, <1>9, <2>2, <3>1 DEF OrderInv, CtsAbove, RtsAbove
  <2>4. \A j \in Key : Rts(cell'[j]) = Rts(cell[j]) \/ Swaps(t, j)
    BY <1>11, <2>2 DEF Swaps, k
  <2>5. QED
    BY <1>2, <1>6, <2>1, <2>2, <2>3, <2>4 DEF Quiet, Over
<1>12. QED
  BY <1>2, <1>10, <1>11
\* A transaction that commits is new to the history.
LEMMA ValidateDoneOrder ==
  ASSUME OrderInv, NEW t \in Thread, ValidateDone(t)
  PROVE  OrderInv'
<1> DEFINE n == [id |-> Id(t), cts |-> cts[t], reads |-> reads[t]]
<1>1. /\ pc \in [Thread -> Label] /\ todo \in [Thread -> SUBSET Key]
      /\ pc[t] = "validate" /\ hist' = hist \cup {n}
      /\ pc' = [pc EXCEPT ![t] = "install"] /\ todo' = [todo EXCEPT ![t] = WriteSet(t)]
      /\ UNCHANGED <<cell, cached, refs, sketch, db, back, count, calls, order, ent, cts, v1>>
  BY DEF ValidateDone, Goto, cacheVars, txnVars, OrderInv, Inv, TypeOK
<1>2. n.id = Id(t) /\ n.cts = cts[t] /\ n.id[1] = t /\ n.id[2] = count[t]
  BY DEF Id
<1> HIDE DEF n
<1>3. \A h \in hist : h.id # n.id
  <2>1. "validate" \notin Over
    BY DEF Over
  <2>2. QED
    BY <1>1, <1>2, <2>1 DEF OrderInv, Counted
<1>4. Inv'
  BY ValidateDoneStep DEF OrderInv
<1>5. pc'[t] = "install" /\ \A u \in Thread : u # t => Same(u) /\ pc'[u] = pc[u]
  BY <1>1 DEF Same
<1>6. \A u \in Thread : Id(u)' = Id(u)
  BY <1>1 DEF Id
<1>7. ASSUME NEW u \in Thread PROVE CtsAbove(u)' /\ Recorded(u)'
  <2>1. Stamped(u)' = Stamped(u)
    <3>1. CASE u = t
      BY <1>1, <1>5, <3>1 DEF Stamped, WriteSet
    <3>2. CASE u # t
      BY <1>5, <3>2, SameStamped
    <3>3. QED
      BY <3>1, <3>2
  <2>2. CtsAbove(u)'
    BY <1>1, <2>1 DEF OrderInv, CtsAbove
  <2>3. Recorded(u)'
    BY <1>1, <1>2, <1>5, <1>6 DEF OrderInv, Recorded
  <2>4. QED
    BY <2>2, <2>3
<1>8. Counted'
  <2>1. \A u \in Thread : pc[u] \in Over => pc'[u] \in Over
    BY <1>5 DEF Over
  <2>2. "install" \in Over /\ count[t] <= count[t]
    BY OrderTypes DEF Over, OrderInv
  <2>3. \A h \in hist : h.id[1] \in Thread
    BY OrderTypes DEF OrderInv
  <2>4. QED
    BY <1>1, <1>2, <1>5, <2>1, <2>2, <2>3 DEF OrderInv, Counted
<1>9. Unique' /\ Stored'
  BY <1>1, <1>3 DEF OrderInv, Unique, Stored
<1>10. \A k \in Key : \A i \in DOMAIN db[k] : n.id # db[k][i]
  BY <1>3 DEF OrderInv, Stored
<1>11. InOrder'
  BY <1>1, <1>10 DEF OrderInv, InOrder
<1>12. Below'
  <2>1. \A k \in Key : Visible(k)' = Visible(k)
    BY <1>1 DEF Visible, SketchGet
  <2>2. \A u \in Thread, k \in Key : Publishing(u, k) => Publishing(u, k)'
    <3>1. \A u \in Thread, k \in Key : Publishing(u, k) => u # t
      BY <1>1 DEF Publishing
    <3>2. QED
      BY <1>5, <3>1, SameStamped
  <2>3. QED
    BY <1>1, <1>6, <1>10, <2>1, <2>2 DEF OrderInv, Below
<1>13. QED
  BY <1>4, <1>7, <1>8, <1>9, <1>11, <1>12 DEF OrderInv

\* Nobody else publishes a key that a commit has locked.
LEMMA OnePublisher ==
  ASSUME Inv, NEW t \in Thread, NEW k \in LockSet(t), NEW u \in Thread, Publishing(u, k)
  PROVE  u = t
<1>1. k \in LockSet(u)
  BY ThreadTypes DEF Publishing, Bookkeeping, LockSet, Phase
<1>2. QED
  BY <1>1 DEF Inv, LockOwnership

\* A version is stored after all those with earlier commit timestamps: the
\* last of them is known by the wts of the locked key.
LEMMA InstallOrder ==
  ASSUME OrderInv, NEW t \in Thread, Install(t)
  PROVE  OrderInv'
<1>0. PICK k \in Key : k = Smallest(todo[t]) /\ k \in todo[t]
  BY ThreadTypes DEF Install, OrderInv
<1>1. /\ pc \in [Thread -> Label] /\ db \in [Key -> Seq(Txn)]
      /\ pc[t] = "install" /\ todo[t] # {}
      /\ pc' = [pc EXCEPT ![t] = "publish"] /\ db' = [db EXCEPT ![k] = Append(@, Id(t))]
      /\ UNCHANGED <<cell, cached, refs, sketch, hist, back, count, calls, order, ent,
                     todo, cts, v1>>
  BY <1>0 DEF Install, Goto, cacheVars, txnVars, commitVars, OrderInv, Inv, TypeOK
<1>2. k \in Key /\ k \in todo[t] /\ k \in Stamped(t) /\ k \in LockSet(t) /\ ent[t][k].held
  <2>1. k \in Stamped(t)
    BY <1>0, <1>1 DEF Stamped
  <2>2. QED
    BY <1>0, <2>1, StampedLocked DEF OrderInv
<1>3. Visible(k) = cell[k] /\ cell[k].wts < cts[t]
  BY <1>2 DEF Visible, OrderInv, Inv, RefsCountHolders, CtsAbove
<1>4. PICK c \in hist : c.id = Id(t) /\ c.cts = cts[t]
  BY <1>1 DEF OrderInv, Recorded
<1>5. Inv'
  BY InstallStep, CacheAssumption DEF OrderInv
<1>6. pc'[t] = "publish" /\ \A u \in Thread : u # t => Same(u) /\ pc'[u] = pc[u]
  BY <1>1 DEF Same
<1>7. \A u \in Thread : Id(u)' = Id(u)
  BY <1>1 DEF Id
<1>8. ASSUME NEW u \in Thread PROVE CtsAbove(u)' /\ Recorded(u)'
  <2>1. Stamped(u)' = Stamped(u)
    <3>1. CASE u = t
      BY <1>1, <1>6, <3>1 DEF Stamped
    <3>2. CASE u # t
      BY <1>6, <3>2, SameStamped
    <3>3. QED
      BY <3>1, <3>2
  <2>2. QED
    BY <1>1, <1>6, <1>7, <2>1 DEF OrderInv, CtsAbove, Recorded
<1>9. Counted' /\ Unique'
  <2>1. \A u \in Thread : pc[u] \in Over => pc'[u] \in Over
    BY <1>6 DEF Over
  <2>2. \A h \in hist : h.id[1] \in Thread
    BY OrderTypes DEF OrderInv
  <2>3. QED
    BY <1>1, <2>1, <2>2 DEF OrderInv, Counted, Unique
<1>10. /\ \A j \in Key : j # k => db'[j] = db[j]
       /\ DOMAIN db'[k] = 1 .. (Len(db[k]) + 1) /\ DOMAIN db[k] = 1 .. Len(db[k])
       /\ Len(db'[k]) = Len(db[k]) + 1 /\ Len(db[k]) \in Nat
       /\ db'[k][Len(db[k]) + 1] = Id(t)
       /\ \A i \in DOMAIN db[k] : db'[k][i] = db[k][i]
  <2>1. db[k] \in Seq(Txn) /\ db'[k] = Append(db[k], Id(t)) /\ \A j \in Key : j # k => db'[j] = db[j]
    BY <1>1, <1>2
  <2>2. QED
    BY <2>1
<1>11. Stored'
  <2>1. ASSUME NEW j \in Key, NEW i \in DOMAIN db'[j] PROVE \E h \in hist : h.id = db'[j][i]
    <3>1. CASE j # k \/ i \in DOMAIN db[k]
      <4>1. i \in DOMAIN db[j] /\ db'[j][i] = db[j][i]
        BY <1>10, <2>1, <3>1
      <4>2. QED
        BY <4>1 DEF OrderInv, Stored
    <3>2. CASE j = k /\ i \notin DOMAIN db[k]
      <4>1. i = Len(db[k]) + 1
        BY <1>10, <2>1, <3>2
      <4>2. QED
        BY <1>4, <1>10, <3>2, <4>1
    <3>3. QED
      BY <3>1, <3>2
  <2>2. QED
    BY <1>1, <2>1 DEF Stored
<1>12. \A i \in DOMAIN db[k], h \in hist : h.id = db[k][i] => h.cts <= cell[k].wts
  <2>1. \A u \in Thread : ~Publishing(u, k)
    BY <1>0, <1>1, <1>2, OnePublisher DEF OrderInv, Publishing
  <2>2. QED
    BY <1>2, <1>3, <2>1 DEF OrderInv, Below
<1>13. \A h \in hist : h.id = Id(t) => h.cts = cts[t]
  BY <1>4 DEF OrderInv, Unique
<1>14. \A h \in hist : h.cts \in Nat /\ cell[k].wts \in Nat /\ cts[t] \in Nat
  BY <1>2, OrderTypes DEF OrderInv
<1>15. InOrder'
  <2>1. ASSUME NEW j \in Key, NEW a \in DOMAIN db'[j], NEW b \in DOMAIN db'[j],
               NEW g \in hist, NEW h \in hist,
               a < b, g.id = db'[j][a], h.id = db'[j][b]
        PROVE  g.cts < h.cts
    <3>1. CASE j # k \/ b \in DOMAIN db[k]
      <4>1. a \in DOMAIN db[j] /\ b \in DOMAIN db[j] /\ g.id = db[j][a] /\ h.id = db[j][b]
        BY <1>10, <2>1, <3>1
      <4>2. QED
        BY <2>1, <4>1 DEF OrderInv, InOrder
    <3>2. CASE j = k /\ b \notin DOMAIN db[k]
      <4>1. a \in DOMAIN db[k] /\ h.id = Id(t) /\ g.id = db[k][a]
        BY <1>10, <2>1, <3>2
      <4>2. g.cts <= cell[k].wts /\ h.cts = cts[t]
        BY <1>12, <1>13, <4>1
      <4>3. QED
        BY <1>3, <1>14, <4>2
    <3>3. QED
      BY <3>1, <3>2
  <2>2. QED
    BY <1>1, <2>1 DEF InOrder
<1>16. Below'
  <2>1. \A j \in Key : Visible(j)' = Visible(j)
    BY <1>1 DEF Visible, SketchGet
  <2>2. ASSUME NEW j \in Key, NEW i \in DOMAIN db'[j], NEW h \in hist, h.id = db'[j][i]
        PROVE  \/ h.cts <= Visible(j)'.wts
               \/ i = Len(db'[j]) /\ \E u \in Thread : Publishing(u, j)' /\ h.id = Id(u)
    <3>1. CASE j # k
      <4>1. \A u \in Thread : Publishing(u, j) => Publishing(u, j)'
        BY <1>1, <1>6, SameStamped DEF Publishing
      <4>2. db'[j] = db[j] /\ i \in DOMAIN db[j] /\ h.id = db[j][i]
        BY <1>10, <2>2, <3>1
      <4>3. \/ h.cts <= Visible(j).wts
            \/ i = Len(db[j]) /\ \E u \in Thread : Publishing(u, j) /\ h.id = Id(u)
        BY <4>2 DEF OrderInv, Below
      <4>4. QED
        BY <2>1, <4>1, <4>2, <4>3
    <3>2. CASE j = k /\ i \in DOMAIN db[k]
      BY <1>3, <1>10, <1>12, <2>1, <2>2, <3>2
    <3>3. CASE j = k /\ i \notin DOMAIN db[k]
      <4>1. i = Len(db[k]) + 1 /\ h.id = Id(t)
        BY <1>10, <2>2, <3>3
      <4>2. Publishing(t, k)'
        BY <1>0, <1>1, <1>6 DEF Publishing
      <4>3. QED
        BY <1>10, <3>3, <4>1, <4>2
    <3>4. QED
      BY <3>1, <3>2, <3>3
  <2>3. QED
    BY <1>1, <1>7, <2>2 DEF Below
<1>17. QED
  BY <1>5, <1>8, <1>9, <1>11, <1>15, <1>16 DEF OrderInv

\* A published version is known by its commit timestamp, which is later than
\* the timestamps the key was known by.
LEMMA PublishOrder ==
  ASSUME OrderInv, NEW t \in Thread, Publish(t)
  PROVE  /\ OrderInv'
         /\ WritesForward
         /\ RtsAbove(t) => VisibleGrows /\ RtsAbove(t)'
         /\ \A u \in Thread : u # t => Same(u) /\ (RtsAbove(u) => RtsAbove(u)')
<1>0. PICK k \in Key : k = Smallest(todo[t]) /\ k \in todo[t]
  BY ThreadTypes DEF Publish, OrderInv, Inv, Bookkeeping
<1> DEFINE ts == [lock |-> FALSE, wts |-> cts[t], delta |-> 0]
<1>1. /\ pc \in [Thread -> Label] /\ todo \in [Thread -> SUBSET Key] /\ CacheTypeOK
      /\ pc[t] = "publish" /\ todo[t] # {}
      /\ pc' = [pc EXCEPT ![t] = "install"] /\ todo' = [todo EXCEPT ![t] = @ \ {k}]
      /\ cell' = [cell EXCEPT ![k] = ts]
      /\ UNCHANGED <<cached, refs, sketch, hist, db, back, count, calls, order, ent, cts, v1>>
  BY <1>0, ThreadTypes DEF Publish, Goto, txnVars, OrderInv, Inv, TypeOK, Bookkeeping
<1>2. k \in Key /\ k \in todo[t] /\ k \in Stamped(t) /\ k \in LockSet(t) /\ ent[t][k].held
  <2>1. k \in Stamped(t)
    BY <1>0, <1>1 DEF Stamped
  <2>2. QED
    BY <1>0, <2>1, StampedLocked DEF OrderInv
<1>3. k \in cached /\ Visible(k) = cell[k] /\ cell[k].wts < cts[t]
  BY <1>2 DEF Visible, OrderInv, Inv, RefsCountHolders, CtsAbove
<1>4. PICK c \in hist : c.id = Id(t) /\ c.cts = cts[t]
  BY <1>1 DEF OrderInv, Recorded
<1>5. Inv'
  BY PublishStep, CacheAssumption DEF OrderInv
<1>6. /\ pc'[t] = "install" /\ todo'[t] = todo[t] \ {k}
      /\ \A u \in Thread : u # t => Same(u) /\ pc'[u] = pc[u]
  BY <1>1 DEF Same
<1>7. \A u \in Thread : Id(u)' = Id(u)
  BY <1>1 DEF Id
<1>8. /\ \A j \in Key : cell[j].wts \in Nat /\ Rts(cell[j]) \in Nat
      /\ cts[t] \in Nat /\ \A h \in hist : h.cts \in Nat
  BY OrderTypes DEF OrderInv
<1>9. ts.wts = cts[t] /\ Rts(ts) = cts[t]
  BY <1>8 DEF Rts
<1> HIDE DEF ts
<1>10. cell'[k] = ts /\ \A j \in Key : j # k => cell'[j] = cell[j]
  BY <1>1, <1>2 DEF CacheTypeOK
<1>11. \A u \in Thread : k \notin Stamped(u)' /\ Stamped(u)' \subseteq Stamped(u)
  <2>1. ASSUME NEW u \in Thread, u # t PROVE k \notin Stamped(u)' /\ Stamped(u)' = Stamped(u)
    <3>1. k \notin Stamped(u)
      BY <1>2, <2>1, StampedLocked DEF OrderInv, Inv, LockOwnership
    <3>2. QED
      BY <1>6, <2>1, <3>1, SameStamped
  <2>2. Stamped(t)' = todo[t] \ {k} /\ Stamped(t) = todo[t]
    BY <1>1, <1>6 DEF Stamped
  <2>3. QED
    BY <2>1, <2>2
<1>12. \A u \in Thread : \A j \in Stamped(u)' : cell'[j] = cell[j]
  BY <1>10, <1>11, StampedLocked DEF OrderInv
<1>13. \A u \in Thread : CtsAbove(u)' /\ (RtsAbove(u) => RtsAbove(u)')
  BY <1>1, <1>11, <1>12 DEF OrderInv, CtsAbove, RtsAbove
<1>14. \A u \in Thread : Recorded(u)'
  BY <1>1, <1>6, <1>7 DEF OrderInv, Recorded
<1>15. Counted' /\ Unique' /\ Stored' /\ InOrder'
  <2>1. \A u \in Thread : pc[u] \in Over => pc'[u] \in Over
    BY <1>6 DEF Over
  <2>2. \A h \in hist : h.id[1] \in Thread
    BY OrderTypes DEF OrderInv
  <2>3. Counted'
    BY <1>1, <2>1, <2>2 DEF OrderInv, Counted
  <2>4. QED
    BY <1>1, <2>3 DEF OrderInv, Unique, Stored, InOrder
<1>16. Visible(k)' = ts /\ \A j \in Key : j # k => Visible(j)' = Visible(j)
  <2>1. cached' = cached /\ \A j \in Key : SketchGet(j)' = SketchGet(j)
    BY <1>1 DEF SketchGet
  <2>2. Visible(k)' = ts
    BY <1>3, <1>10, <2>1 DEF Visible
  <2>3. ASSUME NEW j \in Key, j # k PROVE Visible(j)' = Visible(j)
    BY <1>10, <2>1, <2>3 DEF Visible
  <2>4. QED
    BY <2>2, <2>3
<1>17. Below'
  <2>1. ASSUME NEW j \in Key, NEW i \in DOMAIN db[j], NEW h \in hist, h.id = db[j][i]
        PROVE  \/ h.cts <= Visible(j)'.wts
               \/ i = Len(db[j]) /\ \E u \in Thread : Publishing(u, j)' /\ h.id = Id(u)
    <3>1. CASE j # k
      <4>1. \A u \in Thread : Publishing(u, j) => u # t
        BY <1>0, <3>1 DEF Publishing
      <4>2. \A u \in Thread : Publishing(u, j) => Publishing(u, j)'
        BY <1>6, <4>1, SameStamped
      <4>3. \/ h.cts <= Visible(j).wts
            \/ i = Len(db[j]) /\ \E u \in Thread : Publishing(u, j) /\ h.id = Id(u)
        BY <2>1 DEF OrderInv, Below
      <4>4. Visible(j)' = Visible(j)
        BY <1>16, <3>1
      <4>5. QED
        BY <4>2, <4>3, <4>4
    <3>2. CASE j = k
      <4>1. h.cts <= cell[k].wts \/ h.id = Id(t)
        <5>1. \A u \in Thread : Publishing(u, k) => u = t
          BY <1>2, OnePublisher DEF OrderInv
        <5>2. QED
          BY <1>3, <2>1, <3>2, <5>1 DEF OrderInv, Below
      <4>2. h.id = Id(t) => h.cts = cts[t]
        BY <1>4 DEF OrderInv, Unique
      <4>3. QED
        BY <1>2, <1>3, <1>8, <1>9, <1>16, <3>2, <4>1, <4>2
    <3>3. QED
      BY <3>1, <3>2
  <2>2. QED
    BY <1>1, <1>7, <2>1 DEF Below
<1>18. OrderInv'
  BY <1>5, <1>13, <1>14, <1>15, <1>17 DEF OrderInv
<1>19. ASSUME RtsAbove(t) PROVE VisibleGrows
  <2>1. Rts(cell[k]) <= cts[t]
    BY <1>2, <1>19 DEF RtsAbove
  <2>2. ts.wts >= cell[k].wts /\ Rts(ts) >= Rts(cell[k])
    BY <1>2, <1>3, <1>8, <1>9, <2>1
  <2>3. cached' = cached /\ sketch' = sketch /\ Inv
    BY <1>1 DEF OrderInv
  <2>4. QED
    BY <1>1, <1>3, <2>2, <2>3, CellGrows
<1>20. WritesForward
  <2>1. \A j \in Key : Visible(j).wts \in Nat
    BY OrderTypes DEF OrderInv
  <2>2. QED
    BY <1>3, <1>8, <1>9, <1>16, <2>1 DEF WritesForward
<1>21. QED
  BY <1>6, <1>13, <1>18, <1>19, <1>20

\* Nothing has committed and nothing is stored at the start.
LEMMA InitOrder ==
  ASSUME CacheAssumption, TicTocAssumption, Init
  PROVE  OrderInv /\ \A t \in Thread : RtsAbove(t)
<1>1. /\ pc = [t \in Thread |-> "idle"] /\ db = [k \in Key |-> <<>>] /\ hist = {}
  BY DEF Init
<1>2. \A t \in Thread : Stamped(t) = {} /\ Recorded(t)
  BY <1>1 DEF Stamped, Recorded
<1>3. \A k \in Key : DOMAIN db[k] = {}
  BY <1>1
<1>4. QED
  BY <1>1, <1>2, <1>3, InitInv
     DEF OrderInv, CtsAbove, RtsAbove, Counted, Unique, Stored, Below, InOrder

\* Every step but three is quiet.
LEMMA StepCases ==
  ASSUME OrderInv, NEW t \in Thread, Begin(t) \/ Step(t) \/ Abort(t)
  PROVE  Quiet(t) \/ ValidateDone(t) \/ Install(t) \/ Publish(t)
<1>1. CASE Calls(t)
  BY <1>1, IdleQuiet, PinningQuiet, ForgettingQuiet DEF Calls
<1>2. CASE Locking(t)
  BY <1>2, IdleQuiet, PinningQuiet, LockBitQuiet DEF Locking
<1>3. CASE Deciding(t)
  BY <1>3, DecidingQuiet, ValidateCasQuiet DEF Deciding
<1>4. CASE Ending(t)
  BY <1>4, IdleQuiet, LockBitQuiet, ForgettingQuiet DEF Ending
<1>5. CASE Begin(t) \/ Abort(t)
  BY <1>5, IdleQuiet
<1>6. QED
  BY <1>1, <1>2, <1>3, <1>4, <1>5 DEF Step

\* A step that changes nothing.
LEMMA StutterOrder ==
  ASSUME OrderInv, Inv', UNCHANGED vars
  PROVE  OrderInv' /\ VisibleGrows /\ \A t \in Thread : Same(t)
<1>1. UNCHANGED <<cell, cached, refs, sketch, db, pc, back, count, calls, order,
                  ent, todo, cts, v1, hist>>
  BY DEF vars, cacheVars, txnVars, commitVars
<1>2. \A t \in Thread : Same(t) /\ pc'[t] = pc[t]
  BY <1>1 DEF Same
<1>3. \A t \in Thread : /\ Stamped(t)' = Stamped(t) /\ Id(t)' = Id(t)
                        /\ \A k \in Key : Publishing(t, k)' = Publishing(t, k)
  BY <1>2, SameStamped
<1>4. \A k \in Key : Visible(k)' = Visible(k)
  BY <1>1 DEF Visible, SketchGet
<1>5. \A t \in Thread : CtsAbove(t)' /\ Recorded(t)'
  BY <1>1, <1>3 DEF OrderInv, CtsAbove, Recorded
<1>6. Counted' /\ Unique' /\ Stored' /\ InOrder'
  BY <1>1 DEF OrderInv, Counted, Unique, Stored, InOrder
<1>7. Below'
  <2>1. ASSUME NEW k \in Key, NEW i \in DOMAIN db[k], NEW h \in hist, h.id = db[k][i]
        PROVE  \/ h.cts <= Visible(k)'.wts
               \/ i = Len(db[k]) /\ \E u \in Thread : Publishing(u, k)' /\ h.id = Id(u)'
    BY <1>3, <1>4, <2>1 DEF OrderInv, Below
  <2>2. QED
    BY <1>1, <2>1 DEF Below
<1>8. QED
  BY <1>1, <1>2, <1>5, <1>6, <1>7, StillGrows DEF OrderInv

\* Every step preserves the invariant.
LEMMA NextOrder ==
  ASSUME CacheAssumption, TicTocAssumption, OrderInv, [Next]_vars
  PROVE  OrderInv'
<1>1. Inv'
  BY NextInv DEF OrderInv
<1>2. CASE UNCHANGED vars
  BY <1>1, <1>2, StutterOrder
<1>3. ASSUME NEW t \in Thread, Begin(t) \/ Step(t) \/ Abort(t)
      PROVE  OrderInv'
  BY <1>1, <1>3, StepCases, QuietOrder, ValidateDoneOrder, InstallOrder, PublishOrder
<1>4. QED
  BY <1>2, <1>3 DEF Next, Finished

\* The writes of a key reach SplinterDB in the order of the commit timestamps
\* of the transactions that made them.
THEOREM VersionsOrdered == Spec => []VersionsInCommitOrder
<1>1. Init => OrderInv
  BY InitOrder, CacheAssumption, TicTocAssumption
<1>2. OrderInv /\ [Next]_vars => OrderInv'
  BY NextOrder, CacheAssumption, TicTocAssumption
<1>3. OrderInv => VersionsInCommitOrder
  <2>1. SUFFICES ASSUME OrderInv, NEW k \in Key, NEW i \in DOMAIN db[k], NEW j \in DOMAIN db[k], i < j
                 PROVE  Iso!TsOf(db[k][i]) < Iso!TsOf(db[k][j])
    BY DEF VersionsInCommitOrder, Iso!InCommitOrder
  <2> DEFINE g == CHOOSE h \in hist : h.id = db[k][i]
             f == CHOOSE h \in hist : h.id = db[k][j]
  <2>2. g \in hist /\ g.id = db[k][i] /\ f \in hist /\ f.id = db[k][j]
    BY <2>1 DEF OrderInv, Stored
  <2>3. Iso!TsOf(db[k][i]) = g.cts /\ Iso!TsOf(db[k][j]) = f.cts
    BY DEF Iso!TsOf
  <2> HIDE DEF g, f
  <2>4. QED
    BY <2>1, <2>2, <2>3 DEF OrderInv, InOrder
<1>4. QED
  BY <1>1, <1>2, <1>3, PTL DEF Spec

\* No step of any transaction, eviction or removal lets it go back.
THEOREM WriteTimestampsForward == Spec => [][WritesForward]_vars
<1>1. Init => OrderInv
  BY InitOrder, CacheAssumption, TicTocAssumption
<1>2. OrderInv /\ [Next]_vars => OrderInv'
  BY NextOrder, CacheAssumption, TicTocAssumption
<1>3. OrderInv /\ [Next]_vars => [WritesForward]_vars
  <2>1. ASSUME OrderInv, NEW t \in Thread, Begin(t) \/ Step(t) \/ Abort(t)
        PROVE  WritesForward
    <3>1. CASE Quiet(t)
      BY <3>1 DEF Quiet, VisibleGrows, WritesForward
    <3>2. CASE ValidateDone(t) \/ Install(t)
      <4>1. UNCHANGED <<cell, cached, sketch>>
        BY <3>2 DEF ValidateDone, Install, cacheVars
      <4>2. QED
        BY <2>1, <4>1, StillGrows DEF OrderInv, VisibleGrows, WritesForward
    <3>3. CASE Publish(t)
      BY <2>1, <3>3, PublishOrder
    <3>4. QED
      BY <2>1, <3>1, <3>2, <3>3, StepCases
  <2>2. QED
    BY <2>1 DEF Next, Finished
<1>4. QED
  BY <1>1, <1>2, <1>3, PTL DEF Spec

\* A validation that leaves the keys others have stamped alone moves no read
\* timestamp beyond the commit timestamp of one who is about to publish.
LEMMA OwnSwapsAbove ==
  ASSUME OrderInv, OwnSwaps, NEW t \in Thread, Quiet(t), NEW u \in Thread, RtsAbove(u)
  PROVE  RtsAbove(u)'
<1>1. CASE u = t
  BY <1>1 DEF Quiet
<1>2. CASE u # t
  <2>1. Same(u) /\ Stamped(u)' = Stamped(u) /\ cts'[u] = cts[u]
    BY <1>2, SameStamped DEF Quiet, Same
  <2>2. ASSUME NEW k \in Stamped(u) PROVE Rts(cell'[k]) = Rts(cell[k])
    <3>1. k \in Key /\ ent[u][k].held
      BY StampedLocked DEF OrderInv
    <3>2. ~Swaps(t, k)
      BY <1>2, <3>1 DEF OwnSwaps
    <3>3. QED
      BY <1>2, <3>1, <3>2 DEF Quiet
  <2>3. QED
    BY <2>1, <2>2 DEF RtsAbove
<1>3. QED
  BY <1>1, <1>2

ForwardInv == OrderInv /\ \A t \in Thread : RtsAbove(t)

\* Every step preserves that, and moves no timestamp back.
LEMMA NextForward ==
  ASSUME CacheAssumption, TicTocAssumption, ForwardInv, [Next]_vars, [OwnSwaps]_vars
  PROVE  ForwardInv' /\ VisibleGrows
<1>1. OrderInv'
  BY NextOrder DEF ForwardInv
<1>2. CASE UNCHANGED vars
  <2>1. VisibleGrows /\ cell' = cell /\ cts' = cts /\ \A t \in Thread : Same(t)
    BY <1>1, <1>2, StutterOrder DEF ForwardInv, OrderInv, vars, cacheVars, commitVars
  <2>2. \A t \in Thread : RtsAbove(t)'
    BY <2>1, SameStamped DEF ForwardInv, RtsAbove
  <2>3. QED
    BY <1>1, <2>1, <2>2 DEF ForwardInv
<1>3. ASSUME OwnSwaps, NEW t \in Thread, Begin(t) \/ Step(t) \/ Abort(t)
      PROVE  ForwardInv' /\ VisibleGrows
  <2>1. CASE Quiet(t)
    BY <1>1, <1>3, <2>1, OwnSwapsAbove DEF ForwardInv, Quiet
  <2>2. CASE ValidateDone(t) \/ Install(t)
    <3>1. UNCHANGED <<cell, cached, sketch, cts>>
      BY <2>2 DEF ValidateDone, Install, cacheVars, commitVars
    <3>2. ASSUME NEW u \in Thread PROVE Stamped(u)' = Stamped(u)
      <4>1. CASE u = t
        BY <2>2, <3>2, <4>1 DEF ValidateDone, Install, Goto, Stamped, WriteSet, txnVars, commitVars,
           ForwardInv, OrderInv, Inv, TypeOK
      <4>2. CASE u # t
        BY <2>2, <3>2, <4>2, SameStamped DEF ValidateDone, Install, Goto, Same, txnVars, commitVars,
           ForwardInv, OrderInv, Inv, TypeOK
      <4>3. QED
        BY <4>1, <4>2
    <3>3. \A u \in Thread : RtsAbove(u)'
      BY <3>1, <3>2 DEF ForwardInv, RtsAbove
    <3>4. QED
      BY <1>1, <3>1, <3>3, StillGrows DEF ForwardInv, OrderInv
  <2>3. CASE Publish(t)
    BY <1>1, <2>3, PublishOrder DEF ForwardInv
  <2>4. QED
    BY <1>3, <2>1, <2>2, <2>3, StepCases DEF ForwardInv
<1>4. CASE Next /\ OwnSwaps
  BY <1>2, <1>3, <1>4 DEF Next, Finished
<1>5. QED
  BY <1>2, <1>4

\* As long as no validation swaps the timestamps of a key that another has
\* stamped, neither timestamp a key is known by ever goes back.
THEOREM ForwardWithOwnSwaps == Spec /\ [][OwnSwaps]_vars => TimestampsForward
<1>1. Init => ForwardInv
  BY InitOrder, CacheAssumption, TicTocAssumption DEF ForwardInv
<1>2. ForwardInv /\ [Next]_vars /\ [OwnSwaps]_vars => ForwardInv'
  BY NextForward, CacheAssumption, TicTocAssumption
<1>3. ForwardInv /\ [Next]_vars /\ [OwnSwaps]_vars =>
        [\A k \in Key : /\ Visible(k)'.wts >= Visible(k).wts
                        /\ Rts(Visible(k))' >= Rts(Visible(k))]_vars
  BY NextForward, CacheAssumption, TicTocAssumption DEF VisibleGrows
<1>4. QED
  BY <1>1, <1>2, <1>3, PTL DEF Spec, TimestampsForward


-----------------------------------------------------------------------------
(* Isolation: what an unlocked lookup returned is what its recorded        *)
(* timestamps promise, it is valid at the commit timestamp, and what       *)
(* committed has a serial order.  A read is current up to a timestamp: the *)
(* key's rts is no earlier, and whoever has overwritten the key or is      *)
(* about to has a later commit timestamp.  That stays so once it is so,    *)
(* and a lookup, a validation and a commit each establish it for the       *)
(* timestamp they are about.                                               *)

\* The reads that were delivered from an unlocked tuple.
Clear(R) == {r \in R : ~r.locked}

\* Version v of a key was stored, no later than w.
Written(k, v, w) == /\ v \in 0 .. Len(db[k])
                    /\ \A h \in hist : v > 0 /\ h.id = db[k][v] => h.cts <= w

\* The key is known to be read at c: a commit that is about to overwrite it is
\* later, those of X aside.
Ahead(k, c, X) == /\ c <= Rts(Visible(k))
                  /\ \A u \in Thread : k \in Stamped(u) /\ Id(u) \notin X => c < cts[u]

\* The versions after v are later than c, those of X aside.
Later(k, v, c, X) == \A j \in v + 1 .. Len(db[k]) : \A h \in hist :
                       h.id = db[k][j] /\ h.id \notin X => c < h.cts

\* Version v of a key is its version up to c.
Current(k, v, c, X) == Ahead(k, c, X) /\ Later(k, v, c, X)

\* The labels of a commit whose validation is under way, and all until its end.
Validating == {"validate", "validate_bit", "validate_cas"}
Committing == {"lock", "lock_cas", "backoff", "stamp"} \cup Validating

\* The reads that a validation has found to be valid.
Sure(t) == IF pc[t] \in Validating THEN ReadSet(t) \ todo[t] ELSE {}

\* What a thread has read is current up to the rts recorded with it, and up to
\* its commit_ts once that has been validated.
KnownRead(t, r) ==
  LET e == ent[t][r.key] IN
    /\ e.rd /\ e.wts <= e.rts
    /\ Written(r.key, r.ver, e.wts)
    /\ Current(r.key, r.ver, e.rts, {})
    /\ r.key \in Sure(t) => Current(r.key, r.ver, cts[t], {Id(t)})
KnownReads(t) == \A r \in Clear(reads[t]) : KnownRead(t, r)

\* What a lookup that loaded an unlocked tuple is about to record.
Looking == {"load", "read", "confirm"}
KnownLookup(t) ==
  /\ Phase(t) \in Looking => ent[t][CallKey(t)].rd
  /\ ~v1[t].lock =>
       /\ pc[t] \in {"read", "confirm"} => Ahead(CallKey(t), Rts(v1[t]), {})
       /\ pc[t] = "confirm" /\ got[t] # Own =>
            got[t] \in 0 .. Len(db[CallKey(t)]) /\ Later(CallKey(t), got[t], Rts(v1[t]), {})

\* A commit is later than what it read was written, and extends what it read.
KnownCommit(t) ==
  /\ Phase(t) \in Committing => \A k \in ReadSet(t) : ent[t][k].wts <= cts[t]
  /\ pc[t] = "validate_cas" => ent[t][First(t, todo[t])].wts = v1[t].wts

Known(t) == KnownReads(t) /\ KnownLookup(t) /\ KnownCommit(t)

\* What a committed transaction has read is current at its commit_ts.
Kept == \A h \in hist : \A r \in Clear(h.reads) :
          /\ Written(r.key, r.ver, h.cts)
          /\ Current(r.key, r.ver, h.cts, {h.id})

\* b has read a write of a, or one that came after it; nothing goes in a circle.
ReadFrom(a, b) == \E r \in Clear(b.reads) : \E i \in DOMAIN db[r.key] :
                    i <= r.ver /\ db[r.key][i] = a.id
NoReadCycle == ~\E S \in SUBSET hist : S # {} /\ \A a \in S : \E b \in S \ {a} : ReadFrom(a, b)

SerialInv ==
  /\ ForwardInv
  /\ \A t \in Thread : Known(t)
  /\ Kept /\ NoReadCycle /\ IsFiniteSet(hist)

\* A lookup in progress is the first of its key that leaves a read.
LooksUpOnce == \A t \in Thread : Phase(t) \in Looking =>
                 \A r \in Clear(reads[t]) : r.key # CallKey(t)

\* What every step does to the versions and to the commits under way.
Advance ==
  /\ \A k \in Key : /\ Len(db[k]) <= Len(db'[k])
                    /\ \A i \in DOMAIN db[k] : db'[k][i] = db[k][i]
  /\ \A k \in Key : \A j \in DOMAIN db'[k] : \A h \in hist' : h.id = db'[k][j] =>
       \/ j \in DOMAIN db[k] /\ h \in hist
       \/ \E u \in Thread : k \in Stamped(u) /\ h.cts = cts[u] /\ h.id = Id(u)
  /\ \A u \in Thread : \A k \in Stamped(u)' :
       \/ k \in Stamped(u) /\ cts[u] <= cts'[u] /\ Id(u)' = Id(u)
       \/ Rts(Visible(k)) < cts'[u]

\* A step is of one thread.
Others(t) == \A u \in Thread : u # t => /\ Same(u) /\ reads'[u] = reads[u]
                                        /\ got'[u] = got[u]

-----------------------------------------------------------------------------
(* What is current stays so.                                               *)

LEMMA ReadTypes ==
  ASSUME Inv
  PROVE  /\ \A h \in hist : \A r \in h.reads : r.key \in Key
         /\ \A t \in Thread : \A r \in reads[t] : r.key \in Key
         /\ \A t \in Thread, k \in Key : ent[t][k].wts \in Nat /\ ent[t][k].rts \in Nat
         /\ \A t \in Thread : Rts(v1[t]) \in Nat /\ v1[t].wts \in Nat /\ v1[t].wts <= Rts(v1[t])
         /\ \A t \in Thread : Stamped(t) \subseteq Key
<1>1. /\ \A h \in hist : h.reads \in SUBSET Read
      /\ \A t \in Thread : /\ reads[t] \in SUBSET Read /\ v1[t] \in TimestampSet
                           /\ ent[t] \in [Key -> Entry]
  BY DEF Inv, TypeOK, Commit
<1>2. \A t \in Thread : Stamped(t) \subseteq Key
  BY StampedLocked
<1>3. QED
  BY <1>1, <1>2, RtsType DEF Read, Entry

LEMMA AheadStays ==
  ASSUME Inv, Inv', Advance, VisibleGrows, NEW k \in Key, NEW c \in Nat, NEW X, Ahead(k, c, X)
  PROVE  Ahead(k, c, X)'
<1>1. CellsTyped /\ CellsTyped'
  BY CellsType, PTL
<1>2. c <= Rts(Visible(k))'
  BY <1>1 DEF CellsTyped, VisibleGrows, Ahead
<1>3. ASSUME NEW u \in Thread, k \in Stamped(u)', Id(u)' \notin X PROVE c < cts'[u]
  <2>1. cts[u] \in Nat /\ cts'[u] \in Nat
    BY DEF Inv, TypeOK
  <2>2. CASE k \in Stamped(u) /\ cts[u] <= cts'[u] /\ Id(u)' = Id(u)
    BY <1>3, <2>1, <2>2 DEF Ahead
  <2>3. CASE Rts(Visible(k)) < cts'[u]
    BY <1>1, <2>1, <2>3 DEF Ahead, CellsTyped
  <2>4. QED
    BY <1>3, <2>2, <2>3 DEF Advance
<1>4. QED
  BY <1>2, <1>3 DEF Ahead

LEMMA LaterStays ==
  ASSUME Inv, Inv', Advance, NEW k \in Key, NEW v \in Nat, NEW c \in Nat, NEW X,
         Ahead(k, c, X), Later(k, v, c, X)
  PROVE  Later(k, v, c, X)'
<1>1. ASSUME NEW j \in v + 1 .. Len(db'[k]), NEW h \in hist', h.id = db'[k][j], h.id \notin X
      PROVE  c < h.cts
  <2>1. db[k] \in Seq(Txn) /\ db'[k] \in Seq(Txn)
    BY DEF Inv, TypeOK
  <2>2. j \in DOMAIN db'[k] /\ (j \in DOMAIN db[k] => j \in v + 1 .. Len(db[k]))
    BY <2>1
  <2>3. CASE j \in DOMAIN db[k] /\ h \in hist
    BY <1>1, <2>2, <2>3 DEF Later, Advance
  <2>4. CASE \E u \in Thread : k \in Stamped(u) /\ h.cts = cts[u] /\ h.id = Id(u)
    BY <1>1, <2>4 DEF Ahead
  <2>5. QED
    BY <1>1, <2>2, <2>3, <2>4 DEF Advance
<1>2. QED
  BY <1>1 DEF Later

LEMMA CurrentStays ==
  ASSUME Inv, Inv', Advance, VisibleGrows, NEW k \in Key, NEW v \in Nat, NEW c \in Nat, NEW X,
         Current(k, v, c, X)
  PROVE  Current(k, v, c, X)'
<1>1. Ahead(k, c, X)' /\ Later(k, v, c, X)'
  BY AheadStays, LaterStays DEF Current
<1>2. QED
  BY <1>1 DEF Current

LEMMA WrittenStays ==
  ASSUME OrderInv, OrderInv', Advance, hist \subseteq hist',
         NEW k \in Key, NEW v \in Nat, NEW w \in Nat, Written(k, v, w)
  PROVE  Written(k, v, w)'
<1>1. db[k] \in Seq(Txn) /\ db'[k] \in Seq(Txn) /\ Len(db[k]) <= Len(db'[k])
  BY DEF OrderInv, Inv, TypeOK, Advance
<1>2. v \in 0 .. Len(db'[k])
  BY <1>1 DEF Written
<1>3. ASSUME NEW h \in hist', v > 0, h.id = db'[k][v] PROVE h.cts <= w
  <2>1. v \in DOMAIN db[k]
    BY <1>1, <1>3 DEF Written
  <2>2. db'[k][v] = db[k][v]
    BY <2>1 DEF Advance
  <2>3. PICK g \in hist : g.id = db[k][v]
    BY <2>1 DEF OrderInv, Stored
  <2>4. g = h
    BY <1>3, <2>2, <2>3 DEF OrderInv, Unique
  <2>5. QED
    BY <1>3, <2>3, <2>4 DEF Written
<1>4. QED
  BY <1>2, <1>3 DEF Written

\* A later timestamp asks for more, and fewer exceptions do.
LEMMA CurrentEarlier ==
  ASSUME Inv, NEW k \in Key, NEW v \in Nat, NEW c \in Nat, NEW d \in Nat, NEW X,
         d <= c, Current(k, v, c, {})
  PROVE  Current(k, v, d, X)
<1>1. /\ Rts(Visible(k)) \in Nat /\ \A h \in hist : h.cts \in Nat
      /\ \A u \in Thread : cts[u] \in Nat
  BY OrderTypes
<1>2. Ahead(k, d, X) /\ Later(k, v, d, X)
  BY <1>1 DEF Current, Ahead, Later
<1>3. QED
  BY <1>2 DEF Current

LEMMA LaterWritten ==
  ASSUME Inv, NEW k \in Key, NEW v \in Nat, NEW w \in Nat, NEW x \in Nat,
         w <= x, Written(k, v, w)
  PROVE  Written(k, v, x)
<1>1. \A h \in hist : h.cts \in Nat
  BY OrderTypes
<1>2. QED
  BY <1>1 DEF Written

\* All versions of a key that no other has stamped are known by its wts.
LEMMA UnlockedKnown ==
  ASSUME OrderInv, NEW k \in Key, NEW t \in Thread, ent[t][k].held,
         \A u \in Thread : u # t => k \notin Stamped(u), pc[t] # "publish"
  PROVE  /\ Visible(k) = cell[k]
         /\ \A j \in DOMAIN db[k] : \A h \in hist : h.id = db[k][j] => h.cts <= cell[k].wts
<1>1. Visible(k) = cell[k]
  BY DEF Visible, OrderInv, Inv, RefsCountHolders
<1>2. \A u \in Thread : ~Publishing(u, k)
  <2>1. ASSUME NEW u \in Thread, Publishing(u, k) PROVE FALSE
    <3>1. pc[u] = "publish" /\ todo[u] # {} /\ Smallest(todo[u]) \in todo[u]
      BY <2>1, ThreadTypes DEF Publishing, OrderInv, Bookkeeping
    <3>2. k \in Stamped(u)
      BY <2>1, <3>1 DEF Stamped, Publishing
    <3>3. QED
      BY <3>1, <3>2
  <2>2. QED
    BY <2>1
<1>3. QED
  BY <1>1, <1>2 DEF OrderInv, Below

\* What a thread knows of a read stays true when its record is left alone.
LEMMA ReadStaysKnown ==
  ASSUME OrderInv, OrderInv', Advance, VisibleGrows, hist \subseteq hist', NEW t \in Thread,
         NEW r \in reads[t], KnownRead(t, r),
         ent'[t][r.key].rd = ent[t][r.key].rd, ent'[t][r.key].wts = ent[t][r.key].wts,
         ent'[t][r.key].rts = ent[t][r.key].rts, r.key \in Sure(t)' =>
           r.key \in Sure(t) /\ cts'[t] = cts[t] /\ Id(t)' = Id(t)
  PROVE  KnownRead(t, r)'
<1>1. Inv /\ Inv'
  BY DEF OrderInv
<1>2. PICK k \in Key, v \in Nat : k = r.key /\ v = r.ver
  <2>1. r.key \in Key /\ db[r.key] \in Seq(Txn)
    BY <1>1, ReadTypes DEF Inv, TypeOK
  <2>2. r.ver \in Nat
    BY <2>1 DEF KnownRead, Written
  <2>3. QED
    BY <2>1, <2>2
<1>3. PICK w \in Nat, c \in Nat, d \in Nat : w = ent[t][k].wts /\ c = ent[t][k].rts /\ d = cts[t]
  BY <1>1, ReadTypes, OrderTypes
<1>4. PICK X : X = {Id(t)}
  OBVIOUS
<1>5. /\ Written(k, v, w) /\ w <= c /\ Current(k, v, c, {})
      /\ k \in Sure(t) => Current(k, v, d, X)
      /\ ent[t][k].rd
  BY <1>2, <1>3, <1>4 DEF KnownRead
<1>6. /\ Written(k, v, w)' /\ Current(k, v, c, {})'
      /\ k \in Sure(t) => Current(k, v, d, X)'
  BY <1>1, <1>5, WrittenStays, CurrentStays
<1>7. /\ w = ent'[t][k].wts /\ c = ent'[t][k].rts /\ ent'[t][k].rd
      /\ k \in Sure(t)' => k \in Sure(t) /\ d = cts'[t] /\ X = {Id(t)'}
  BY <1>2, <1>3, <1>4, <1>5
<1>8. QED
  BY <1>2, <1>5, <1>6, <1>7 DEF KnownRead, Written, Current, Ahead, Later

\* What a lookup in progress knows stays true through the steps of others.
LEMMA LookupStaysKnown ==
  ASSUME Inv, Inv', Advance, VisibleGrows, NEW t \in Thread, KnownLookup(t),
         Same(t), got'[t] = got[t]
  PROVE  KnownLookup(t)'
<1>0. /\ pc'[t] = pc[t] /\ v1'[t] = v1[t] /\ calls'[t] = calls[t] /\ ent'[t] = ent[t]
      /\ Phase(t)' \in Looking => ent'[t][CallKey(t)'].rd
  BY DEF Same, Phase, KnownLookup, CallKey
<1>1. SUFFICES ASSUME ~v1[t].lock, pc[t] \in {"read", "confirm"}
               PROVE  KnownLookup(t)'
  BY <1>0 DEF KnownLookup
<1>2. PICK k \in Key, c \in Nat : k = CallKey(t) /\ c = Rts(v1[t])
  <2>1. calls[t] # <<>>
    BY <1>1, ThreadTypes DEF Bookkeeping, Phase
  <2>2. QED
    BY <2>1, ThreadTypes, ReadTypes
<1>3. k = CallKey(t)' /\ c = Rts(v1[t])'
  BY <1>0, <1>2 DEF CallKey, Rts
<1>4. Ahead(k, c, {}) /\ Ahead(k, c, {})'
  BY <1>1, <1>2, AheadStays DEF KnownLookup
<1>5. ASSUME pc[t] = "confirm", got[t] # Own
      PROVE  got[t] \in 0 .. Len(db'[k]) /\ Later(k, got[t], c, {})'
  <2>1. got[t] \in 0 .. Len(db[k]) /\ Later(k, got[t], c, {})
    BY <1>1, <1>2, <1>5 DEF KnownLookup
  <2>2. Len(db[k]) \in Nat /\ Len(db'[k]) \in Nat /\ Len(db[k]) <= Len(db'[k])
    BY DEF Inv, TypeOK, Advance
  <2>3. PICK v \in Nat : v = got[t]
    BY <2>1, <2>2
  <2>4. Later(k, v, c, {})'
    BY <1>4, <2>1, <2>3, LaterStays
  <2>5. QED
    BY <2>1, <2>2, <2>3, <2>4 DEF Later
<1>6. QED
  BY <1>0, <1>1, <1>2, <1>3, <1>4, <1>5 DEF KnownLookup, Ahead, Later

\* What the other threads know stays true.
LEMMA OthersKnow ==
  ASSUME OrderInv, OrderInv', Advance, VisibleGrows, hist \subseteq hist',
         NEW t \in Thread, Others(t), NEW u \in Thread, u # t, Known(u)
  PROVE  Known(u)'
<1>1. Same(u) /\ reads'[u] = reads[u] /\ got'[u] = got[u] /\ Inv /\ Inv'
  BY DEF Others, OrderInv
<1>2. /\ Sure(u)' = Sure(u) /\ Id(u)' = Id(u) /\ Phase(u)' = Phase(u)
      /\ ReadSet(u)' = ReadSet(u) /\ First(u, todo[u])' = First(u, todo[u])
  BY <1>1 DEF Same, Sure, Id, Phase, ReadSet, First
<1>3. KnownReads(u)'
  <2>1. \A r \in Clear(reads[u]) : KnownRead(u, r)'
    BY <1>1, <1>2, ReadStaysKnown DEF Known, KnownReads, Clear, Same
  <2>2. QED
    BY <1>1, <2>1 DEF KnownReads, KnownRead, Written, Current, Ahead, Later
<1>4. KnownLookup(u)'
  BY <1>1, LookupStaysKnown DEF Known, Same
<1>5. KnownCommit(u)'
  BY <1>1, <1>2 DEF Known, KnownCommit, Same
<1>6. QED
  BY <1>3, <1>4, <1>5 DEF Known

\* What the committed transactions have read stays current.
LEMMA KeptStays ==
  ASSUME OrderInv, OrderInv', Advance, VisibleGrows, hist \subseteq hist', Kept,
         \A h \in hist' : h \in hist
           \/ \A r \in Clear(h.reads) : /\ Written(r.key, r.ver, h.cts)'
                                         /\ Current(r.key, r.ver, h.cts, {h.id})'
  PROVE  Kept'
<1>1. ASSUME NEW h \in hist, NEW r \in Clear(h.reads)
      PROVE  /\ Written(r.key, r.ver, h.cts)'
             /\ Current(r.key, r.ver, h.cts, {h.id})'
  <2>1. r.key \in Key /\ h.cts \in Nat /\ Written(r.key, r.ver, h.cts)
    BY <1>1, ReadTypes, OrderTypes DEF OrderInv, Kept, Clear
  <2>2. r.ver \in Nat
    BY <2>1 DEF Written, OrderInv, Inv, TypeOK
  <2>3. PICK k \in Key, v \in Nat, c \in Nat : k = r.key /\ v = r.ver /\ c = h.cts
    BY <2>1, <2>2
  <2>4. Written(k, v, c) /\ Current(k, v, c, {h.id})
    BY <1>1, <2>3 DEF Kept
  <2>5. Written(k, v, c)' /\ Current(k, v, c, {h.id})'
    BY <2>4, WrittenStays, CurrentStays DEF OrderInv
  <2>6. QED
    BY <2>3, <2>5 DEF Written, Current, Ahead, Later
<1>2. QED
  BY <1>1 DEF Kept, Written, Current, Ahead, Later

-----------------------------------------------------------------------------
(* What a step does to the versions and to the commits under way.          *)

\* What the four kinds of steps do not change.
LEMMA StepOthers ==
  ASSUME OrderInv, NEW t \in Thread, Begin(t) \/ Step(t) \/ Abort(t)
  PROVE  Others(t)
<1>1. /\ reads \in [Thread -> SUBSET Read] /\ got \in [Thread -> Nat \cup {Own, Nothing}]
      /\ pc \in [Thread -> Label] /\ todo \in [Thread -> SUBSET Key]
  BY DEF OrderInv, Inv, TypeOK
<1>2. \A u \in Thread : u # t => Same(u)
  <2>1. CASE Quiet(t)
    BY <2>1 DEF Quiet
  <2>2. CASE Publish(t)
    BY <2>2, PublishOrder
  <2>3. CASE ValidateDone(t) \/ Install(t)
    BY <1>1, <2>3 DEF ValidateDone, Install, Goto, Same, txnVars, commitVars
  <2>4. QED
    BY <2>1, <2>2, <2>3, StepCases
<1>3. \A u \in Thread : u # t => reads'[u] = reads[u] /\ got'[u] = got[u]
  <2>1. CASE Begin(t) \/ Abort(t)
    BY <2>1 DEF Begin, Abort, txnVars
  <2>2. CASE Calls(t)
    BY <1>1, <2>2 DEF Calls, LocalWrite, LookupPin, LookupLoad, LookupRead, LookupConfirm,
       CheckLoad, EvictOne, txnVars
  <2>3. CASE Locking(t)
    BY <2>3 DEF Locking, CommitBegin, LockPin, LockLoad, LockCas, BackOffUnlock, LockRetry,
       LockDone, txnVars
  <2>4. CASE Deciding(t)
    BY <2>4 DEF Deciding, Stamp, StampDone, ValidateLoad, ValidateBit, ValidateCas,
       ValidateDone, txnVars
  <2>5. CASE Ending(t)
    BY <1>1, <2>5 DEF Ending, Install, Publish, AbortUnlock, CommitEnd, Unpin, Finish, txnVars
  <2>6. QED
    BY <2>1, <2>2, <2>3, <2>4, <2>5 DEF Step
<1>4. QED
  BY <1>2, <1>3 DEF Others

\* A commit stamps a key beyond what the key is known to be read at.
LEMMA OwnStamps ==
  ASSUME OrderInv, NEW t \in Thread, Begin(t) \/ Step(t) \/ Abort(t)
  PROVE  \A k \in Stamped(t)' : \/ k \in Stamped(t) /\ cts[t] <= cts'[t] /\ Id(t)' = Id(t)
                               \/ Rts(Visible(k)) < cts'[t]
<1>1. /\ pc \in [Thread -> Label] /\ todo \in [Thread -> SUBSET Key]
      /\ cts \in [Thread -> Nat] /\ cts[t] \in Nat /\ Bookkeeping(t) /\ WriteSet(t) \subseteq Key
  BY ThreadTypes DEF OrderInv, Inv, TypeOK, WriteSet
<1>2. CASE Stamped(t)' = {}
  BY <1>2
<1>3. CASE Stamped(t)' \subseteq Stamped(t) /\ cts' = cts /\ count' = count
  BY <1>1, <1>3 DEF Id
<1>4. CASE Stamp(t)
  <2>1. PICK k \in Key : k = Smallest(todo[t]) /\ k \in todo[t]
    BY <1>4, ThreadTypes DEF Stamp, OrderInv
  <2>2. /\ pc[t] = "stamp" /\ pc' = pc /\ ent' = ent /\ count' = count
        /\ cts'[t] = Larger(cts[t], Rts(cell[k]) + 1) /\ todo'[t] = todo[t] \ {k}
    BY <1>1, <1>4, <2>1 DEF Stamp, txnVars
  <2>3. Stamped(t)' \subseteq Stamped(t) \cup {k}
    BY <2>2 DEF Stamped, WriteSet
  <2>4. Rts(cell[k]) \in Nat /\ (k \in WriteSet(t) => Visible(k) = cell[k])
    <3>1. k \in WriteSet(t) => k \in LockSet(t)
      BY <2>2 DEF LockSet, Phase
    <3>2. k \in LockSet(t) => k \in cached
      BY <1>1 DEF OrderInv, Inv, RefsCountHolders, Bookkeeping
    <3>3. QED
      BY <3>1, <3>2, OrderTypes DEF OrderInv, Visible
  <2>5. cts[t] <= cts'[t] /\ Rts(cell[k]) < cts'[t]
    BY <1>1, <2>2, <2>4 DEF Larger
  <2>6. k \in WriteSet(t)
    BY <1>1, <2>1, <2>2 DEF Bookkeeping
  <2>7. QED
    BY <2>2, <2>3, <2>4, <2>5, <2>6 DEF Id
<1>5. CASE StampDone(t) \/ ValidateLoad(t) \/ ValidateBit(t) \/ ValidateCas(t)
  <2>1. /\ cts' = cts /\ count' = count /\ ent' = ent
        /\ pc[t] \in {"stamp"} \cup Validating /\ (pc[t] = "stamp" => todo[t] = {})
        /\ pc'[t] \in Validating \cup {"unlock"}
    <3>1. CASE StampDone(t)
      BY <1>1, <3>1 DEF StampDone, Goto, txnVars, Validating
    <3>2. CASE ValidateLoad(t)
      BY <1>1, <3>2 DEF ValidateLoad, GiveUp, Goto, txnVars, Validating
    <3>3. CASE ValidateBit(t) \/ ValidateCas(t)
      BY <1>1, <3>3 DEF ValidateBit, ValidateCas, GiveUp, Goto, txnVars, Validating
    <3>4. QED
      BY <1>5, <3>1, <3>2, <3>3
  <2>2. Stamped(t) = WriteSet(t) /\ Stamped(t)' \subseteq WriteSet(t)
    BY <2>1 DEF Stamped, WriteSet, Validating
  <2>3. QED
    BY <1>3, <2>1, <2>2
<1>6. CASE ValidateDone(t) \/ Install(t) \/ Publish(t)
  <2>1. /\ cts' = cts /\ count' = count /\ ent' = ent
        /\ \/ pc[t] = "validate" /\ pc'[t] = "install" /\ todo'[t] = WriteSet(t)
           \/ /\ pc[t] \in {"install", "publish"} /\ pc'[t] \in {"install", "publish"}
              /\ todo'[t] \subseteq todo[t]
    <3>1. CASE ValidateDone(t)
      BY <1>1, <3>1 DEF ValidateDone, Goto, txnVars
    <3>2. CASE Install(t)
      BY <1>1, <3>2 DEF Install, Goto, txnVars, commitVars
    <3>3. CASE Publish(t)
      BY <1>1, <3>3 DEF Publish, Goto, txnVars
    <3>4. QED
      BY <1>6, <3>1, <3>2, <3>3
  <2>2. Stamped(t)' \subseteq Stamped(t)
    BY <2>1 DEF Stamped
  <2>3. QED
    BY <1>3, <2>1, <2>2
<1>7. CASE Begin(t) \/ Abort(t) \/ Calls(t)
  <2>1. pc'[t] \in {"run", "load", "read", "confirm", "check_load", "evict", "lock", "unpin"}
    <3>1. CASE Begin(t) \/ Abort(t)
      BY <1>1, <3>1 DEF Begin, Abort, Goto
    <3>2. CASE LocalWrite(t) \/ LookupPin(t)
      BY <1>1, <3>2 DEF LocalWrite, LookupPin, Calling, Pin, Goto
    <3>3. CASE LookupLoad(t) \/ LookupRead(t) \/ LookupConfirm(t)
      BY <1>1, <3>3 DEF LookupLoad, LookupRead, LookupConfirm, Goto
    <3>4. CASE CheckLoad(t) \/ EvictOne(t)
      BY <1>1, <3>4 DEF CheckLoad, EvictOne, Goto, Bookkeeping
    <3>5. QED
      BY <1>7, <3>1, <3>2, <3>3, <3>4 DEF Calls
  <2>2. QED
    BY <1>2, <2>1 DEF Stamped
<1>8. CASE Locking(t)
  <2>1. \/ pc'[t] \in {"lock", "lock_cas", "backoff", "check_load"}
        \/ pc'[t] = "stamp" /\ todo'[t] = WriteSet(t) /\ ent' = ent
    <3>1. CASE CommitBegin(t) \/ LockPin(t) \/ LockLoad(t) \/ LockCas(t)
      BY <1>1, <3>1 DEF CommitBegin, LockPin, Pin, LockLoad, LockCas, BackOff, Goto
    <3>2. CASE BackOffUnlock(t) \/ LockRetry(t) \/ LockDone(t)
      BY <1>1, <3>2 DEF BackOffUnlock, LockRetry, LockDone, Goto, txnVars
    <3>3. QED
      BY <1>8, <3>1, <3>2 DEF Locking
  <2>2. QED
    BY <1>2, <2>1 DEF Stamped, WriteSet
<1>9. CASE AbortUnlock(t) \/ CommitEnd(t) \/ Unpin(t) \/ Finish(t)
  <2>1. pc'[t] \in {"unlock", "unpin", "idle"}
    BY <1>1, <1>9 DEF AbortUnlock, CommitEnd, Unpin, Finish, Goto
  <2>2. QED
    BY <1>2, <2>1 DEF Stamped
<1>10. QED
  BY <1>4, <1>5, <1>6, <1>7, <1>8, <1>9 DEF Step, Deciding, Ending

\* What commits is new to the history and has stored nothing yet; what is stored
\* was stamped by the commit that stores it.
LEMMA StepAdvance ==
  ASSUME OrderInv, OrderInv', NEW t \in Thread, Begin(t) \/ Step(t) \/ Abort(t)
  PROVE  Advance /\ hist \subseteq hist'
<1>1. \A u \in Thread : \A k \in Stamped(u)' :
        \/ k \in Stamped(u) /\ cts[u] <= cts'[u] /\ Id(u)' = Id(u)
        \/ Rts(Visible(k)) < cts'[u]
  <2>1. ASSUME NEW u \in Thread, u # t, NEW k \in Stamped(u)'
        PROVE  k \in Stamped(u) /\ cts[u] <= cts'[u] /\ Id(u)' = Id(u)
    <3>1. Same(u) /\ cts[u] \in Nat
      BY <2>1, StepOthers, OrderTypes DEF Others, OrderInv
    <3>2. Stamped(u)' = Stamped(u) /\ Id(u)' = Id(u) /\ cts'[u] = cts[u]
      BY <3>1, SameStamped DEF Same
    <3>3. QED
      BY <2>1, <3>1, <3>2
  <2>2. QED
    BY <2>1, OwnStamps
<1>2. \A k \in Key : db[k] \in Seq(Txn) /\ Len(db[k]) \in Nat
  BY OrderTypes DEF OrderInv
<1>3. CASE db' = db /\ hist' = hist
  BY <1>1, <1>2, <1>3 DEF Advance
<1>4. CASE ValidateDone(t)
  <2>1. db' = db /\ hist' = hist \cup {[id |-> Id(t), cts |-> cts[t], reads |-> reads[t]]}
    BY <1>4 DEF ValidateDone
  <2>2. ASSUME NEW k \in Key, NEW j \in DOMAIN db[k], NEW h \in hist', h.id = db[k][j]
        PROVE  h \in hist
    <3>1. PICK g \in hist : g.id = db[k][j]
      BY DEF OrderInv, Stored
    <3>2. QED
      BY <2>1, <2>2, <3>1 DEF OrderInv, Unique
  <2>3. QED
    BY <1>1, <1>2, <2>1, <2>2 DEF Advance
<1>5. CASE Install(t)
  <2>1. PICK k \in Key : k = Smallest(todo[t]) /\ k \in todo[t]
    BY <1>5, ThreadTypes DEF Install, OrderInv
  <2>2. /\ pc[t] = "install" /\ hist' = hist
        /\ db' = [db EXCEPT ![k] = Append(@, Id(t))] /\ db \in [Key -> Seq(Txn)]
    BY <1>5, <2>1 DEF Install, OrderInv, Inv, TypeOK
  <2>3. /\ \A j \in Key : j # k => db'[j] = db[j]
        /\ db'[k] = Append(db[k], Id(t))
    BY <2>2
  <2>4. /\ Len(db'[k]) = Len(db[k]) + 1 /\ db'[k][Len(db[k]) + 1] = Id(t)
        /\ \A i \in DOMAIN db[k] : db'[k][i] = db[k][i]
        /\ \A i \in DOMAIN db'[k] : i \in DOMAIN db[k] \/ i = Len(db[k]) + 1
    BY <1>2, <2>3
  <2>5. k \in Stamped(t)
    BY <2>1, <2>2 DEF Stamped
  <2>6. \A h \in hist : h.id = Id(t) => h.cts = cts[t]
    BY <2>2 DEF OrderInv, Recorded, Unique
  <2>7. \A j \in Key : /\ Len(db[j]) <= Len(db'[j])
                       /\ \A i \in DOMAIN db[j] : db'[j][i] = db[j][i]
    BY <1>2, <2>3, <2>4
  <2>8. \A j \in Key : \A i \in DOMAIN db'[j] : \A h \in hist : h.id = db'[j][i] =>
          \/ i \in DOMAIN db[j] /\ h \in hist
          \/ \E u \in Thread : j \in Stamped(u) /\ h.cts = cts[u] /\ h.id = Id(u)
    BY <2>3, <2>4, <2>5, <2>6
  <2>9. QED
    BY <1>1, <2>2, <2>7, <2>8 DEF Advance
<1>6. CASE Publish(t)
  BY <1>3, <1>6 DEF Publish
<1>7. CASE Quiet(t)
  BY <1>3, <1>7 DEF Quiet
<1>8. QED
  BY <1>4, <1>5, <1>6, <1>7, StepCases

-----------------------------------------------------------------------------
(* What the thread of a step knows afterwards.                             *)

\* A step that records and validates no read.
LEMMA PlainKnow ==
  ASSUME OrderInv, OrderInv', Advance, VisibleGrows, hist \subseteq hist', NEW t \in Thread,
         Known(t), reads'[t] \subseteq reads[t],
         \A r \in reads'[t] : /\ ent'[t][r.key].rd = ent[t][r.key].rd
                              /\ ent'[t][r.key].wts = ent[t][r.key].wts
                              /\ ent'[t][r.key].rts = ent[t][r.key].rts,
         \A k \in Sure(t)' : k \in Sure(t) /\ cts'[t] = cts[t] /\ Id(t)' = Id(t),
         Phase(t)' \notin Looking, KnownCommit(t)'
  PROVE  Known(t)'
<1>1. \A r \in Clear(reads'[t]) : KnownRead(t, r)'
  BY ReadStaysKnown DEF Known, KnownReads, Clear
<1>2. KnownReads(t)'
  BY <1>1 DEF KnownReads, KnownRead, Written, Current, Ahead, Later
<1>3. KnownLookup(t)'
  BY DEF KnownLookup, Phase, Looking
<1>4. QED
  BY <1>2, <1>3 DEF Known

\* The calls before the commit, up to the load of a lookup.
LEMMA CallKnow ==
  ASSUME OrderInv, OrderInv', Advance, VisibleGrows, hist \subseteq hist', NEW t \in Thread,
         Known(t), Begin(t) \/ LocalWrite(t) \/ LookupPin(t) \/ CheckLoad(t) \/ EvictOne(t) \/ Abort(t)
  PROVE  Known(t)'
<1>1. /\ pc \in [Thread -> Label] /\ back \in [Thread -> {"idle", "load", "lock"}]
      /\ ent \in [Thread -> [Key -> Entry]] /\ reads \in [Thread -> SUBSET Read]
      /\ Bookkeeping(t)
  BY ThreadTypes DEF OrderInv, Inv, TypeOK
<1>2. reads' = reads /\ \A k \in Key : /\ ent'[t][k].wts = ent[t][k].wts
                                       /\ ent'[t][k].rts = ent[t][k].rts
                                       /\ ent[t][k].rd => ent'[t][k].rd = ent[t][k].rd
  <2>1. CASE Begin(t) \/ CheckLoad(t) \/ EvictOne(t) \/ Abort(t)
    BY <2>1 DEF Begin, CheckLoad, EvictOne, Abort, txnVars
  <2>2. CASE LocalWrite(t)
    <3>1. PICK j : reads' = reads /\ ent' = [ent EXCEPT ![t][j].wr = TRUE]
      BY <2>2 DEF LocalWrite
    <3>2. QED
      BY <1>1, <3>1 DEF Entry
  <2>3. CASE LookupPin(t)
    <3>1. PICK j : reads' = reads /\ ent' = [ent EXCEPT ![t][j].rd = TRUE, ![t][j].held = TRUE]
      BY <2>3 DEF LookupPin
    <3>2. ent'[t] = [ent[t] EXCEPT ![j].rd = TRUE, ![j].held = TRUE] /\ ent[t] \in [Key -> Entry]
      BY <1>1, <3>1
    <3>3. ASSUME NEW k \in Key, k # j PROVE ent'[t][k] = ent[t][k]
      BY <3>2, <3>3
    <3>4. ASSUME j \in Key
          PROVE  /\ ent'[t][j].wts = ent[t][j].wts /\ ent'[t][j].rts = ent[t][j].rts
                 /\ ent'[t][j].rd = TRUE
      BY <3>2, <3>4 DEF Entry
    <3>5. \A k \in Key : ent[t][k].rd \in BOOLEAN
      BY <3>2 DEF Entry
    <3>6. QED
      BY <3>1, <3>3, <3>4, <3>5
  <2>4. QED
    BY <2>1, <2>2, <2>3
<1>3. /\ pc'[t] \in {"run", "load", "lock", "check_load", "evict", "unpin"}
      /\ Phase(t)' \in Committing =>
           Phase(t) \in Committing /\ ent' = ent /\ cts' = cts
  <2>1. CASE Begin(t)
    BY <1>1, <2>1 DEF Begin, Goto, Phase, Committing, Validating
  <2>2. CASE LocalWrite(t)
    BY <1>1, <2>2 DEF LocalWrite, Calling, Phase, Committing, Validating
  <2>3. CASE LookupPin(t)
    BY <1>1, <2>3 DEF LookupPin, Calling, Pin, Goto, Phase, Committing, Validating
  <2>4. CASE CheckLoad(t) \/ EvictOne(t)
    BY <1>1, <2>4 DEF CheckLoad, EvictOne, Goto, Phase, Committing, Validating, Bookkeeping,
       txnVars, commitVars
  <2>5. CASE Abort(t)
    BY <1>1, <2>5 DEF Abort, Goto, Phase, Committing, Validating
  <2>6. QED
    BY <2>1, <2>2, <2>3, <2>4, <2>5
<1>4. KnownCommit(t)'
  BY <1>3 DEF Known, KnownCommit, ReadSet
<1>5. Sure(t)' = {}
  BY <1>3 DEF Sure, Validating
<1>6. ASSUME NEW r \in Clear(reads'[t])
      PROVE  r \in Clear(reads[t]) /\ r.key \in Key /\ ent[t][r.key].rd
  BY <1>1, <1>2, <1>6 DEF Clear, Read, Known, KnownReads, KnownRead
<1>7. \A r \in Clear(reads'[t]) : KnownRead(t, r)'
  BY <1>2, <1>5, <1>6, ReadStaysKnown DEF Known, KnownReads, Clear
<1>8. KnownReads(t)'
  BY <1>7 DEF KnownReads, KnownRead, Written, Current, Ahead, Later
<1>9. Phase(t)' \in Looking => ent'[t][CallKey(t)'].rd
  <2>1. CASE Begin(t) \/ LocalWrite(t) \/ Abort(t)
    BY <1>1, <2>1 DEF Begin, LocalWrite, Calling, Abort, Goto, Phase, Looking
  <2>2. CASE LookupPin(t)
    <3>1. CallKey(t) \in Key /\ calls' = calls
          /\ ent' = [ent EXCEPT ![t][CallKey(t)].rd = TRUE, ![t][CallKey(t)].held = TRUE]
      BY <2>2, ThreadTypes DEF LookupPin, Calling, OrderInv
    <3>2. ent'[t][CallKey(t)].rd = TRUE
      BY <1>1, <3>1 DEF Entry
    <3>3. QED
      BY <3>1, <3>2 DEF CallKey
  <2>3. CASE CheckLoad(t) \/ EvictOne(t)
    <3>1. UNCHANGED <<ent, calls, back>> /\ pc[t] \in {"check_load", "evict"}
          /\ pc'[t] \in {"evict", back[t]}
      BY <1>1, <2>3 DEF CheckLoad, EvictOne, Goto, txnVars
    <3>2. Phase(t)' = Phase(t)
      BY <1>1, <3>1 DEF Phase, Bookkeeping
    <3>3. QED
      BY <3>1, <3>2 DEF Known, KnownLookup, CallKey
  <2>4. QED
    BY <2>1, <2>2, <2>3
<1>10. QED
  BY <1>3, <1>4, <1>8, <1>9 DEF Known, KnownLookup

\* The load of a lookup: no commit has an unlocked tuple locked.
LEMMA LookupLoadKnow ==
  ASSUME OrderInv, OrderInv', Advance, VisibleGrows, hist \subseteq hist', NEW t \in Thread,
         Known(t), LookupLoad(t)
  PROVE  Known(t)'
<1>1. /\ pc[t] = "load" /\ pc'[t] \in {"read", "confirm"} /\ Phase(t) \in Looking
      /\ (pc'[t] = "confirm" => cell[CallKey(t)].lock)
      /\ v1'[t] = cell[CallKey(t)] /\ UNCHANGED <<ent, reads, calls>>
  BY DEF LookupLoad, Goto, txnVars, OrderInv, Inv, TypeOK, Phase, Looking
<1>2. PICK k \in Key, c \in Nat : k = CallKey(t) /\ c = Rts(cell[k]) /\ ent[t][k].held
  BY <1>1, ThreadTypes, OrderTypes DEF OrderInv, Bookkeeping, Phase
<1>3. \A r \in Clear(reads'[t]) : KnownRead(t, r)'
  BY <1>1, ReadStaysKnown DEF Known, KnownReads, Clear, Sure, Validating
<1>4. KnownReads(t)'
  BY <1>3 DEF KnownReads, KnownRead, Written, Current, Ahead, Later
<1>5. ASSUME ~cell[k].lock PROVE Ahead(k, c, {})'
  <2>1. \A u \in Thread : k \notin Stamped(u)
    BY <1>5, StampedLocked DEF OrderInv, Inv, LockOwnership
  <2>2. Visible(k) = cell[k]
    BY <1>2 DEF Visible, OrderInv, Inv, RefsCountHolders
  <2>3. Ahead(k, c, {})
    BY <1>2, <2>1, <2>2 DEF Ahead
  <2>4. QED
    BY <2>3, AheadStays DEF OrderInv
<1>6. k = CallKey(t)' /\ c = Rts(v1[t])' /\ ent'[t][k].rd /\ v1'[t].lock = cell[k].lock
  BY <1>1, <1>2 DEF CallKey, Rts, Known, KnownLookup
<1>7. KnownLookup(t)'
  BY <1>1, <1>2, <1>5, <1>6 DEF KnownLookup, Ahead
<1>8. KnownCommit(t)'
  BY <1>1 DEF KnownCommit, Phase, Committing, Validating
<1>9. QED
  BY <1>4, <1>7, <1>8 DEF Known

\* What it reads is the last version that is stored.
LEMMA LookupReadKnow ==
  ASSUME OrderInv, OrderInv', Advance, VisibleGrows, hist \subseteq hist', NEW t \in Thread,
         Known(t), LookupRead(t)
  PROVE  Known(t)'
<1>1. /\ pc[t] = "read" /\ pc'[t] = "confirm" /\ Phase(t) \in Looking
      /\ got'[t] = (IF ent[t][CallKey(t)].wr THEN Own ELSE Len(db[CallKey(t)]))
      /\ UNCHANGED <<ent, reads, calls, v1, db>>
  BY DEF LookupRead, Goto, commitVars, OrderInv, Inv, TypeOK, Phase, Looking
<1>2. PICK k \in Key, c \in Nat : k = CallKey(t) /\ c = Rts(v1[t])
  BY <1>1, ThreadTypes, ReadTypes DEF OrderInv, Bookkeeping, Phase
<1>3. \A r \in Clear(reads'[t]) : KnownRead(t, r)'
  BY <1>1, ReadStaysKnown DEF Known, KnownReads, Clear, Sure, Validating
<1>4. KnownReads(t)'
  BY <1>3 DEF KnownReads, KnownRead, Written, Current, Ahead, Later
<1>5. ASSUME ~v1[t].lock PROVE Ahead(k, c, {})'
  <2>1. Ahead(k, c, {})
    BY <1>1, <1>2, <1>5 DEF Known, KnownLookup
  <2>2. QED
    BY <2>1, AheadStays DEF OrderInv
<1>6. k = CallKey(t)' /\ c = Rts(v1[t])' /\ ent'[t][k].rd
  BY <1>1, <1>2 DEF CallKey, Rts, Known, KnownLookup
<1>7. Len(db[k]) \in 0 .. Len(db[k]) /\ Later(k, Len(db[k]), c, {})'
  <2>1. Len(db[k]) \in Nat
    BY OrderTypes DEF OrderInv
  <2>2. QED
    BY <1>1, <2>1 DEF Later
<1>8. KnownLookup(t)'
  BY <1>1, <1>2, <1>5, <1>6, <1>7 DEF KnownLookup, Ahead, Later
<1>9. KnownCommit(t)'
  BY <1>1 DEF KnownCommit, Phase, Committing, Validating
<1>10. QED
  BY <1>4, <1>8, <1>9 DEF Known

\* A lookup whose tuple has not moved meanwhile records what it read, with the
\* timestamps it read it under.
LEMMA LookupConfirmKnow ==
  ASSUME OrderInv, OrderInv', Advance, VisibleGrows, hist \subseteq hist', LooksUpOnce,
         NEW t \in Thread, Known(t), LookupConfirm(t)
  PROVE  Known(t)'
<1>1. /\ pc[t] = "confirm" /\ pc'[t] \in {"run", "load"} /\ Phase(t) \in Looking
      /\ UNCHANGED <<db, hist, got, v1>> /\ Inv
      /\ v1[t] \in TimestampSet /\ reads \in [Thread -> SUBSET Read]
      /\ ent \in [Thread -> [Key -> Entry]]
  <2>1. pc \in [Thread -> Label] /\ pc[t] = "confirm" /\ Inv
    BY DEF LookupConfirm, OrderInv, Inv, TypeOK
  <2>2. pc'[t] \in {"run", "load"} /\ UNCHANGED <<db, hist, got, v1>>
    BY <2>1 DEF LookupConfirm, Goto, commitVars
  <2>3. QED
    BY <2>1, <2>2 DEF Inv, TypeOK, Phase, Looking
<1>2. PICK k \in Key, c \in Nat, w \in Nat :
        k = CallKey(t) /\ c = Rts(v1[t]) /\ w = v1[t].wts /\ w <= c /\ ent[t][k].held
  BY <1>1, ThreadTypes, ReadTypes DEF Bookkeeping, Phase
<1>3. \A r \in Clear(reads[t]) : r.key # k
  BY <1>1, <1>2 DEF LooksUpOnce
<1>4. KnownCommit(t)' /\ Sure(t)' = {}
  BY <1>1 DEF KnownCommit, Phase, Committing, Validating, Sure
<1>5. CASE cell[k] # v1[t]
  <2>1. pc'[t] = "load" /\ UNCHANGED <<calls, ent, reads>>
    BY <1>1, <1>2, <1>5 DEF LookupConfirm, Goto, OrderInv, Inv, TypeOK
  <2>2. \A r \in Clear(reads'[t]) : KnownRead(t, r)'
    BY <1>4, <2>1, ReadStaysKnown DEF Known, KnownReads, Clear
  <2>3. KnownReads(t)'
    BY <2>2 DEF KnownReads, KnownRead, Written, Current, Ahead, Later
  <2>4. KnownLookup(t)'
    BY <1>1, <2>1 DEF Known, KnownLookup, CallKey
  <2>5. QED
    BY <1>4, <2>3, <2>4 DEF Known
<1>6. CASE cell[k] = v1[t]
  <2>0. PICK n : n = [key |-> k, ver |-> got[t], locked |-> v1[t].lock]
    OBVIOUS
  <2>1. /\ pc'[t] = "run"
        /\ ent' = [ent EXCEPT ![t][k].wts = v1[t].wts, ![t][k].rts = Rts(v1[t])]
        /\ \/ got[t] = Own /\ reads' = reads
           \/ got[t] # Own /\ reads' = [reads EXCEPT ![t] = @ \cup {n}]
    BY <1>1, <1>2, <1>6, <2>0 DEF LookupConfirm, Goto, OrderInv, Inv, TypeOK
  <2>2. /\ ent'[t] = [ent[t] EXCEPT ![k].wts = w, ![k].rts = c] /\ ent[t] \in [Key -> Entry]
    BY <1>1, <1>2, <2>1
  <2>3. \A j \in Key : j # k => ent'[t][j] = ent[t][j]
    BY <2>2
  <2>4. ent'[t][k].wts = w /\ ent'[t][k].rts = c /\ ent'[t][k].rd
    <3>1. ent[t][k].rd
      BY <1>1, <1>2 DEF Known, KnownLookup
    <3>2. QED
      BY <2>2, <3>1 DEF Entry
  <2>5. n.key = k /\ n.ver = got[t] /\ n.locked = v1[t].lock
    BY <2>0
  <2>6. \A r \in Clear(reads'[t]) : r \in Clear(reads[t]) \/ (r = n /\ ~v1[t].lock /\ got[t] # Own)
    BY <1>1, <2>1, <2>5 DEF Clear
  <2>7. ASSUME NEW r \in Clear(reads[t]) PROVE KnownRead(t, r)'
    <3>1. r \in reads[t] /\ r.key \in Key /\ r.key # k /\ KnownRead(t, r)
      BY <1>1, <1>3, <2>7, ReadTypes DEF Clear, Known, KnownReads
    <3>2. ent'[t][r.key] = ent[t][r.key]
      BY <2>3, <3>1
    <3>3. QED
      BY <1>4, <3>1, <3>2, ReadStaysKnown
  <2>8. ASSUME ~v1[t].lock, got[t] # Own PROVE KnownRead(t, n)'
    <3>1. got[t] \in 0 .. Len(db[k]) /\ Len(db[k]) \in Nat /\ db[k] \in Seq(Txn)
      BY <1>1, <1>2, <2>8, OrderTypes DEF Known, KnownLookup
    <3>2. PICK v \in Nat : v = got[t] /\ v <= Len(db[k])
      BY <3>1
    <3>3. \A u \in Thread : k \notin Stamped(u)
      BY <1>1, <1>6, <2>8, StampedLocked DEF Inv, LockOwnership
    <3>4. \A j \in DOMAIN db[k] : \A h \in hist : h.id = db[k][j] => h.cts <= w
      BY <1>1, <1>2, <1>6, <3>3, UnlockedKnown
    <3>5. Written(k, v, w)
      BY <3>1, <3>2, <3>4 DEF Written
    <3>6. Current(k, v, c, {})
      BY <1>1, <1>2, <2>8, <3>2 DEF Known, KnownLookup, Current
    <3>7. Written(k, v, w)' /\ Current(k, v, c, {})'
      BY <1>1, <3>5, <3>6, WrittenStays, CurrentStays DEF OrderInv
    <3>8. n.key = k /\ n.ver = v
      BY <2>5, <3>2
    <3>9. QED
      BY <1>2, <1>4, <2>4, <3>7, <3>8 DEF KnownRead, Written, Current, Ahead, Later
  <2>9. \A r \in Clear(reads'[t]) : KnownRead(t, r)'
    BY <2>6, <2>7, <2>8
  <2>10. KnownReads(t)'
    BY <2>9 DEF KnownReads, KnownRead, Written, Current, Ahead, Later
  <2>11. KnownLookup(t)'
    BY <2>1 DEF KnownLookup, Phase, Looking
  <2>12. QED
    BY <1>4, <2>10, <2>11 DEF Known
<1>7. QED
  BY <1>5, <1>6

\* The commit up to its validation, and the look at the lock bit in it.
LEMMA CommitKnow ==
  ASSUME CacheAssumption, OrderInv, OrderInv', Advance, VisibleGrows, hist \subseteq hist',
         NEW t \in Thread, Known(t), Locking(t) \/ Stamp(t) \/ ValidateBit(t)
  PROVE  Known(t)'
<1>1. /\ pc \in [Thread -> Label] /\ back \in [Thread -> {"idle", "load", "lock"}]
      /\ ent \in [Thread -> [Key -> Entry]] /\ cts \in [Thread -> Nat] /\ cts[t] \in Nat
      /\ \A k \in Key : ent[t][k].wts \in Nat /\ Rts(cell[k]) \in Nat
  BY ReadTypes, OrderTypes DEF OrderInv, Inv, TypeOK
<1>2. /\ reads' = reads /\ Id(t)' = Id(t)
      /\ \A k \in Key : /\ ent'[t][k].wts = ent[t][k].wts /\ ent'[t][k].rts = ent[t][k].rts
                        /\ ent'[t][k].rd = ent[t][k].rd
  <2>1. CASE LockPin(t)
    <3>1. PICK j : reads' = reads /\ count' = count /\ ent' = [ent EXCEPT ![t][j].held = TRUE]
      BY <2>1 DEF LockPin
    <3>2. QED
      BY <1>1, <3>1 DEF Entry, Id
  <2>2. CASE ~LockPin(t)
    BY <2>2 DEF Locking, CommitBegin, LockLoad, LockCas, BackOffUnlock, LockRetry, LockDone,
       Stamp, ValidateBit, txnVars, Id
  <2>3. QED
    BY <2>1, <2>2
<1>3. \/ Phase(t)' \in {"lock", "lock_cas", "backoff", "stamp"} /\ pc'[t] \notin Validating
      \/ pc'[t] = "unlock"
      \/ /\ pc'[t] = "validate_cas" /\ pc[t] = "validate_bit"
         /\ UNCHANGED <<todo, cts, ent, order, v1>>
         /\ ent[t][First(t, todo[t])].wts = v1[t].wts
  <2>1. CASE CommitBegin(t) \/ LockLoad(t) \/ LockCas(t)
    BY <1>1, <2>1 DEF CommitBegin, LockLoad, LockCas, BackOff, Goto, Phase, Validating
  <2>2. CASE LockPin(t)
    BY <1>1, <2>2 DEF LockPin, Pin, Goto, Phase, Validating
  <2>3. CASE BackOffUnlock(t) \/ LockRetry(t) \/ LockDone(t) \/ Stamp(t)
    BY <1>1, <2>3 DEF BackOffUnlock, LockRetry, LockDone, Stamp, Goto, Phase, Validating
  <2>4. CASE ValidateBit(t)
    BY <1>1, <2>4 DEF ValidateBit, GiveUp, Goto, txnVars
  <2>5. QED
    BY <2>1, <2>2, <2>3, <2>4 DEF Locking
<1>4. pc'[t] # "unlock" => \A k \in ReadSet(t) : ent[t][k].wts <= cts'[t]
  <2>1. CASE CommitBegin(t)
    <3>1. PICK w : /\ w = CHOOSE x \in {0} \cup {ent[t][k].wts : k \in ReadSet(t)} :
                            \A k \in ReadSet(t) : ent[t][k].wts <= x
                   /\ cts' = [cts EXCEPT ![t] = w]
      BY <2>1 DEF CommitBegin
    <3>2. QED
      BY <1>1, <3>1, LatestRead DEF OrderInv
  <2>2. CASE ~CommitBegin(t)
    <3>1. Phase(t) \in Committing
      BY <2>2 DEF Locking, LockPin, LockLoad, LockCas, BackOffUnlock, LockRetry, LockDone,
         Stamp, ValidateBit, Phase, Committing, Validating
    <3>2. cts[t] <= cts'[t]
      <4>1. CASE Stamp(t)
        <5>1. PICK k \in Key : k = Smallest(todo[t])
          BY <4>1, ThreadTypes DEF Stamp, OrderInv
        <5>2. cts'[t] = Larger(cts[t], Rts(cell[k]) + 1)
          BY <1>1, <4>1, <5>1 DEF Stamp
        <5>3. QED
          BY <1>1, <5>2 DEF Larger
      <4>2. CASE ~Stamp(t)
        <5>1. cts' = cts
          BY <2>2, <4>2 DEF Locking, LockPin, LockLoad, LockCas, BackOffUnlock, LockRetry,
             LockDone, ValidateBit, commitVars
        <5>2. QED
          BY <1>1, <5>1
      <4>3. QED
        BY <4>1, <4>2
    <3>3. cts'[t] \in Nat
      BY OrderTypes DEF OrderInv, Inv, TypeOK
    <3>4. QED
      BY <1>1, <3>1, <3>2, <3>3 DEF Known, KnownCommit, ReadSet
  <2>3. QED
    BY <2>1, <2>2
<1>5. Sure(t)' = {} \/ (Sure(t)' = Sure(t) /\ cts'[t] = cts[t])
  BY <1>3 DEF Sure, Validating, ReadSet
<1>6. Phase(t)' \notin Looking
  BY <1>3 DEF Phase, Looking
<1>7. KnownCommit(t)'
  <2>1. ReadSet(t)' = ReadSet(t)
    BY <1>2 DEF ReadSet
  <2>2. \A k \in ReadSet(t) : ent'[t][k].wts = ent[t][k].wts
    BY <1>2 DEF ReadSet
  <2>3. Phase(t)' \in Committing => \A k \in ReadSet(t)' : ent'[t][k].wts <= cts'[t]
    BY <1>4, <2>1, <2>2 DEF Phase, Committing, Validating
  <2>4. pc'[t] = "validate_cas" => ent'[t][First(t, todo[t])'].wts = v1'[t].wts
    BY <1>3 DEF Phase, First
  <2>5. QED
    BY <2>3, <2>4 DEF KnownCommit
<1>8. \A r \in reads[t] : r.key \in Key
  BY ReadTypes DEF OrderInv
<1>9. QED
  BY <1>2, <1>5, <1>6, <1>7, <1>8, PlainKnow

\* The end of a transaction.
LEMMA EndKnow ==
  ASSUME OrderInv, OrderInv', Advance, VisibleGrows, hist \subseteq hist',
         NEW t \in Thread, Known(t), ValidateDone(t) \/ Ending(t)
  PROVE  Known(t)'
<1>1. /\ pc \in [Thread -> Label] /\ ent \in [Thread -> [Key -> Entry]]
      /\ reads \in [Thread -> SUBSET Read]
  BY DEF OrderInv, Inv, TypeOK
<1>2. pc'[t] \in {"install", "publish", "unlock", "unpin", "idle"}
  BY <1>1 DEF Ending, ValidateDone, Install, Publish, AbortUnlock, CommitEnd, Unpin, Finish, Goto
<1>3. reads'[t] \subseteq reads[t]
      /\ \A r \in reads'[t] : /\ ent'[t][r.key].rd = ent[t][r.key].rd
                              /\ ent'[t][r.key].wts = ent[t][r.key].wts
                              /\ ent'[t][r.key].rts = ent[t][r.key].rts
  <2>1. CASE Finish(t)
    BY <1>1, <2>1 DEF Finish
  <2>2. CASE Unpin(t)
    <3>1. PICK j : reads' = reads /\ ent' = [ent EXCEPT ![t][j].held = FALSE]
      BY <2>2 DEF Unpin
    <3>2. \A r \in reads[t] : r.key \in Key
      BY ReadTypes DEF OrderInv
    <3>3. \A k \in Key : /\ ent'[t][k].wts = ent[t][k].wts /\ ent'[t][k].rts = ent[t][k].rts
                         /\ ent'[t][k].rd = ent[t][k].rd
      BY <1>1, <3>1 DEF Entry
    <3>4. QED
      BY <3>1, <3>2, <3>3
  <2>3. CASE ~Finish(t) /\ ~Unpin(t)
    BY <2>3 DEF Ending, ValidateDone, Install, Publish, AbortUnlock, CommitEnd, txnVars
  <2>4. QED
    BY <2>1, <2>2, <2>3
<1>4. KnownCommit(t)' /\ Sure(t)' = {} /\ Phase(t)' \notin Looking
  BY <1>2 DEF KnownCommit, Phase, Committing, Validating, Sure, Looking
<1>5. QED
  BY <1>3, <1>4, PlainKnow

\* A step of the validation: what it finds valid is current at commit_ts.
LEMMA ValidateKnow ==
  ASSUME OrderInv, OrderInv', Advance, VisibleGrows, hist \subseteq hist', NEW t \in Thread,
         Known(t), UNCHANGED <<reads, ent, cts, order, count>>,
         Phase(t) \in Committing, pc'[t] = "validate",
         NEW S \in SUBSET Key, Sure(t)' \subseteq Sure(t) \cup S,
         \A r \in Clear(reads[t]) : \A k \in S, v \in Nat, c \in Nat : \A X :
           k = r.key /\ v = r.ver /\ c = cts[t] /\ X = {Id(t)} => Current(k, v, c, X)'
  PROVE  Known(t)'
<1>1. Inv /\ Inv'
  BY DEF OrderInv
<1>2. ASSUME NEW r \in Clear(reads[t]) PROVE KnownRead(t, r)'
  <2>1. PICK k \in Key, v \in Nat : k = r.key /\ v = r.ver
    <3>1. r.key \in Key /\ db[r.key] \in Seq(Txn)
      BY <1>1, <1>2, ReadTypes DEF Inv, TypeOK, Clear
    <3>2. r.ver \in Nat
      BY <1>2, <3>1 DEF Known, KnownReads, KnownRead, Written
    <3>3. QED
      BY <3>1, <3>2
  <2>2. PICK w \in Nat, c \in Nat, d \in Nat : w = ent[t][k].wts /\ c = ent[t][k].rts /\ d = cts[t]
    BY <1>1, ReadTypes, OrderTypes
  <2>3. PICK X : X = {Id(t)}
    OBVIOUS
  <2>4. /\ Written(k, v, w) /\ w <= c /\ Current(k, v, c, {}) /\ ent[t][k].rd
        /\ k \in Sure(t) => Current(k, v, d, X)
    BY <1>2, <2>1, <2>2, <2>3 DEF Known, KnownReads, KnownRead
  <2>5. /\ Written(k, v, w)' /\ Current(k, v, c, {})'
        /\ k \in Sure(t) => Current(k, v, d, X)'
    BY <1>1, <2>4, WrittenStays, CurrentStays
  <2>6. k \in Sure(t)' => Current(k, v, d, X)'
    BY <1>2, <2>1, <2>2, <2>3, <2>5
  <2>7. w = ent'[t][k].wts /\ c = ent'[t][k].rts /\ d = cts'[t] /\ X = {Id(t)'} /\ ent'[t][k].rd
    BY <2>2, <2>3, <2>4 DEF Id
  <2>8. QED
    BY <2>1, <2>4, <2>5, <2>6, <2>7 DEF KnownRead, Written, Current, Ahead, Later
<1>3. KnownReads(t)'
  BY <1>2 DEF KnownReads, KnownRead, Written, Current, Ahead, Later
<1>4. KnownLookup(t)' /\ KnownCommit(t)'
  BY DEF Known, KnownLookup, KnownCommit, Phase, Looking, ReadSet
<1>5. QED
  BY <1>3, <1>4 DEF Known

\* A read whose rts is not before commit_ts needs no validation.
LEMMA StampDoneKnow ==
  ASSUME OrderInv, OrderInv', Advance, VisibleGrows, hist \subseteq hist', NEW t \in Thread,
         Known(t), StampDone(t)
  PROVE  Known(t)'
<1>1. /\ pc[t] = "stamp" /\ pc'[t] = "validate"
      /\ todo'[t] = {k \in ReadSet(t) : ent[t][k].rts < cts[t]}
      /\ UNCHANGED <<reads, ent, cts, order, count>> /\ Inv /\ Inv'
  BY DEF StampDone, Goto, txnVars, OrderInv, Inv, TypeOK
<1>2. PICK S \in SUBSET Key : S = {k \in Key : ent[t][k].rts >= cts[t]}
  OBVIOUS
<1>3. Sure(t)' \subseteq Sure(t) \cup S
  <2>1. \A k \in Key : ent[t][k].rts \in Nat /\ cts[t] \in Nat
    BY <1>1, ReadTypes, OrderTypes
  <2>2. QED
    BY <1>1, <1>2, <2>1 DEF Sure, Validating, ReadSet
<1>4. ASSUME NEW r \in Clear(reads[t]), NEW k \in S, NEW v \in Nat, NEW c \in Nat, NEW X,
             k = r.key, v = r.ver, c = cts[t], X = {Id(t)}
      PROVE  Current(k, v, c, X)'
  <2>1. PICK d \in Nat : d = ent[t][k].rts /\ c <= d
    BY <1>1, <1>2, <1>4, ReadTypes
  <2>2. Current(k, v, d, {})
    BY <1>4, <2>1 DEF Known, KnownReads, KnownRead
  <2>3. k \in Key
    BY <1>2
  <2>4. Current(k, v, c, X)
    BY <1>1, <2>1, <2>2, <2>3, CurrentEarlier
  <2>5. QED
    BY <1>1, <2>3, <2>4, CurrentStays
<1>5. Phase(t) \in Committing
  BY <1>1 DEF Phase, Committing
<1>6. QED
  BY <1>1, <1>3, <1>4, <1>5, ValidateKnow

\* A version that is not known by the key's wts is being stored by a commit
\* that has stamped the key.
LEMMA LateVersions ==
  ASSUME OrderInv, NEW k \in Key, NEW j \in DOMAIN db[k], NEW h \in hist, h.id = db[k][j]
  PROVE  \/ h.cts <= Visible(k).wts
         \/ \E u \in Thread : k \in Stamped(u) /\ h.id = Id(u) /\ h.cts = cts[u]
<1>1. ASSUME NEW u \in Thread, Publishing(u, k), h.id = Id(u)
      PROVE  k \in Stamped(u) /\ h.cts = cts[u]
  <2>1. pc[u] = "publish" /\ todo[u] # {} /\ Smallest(todo[u]) \in todo[u]
    BY <1>1, ThreadTypes DEF Publishing, OrderInv, Bookkeeping
  <2>2. QED
    BY <1>1, <2>1 DEF Stamped, Publishing, OrderInv, Recorded, Unique
<1>2. QED
  BY <1>1 DEF OrderInv, Below

\* The load of the validation: a key that is read beyond commit_ts by others,
\* and has the wts it was read with, is valid.
LEMMA ValidateLoadKnow ==
  ASSUME CacheAssumption, ForwardInv, OrderInv', Advance, VisibleGrows, hist \subseteq hist',
         NEW t \in Thread, Known(t), ValidateLoad(t)
  PROVE  Known(t)'
<1>1. /\ pc[t] = "validate" /\ todo[t] # {} /\ Inv /\ Inv' /\ OrderInv
      /\ UNCHANGED <<reads, ent, cts, order, count>> /\ Phase(t) \in Committing
  BY DEF ValidateLoad, txnVars, ForwardInv, OrderInv, Phase, Committing, Validating
<1>2. PICK k \in Key : k = First(t, todo[t]) /\ k \in ReadSet(t)
  <2>1. todo[t] \in SUBSET Key /\ todo[t] \subseteq ReadSet(t) /\ Bookkeeping(t)
    BY <1>1, ThreadTypes DEF Bookkeeping
  <2>2. First(t, todo[t]) \in todo[t]
    BY <1>1, <2>1, FirstMember DEF ReadSet
  <2>3. QED
    BY <2>1, <2>2
<1>3. \A r \in reads[t] : r.key \in Key
  BY <1>1, ReadTypes
<1>4. CASE pc'[t] \in {"validate_bit", "unlock"}
  <2>1. pc'[t] = "validate_bit" => todo' = todo
    BY <1>1, <1>2, <1>4 DEF ValidateLoad, GiveUp, Goto, Inv, TypeOK
  <2>2. \A j \in Sure(t)' : j \in Sure(t) /\ cts'[t] = cts[t] /\ Id(t)' = Id(t)
    BY <1>1, <1>4, <2>1 DEF Sure, Validating, ReadSet, Id
  <2>3. Phase(t)' \notin Looking /\ KnownCommit(t)'
    BY <1>1, <1>4 DEF Phase, Looking, Known, KnownCommit, ReadSet
  <2>4. QED
    BY <1>1, <2>2, <2>3, PlainKnow
<1>5. CASE pc'[t] \notin {"validate_bit", "unlock"}
  <2>1. /\ pc'[t] = "validate" /\ todo'[t] = todo[t] \ {k}
        /\ Rts(cell[k]) > cts[t] /\ ent[t][k].wts = cell[k].wts
    <3>1. cts[t] \in Nat /\ Rts(cell[k]) \in Nat
      BY <1>1, OrderTypes
    <3>2. QED
      BY <1>1, <1>2, <1>5, <3>1 DEF ValidateLoad, GiveUp, Goto, Inv, TypeOK
  <2>2. Sure(t)' \subseteq Sure(t) \cup {k}
    BY <1>1, <2>1 DEF Sure, Validating, ReadSet
  <2>3. Visible(k) = cell[k]
    <3>1. ent[t][k].held
      BY <1>1, <1>2, ThreadTypes DEF Bookkeeping
    <3>2. QED
      BY <1>1, <3>1 DEF Visible, Inv, RefsCountHolders
  <2>4. \A u \in Thread : k \in Stamped(u) => cts[t] < cts[u]
    <3>1. ASSUME NEW u \in Thread, k \in Stamped(u) PROVE cts[t] < cts[u]
      <4>1. cts[t] \in Nat /\ cts[u] \in Nat /\ Rts(cell[k]) \in Nat
        BY <1>1, OrderTypes
      <4>2. Rts(cell[k]) <= cts[u]
        BY <3>1 DEF ForwardInv, RtsAbove
      <4>3. QED
        BY <2>1, <4>1, <4>2
    <3>2. QED
      BY <3>1
  <2>5. ASSUME NEW r \in Clear(reads[t]), NEW v \in Nat, NEW c \in Nat, NEW X,
               k = r.key, v = r.ver, c = cts[t], X = {Id(t)}
        PROVE  Current(k, v, c, X)'
    <3>1. Ahead(k, c, X)
      <4>1. c <= Rts(Visible(k))
        <5>1. cts[t] \in Nat /\ Rts(cell[k]) \in Nat
          BY <1>1, OrderTypes
        <5>2. QED
          BY <2>1, <2>3, <2>5, <5>1
      <4>2. QED
        BY <2>4, <2>5, <4>1 DEF Ahead
    <3>2. KnownRead(t, r)
      BY <2>5 DEF Known, KnownReads
    <3>3. ASSUME NEW j \in v + 1 .. Len(db[k]), NEW h \in hist, h.id = db[k][j]
          PROVE  c < h.cts
      <4>1. /\ j \in DOMAIN db[k] /\ h.cts \in Nat
            /\ ent[t][k].wts \in Nat /\ ent[t][k].rts \in Nat
        <5>1. db[k] \in Seq(Txn) /\ h.cts \in Nat
          BY <1>1, OrderTypes
        <5>2. QED
          BY <1>1, <3>3, <5>1, ReadTypes
      <4>2. ent[t][k].rts < h.cts /\ ent[t][k].wts <= ent[t][k].rts
        BY <2>5, <3>2, <3>3 DEF KnownRead, Current, Later
      <4>3. CASE h.cts <= Visible(k).wts
        BY <2>1, <2>3, <4>1, <4>2, <4>3
      <4>4. CASE \E u \in Thread : k \in Stamped(u) /\ h.cts = cts[u]
        BY <2>4, <2>5, <4>4
      <4>5. QED
        BY <1>1, <3>3, <4>1, <4>3, <4>4, LateVersions
    <3>4. Current(k, v, c, X)
      BY <3>1, <3>3 DEF Current, Later
    <3>5. QED
      BY <1>1, <3>4, CurrentStays
  <2>6. PICK S \in SUBSET Key : S = {k}
    OBVIOUS
  <2>7. ASSUME NEW r \in Clear(reads[t]), NEW j \in S, NEW v \in Nat, NEW c \in Nat, NEW X,
               j = r.key, v = r.ver, c = cts[t], X = {Id(t)}
        PROVE  Current(j, v, c, X)'
    BY <2>5, <2>6, <2>7
  <2>8. QED
    BY <1>1, <2>1, <2>2, <2>6, <2>7, ValidateKnow
<1>6. QED
  BY <1>4, <1>5

\* Its compare-and-swap: a key that has the wts it was read with, and that no
\* other commit has stamped, is read at commit_ts from here on.
LEMMA ValidateCasKnow ==
  ASSUME CacheAssumption, OrderInv, OrderInv', Advance, VisibleGrows, hist \subseteq hist',
         OwnSwaps, NEW t \in Thread, Known(t), ValidateCas(t), Others(t)
  PROVE  Known(t)'
<1>1. /\ pc[t] = "validate_cas" /\ pc'[t] = "validate" /\ Inv /\ Inv'
      /\ UNCHANGED <<reads, ent, cts, order, count, db, hist, cached, sketch, v1>>
      /\ Phase(t) \in Committing
  BY DEF ValidateCas, Goto, txnVars, OrderInv, Inv, TypeOK, Phase, Committing, Validating
<1>2. PICK k \in Key : k = First(t, todo[t]) /\ k \in ReadSet(t) /\ ent[t][k].held
  <2>1. /\ todo[t] \in SUBSET Key /\ todo[t] \subseteq ReadSet(t) /\ todo[t] # {}
        /\ \A j \in ReadSet(t) : ent[t][j].held
    BY <1>1, ThreadTypes DEF Bookkeeping
  <2>2. First(t, todo[t]) \in todo[t]
    BY <1>1, <2>1, FirstMember DEF ReadSet
  <2>3. QED
    BY <2>1, <2>2
<1>3. CASE todo' = todo
  <2>1. PICK S \in SUBSET Key : S = {}
    OBVIOUS
  <2>2. Sure(t)' \subseteq Sure(t) \cup S
    BY <1>1, <1>3 DEF Sure, Validating, ReadSet
  <2>3. QED
    BY <1>1, <2>1, <2>2, ValidateKnow
<1>4. CASE todo' # todo
  <2>1. /\ cell[k] = v1[t] /\ cell' = [cell EXCEPT ![k] = Extended(v1[t], cts[t])]
        /\ todo'[t] = todo[t] \ {k}
    BY <1>1, <1>2, <1>4 DEF ValidateCas, Inv, TypeOK
  <2>2. Sure(t)' \subseteq Sure(t) \cup {k}
    BY <1>1, <2>1 DEF Sure, Validating, ReadSet
  <2>3. ent[t][k].wts = cell[k].wts
    BY <1>1, <1>2, <2>1 DEF Known, KnownCommit
  <2>4. \A u \in Thread : u # t => k \notin Stamped(u) /\ k \notin Stamped(u)'
    <3>1. Swaps(t, k)
      BY <1>2, <2>1 DEF Swaps
    <3>2. ASSUME NEW u \in Thread, u # t PROVE Stamped(u)' = Stamped(u)
      BY <3>2, SameStamped DEF Others
    <3>3. QED
      BY <3>1, <3>2 DEF OwnSwaps
  <2>5. \A j \in DOMAIN db[k] : \A h \in hist : h.id = db[k][j] => h.cts <= cell[k].wts
    BY <1>1, <1>2, <2>4, UnlockedKnown
  <2>6. ASSUME NEW r \in Clear(reads[t]), NEW v \in Nat, NEW c \in Nat, NEW X,
               k = r.key, v = r.ver, c = cts[t], X = {Id(t)}
        PROVE  Current(k, v, c, X)'
    <3>1. KnownRead(t, r)
      BY <2>6 DEF Known, KnownReads
    <3>2. ASSUME NEW j \in v + 1 .. Len(db[k]), NEW h \in hist, h.id = db[k][j]
          PROVE  FALSE
      <4>1. /\ j \in DOMAIN db[k] /\ h.cts \in Nat
            /\ ent[t][k].wts \in Nat /\ ent[t][k].rts \in Nat
        <5>1. db[k] \in Seq(Txn) /\ h.cts \in Nat
          BY <1>1, OrderTypes
        <5>2. j \in DOMAIN db[k]
          BY <5>1
        <5>3. ent[t][k].wts \in Nat /\ ent[t][k].rts \in Nat
          BY <1>1, ReadTypes
        <5>4. QED
          BY <5>1, <5>2, <5>3
      <4>2. ent[t][k].rts < h.cts /\ ent[t][k].wts <= ent[t][k].rts
        BY <2>6, <3>1, <3>2 DEF KnownRead, Current, Later
      <4>3. h.cts <= ent[t][k].wts
        BY <2>3, <2>5, <3>2, <4>1
      <4>4. QED
        BY <4>1, <4>2, <4>3
    <3>3. Later(k, v, c, X)'
      BY <1>1, <3>2 DEF Later
    <3>4. c = Rts(Visible(k))'
      <4>1. k \in cached /\ k \in cached'
        BY <1>1, <1>2 DEF Inv, RefsCountHolders
      <4>2. cell'[k] = Extended(v1[t], cts[t])
        BY <1>1, <2>1 DEF Inv, TypeOK, CacheTypeOK
      <4>3. Visible(k)' = cell'[k]
        BY <4>1 DEF Visible
      <4>4. v1[t].wts \in Nat
        BY <1>1, ReadTypes
      <4>5. QED
        BY <2>6, <4>2, <4>3, <4>4 DEF Extended, Rts
    <3>5. \A u \in Thread : k \in Stamped(u)' => Id(u)' \in X
      BY <1>1, <2>4, <2>6 DEF Id
    <3>6. QED
      BY <3>3, <3>4, <3>5 DEF Current, Ahead
  <2>7. PICK S \in SUBSET Key : S = {k}
    OBVIOUS
  <2>8. ASSUME NEW r \in Clear(reads[t]), NEW j \in S, NEW v \in Nat, NEW c \in Nat, NEW X,
               j = r.key, v = r.ver, c = cts[t], X = {Id(t)}
        PROVE  Current(j, v, c, X)'
    BY <2>6, <2>7, <2>8
  <2>9. QED
    BY <1>1, <2>2, <2>7, <2>8, ValidateKnow
<1>5. QED
  BY <1>3, <1>4

\* A step leaves every thread with what it has to know.
LEMMA StepKnows ==
  ASSUME CacheAssumption, SerialInv, OrderInv', VisibleGrows, OwnSwaps, LooksUpOnce,
         NEW t \in Thread, Begin(t) \/ Step(t) \/ Abort(t)
  PROVE  \A u \in Thread : Known(u)'
<1>1. OrderInv /\ ForwardInv /\ \A u \in Thread : Known(u)
  BY DEF SerialInv, ForwardInv
<1>2. Advance /\ hist \subseteq hist' /\ Others(t)
  BY <1>1, StepAdvance, StepOthers
<1>3. \A u \in Thread : u # t => Known(u)'
  BY <1>1, <1>2, OthersKnow
<1>4. Known(t)'
  <2>1. CASE Begin(t) \/ Abort(t)
    BY <1>1, <1>2, <2>1, CallKnow
  <2>2. CASE Calls(t)
    BY <1>1, <1>2, <2>2, CallKnow, LookupLoadKnow, LookupReadKnow, LookupConfirmKnow DEF Calls
  <2>3. CASE Locking(t)
    BY <1>1, <1>2, <2>3, CommitKnow
  <2>4. CASE Deciding(t)
    BY <1>1, <1>2, <2>4, CommitKnow, StampDoneKnow, ValidateLoadKnow, ValidateCasKnow, EndKnow
       DEF Deciding
  <2>5. CASE Ending(t)
    BY <1>1, <1>2, <2>5, EndKnow
  <2>6. QED
    BY <2>1, <2>2, <2>3, <2>4, <2>5 DEF Step
<1>5. QED
  BY <1>3, <1>4

-----------------------------------------------------------------------------
(* What the committed transactions have read.                              *)

\* The transaction that commits keeps what its validation has found.
LEMMA CommitKeeps ==
  ASSUME SerialInv, OrderInv', Advance, VisibleGrows, hist \subseteq hist',
         NEW t \in Thread, ValidateDone(t)
  PROVE  Kept' /\ NoReadCycle' /\ IsFiniteSet(hist')
<1>1. PICK n : n = [id |-> Id(t), cts |-> cts[t], reads |-> reads[t]]
  OBVIOUS
<1>2. /\ pc[t] = "validate" /\ todo[t] = {} /\ hist' = hist \cup {n} /\ db' = db
      /\ n.id = Id(t) /\ n.cts = cts[t] /\ n.reads = reads[t]
      /\ OrderInv /\ Inv /\ Inv' /\ Known(t) /\ n.cts \in Nat
  BY <1>1, OrderTypes DEF ValidateDone, SerialInv, ForwardInv, OrderInv
<1>3. ASSUME NEW r \in Clear(n.reads)
      PROVE  Written(r.key, r.ver, n.cts)' /\ Current(r.key, r.ver, n.cts, {n.id})'
  <2>1. r \in Clear(reads[t]) /\ r.key \in Key /\ db[r.key] \in Seq(Txn)
    BY <1>2, <1>3, ReadTypes DEF Clear, Inv, TypeOK
  <2>2. KnownRead(t, r)
    BY <1>2, <2>1 DEF Known, KnownReads
  <2>3. r.ver \in Nat
    BY <2>1, <2>2 DEF KnownRead, Written
  <2>4. PICK X : X = {n.id}
    OBVIOUS
  <2>5. PICK k \in Key, v \in Nat, c \in Nat, w \in Nat :
          k = r.key /\ v = r.ver /\ c = n.cts /\ w = ent[t][k].wts
    BY <1>2, <2>1, <2>3, ReadTypes
  <2>6. k \in ReadSet(t) /\ k \in Sure(t)
    BY <1>2, <2>2, <2>5 DEF KnownRead, ReadSet, Sure, Validating
  <2>7. w <= c
    BY <1>2, <2>5, <2>6 DEF Known, KnownCommit, Phase, Committing, Validating
  <2>8. Written(k, v, w) /\ Current(k, v, c, X)
    BY <1>2, <2>2, <2>4, <2>5, <2>6 DEF KnownRead
  <2>9. Written(k, v, c)
    BY <1>2, <2>7, <2>8, LaterWritten
  <2>10. Written(k, v, c)' /\ Current(k, v, c, X)'
    BY <1>2, <2>8, <2>9, WrittenStays, CurrentStays
  <2>11. QED
    BY <2>4, <2>5, <2>10 DEF Written, Current, Ahead, Later
<1>4. Kept'
  BY <1>2, <1>3, KeptStays DEF SerialInv
<1>5. \A h \in hist : h.id # n.id
  <2>1. ASSUME NEW h \in hist, h.id = n.id PROVE FALSE
    <3>1. h.id[1] = t /\ h.id[2] = count[t]
      BY <1>2, <2>1 DEF Id
    <3>2. QED
      BY <1>2, <3>1 DEF OrderInv, Counted, Over
  <2>2. QED
    BY <2>1
<1>6. \A b \in hist' : ~ReadFrom(n, b)
  <2>1. ASSUME NEW b \in hist', ReadFrom(n, b) PROVE FALSE
    <3>1. PICK r \in Clear(b.reads) : \E i \in DOMAIN db[r.key] : db[r.key][i] = n.id
      BY <2>1 DEF ReadFrom
    <3>2. r.key \in Key
      BY <1>2, ReadTypes DEF Clear
    <3>3. QED
      BY <1>2, <1>5, <3>1, <3>2 DEF OrderInv, Stored
  <2>2. QED
    BY <2>1
<1>7. NoReadCycle'
  <2>1. \A a, b : ReadFrom(a, b)' <=> ReadFrom(a, b)
    BY <1>2 DEF ReadFrom
  <2>2. ASSUME NEW S \in SUBSET hist', S # {}, \A a \in S : \E b \in S \ {a} : ReadFrom(a, b)
        PROVE  FALSE
    <3>1. n \notin S
      BY <1>6, <2>2
    <3>2. QED
      BY <1>2, <2>2, <3>1 DEF SerialInv, NoReadCycle
  <2>3. QED
    BY <2>1, <2>2 DEF NoReadCycle
<1>8. QED
  BY <1>2, <1>4, <1>7, FS_AddElement DEF SerialInv

\* Nobody has read the version that is about to be stored.
LEMMA InstallKeeps ==
  ASSUME SerialInv, OrderInv', Advance, VisibleGrows, NEW t \in Thread, Install(t)
  PROVE  Kept' /\ NoReadCycle' /\ IsFiniteSet(hist')
<1>1. /\ hist' = hist /\ OrderInv /\ Inv
  BY DEF Install, SerialInv, ForwardInv, OrderInv
<1>2. Kept'
  BY <1>1, KeptStays DEF SerialInv
<1>3. ASSUME NEW b \in hist, NEW a, ReadFrom(a, b)' PROVE ReadFrom(a, b)
  <2>0. PICK r \in Clear(b.reads) :
          \E i \in DOMAIN db'[r.key] : i <= r.ver /\ db'[r.key][i] = a.id
    BY <1>3 DEF ReadFrom
  <2>1. PICK i \in DOMAIN db'[r.key] : i <= r.ver /\ db'[r.key][i] = a.id
    BY <2>0
  <2>2. /\ r.key \in Key /\ r.ver \in 0 .. Len(db[r.key])
        /\ db[r.key] \in Seq(Txn) /\ db'[r.key] \in Seq(Txn)
    <3>1. r.key \in Key
      BY <1>1, ReadTypes DEF Clear
    <3>2. Written(r.key, r.ver, b.cts)
      BY DEF SerialInv, Kept
    <3>3. QED
      BY <3>1, <3>2 DEF Written, OrderInv, Inv, TypeOK, SerialInv, ForwardInv
  <2>3. i \in DOMAIN db[r.key]
    BY <2>1, <2>2
  <2>4. db'[r.key][i] = db[r.key][i]
    BY <2>2, <2>3 DEF Advance
  <2>5. QED
    BY <2>1, <2>3, <2>4 DEF ReadFrom
<1>4. NoReadCycle'
  <2>1. ASSUME NEW S \in SUBSET hist, S # {}, \A a \in S : \E b \in S \ {a} : ReadFrom(a, b)'
        PROVE  FALSE
    <3>1. \A a \in S : \E b \in S \ {a} : ReadFrom(a, b)
      BY <1>3, <2>1
    <3>2. QED
      BY <2>1, <3>1 DEF SerialInv, NoReadCycle
  <2>2. QED
    BY <1>1, <2>1 DEF NoReadCycle
<1>5. QED
  BY <1>1, <1>2, <1>4 DEF SerialInv

\* A step that commits and stores nothing.
LEMMA OtherKeeps ==
  ASSUME SerialInv, OrderInv', Advance, VisibleGrows, hist' = hist, db' = db
  PROVE  Kept' /\ NoReadCycle' /\ IsFiniteSet(hist')
<1>1. Kept'
  BY KeptStays DEF SerialInv, ForwardInv
<1>2. NoReadCycle'
  <2>1. \A a, b : ReadFrom(a, b)' <=> ReadFrom(a, b)
    BY DEF ReadFrom
  <2>2. QED
    BY <2>1 DEF SerialInv, NoReadCycle
<1>3. QED
  BY <1>1, <1>2 DEF SerialInv

-----------------------------------------------------------------------------
(* Every step preserves the invariant.                                     *)

LEMMA InitSerial ==
  ASSUME CacheAssumption, TicTocAssumption, Init
  PROVE  SerialInv
<1>1. /\ pc = [t \in Thread |-> "idle"] /\ reads = [t \in Thread |-> {}] /\ hist = {}
      /\ v1 = [t \in Thread |-> ZeroTs]
  BY DEF Init
<1>2. ForwardInv
  BY InitOrder DEF ForwardInv
<1>3. \A t \in Thread : Known(t)
  BY <1>1 DEF Known, KnownReads, Clear, KnownLookup, KnownCommit, Phase, Looking, Committing,
     Validating
<1>4. Kept /\ NoReadCycle /\ IsFiniteSet(hist)
  BY <1>1, FS_EmptySet DEF Kept, NoReadCycle
<1>5. QED
  BY <1>2, <1>3, <1>4 DEF SerialInv

LEMMA StutterSerial ==
  ASSUME SerialInv, ForwardInv', UNCHANGED vars
  PROVE  SerialInv'
<1>1. UNCHANGED <<cell, cached, refs, sketch, db, pc, back, count, calls, order,
                  ent, todo, cts, v1, got, reads, hist>>
  BY DEF vars, cacheVars, txnVars, commitVars
<1>2. \A t \in Thread : Stamped(t)' = Stamped(t) /\ Id(t)' = Id(t)
  BY <1>1 DEF Stamped, WriteSet, Id
<1>3. \A k \in Key : Rts(Visible(k))' = Rts(Visible(k))
  BY <1>1 DEF Visible, SketchGet, Rts
<1>4. ASSUME NEW k \in Key, NEW v, NEW c, NEW X
      PROVE  /\ Ahead(k, c, X) => Ahead(k, c, X)'
             /\ Later(k, v, c, X) => Later(k, v, c, X)'
             /\ Written(k, v, c) => Written(k, v, c)'
  BY <1>1, <1>2, <1>3 DEF Ahead, Later, Written
<1>5. ASSUME NEW t \in Thread PROVE Known(t)'
  <2>1. Known(t) /\ Inv
    BY DEF SerialInv, ForwardInv, OrderInv
  <2>2. ASSUME NEW r \in Clear(reads[t]) PROVE KnownRead(t, r)'
    <3>1. PICK k, v, w, c, d, X : /\ k \in Key /\ k = r.key /\ v = r.ver /\ w = ent[t][k].wts
                                  /\ c = ent[t][k].rts /\ d = cts[t] /\ X = {Id(t)}
      BY <2>1, <2>2, ReadTypes DEF Clear
    <3>2. /\ ent[t][k].rd /\ w <= c /\ Written(k, v, w)
          /\ Ahead(k, c, {}) /\ Later(k, v, c, {})
          /\ k \in Sure(t) => Ahead(k, d, X) /\ Later(k, v, d, X)
      BY <2>1, <2>2, <3>1 DEF Known, KnownReads, KnownRead, Current
    <3>3. /\ Written(k, v, w)' /\ Ahead(k, c, {})' /\ Later(k, v, c, {})'
          /\ k \in Sure(t) => Ahead(k, d, X)' /\ Later(k, v, d, X)'
      BY <1>4, <3>1, <3>2
    <3>4. Sure(t)' = Sure(t) /\ X = {Id(t)'}
      BY <1>1, <1>2, <3>1 DEF Sure, ReadSet
    <3>5. QED
      BY <1>1, <3>1, <3>2, <3>3, <3>4 DEF KnownRead, Current, Written, Ahead, Later
  <2>3. KnownReads(t)'
    BY <1>1, <2>2 DEF KnownReads, KnownRead, Current, Written, Ahead, Later
  <2>4. KnownLookup(t)'
    <3>1. Same(t) /\ CallKey(t)' = CallKey(t)
      BY <1>1 DEF Same, CallKey
    <3>2. SUFFICES ASSUME pc[t] \in {"read", "confirm"} PROVE KnownLookup(t)'
      BY <1>1, <2>1 DEF Known, KnownLookup, Phase, CallKey
    <3>3. PICK k, c, v : k \in Key /\ k = CallKey(t) /\ c = Rts(v1[t]) /\ v = got[t]
      <4>1. calls[t] # <<>>
        BY <2>1, <3>2, ThreadTypes DEF Bookkeeping, Phase
      <4>2. QED
        BY <2>1, <4>1, ThreadTypes
    <3>4. /\ Ahead(k, c, {}) => Ahead(k, c, {})'
          /\ Later(k, v, c, {}) => Later(k, v, c, {})'
      BY <1>4, <3>3
    <3>5. k = CallKey(t)' /\ c = Rts(v1[t])' /\ v = got'[t]
      BY <1>1, <3>1, <3>3 DEF Rts
    <3>6. QED
      BY <1>1, <2>1, <3>3, <3>4, <3>5 DEF Known, KnownLookup, Phase, Ahead, Later
  <2>5. KnownCommit(t)'
    BY <1>1, <2>1 DEF Known, KnownCommit, Phase, ReadSet, First
  <2>6. QED
    BY <2>3, <2>4, <2>5 DEF Known
<1>6. Kept'
  <2>1. ASSUME NEW h \in hist, NEW r \in Clear(h.reads)
        PROVE  Written(r.key, r.ver, h.cts)' /\ Current(r.key, r.ver, h.cts, {h.id})'
    <3>1. r.key \in Key
      BY <2>1, ReadTypes DEF SerialInv, ForwardInv, OrderInv, Clear
    <3>2. QED
      BY <1>4, <2>1, <3>1 DEF SerialInv, Kept, Current
  <2>2. QED
    BY <1>1, <2>1 DEF Kept, Current, Written, Ahead, Later
<1>7. NoReadCycle' /\ IsFiniteSet(hist')
  <2>1. \A a, b : ReadFrom(a, b)' <=> ReadFrom(a, b)
    BY <1>1 DEF ReadFrom
  <2>2. QED
    BY <1>1, <2>1 DEF SerialInv, NoReadCycle
<1>8. QED
  BY <1>5, <1>6, <1>7 DEF SerialInv

LEMMA NextSerial ==
  ASSUME CacheAssumption, TicTocAssumption, SerialInv, LooksUpOnce, [Next]_vars, [OwnSwaps]_vars
  PROVE  SerialInv'
<1>1. ForwardInv' /\ VisibleGrows /\ OrderInv' /\ OrderInv
  BY NextForward DEF SerialInv, ForwardInv
<1>2. CASE UNCHANGED vars
  BY <1>1, <1>2, StutterSerial
<1>3. ASSUME OwnSwaps, NEW t \in Thread, Begin(t) \/ Step(t) \/ Abort(t)
      PROVE  SerialInv'
  <2>1. \A u \in Thread : Known(u)'
    BY <1>1, <1>3, StepKnows
  <2>2. Advance /\ hist \subseteq hist'
    BY <1>1, <1>3, StepAdvance
  <2>3. Kept' /\ NoReadCycle' /\ IsFiniteSet(hist')
    <3>1. CASE ValidateDone(t)
      BY <1>1, <2>2, <3>1, CommitKeeps
    <3>2. CASE Install(t)
      BY <1>1, <2>2, <3>2, InstallKeeps
    <3>3. CASE Publish(t) \/ Quiet(t)
      <4>1. hist' = hist /\ db' = db
        BY <3>3 DEF Publish, Quiet
      <4>2. QED
        BY <1>1, <2>2, <4>1, OtherKeeps
    <3>4. QED
      BY <1>1, <1>3, <3>1, <3>2, <3>3, StepCases
  <2>4. QED
    BY <1>1, <2>1, <2>3 DEF SerialInv
<1>4. QED
  BY <1>2, <1>3 DEF Next, Finished

-----------------------------------------------------------------------------
(* What the invariant says of isolation.                                   *)

LEMMA TsOfStored ==
  ASSUME OrderInv, NEW k \in Key, NEW i \in DOMAIN db[k]
  PROVE  \E h \in hist : h.id = db[k][i] /\ Iso!TsOf(db[k][i]) = h.cts
<1>1. PICK g : g = CHOOSE h \in hist : h.id = db[k][i]
  OBVIOUS
<1>2. g \in hist /\ g.id = db[k][i]
  BY <1>1 DEF OrderInv, Stored
<1>3. QED
  BY <1>1, <1>2 DEF Iso!TsOf

\* A lookup returns what its recorded timestamps promise.
LEMMA ReadsUnder == SerialInv => ReadUnderTimestamps
<1>1. SUFFICES ASSUME SerialInv, NEW t \in Thread, NEW r \in Clear(reads[t])
               PROVE  LET k == r.key IN
                        /\ r.ver > 0 => Iso!TsOf(db[k][r.ver]) <= ent[t][k].wts
                        /\ r.ver < Len(db[k]) => Iso!TsOf(db[k][r.ver + 1]) > ent[t][k].rts
  BY DEF ReadUnderTimestamps, Clear
<1>2. OrderInv /\ Inv /\ KnownRead(t, r)
  BY <1>1 DEF SerialInv, ForwardInv, OrderInv, Known, KnownReads
<1>3. PICK k \in Key : k = r.key /\ db[k] \in Seq(Txn)
  BY <1>1, <1>2, ReadTypes, OrderTypes DEF Clear
<1>4. /\ r.ver \in 0 .. Len(db[k]) /\ Written(k, r.ver, ent[t][k].wts)
      /\ Later(k, r.ver, ent[t][k].rts, {}) /\ ent[t][k].rts \in Nat
      /\ \A h \in hist : h.cts \in Nat
  BY <1>2, <1>3, ReadTypes, OrderTypes DEF KnownRead, Written, Current
<1>5. ASSUME r.ver > 0 PROVE Iso!TsOf(db[k][r.ver]) <= ent[t][k].wts
  <2>1. r.ver \in DOMAIN db[k]
    BY <1>3, <1>4, <1>5
  <2>2. PICK h \in hist : h.id = db[k][r.ver] /\ Iso!TsOf(db[k][r.ver]) = h.cts
    BY <1>2, <2>1, TsOfStored
  <2>3. QED
    BY <1>4, <1>5, <2>2 DEF Written
<1>6. ASSUME r.ver < Len(db[k]) PROVE Iso!TsOf(db[k][r.ver + 1]) > ent[t][k].rts
  <2>1. PICK j \in DOMAIN db[k] : j = r.ver + 1 /\ j \in r.ver + 1 .. Len(db[k])
    BY <1>3, <1>4, <1>6
  <2>2. PICK h \in hist : h.id = db[k][j] /\ Iso!TsOf(db[k][j]) = h.cts
    BY <1>2, TsOfStored
  <2>3. ent[t][k].rts < h.cts
    BY <1>4, <2>1, <2>2 DEF Later
  <2>4. QED
    BY <1>4, <2>1, <2>2, <2>3
<1>7. QED
  BY <1>3, <1>5, <1>6

\* What a transaction read is valid at its commit timestamp.
LEMMA ReadsValid == SerialInv => ReadsValidAtCommit
<1>1. SUFFICES ASSUME SerialInv, NEW h \in hist, NEW r \in Clear(h.reads)
               PROVE  Iso!ValidAt(h, r)
  BY DEF ReadsValidAtCommit, Clear
<1>2. OrderInv /\ Inv /\ Written(r.key, r.ver, h.cts) /\ Current(r.key, r.ver, h.cts, {h.id})
  BY <1>1 DEF SerialInv, ForwardInv, OrderInv, Kept
<1>3. PICK k \in Key : k = r.key /\ db[k] \in Seq(Txn)
  BY <1>1, <1>2, ReadTypes, OrderTypes DEF Clear
<1>4. /\ r.ver \in 0 .. Len(db[k]) /\ Written(k, r.ver, h.cts) /\ Later(k, r.ver, h.cts, {h.id})
      /\ \A g \in hist : g.cts \in Nat
  BY <1>2, <1>3, OrderTypes DEF Written, Current
<1>5. ASSUME r.ver > 0 PROVE Iso!TsOf(db[k][r.ver]) <= h.cts
  <2>1. r.ver \in DOMAIN db[k]
    BY <1>3, <1>4, <1>5
  <2>2. PICK g \in hist : g.id = db[k][r.ver] /\ Iso!TsOf(db[k][r.ver]) = g.cts
    BY <1>2, <2>1, TsOfStored
  <2>3. QED
    BY <1>4, <1>5, <2>2 DEF Written
<1>6. ASSUME NEW j \in DOMAIN db[k], j > r.ver, db[k][j] # h.id
      PROVE  Iso!TsOf(db[k][j]) > h.cts
  <2>1. j \in r.ver + 1 .. Len(db[k])
    BY <1>3, <1>4, <1>6
  <2>2. PICK g \in hist : g.id = db[k][j] /\ Iso!TsOf(db[k][j]) = g.cts
    BY <1>2, TsOfStored
  <2>3. h.cts < g.cts
    BY <1>4, <1>6, <2>1, <2>2 DEF Later
  <2>4. QED
    BY <1>4, <2>2, <2>3
<1>7. QED
  BY <1>3, <1>5, <1>6 DEF Iso!ValidAt

\* The conflicts of the definition.
Conflicts(a, b) ==
  \/ \E k \in Key : \E i, j \in DOMAIN db[k] : i < j /\ db[k][i] = a.id /\ db[k][j] = b.id
  \/ ReadFrom(a, b)
  \/ \E r \in Clear(a.reads) : \E j \in DOMAIN db[r.key] : j > r.ver /\ db[r.key][j] = b.id

LEMMA AcyclicIs ==
  Iso!Acyclic(LAMBDA h : {r \in h.reads : ~r.locked})
    <=> ~\E S \in SUBSET hist : S # {} /\ \A a \in S : \E b \in S \ {a} : Conflicts(a, b)
BY DEF Iso!Acyclic, Iso!Conflict, Conflicts, ReadFrom, Clear

\* A conflict goes to a transaction with a commit_ts that is no earlier, and to
\* one with the same only if that one has read from it.
LEMMA ConflictForward ==
  ASSUME SerialInv, NEW a \in hist, NEW b \in hist, a # b, Conflicts(a, b)
  PROVE  a.cts <= b.cts /\ (a.cts = b.cts => ReadFrom(a, b))
<1>1. OrderInv /\ Inv /\ a.cts \in Nat /\ b.cts \in Nat /\ \A k \in Key : db[k] \in Seq(Txn)
  BY OrderTypes DEF SerialInv, ForwardInv, OrderInv
<1>2. ASSUME NEW h \in hist, NEW r \in Clear(h.reads)
      PROVE  \E k \in Key, v \in Nat :
               /\ k = r.key /\ v = r.ver /\ v <= Len(db[k])
               /\ Written(k, v, h.cts) /\ Later(k, v, h.cts, {h.id})
  <2>1. r.key \in Key /\ Len(db[r.key]) \in Nat
    BY <1>1, <1>2, ReadTypes DEF Clear
  <2>2. Written(r.key, r.ver, h.cts) /\ Later(r.key, r.ver, h.cts, {h.id})
    BY <1>2 DEF SerialInv, Kept, Current
  <2>3. r.ver \in Nat /\ r.ver <= Len(db[r.key])
    BY <2>1, <2>2 DEF Written
  <2>4. QED
    BY <2>1, <2>2, <2>3
<1>3. CASE \E k \in Key : \E i, j \in DOMAIN db[k] : i < j /\ db[k][i] = a.id /\ db[k][j] = b.id
  BY <1>1, <1>3 DEF OrderInv, InOrder
<1>4. CASE ReadFrom(a, b)
  <2>1. PICK r \in Clear(b.reads) : \E i \in DOMAIN db[r.key] : i <= r.ver /\ db[r.key][i] = a.id
    BY <1>4 DEF ReadFrom
  <2>2. PICK i \in DOMAIN db[r.key] : i <= r.ver /\ db[r.key][i] = a.id
    BY <2>1
  <2>3. PICK k \in Key, v \in Nat : k = r.key /\ v = r.ver /\ Written(k, v, b.cts) /\ v <= Len(db[k])
    BY <1>2, <2>1
  <2>4. v \in DOMAIN db[k] /\ v > 0
    BY <1>1, <2>2, <2>3
  <2>5. PICK h \in hist : h.id = db[k][v]
    BY <1>1, <2>4 DEF OrderInv, Stored
  <2>6. h.cts <= b.cts /\ h.cts \in Nat
    BY <1>1, <2>3, <2>4, <2>5, OrderTypes DEF Written
  <2>7. a.cts <= h.cts
    <3>1. CASE i = v
      BY <1>1, <2>2, <2>3, <2>5, <2>6, <3>1 DEF OrderInv, Unique
    <3>2. CASE i < v
      BY <1>1, <2>2, <2>3, <2>4, <2>5, <2>6, <3>2 DEF OrderInv, InOrder
    <3>3. QED
      BY <1>1, <2>2, <2>3, <3>1, <3>2
  <2>8. QED
    BY <1>1, <1>4, <2>6, <2>7
<1>5. CASE \E r \in Clear(a.reads) : \E j \in DOMAIN db[r.key] : j > r.ver /\ db[r.key][j] = b.id
  <2>1. PICK r \in Clear(a.reads) : \E j \in DOMAIN db[r.key] : j > r.ver /\ db[r.key][j] = b.id
    BY <1>5
  <2>2. PICK k \in Key, v \in Nat : k = r.key /\ v = r.ver /\ Later(k, v, a.cts, {a.id})
    BY <1>2, <2>1
  <2>3. PICK i \in DOMAIN db[k] : i > v /\ db[k][i] = b.id
    BY <2>1, <2>2
  <2>4. PICK j \in v + 1 .. Len(db[k]) : db[k][j] = b.id
    <3>1. Len(db[k]) \in Nat /\ DOMAIN db[k] = 1 .. Len(db[k])
      BY <1>1
    <3>2. i \in v + 1 .. Len(db[k])
      BY <2>3, <3>1
    <3>3. QED
      BY <2>3, <3>2
  <2>5. b.id # a.id
    BY <1>1 DEF OrderInv, Unique
  <2>6. a.cts < b.cts
    BY <2>2, <2>4, <2>5 DEF Later
  <2>7. QED
    BY <1>1, <2>6
<1>6. QED
  BY <1>3, <1>4, <1>5 DEF Conflicts

\* Among the transactions of a cycle those with the latest commit_ts would have
\* read from one another in a cycle of their own.
LEMMA SerialOrder ==
  ASSUME SerialInv, NEW S \in SUBSET hist, S # {},
         \A a \in S : \E b \in S \ {a} : Conflicts(a, b)
  PROVE  FALSE
<1>1. \A h \in hist : h.cts \in Nat
  BY OrderTypes DEF SerialInv, ForwardInv, OrderInv
<1> DEFINE C == {h.cts : h \in S}
<1>2. C \in SUBSET Nat /\ C # {}
  BY <1>1
<1>3. IsFiniteSet(C)
  <2>1. IsFiniteSet(S)
    BY FS_Subset DEF SerialInv
  <2>2. [h \in S |-> h.cts] \in Surjection(S, C)
    BY DEF Surjection
  <2>3. QED
    BY <2>1, <2>2, FS_Surjection
<1>4. PICK m \in C : \A n \in C : n <= m
  BY <1>2, <1>3, LargestMember
<1> DEFINE M == {h \in S : h.cts = m}
<1>5. M # {} /\ M \in SUBSET hist
  BY <1>4
<1>6. ASSUME NEW a \in M PROVE \E b \in M \ {a} : ReadFrom(a, b)
  <2>1. PICK b \in S \ {a} : Conflicts(a, b)
    BY <1>6
  <2>2. a.cts <= b.cts /\ (a.cts = b.cts => ReadFrom(a, b))
    BY <2>1, ConflictForward
  <2>3. a.cts = m /\ b.cts <= m /\ a.cts \in Nat /\ b.cts \in Nat
    BY <1>1, <1>4, <1>6, <2>1
  <2>4. b.cts = m
    BY <2>2, <2>3
  <2>5. QED
    BY <2>1, <2>2, <2>3, <2>4
<1>7. QED
  BY <1>5, <1>6 DEF SerialInv, NoReadCycle

LEMMA SerialReads == SerialInv => UnlockedReadsSerializable
<1>1. SUFFICES ASSUME SerialInv PROVE UnlockedReadsSerializable
  OBVIOUS
<1>2. ReadUnderTimestamps /\ ReadsValidAtCommit
  BY <1>1, ReadsUnder, ReadsValid
<1>3. ~\E S \in SUBSET hist : S # {} /\ \A a \in S : \E b \in S \ {a} : Conflicts(a, b)
  BY <1>1, SerialOrder
<1>4. QED
  BY <1>2, <1>3, AcyclicIs DEF UnlockedReadsSerializable

-----------------------------------------------------------------------------
(* Programs that read again only what they have written.                   *)

\* A program that looks a key up twice has written it before.
RereadsOwnWrites == \A t \in Thread : \A n \in DOMAIN Programs[t] : \A p \in Programs[t][n] :
  \A i, j \in DOMAIN p : i < j /\ p[i].op = "lookup" /\ p[j] = p[i] =>
    \E m \in 1 .. i - 1 : p[m].op = "write" /\ p[m].key = p[i].key

\* The same of the calls c that a transaction which has written W has still to
\* make, which look up nothing that it has a read of in R.
Apart(c, W, R) ==
  /\ \A i, j \in DOMAIN c : i < j /\ c[i].op = "lookup" /\ c[j] = c[i] =>
       c[i].key \in W \/ \E m \in 1 .. i - 1 : c[m].op = "write" /\ c[m].key = c[i].key
  /\ \A i \in DOMAIN c : c[i].op = "lookup" => \A r \in Clear(R) : r.key # c[i].key
CallsApart(t) ==
  /\ Apart(calls[t], WriteSet(t), reads[t])
  /\ Phase(t) \in Looking => Head(calls[t]).op = "lookup"
  /\ pc[t] = "confirm" /\ ~v1[t].lock /\ CallKey(t) \in WriteSet(t) => got[t] = Own
  /\ pc[t] = "idle" => reads[t] = {}

ApartInv == \A t \in Thread : CallsApart(t)

\* What is left of calls that are apart, after a call that leaves no read, or
\* has read a key that the transaction has not written.
LEMMA ApartTail ==
  ASSUME NEW p \in Seq(Op), p # <<>>, NEW V, NEW W, NEW Q, NEW R, Apart(p, V, Q), V \subseteq W,
         Head(p).op = "write" => Head(p).key \in W,
         \A r \in Clear(R) : r \in Clear(Q)
           \/ (r.key = Head(p).key /\ Head(p).key \notin V /\ Head(p).op = "lookup")
  PROVE  Apart(Tail(p), W, R)
<1>1. PICK c \in Seq(Op) : c = Tail(p)
  <2>1. Tail(p) \in Seq(Op)
    OBVIOUS
  <2>2. QED
    BY <2>1
<1>2. /\ 1 \in DOMAIN p /\ Head(p) = p[1] /\ Len(c) = Len(p) - 1
      /\ DOMAIN c = 1 .. Len(c) /\ DOMAIN p = 1 .. Len(p) /\ Len(p) \in Nat
      /\ \A i \in DOMAIN p : p[i] \in Op
  BY <1>1
<1>3. \A i \in DOMAIN c : i + 1 \in DOMAIN p /\ i \in Nat /\ i # 0 /\ c[i] = p[i + 1]
  BY <1>1, <1>2
<1>4. ASSUME NEW i \in DOMAIN c, NEW j \in DOMAIN c, i < j, c[i].op = "lookup", c[j] = c[i]
      PROVE  c[i].key \in W \/ \E m \in 1 .. i - 1 : c[m].op = "write" /\ c[m].key = c[i].key
  <2>1. PICK a \in DOMAIN p, b \in DOMAIN p : a = i + 1 /\ b = j + 1 /\ a < b
    BY <1>2, <1>3, <1>4
  <2>2. p[a].op = "lookup" /\ p[b] = p[a] /\ p[a] = c[i]
    BY <1>3, <1>4, <2>1
  <2>3. p[a].key \in V \/ \E m \in 1 .. a - 1 : p[m].op = "write" /\ p[m].key = p[a].key
    BY <2>1, <2>2 DEF Apart
  <2>4. CASE p[a].key \in V
    BY <2>2, <2>4
  <2>5. ASSUME NEW m \in 1 .. a - 1, p[m].op = "write", p[m].key = p[a].key
        PROVE  c[i].key \in W \/ \E n \in 1 .. i - 1 : c[n].op = "write" /\ c[n].key = c[i].key
    <3>1. CASE m = 1
      BY <1>2, <2>2, <2>5, <3>1
    <3>2. CASE m # 1
      <4>1. PICK n \in 1 .. i - 1 : m = n + 1 /\ n \in DOMAIN c
        BY <1>2, <1>3, <2>1, <2>5, <3>2
      <4>2. QED
        BY <1>3, <2>2, <2>5, <4>1
    <3>3. QED
      BY <3>1, <3>2
  <2>6. QED
    BY <2>3, <2>4, <2>5
<1>5. ASSUME NEW i \in DOMAIN c, c[i].op = "lookup", NEW r \in Clear(R) PROVE r.key # c[i].key
  <2>1. PICK a \in DOMAIN p : a = i + 1 /\ a > 1 /\ p[a] = c[i]
    BY <1>2, <1>3
  <2>2. CASE r \in Clear(Q)
    BY <1>5, <2>1, <2>2 DEF Apart
  <2>3. CASE r.key = Head(p).key /\ Head(p).key \notin V /\ Head(p).op = "lookup"
    <3>1. SUFFICES ASSUME r.key = c[i].key PROVE FALSE
      OBVIOUS
    <3>2. p[1].key = p[a].key /\ p[1].op = p[a].op /\ p[1] \in Op /\ p[a] \in Op
      BY <1>2, <1>5, <2>1, <2>3, <3>1
    <3>3. p[1] = p[a]
      BY <3>2 DEF Op
    <3>4. PICK b \in DOMAIN p : b = 1 /\ b < a /\ p[b].op = "lookup" /\ p[a] = p[b]
      BY <1>2, <2>1, <2>3, <3>3
    <3>5. p[b].key \in V \/ \E m \in 1 .. b - 1 : p[m].op = "write" /\ p[m].key = p[b].key
      BY <3>4 DEF Apart
    <3>6. p[b].key \in V
      BY <3>4, <3>5
    <3>7. QED
      BY <1>2, <2>3, <3>4, <3>6
  <2>4. QED
    BY <1>5, <2>2, <2>3
<1>6. QED
  BY <1>1, <1>4, <1>5 DEF Apart

\* A step that makes no call.
LEMMA ApartSame ==
  ASSUME NEW t \in Thread, CallsApart(t), calls'[t] = calls[t], reads'[t] = reads[t],
         WriteSet(t)' = WriteSet(t), pc'[t] \notin {"idle", "confirm"},
         Phase(t)' \in Looking => Phase(t) \in Looking
  PROVE  CallsApart(t)'
BY DEF CallsApart, Apart

\* The steps of the calls.
LEMMA CallApart ==
  ASSUME CacheAssumption, TicTocAssumption, RereadsOwnWrites, Inv, NEW t \in Thread, CallsApart(t),
         \/ Begin(t) \/ LocalWrite(t) \/ LookupPin(t)
         \/ LookupLoad(t) \/ LookupRead(t) \/ LookupConfirm(t)
  PROVE  CallsApart(t)'
<1>1. /\ pc \in [Thread -> Label] /\ back \in [Thread -> {"idle", "load", "lock"}]
      /\ count \in [Thread -> Nat] /\ calls \in [Thread -> Seq(Op)] /\ calls[t] \in Seq(Op)
      /\ ent \in [Thread -> [Key -> Entry]] /\ reads \in [Thread -> SUBSET Read]
      /\ v1 \in [Thread -> TimestampSet] /\ got \in [Thread -> Nat \cup {Own, Nothing}]
      /\ Bookkeeping(t)
  BY ThreadTypes DEF Inv, TypeOK
<1>2. CASE Begin(t)
  <2>1. PICK p \in Programs[t][count[t] + 1] : calls' = [calls EXCEPT ![t] = p]
    BY <1>2 DEF Begin
  <2>2. /\ pc[t] = "idle" /\ count[t] < Len(Programs[t]) /\ reads' = reads
        /\ pc'[t] = "run" /\ calls'[t] = p /\ reads[t] = {}
    BY <1>1, <1>2, <2>1 DEF Begin, Goto, CallsApart
  <2>3. count[t] + 1 \in DOMAIN Programs[t]
    <3>1. Programs[t] \in Seq(SUBSET Seq(Op)) /\ count[t] \in Nat
      BY <1>1 DEF TicTocAssumption
    <3>2. QED
      BY <2>2, <3>1
  <2>4. \A i, j \in DOMAIN p : i < j /\ p[i].op = "lookup" /\ p[j] = p[i] =>
          \E m \in 1 .. i - 1 : p[m].op = "write" /\ p[m].key = p[i].key
    BY <2>3 DEF RereadsOwnWrites
  <2>5. Apart(calls'[t], WriteSet(t)', reads'[t])
    BY <2>2, <2>4 DEF Apart, Clear
  <2>6. QED
    BY <2>2, <2>5 DEF CallsApart, Phase, Looking
<1>3. CASE LocalWrite(t)
  <2>1. PICK k \in Key : k = CallKey(t)
    BY <1>3, ThreadTypes DEF LocalWrite, Calling
  <2>2. /\ pc' = pc /\ pc[t] = "run" /\ calls[t] # <<>> /\ Head(calls[t]).op = "write"
        /\ calls'[t] = Tail(calls[t]) /\ reads' = reads
        /\ ent' = [ent EXCEPT ![t][k].wr = TRUE]
    BY <1>1, <1>3, <2>1 DEF LocalWrite, Calling, Return
  <2>3. WriteSet(t) \subseteq WriteSet(t)' /\ k \in WriteSet(t)'
    BY <1>1, <2>2 DEF Entry, WriteSet
  <2>4. Apart(Tail(calls[t]), WriteSet(t)', reads[t])
    BY <1>1, <2>1, <2>2, <2>3, ApartTail DEF CallsApart, CallKey
  <2>5. QED
    BY <2>2, <2>4 DEF CallsApart, Phase, Looking
<1>4. CASE LookupPin(t)
  <2>1. PICK k \in Key : k = CallKey(t)
    BY <1>4, ThreadTypes DEF LookupPin, Calling
  <2>2. /\ Head(calls[t]).op = "lookup" /\ calls' = calls /\ reads' = reads
        /\ ent' = [ent EXCEPT ![t][k].rd = TRUE, ![t][k].held = TRUE]
    BY <1>4, <2>1 DEF LookupPin, Calling
  <2>3. pc'[t] \notin {"idle", "confirm"}
    BY <1>1, <1>4 DEF LookupPin, Pin, Goto
  <2>4. WriteSet(t)' = WriteSet(t)
    <3>1. ent[t] \in [Key -> Entry] /\ ent[t][k] \in Entry
      BY <1>1
    <3>2. ent'[t] = [ent[t] EXCEPT ![k].rd = TRUE, ![k].held = TRUE]
      BY <1>1, <2>2
    <3>3. ent'[t][k].wr = ent[t][k].wr
      BY <3>1, <3>2 DEF Entry
    <3>4. \A j \in Key : j # k => ent'[t][j] = ent[t][j]
      BY <3>1, <3>2
    <3>5. QED
      BY <3>3, <3>4 DEF WriteSet
  <2>5. QED
    BY <2>2, <2>3, <2>4 DEF CallsApart
<1>5. CASE LookupLoad(t) \/ LookupRead(t) \/ (LookupConfirm(t) /\ pc'[t] = "load")
  <2>1. /\ UNCHANGED <<calls, reads, ent>> /\ pc[t] \in Looking /\ pc'[t] \in Looking
        /\ pc'[t] = "confirm" /\ ~v1'[t].lock /\ ent[t][CallKey(t)].wr => got'[t] = Own
    <3>1. CASE LookupLoad(t)
      BY <1>1, <3>1 DEF LookupLoad, Goto, txnVars, Looking
    <3>2. CASE LookupRead(t)
      BY <1>1, <3>2 DEF LookupRead, Goto, Looking
    <3>3. CASE LookupConfirm(t) /\ pc'[t] = "load"
      BY <1>1, <3>3 DEF LookupConfirm, Goto, Looking
    <3>4. QED
      BY <1>5, <3>1, <3>2, <3>3
  <2>2. WriteSet(t)' = WriteSet(t) /\ CallKey(t)' = CallKey(t)
    BY <2>1 DEF WriteSet, CallKey
  <2>3. QED
    BY <2>1, <2>2 DEF CallsApart, Phase, Looking, WriteSet
<1>6. CASE LookupConfirm(t) /\ pc'[t] # "load"
  <2>1. pc[t] = "confirm" /\ calls[t] # <<>> /\ Head(calls[t]).op = "lookup"
    BY <1>1, <1>6 DEF LookupConfirm, Bookkeeping, Phase, CallsApart, Looking
  <2>2. PICK k \in Key : k = CallKey(t)
    BY <2>1, ThreadTypes
  <2>3. PICK n : n = [key |-> k, ver |-> got[t], locked |-> v1[t].lock]
    OBVIOUS
  <2>4. /\ pc'[t] = "run" /\ calls'[t] = Tail(calls[t])
        /\ ent' = [ent EXCEPT ![t][k].wts = v1[t].wts, ![t][k].rts = Rts(v1[t])]
        /\ \A r \in reads'[t] : r \in reads[t] \/ (r = n /\ got[t] # Own)
    <3>1. pc'[t] = "run" /\ cell[k] = v1[t]
      BY <1>1, <1>6, <2>2 DEF LookupConfirm, Goto
    <3>2. /\ ent' = [ent EXCEPT ![t][k].wts = v1[t].wts, ![t][k].rts = Rts(v1[t])]
          /\ calls' = [calls EXCEPT ![t] = Tail(@)]
          /\ \/ reads' = reads
             \/ got[t] # Own /\ reads' = [reads EXCEPT ![t] = @ \cup {n}]
      BY <1>6, <2>2, <2>3, <3>1 DEF LookupConfirm, Return, Goto
    <3>3. QED
      BY <1>1, <3>1, <3>2
  <2>5. WriteSet(t)' = WriteSet(t)
    <3>1. ent[t] \in [Key -> Entry] /\ ent[t][k] \in Entry
      BY <1>1
    <3>2. ent'[t] = [ent[t] EXCEPT ![k].wts = v1[t].wts, ![k].rts = Rts(v1[t])]
      BY <1>1, <2>4
    <3>3. ent'[t][k].wr = ent[t][k].wr
      BY <3>1, <3>2 DEF Entry
    <3>4. \A j \in Key : j # k => ent'[t][j] = ent[t][j]
      BY <3>1, <3>2
    <3>5. QED
      BY <3>3, <3>4 DEF WriteSet
  <2>6. ASSUME NEW r \in Clear(reads'[t])
        PROVE  r \in Clear(reads[t]) \/ (r.key = Head(calls[t]).key /\ Head(calls[t]).key \notin WriteSet(t))
    <3>1. r \in reads'[t] /\ r \in {e \in reads'[t] : ~e.locked}
      BY <2>6 DEF Clear
    <3>2. CASE r \in reads[t]
      BY <3>1, <3>2 DEF Clear
    <3>3. CASE r = n /\ got[t] # Own
      <4>1. r.key = Head(calls[t]).key
        BY <2>2, <2>3, <3>3 DEF CallKey
      <4>2. ~v1[t].lock
        BY <2>3, <3>1, <3>3
      <4>3. ~ent[t][CallKey(t)].wr
        BY <2>1, <2>2, <3>3, <4>2 DEF CallsApart, WriteSet
      <4>4. QED
        BY <2>2, <4>1, <4>3 DEF WriteSet, CallKey
    <3>4. QED
      BY <2>4, <3>1, <3>2, <3>3
  <2>7. Apart(Tail(calls[t]), WriteSet(t), reads'[t])
    BY <1>1, <2>1, <2>6, ApartTail DEF CallsApart
  <2>8. QED
    BY <2>4, <2>5, <2>7 DEF CallsApart, Phase, Looking
<1>7. QED
  BY <1>2, <1>3, <1>4, <1>5, <1>6

\* The rest of a transaction makes no call, until it is wiped.
LEMMA RestApart ==
  ASSUME Inv, NEW t \in Thread, CallsApart(t),
         CheckLoad(t) \/ EvictOne(t) \/ Locking(t) \/ Deciding(t) \/ Ending(t) \/ Abort(t)
  PROVE  CallsApart(t)'
<1>1. /\ pc \in [Thread -> Label] /\ back \in [Thread -> {"idle", "load", "lock"}]
      /\ calls \in [Thread -> Seq(Op)] /\ ent \in [Thread -> [Key -> Entry]]
      /\ ent[t] \in [Key -> Entry] /\ reads \in [Thread -> SUBSET Read] /\ Bookkeeping(t)
  BY ThreadTypes DEF Inv, TypeOK
<1>2. CASE Finish(t)
  <2>1. pc'[t] = "idle" /\ calls'[t] = <<>> /\ reads'[t] = {}
    BY <1>1, <1>2 DEF Finish, Goto
  <2>2. QED
    BY <2>1 DEF CallsApart, Apart, Phase, Looking
<1>3. CASE LockPin(t) \/ Unpin(t)
  <2>1. PICK k, b : ent' = [ent EXCEPT ![t][k].held = b]
    BY <1>3 DEF LockPin, Unpin
  <2>2. \A j \in Key : ent'[t][j].wr = ent[t][j].wr
    <3>1. ASSUME NEW j \in Key
          PROVE  ent'[t][j] = ent[t][j] \/ ent'[t][j] = [ent[t][j] EXCEPT !.held = b]
      BY <1>1, <2>1
    <3>2. ASSUME NEW e \in Entry PROVE [e EXCEPT !.held = b].wr = e.wr
      BY DEF Entry
    <3>3. QED
      BY <1>1, <3>1, <3>2
  <2>3. UNCHANGED <<calls, reads>> /\ pc'[t] \notin {"idle", "confirm"}
        /\ Phase(t)' \in {"lock", "unpin"}
    BY <1>1, <1>3 DEF LockPin, Unpin, Pin, Goto, Phase
  <2>4. QED
    BY <2>2, <2>3, ApartSame DEF WriteSet, Looking
<1>4. CASE CheckLoad(t) \/ EvictOne(t)
  <2>1. UNCHANGED <<calls, reads, ent, back>> /\ pc[t] \in {"check_load", "evict"}
        /\ pc'[t] \in {"evict", back[t]}
    BY <1>1, <1>4 DEF CheckLoad, EvictOne, Goto, txnVars
  <2>2. back[t] \in {"load", "lock"} /\ Phase(t)' = Phase(t)
    BY <1>1, <2>1 DEF Bookkeeping, Phase
  <2>3. QED
    BY <2>1, <2>2, ApartSame DEF WriteSet
<1>5. CASE ~(CheckLoad(t) \/ EvictOne(t) \/ LockPin(t) \/ Unpin(t) \/ Finish(t))
  <2>1. UNCHANGED <<calls, reads, ent>>
    BY <1>5 DEF Locking, Deciding, Ending, Abort, CommitBegin, LockLoad, LockCas, BackOffUnlock,
       LockRetry, LockDone, Stamp, StampDone, ValidateLoad, ValidateBit, ValidateCas,
       ValidateDone, Install, Publish, AbortUnlock, CommitEnd, txnVars
  <2>2. pc'[t] \notin {"idle", "check_load", "evict"} \cup Looking
    <3>1. CASE Locking(t)
      BY <1>1, <1>5, <3>1 DEF Locking, CommitBegin, LockLoad, LockCas, BackOff, BackOffUnlock,
         LockRetry, LockDone, Goto, Looking
    <3>2. CASE Deciding(t)
      BY <1>1, <3>2 DEF Deciding, Stamp, StampDone, ValidateLoad, ValidateBit, ValidateCas,
         ValidateDone, GiveUp, Goto, Looking
    <3>3. CASE Ending(t) \/ Abort(t)
      BY <1>1, <1>5, <3>3 DEF Ending, Install, Publish, AbortUnlock, CommitEnd, Abort, Goto, Looking
    <3>4. QED
      BY <1>5, <3>1, <3>2, <3>3
  <2>3. WriteSet(t)' = WriteSet(t) /\ Phase(t)' = pc'[t]
    BY <2>1, <2>2 DEF WriteSet, Phase
  <2>4. QED
    BY <2>1, <2>2, <2>3, ApartSame DEF Looking
<1>6. QED
  BY <1>2, <1>3, <1>4, <1>5

LEMMA NextApart ==
  ASSUME CacheAssumption, TicTocAssumption, RereadsOwnWrites, OrderInv, ApartInv, [Next]_vars
  PROVE  ApartInv'
<1>1. CASE UNCHANGED vars
  <2>1. UNCHANGED <<calls, reads, ent, pc, back, v1, got>>
    BY <1>1 DEF vars, txnVars, commitVars
  <2>2. QED
    BY <2>1 DEF ApartInv, CallsApart, WriteSet, Phase, CallKey
<1>2. ASSUME NEW t \in Thread, Begin(t) \/ Step(t) \/ Abort(t), NEW u \in Thread
      PROVE  CallsApart(u)'
  <2>1. CASE u = t
    BY <1>2, <2>1, CallApart, RestApart DEF Step, Calls, OrderInv, ApartInv
  <2>2. CASE u # t
    <3>1. Same(u) /\ reads'[u] = reads[u] /\ got'[u] = got[u]
      BY <1>2, <2>2, StepOthers DEF Others
    <3>2. /\ WriteSet(u)' = WriteSet(u) /\ Phase(u)' = Phase(u) /\ CallKey(u)' = CallKey(u)
          /\ calls'[u] = calls[u] /\ pc'[u] = pc[u] /\ v1'[u] = v1[u]
      BY <3>1 DEF Same, WriteSet, Phase, CallKey
    <3>3. QED
      BY <3>1, <3>2 DEF ApartInv, CallsApart
  <2>3. QED
    BY <2>1, <2>2
<1>3. QED
  BY <1>1, <1>2 DEF Next, Finished, ApartInv

LEMMA InitApart == Init => ApartInv
<1>1. SUFFICES ASSUME Init, NEW t \in Thread PROVE CallsApart(t)
  BY DEF ApartInv
<1>2. pc[t] = "idle" /\ reads[t] = {} /\ calls[t] = <<>>
  BY <1>1 DEF Init
<1>3. QED
  BY <1>2 DEF CallsApart, Apart, Phase, Looking

LEMMA ApartLooksOnce == ASSUME OrderInv, ApartInv PROVE LooksUpOnce
<1>1. ASSUME NEW t \in Thread, Phase(t) \in Looking, NEW r \in Clear(reads[t])
      PROVE  r.key # CallKey(t)
  <2>1. calls[t] # <<>> /\ Head(calls[t]).op = "lookup" /\ calls[t] \in Seq(Op)
    BY <1>1, ThreadTypes DEF ApartInv, CallsApart, OrderInv, Bookkeeping, Looking
  <2>2. 1 \in DOMAIN calls[t] /\ Head(calls[t]) = calls[t][1]
    BY <2>1
  <2>3. QED
    BY <1>1, <2>1, <2>2 DEF ApartInv, CallsApart, Apart, CallKey
<1>2. QED
  BY <1>1 DEF LooksUpOnce

\* Programs that look a key up again only once they have written it make
\* transactions that have one read of it to validate.
THEOREM LookupsLeaveOneRead == RereadsOwnWrites => (Spec => []LooksUpOnce)
<1> SUFFICES ASSUME RereadsOwnWrites PROVE Spec => []LooksUpOnce
  OBVIOUS
<1>1. Init => OrderInv /\ ApartInv
  BY CacheAssumption, TicTocAssumption, InitOrder, InitApart
<1>2. OrderInv /\ ApartInv /\ [Next]_vars => OrderInv' /\ ApartInv'
  BY CacheAssumption, TicTocAssumption, NextOrder, NextApart
<1>3. OrderInv /\ ApartInv => LooksUpOnce
  BY ApartLooksOnce
<1>4. QED
  BY <1>1, <1>2, <1>3, PTL DEF Spec

\* The reads that are delivered from an unlocked tuple are what their recorded
\* timestamps promise, are valid at the commit timestamp, and have a serial
\* order with the writes, for any number of threads, keys and transactions, as
\* long as no validation swaps the timestamps of a key that another commit has
\* stamped.
THEOREM SerializableReads ==
  RereadsOwnWrites => (Spec /\ [][OwnSwaps]_vars => []UnlockedReadsSerializable)
<1> SUFFICES ASSUME RereadsOwnWrites
             PROVE  Spec /\ [][OwnSwaps]_vars => []UnlockedReadsSerializable
  OBVIOUS
<1>1. Init => SerialInv
  BY CacheAssumption, TicTocAssumption, InitSerial
<1>2. SerialInv /\ LooksUpOnce /\ [Next]_vars /\ [OwnSwaps]_vars => SerialInv'
  BY CacheAssumption, TicTocAssumption, NextSerial
<1>3. SerialInv => UnlockedReadsSerializable
  BY SerialReads
<1>4. Spec => []LooksUpOnce
  BY LookupsLeaveOneRead
<1>5. QED
  BY <1>1, <1>2, <1>3, <1>4, PTL DEF Spec
=============================================================================
