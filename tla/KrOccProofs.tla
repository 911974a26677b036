----------------------------- MODULE KrOccProofs -----------------------------
(***************************************************************************)
(* Proofs about KrOcc, for any threads, keys and programs and both builds. *)
(* The list of committed transactions has what a check goes over, however  *)
(* it is collected: Inv places every start and every cursor in it, and     *)
(* counts the references to its nodes.  So what commits is serializable,   *)
(* in the order in which the commits began: SerialInv says that there is   *)
(* an order R of the transactions in which conflicts lead forward, and     *)
(* what a commit owes those that began theirs earlier (Clear).             *)
(***************************************************************************)
EXTENDS KrOcc, TLAPS, FiniteSetTheorems, WellFoundedInduction

Txn      == Thread \X Nat
ListNode == [id : Txn, ws : SUBSET Key]
Starts   == {HeadNode} \cup Txn
Read     == [key : Key, ver : Nat]
Commit   == [id : Txn, cts : Nat, reads : SUBSET Read]
Label    == {"idle", "run", "check", "write", "fail"}
Message  == {"insert", "delete"}

\* The type of every variable.
Types ==
  /\ build \in Builds
  /\ lock \in Thread \cup {"free"}
  /\ all \in Seq(ListNode)
  /\ active \in SUBSET ListNode
  /\ DOMAIN refs \in SUBSET Starts /\ refs \in [DOMAIN refs -> Int]
  /\ db \in [Key -> Seq(Txn)]
  /\ pc \in [Thread -> Label]
  /\ count \in [Thread -> Nat]
  /\ calls \in [Thread -> Seq(Op)]
  /\ start \in [Thread -> Starts]
  /\ rs \in [Thread -> SUBSET Key]
  /\ DOMAIN ws = Thread /\ \A t \in Thread : DOMAIN ws[t] \in SUBSET Key
  /\ finish \in [Thread -> SUBSET ListNode]
  /\ cursor \in [Thread -> Starts]
  /\ todo \in [Thread -> SUBSET Key]
  /\ since \in [Thread -> Nat]
  /\ reads \in [Thread -> SUBSET Read]
  /\ aborted \in Seq(Starts)
  /\ hist \in SUBSET Commit /\ IsFiniteSet(hist)

\* A commit that has begun.
Busy(t) == pc[t] \in {"check", "write", "fail"}

\* Who has the mutex, and who is among the active.
Commits ==
  /\ build = "serial" => \A t \in Thread : Busy(t) <=> lock = t
  /\ build # "serial" => Free /\ \A t \in Thread : Busy(t) => Mine(t) \in active

\* The transactions that committed are of the past, each with its number.
History ==
  /\ \A h \in hist : h.id[2] \in 1 .. count[h.id[1]] /\ h.cts < Cardinality(hist)
  /\ \A t \in Thread : pc[t] # "idle" => count[t] > 0 /\ \A h \in hist : h.id # Id(t)
  /\ \A g, h \in hist : g.id = h.id \/ g.cts = h.cts => g = h

\* How many commits are no longer in the list.
Base == Cardinality(hist) - Len(all)

\* The list is the last of the history, in its order.
Listed ==
  /\ Base \in Nat
  /\ \A i \in DOMAIN all : \E h \in hist : h.id = all[i].id /\ h.cts = Base + i - 1

\* The node at a position of the list.
NodeAt(i) == IF i = 0 THEN HeadNode ELSE all[i].id
From(t)   == since[t] - Base

\* A running transaction starts from the last that had committed; a check has
\* come to a node after it and found nothing.
Running ==
  \A t \in Thread : pc[t] # "idle" =>
    /\ From(t) \in 0 .. Len(all)
    /\ start[t] = NodeAt(From(t))
Checked ==
  \A t \in Thread : pc[t] = "check" =>
    \E q \in From(t) .. Len(all) :
      /\ cursor[t] = NodeAt(q)
      /\ \A i \in From(t) + 1 .. q : all[i].ws \cap rs[t] = {}

\* References to the nodes, and where they come from.
Counts ==
  /\ \A i \in DOMAIN aborted : aborted[i] = HeadNode \/ \E h \in hist : h.id = aborted[i]
  /\ \A i \in 0 .. Len(all) : NodeAt(i) \in DOMAIN refs /\ refs[NodeAt(i)] = StartedAt(NodeAt(i))

Inv == Types /\ Commits /\ History /\ Listed /\ Running /\ Checked /\ Counts

-----------------------------------------------------------------------------
\* The transaction has stored a write of k.
Stored(id, k) == \E j \in DOMAIN db[k] : db[k][j] = id

\* Every stored write is of a transaction that committed, whose node has the
\* key, or of one that is at its writes.
Writers ==
  /\ \A k \in Key : \A j \in DOMAIN db[k] :
       \/ \E h \in hist : h.id = db[k][j]
       \/ \E t \in Thread : /\ pc[t] = "write" /\ db[k][j] = Id(t)
                            /\ k \in DOMAIN ws[t] /\ k \notin todo[t]
  /\ \A k \in Key : \A i \in DOMAIN all : Stored(all[i].id, k) => k \in all[i].ws
  /\ \A t \in Thread : pc[t] = "write" => todo[t] \subseteq DOMAIN ws[t]

\* What has overwritten a read committed since the transaction began, or is at
\* its writes.
Reads ==
  \A t \in Thread : pc[t] # "idle" => \A r \in reads[t] :
    /\ r.key \in rs[t] /\ r.ver <= Len(db[r.key])
    /\ \A j \in DOMAIN db[r.key] : j > r.ver =>
         \/ \E h \in hist : h.id = db[r.key][j] /\ h.cts >= since[t]
         \/ \E u \in Thread : pc[u] = "write" /\ db[r.key][j] = Id(u)

HistReads == \A h \in hist : \A r \in h.reads : r.ver <= Len(db[r.key])

-----------------------------------------------------------------------------
(* The order R in which commits began; N is the next number.               *)

Ranks(R, N) ==
  /\ R \in [Txn -> Nat] /\ N \in Nat
  /\ \A h \in hist : R[h.id] < N
  /\ \A t \in Thread : Busy(t) => R[Id(t)] < N /\ \A h \in hist : R[h.id] # R[Id(t)]
  /\ \A t, u \in Thread : Busy(t) /\ Busy(u) /\ R[Id(t)] = R[Id(u)] => t = u

\* Commit t began before u, and has not ended.
Earlier(R, t, u) == Busy(t) /\ R[Id(t)] < R[Id(u)]

\* A commit keeps clear of those that began earlier and have not ended: it
\* will look at them, it has, or it committed before them.
Clear(R) ==
  /\ \A t, u \in Thread : pc[u] = "check" /\ Earlier(R, t, u) => Mine(t) \in finish[u]
  /\ \A t, u \in Thread : pc[u] = "write" /\ Earlier(R, t, u) =>
       \A k \in DOMAIN ws[t] : k \notin DOMAIN ws[u] /\ k \notin rs[u]
  /\ \A t \in Thread : \A h \in hist : Busy(t) /\ R[Id(t)] < R[h.id] =>
       \A k \in DOMAIN ws[t] : ~Stored(h.id, k) /\ \A r \in h.reads : r.key # k

\* The versions up to r's are of earlier transactions ...
After(R, id, r)  == \A i \in DOMAIN db[r.key] : i <= r.ver => R[db[r.key][i]] < R[id]
\* ... and those that follow of later ones.
Before(R, id, r) == \A i \in DOMAIN db[r.key] :
                      i > r.ver /\ db[r.key][i] # id => R[id] < R[db[r.key][i]]

Ordered(R) ==
  /\ \A k \in Key : \A i, j \in DOMAIN db[k] : i < j => R[db[k][i]] < R[db[k][j]]
  /\ \A t \in Thread : Busy(t) => \A r \in reads[t] : After(R, Id(t), r)
  /\ \A t \in Thread : pc[t] = "write" => \A r \in reads[t] : Before(R, Id(t), r)
  /\ \A h \in hist : \A r \in h.reads : After(R, h.id, r) /\ Before(R, h.id, r)

Order(R, N) == Ranks(R, N) /\ Clear(R) /\ Ordered(R)

SerialInv == /\ Inv /\ Writers /\ Reads /\ HistReads
             /\ \E R \in [Txn -> Nat] : \E N \in Nat : Order(R, N)

-----------------------------------------------------------------------------
(* Numbers, sets and functions.                                            *)

\* The order of the numbers as a relation.
Less == {p \in Nat \X Nat : p[1] < p[2]}

\* The order of the numbers is well founded; the set form of induction.
LEMMA LessWellFounded == IsWellFoundedOn(Less, Nat)
  BY NatLessThanWellFounded, Zenon DEF OpToRel, Less

\* A set of numbers has a least one.
LEMMA Smallest ==
  ASSUME NEW S \in SUBSET Nat, S # {}
  PROVE  \E m \in S : \A n \in S : m <= n
<1>1. PICK m \in S : \A n \in S : <<n, m>> \notin Less
  BY WFMin, LessWellFounded, Zenon
<1>2. ASSUME NEW a \in Nat, NEW b \in Nat, <<a, b>> \notin Less
      PROVE  ~(a < b)
  BY <1>2, Zenon DEF Less
<1>3. \A n \in S : ~(n < m)
  BY <1>1, <1>2, Zenon
<1>4. \A n \in S : m <= n
  BY <1>3
<1>5. QED
  BY <1>4

\* A number between two of a set, or the greatest of a set that has a bound.
LEMMA Greatest ==
  ASSUME NEW S \in SUBSET Nat, S # {}, NEW N \in Nat, \A n \in S : n < N
  PROVE  \E m \in S : \A n \in S : n <= m
<1> DEFINE D == {d \in Nat : \E n \in S : d = N - n}
<1>1. D \in SUBSET Nat /\ D # {}
  <2>1. PICK n \in S : TRUE
    OBVIOUS
  <2>2. N - n \in D
    BY <2>1
  <2>3. QED
    BY <2>2
<1> HIDE DEF D
<1>2. PICK d \in D : \A e \in D : d <= e
  BY <1>1, Smallest
<1> USE DEF D
<1>3. PICK m \in S : d = N - m
  OBVIOUS
<1>4. \A n \in S : N - m <= N - n
  BY <1>2, <1>3
<1>5. QED
  BY <1>4

\* With changes one place.
LEMMA WithIs ==
  ASSUME NEW f, NEW x, NEW v
  PROVE  /\ DOMAIN With(f, x, v) = {x} \cup DOMAIN f
         /\ With(f, x, v)[x] = v
         /\ \A y \in DOMAIN f : y # x => With(f, x, v)[y] = f[y]
  BY DEF With

-----------------------------------------------------------------------------
(* The list and its collection.                                            *)

\* What is collected is the beginning of a list, up to before the first node
\* that is referenced, and nothing while the head is.
LEMMA CollectedIs ==
  ASSUME NEW S, NEW list \in Seq(S), NEW r,
         \A i \in DOMAIN list : r[list[i].id] \in Int, r[HeadNode] \in Int
  PROVE  \E d \in 0 .. Len(list) :
           /\ Collected(list, r) \in Seq(S)
           /\ Len(Collected(list, r)) = Len(list) - d
           /\ \A i \in 1 .. Len(list) - d : Collected(list, r)[i] = list[i + d]
           /\ d > 0 => r[HeadNode] <= 0 /\ \A i \in 1 .. d : r[list[i].id] <= 0
<1> DEFINE kept == {i \in DOMAIN list : r[list[i].id] > 0}
<1>1. CASE r[HeadNode] > 0
  <2>1. Collected(list, r) = list
    BY <1>1 DEF Collected
  <2>2. QED
    BY <2>1
<1>2. CASE ~(r[HeadNode] > 0) /\ kept = {}
  <2>1. Collected(list, r) = <<>>
    BY <1>2 DEF Collected
  <2>2. \A i \in 1 .. Len(list) : r[list[i].id] <= 0
    BY <1>2
  <2>3. <<>> \in Seq(S) /\ Len(<<>>) = 0 /\ Len(list) \in 0 .. Len(list) /\ Len(list) - Len(list) = 0
    OBVIOUS
  <2>4. QED
    BY <1>2, <2>1, <2>2, <2>3
<1>3. CASE ~(r[HeadNode] > 0) /\ kept # {}
  <2>1. kept \in SUBSET Nat /\ kept \in SUBSET (1 .. Len(list))
    OBVIOUS
  <2> DEFINE m == CHOOSE i \in kept : \A j \in kept : i <= j
  <2>2. m \in kept /\ \A j \in kept : m <= j
    <3> HIDE DEF kept
    <3>1. \E i \in kept : \A j \in kept : i <= j
      BY <1>3, <2>1, Smallest
    <3>2. QED
      BY <3>1
  <2>3. m \in 1 .. Len(list)
    BY <2>1, <2>2
  <2>4. Collected(list, r) = SubSeq(list, m, Len(list))
    BY <1>3 DEF Collected
  <2> HIDE DEF m
  <2>5. PICK d \in 0 .. Len(list) : d = m - 1
    BY <2>3
  <2>6. /\ SubSeq(list, m, Len(list)) \in Seq(S)
        /\ Len(SubSeq(list, m, Len(list))) = Len(list) - d
        /\ \A i \in 1 .. Len(list) - d : SubSeq(list, m, Len(list))[i] = list[i + d]
    BY <2>3, <2>5
  <2>7. \A i \in 1 .. d : r[list[i].id] <= 0
    BY <2>2, <2>3, <2>5
  <2>8. r[HeadNode] <= 0
    BY <1>3
  <2>9. QED
    BY <2>4, <2>5, <2>6, <2>7, <2>8
<1>4. QED
  BY <1>1, <1>2, <1>3

\* The list's nodes, and the numbers of the history.
LEMMA ListTypes ==
  ASSUME Types
  PROVE  /\ Len(all) \in Nat /\ DOMAIN all = 1 .. Len(all)
         /\ \A i \in 1 .. Len(all) : /\ all[i] \in ListNode /\ all[i].id \in Txn
                                     /\ all[i].ws \in SUBSET Key
         /\ Cardinality(hist) \in Nat
         /\ \A h \in hist : h.id \in Txn /\ h.cts \in Nat /\ h.reads \in SUBSET Read
<1>1. all \in Seq(ListNode)
  BY DEF Types
<1>2. Len(all) \in Nat /\ DOMAIN all = 1 .. Len(all) /\ \A i \in 1 .. Len(all) : all[i] \in ListNode
  BY <1>1
<1>3. Cardinality(hist) \in Nat
  BY FS_CardinalityType DEF Types
<1>4. \A h \in hist : h \in Commit
  BY DEF Types
<1>5. QED
  BY <1>2, <1>3, <1>4 DEF ListNode, Commit

\* An id of the history, or of a thread at work, is not the head's.
LEMMA IdsNotHead ==
  ASSUME Types, History
  PROVE  /\ \A h \in hist : h.id # HeadNode
         /\ \A t \in Thread : Id(t) \in Txn /\ (pc[t] # "idle" => Id(t) # HeadNode)
         /\ \A t, u \in Thread : Id(t) = Id(u) => t = u
<1>1. ASSUME NEW h \in hist PROVE h.id # HeadNode
  <2>1. h.id \in Thread \X Nat /\ h.id[2] \in 1 .. count[h.id[1]]
    BY ListTypes DEF History, Txn
  <2>2. count[h.id[1]] \in Nat
    BY <2>1 DEF Types
  <2>3. h.id[2] # 0
    BY <2>1, <2>2
  <2>4. QED
    BY <2>3 DEF HeadNode
<1>2. ASSUME NEW t \in Thread
      PROVE  Id(t) \in Txn /\ (pc[t] # "idle" => Id(t) # HeadNode)
  <2>1. count[t] \in Nat /\ (pc[t] # "idle" => count[t] > 0)
    BY DEF Types, History
  <2>2. QED
    BY <2>1 DEF Id, Txn, HeadNode
<1>3. QED
  BY <1>1, <1>2 DEF Id

\* The history is in the list from Base on, in order.
LEMMA CommittedListed ==
  ASSUME Types, History, Listed, NEW h \in hist, h.cts >= Base
  PROVE  /\ h.cts - Base + 1 \in 1 .. Len(all)
         /\ all[h.cts - Base + 1].id = h.id
<1>1. h.cts \in Nat /\ Cardinality(hist) \in Nat /\ Len(all) \in Nat /\ h.cts < Cardinality(hist)
  BY ListTypes DEF History
<1>2. Base \in Nat /\ Base = Cardinality(hist) - Len(all)
  BY DEF Listed, Base
<1>3. PICK i \in 1 .. Len(all) : i = h.cts - Base + 1
  <2>1. h.cts - Base + 1 \in 1 .. Len(all)
    BY <1>1, <1>2
  <2>2. QED
    BY <2>1
<1>4. PICK g \in hist : g.id = all[i].id /\ g.cts = Base + i - 1
  BY ListTypes DEF Listed
<1>5. g.cts = h.cts
  BY <1>1, <1>2, <1>3, <1>4
<1>6. g = h
  BY <1>5 DEF History
<1>7. QED
  BY <1>3, <1>4, <1>6

\* Each node of the list is at one position.
LEMMA PositionIs ==
  ASSUME Types, History, Listed, NEW i \in 0 .. Len(all)
  PROVE  /\ NodeAt(i) \in Starts
         /\ Position(NodeAt(i)) = i
         /\ \A j \in 0 .. Len(all) : NodeAt(i) = NodeAt(j) => i = j
<1>1. \A j \in 1 .. Len(all) : /\ NodeAt(j) = all[j].id /\ NodeAt(j) # HeadNode
                               /\ \E h \in hist : h.id = all[j].id /\ h.cts = Base + j - 1
  <2>1. \A j \in 1 .. Len(all) : \E h \in hist : h.id = all[j].id /\ h.cts = Base + j - 1
    BY ListTypes DEF Listed
  <2>2. \A j \in 1 .. Len(all) : all[j].id # HeadNode
    BY <2>1, IdsNotHead
  <2>3. QED
    BY <2>1, <2>2 DEF NodeAt
<1>2. ASSUME NEW j \in 1 .. Len(all), NEW k \in 1 .. Len(all), all[j].id = all[k].id
      PROVE  j = k
  <2>1. PICK g \in hist : g.id = all[j].id /\ g.cts = Base + j - 1
    BY <1>1
  <2>2. PICK h \in hist : h.id = all[k].id /\ h.cts = Base + k - 1
    BY <1>1
  <2>3. g = h
    BY <1>2, <2>1, <2>2 DEF History
  <2>4. Base \in Nat
    BY DEF Listed
  <2>5. QED
    BY <2>1, <2>2, <2>3, <2>4
<1>3. \A j \in 0 .. Len(all) : NodeAt(i) = NodeAt(j) => i = j
  BY <1>1, <1>2 DEF NodeAt
<1>4. NodeAt(i) \in Starts
  BY ListTypes DEF NodeAt, Starts
<1>5. CASE i = 0
  BY <1>3, <1>4, <1>5 DEF Position, NodeAt
<1>6. CASE i # 0
  <2>1. i \in DOMAIN all /\ NodeAt(i) = all[i].id /\ NodeAt(i) # HeadNode
    BY <1>1, <1>6, ListTypes
  <2>2. \A j \in DOMAIN all : all[j].id = NodeAt(i) => j = i
    BY <1>2, <2>1, ListTypes
  <2>3. (CHOOSE j \in DOMAIN all : all[j].id = NodeAt(i)) = i
    BY <2>1, <2>2
  <2>4. QED
    BY <1>3, <1>4, <2>1, <2>3 DEF Position
<1>7. QED
  BY <1>5, <1>6

\* The last of the list.
LEMMA LastIs ==
  ASSUME Types
  PROVE  Last_ = NodeAt(Len(all))
  BY ListTypes DEF Last_, NodeAt, Types

-----------------------------------------------------------------------------
(* References.                                                             *)

Runners(n)  == {t \in Thread : pc[t] # "idle" /\ start[t] = n}
Aborters(n) == {i \in DOMAIN aborted : aborted[i] = n}

\* The sets that StartedAt counts.
LEMMA StartedIs ==
  ASSUME KrOccAssumption, Types, NEW n
  PROVE  /\ StartedAt(n) = Cardinality(Runners(n)) + Cardinality(Aborters(n))
         /\ IsFiniteSet(Runners(n)) /\ Cardinality(Runners(n)) \in Nat
         /\ IsFiniteSet(Aborters(n)) /\ Cardinality(Aborters(n)) \in Nat
<1>1. IsFiniteSet(Thread)
  BY DEF KrOccAssumption
<1>2. IsFiniteSet(Runners(n))
  BY <1>1, FS_Subset DEF Runners
<1>3. DOMAIN aborted = 1 .. Len(aborted) /\ Len(aborted) \in Nat
  BY DEF Types
<1>4. IsFiniteSet(1 .. Len(aborted))
  BY <1>3, FS_Interval
<1>5. IsFiniteSet(Aborters(n))
  BY <1>3, <1>4, FS_Subset DEF Aborters
<1>6. QED
  BY <1>2, <1>5, FS_CardinalityType DEF StartedAt, Runners, Aborters

\* A running transaction is counted by the node it starts from, and only nodes
\* that somebody starts from are.
LEMMA StartedAtMost ==
  ASSUME KrOccAssumption, Types, NEW n
  PROVE  /\ StartedAt(n) \in Nat
         /\ \A t \in Thread : pc[t] # "idle" /\ start[t] = n => StartedAt(n) >= 1
         /\ \A i \in DOMAIN aborted : aborted[i] = n => StartedAt(n) >= 1
         /\ StartedAt(n) > 0 => \/ \E t \in Thread : pc[t] # "idle" /\ start[t] = n
                                \/ \E i \in DOMAIN aborted : aborted[i] = n
<1>1. Runners(n) # {} => Cardinality(Runners(n)) >= 1
  BY StartedIs, FS_EmptySet
<1>2. Aborters(n) # {} => Cardinality(Aborters(n)) >= 1
  BY StartedIs, FS_EmptySet
<1>3. Runners(n) = {} /\ Aborters(n) = {} => StartedAt(n) = 0
  BY StartedIs, FS_EmptySet
<1>4. QED
  BY <1>1, <1>2, <1>3, StartedIs DEF Runners, Aborters

-----------------------------------------------------------------------------
(* Steps that leave the list alone.                                        *)

\* A step that neither begins nor ends a transaction.
LEMMA QuietKeeps ==
  ASSUME Inv, UNCHANGED <<all, refs, count, start, since, aborted, hist>>,
         \A u \in Thread : pc'[u] = "idle" <=> pc[u] = "idle"
  PROVE  /\ History' /\ Listed' /\ Running' /\ Counts'
         /\ Base' = Base /\ \A i \in 0 .. Len(all) : NodeAt(i)' = NodeAt(i)
         /\ \A u \in Thread : From(u)' = From(u) /\ Id(u)' = Id(u)
<1>1. Base' = Base /\ \A i \in 0 .. Len(all) : NodeAt(i)' = NodeAt(i)
  BY DEF Base, NodeAt
<1>2. \A u \in Thread : From(u)' = From(u) /\ Id(u)' = Id(u)
  BY <1>1 DEF From, Id
<1>3. History'
  BY <1>2 DEF Inv, History
<1>4. Listed'
  BY <1>1 DEF Inv, Listed
<1>5. Running'
  BY <1>1, <1>2 DEF Inv, Running
<1>6. \A n : StartedAt(n)' = StartedAt(n)
  <2>1. ASSUME NEW n PROVE Runners(n)' = Runners(n) /\ Aborters(n)' = Aborters(n)
    BY DEF Runners, Aborters
  <2>2. QED
    BY <2>1 DEF StartedAt, Runners, Aborters
<1>7. Counts'
  BY <1>1, <1>6, Zenon DEF Inv, Counts
<1>8. QED
  BY <1>1, <1>2, <1>3, <1>4, <1>5, <1>7

\* The call a transaction makes.
LEMMA CallIs ==
  ASSUME Types, NEW t \in Thread, Calling(t)
  PROVE  Call(t).key \in Key /\ Tail(calls[t]) \in Seq(Op)
<1>1. calls[t] \in Seq(Op) /\ calls[t] # <<>>
  BY DEF Types, Calling
<1>2. Head(calls[t]) \in Op /\ Tail(calls[t]) \in Seq(Op)
  BY <1>1
<1>3. QED
  BY <1>2 DEF Call, Op

LEMMA WriteKeeps ==
  ASSUME Inv, NEW t \in Thread, Write(t)
  PROVE  Inv'
<1> USE DEF Inv
<1>1. /\ pc[t] = "run" /\ Call(t).key \in Key /\ Tail(calls[t]) \in Seq(Op)
      /\ ws' = [ws EXCEPT ![t] = With(ws[t], Call(t).key, Call(t).op)]
      /\ calls' = [calls EXCEPT ![t] = Tail(@)]
      /\ UNCHANGED <<build, lock, all, active, refs, db, gone, pc, count, start, rs,
                 since, reads, finish, cursor, todo, aborted, hist>>
  BY CallIs DEF Write, Calling, Return
<1>2. History' /\ Listed' /\ Running' /\ Counts'
  BY <1>1, QuietKeeps
<1>3. Types'
  <2>1. DOMAIN ws' = Thread /\ \A u \in Thread : DOMAIN ws'[u] \in SUBSET Key
    <3>1. DOMAIN With(ws[t], Call(t).key, Call(t).op) = {Call(t).key} \cup DOMAIN ws[t]
      BY WithIs
    <3>2. DOMAIN ws = Thread /\ \A u \in Thread : DOMAIN ws[u] \in SUBSET Key
      BY DEF Types
    <3>3. DOMAIN ws' = Thread /\ ws'[t] = With(ws[t], Call(t).key, Call(t).op)
          /\ \A u \in Thread : u # t => ws'[u] = ws[u]
      BY <1>1, <3>2
    <3>4. QED
      BY <1>1, <3>1, <3>2, <3>3
  <2>2. calls' \in [Thread -> Seq(Op)]
    BY <1>1 DEF Types
  <2>3. QED
    BY <1>1, <2>1, <2>2 DEF Types
<1>4. \A u \in Thread : (Busy(u)' <=> Busy(u)) /\ (Busy(u) => Mine(u)' = Mine(u))
  BY <1>1 DEF Busy, Mine, Id, Types
<1>5. Commits'
  BY <1>1, <1>4 DEF Commits, Free
<1>6. Checked'
  BY <1>1, QuietKeeps DEF Checked, From, NodeAt, Base
<1>7. QED
  BY <1>2, <1>3, <1>5, <1>6

LEMMA LookupKeeps ==
  ASSUME Inv, NEW t \in Thread, Lookup(t)
  PROVE  Inv'
<1> USE DEF Inv
<1> DEFINE k == Call(t).key
<1>1. /\ pc[t] = "run" /\ k \in Key /\ Tail(calls[t]) \in Seq(Op)
      /\ rs' = [rs EXCEPT ![t] = IF k \in DOMAIN ws[t] \/ Present(k) THEN @ \cup {k} ELSE @]
      /\ reads' = [reads EXCEPT ![t] =
                      IF k \in DOMAIN ws[t] \/ ~Present(k) THEN @
                      ELSE @ \cup {[key |-> k, ver |-> Len(db[k])]}]
      /\ calls' = [calls EXCEPT ![t] = Tail(@)]
      /\ UNCHANGED <<build, lock, all, active, refs, db, gone, pc, count, start, ws,
                 since, finish, cursor, todo, aborted, hist>>
  BY CallIs DEF Lookup, Calling, Return
<1> HIDE DEF k
<1>2. History' /\ Listed' /\ Running' /\ Counts'
  BY <1>1, QuietKeeps
<1>3. Types'
  <2>1. [key |-> k, ver |-> Len(db[k])] \in Read
    <3>1. db[k] \in Seq(Txn)
      BY <1>1 DEF Types
    <3>2. Len(db[k]) \in Nat
      BY <3>1
    <3>3. QED
      BY <1>1, <3>2 DEF Read
  <2>2. calls' \in [Thread -> Seq(Op)]
    BY <1>1 DEF Types
  <2>3. rs' \in [Thread -> SUBSET Key]
    BY <1>1 DEF Types
  <2>4. reads' \in [Thread -> SUBSET Read]
    BY <1>1, <2>1 DEF Types
  <2>5. QED
    BY <1>1, <2>2, <2>3, <2>4 DEF Types
<1>4. \A u \in Thread : (Busy(u)' <=> Busy(u)) /\ Mine(u)' = Mine(u)
  BY <1>1 DEF Busy, Mine, Id
<1>5. Commits'
  BY <1>1, <1>4 DEF Commits, Free
<1>6. \A u \in Thread : pc[u] = "check" => rs'[u] = rs[u]
  BY <1>1 DEF Types
<1>7. Checked'
  BY <1>1, <1>6, QuietKeeps DEF Checked, From, NodeAt, Base
<1>8. QED
  BY <1>2, <1>3, <1>5, <1>7

LEMMA CommitBeginKeeps ==
  ASSUME KrOccAssumption, Inv, NEW t \in Thread, CommitBegin(t)
  PROVE  Inv'
<1> USE DEF Inv
<1>1. /\ pc[t] = "run" /\ Free
      /\ cursor' = [cursor EXCEPT ![t] = start[t]]
      /\ \/ build = "serial" /\ lock' = t /\ UNCHANGED <<active, finish>>
         \/ /\ build # "serial" /\ UNCHANGED lock
            /\ finish' = [finish EXCEPT ![t] = active]
            /\ active' = active \cup {Mine(t)}
      /\ pc' = [pc EXCEPT ![t] = "check"]
      /\ UNCHANGED <<build, all, refs, db, gone, count, calls, start, rs, ws, since,
                     reads, todo, aborted, hist>>
  BY DEF CommitBegin, Goto, txnVars
<1>2. \A u \in Thread : /\ pc'[u] = IF u = t THEN "check" ELSE pc[u]
                        /\ cursor'[u] = IF u = t THEN start[t] ELSE cursor[u]
  BY <1>1 DEF Types
<1>3. History' /\ Listed' /\ Running' /\ Counts'
      /\ Base' = Base /\ (\A i \in 0 .. Len(all) : NodeAt(i)' = NodeAt(i))
      /\ \A u \in Thread : From(u)' = From(u)
  BY <1>1, <1>2, QuietKeeps
<1>4. Types'
  <2>1. Mine(t) \in ListNode
    BY IdsNotHead DEF Mine, ListNode, Types
  <2>2. active' \in SUBSET ListNode /\ finish' \in [Thread -> SUBSET ListNode]
        /\ lock' \in Thread \cup {"free"}
    BY <1>1, <2>1 DEF Types
  <2>3. pc' \in [Thread -> Label] /\ cursor' \in [Thread -> Starts]
    BY <1>1 DEF Types, Label
  <2>4. QED
    BY <1>1, <2>2, <2>3 DEF Types
<1>5. \A u \in Thread : (Busy(u)' <=> Busy(u) \/ u = t) /\ Mine(u)' = Mine(u)
  BY <1>1, <1>2 DEF Busy, Mine, Id
<1>6. Commits'
  <2>1. CASE build = "serial"
    <3>1. lock' = t /\ \A u \in Thread : ~Busy(u)
      BY <1>1, <2>1 DEF Commits, Free, KrOccAssumption
    <3>2. QED
      BY <1>1, <1>5, <2>1, <3>1 DEF Commits
  <2>2. CASE build # "serial"
    BY <1>1, <1>5, <2>2 DEF Commits, Free
  <2>3. QED
    BY <2>1, <2>2
<1>7. Checked'
  <2>1. SUFFICES ASSUME NEW u \in Thread, pc'[u] = "check"
                 PROVE  \E q \in From(u) .. Len(all) :
                          /\ cursor'[u] = NodeAt(q)
                          /\ \A i \in From(u) + 1 .. q : all[i].ws \cap rs[u] = {}
    BY <1>1, <1>3 DEF Checked, NodeAt
  <2>2. CASE u = t
    <3>1. From(t) \in 0 .. Len(all) /\ start[t] = NodeAt(From(t)) /\ Len(all) \in Nat
      BY <1>1, ListTypes DEF Running
    <3>2. From(t) \in From(t) .. Len(all)
      BY <3>1
    <3>3. \A i \in From(t) + 1 .. From(t) : FALSE
      BY <3>1
    <3>4. QED
      BY <1>2, <2>2, <3>1, <3>2, <3>3
  <2>3. CASE u # t
    BY <1>2, <2>1, <2>3 DEF Checked
  <2>4. QED
    BY <2>2, <2>3
<1>8. QED
  BY <1>3, <1>4, <1>6, <1>7

LEMMA CheckNextKeeps ==
  ASSUME Inv, NEW t \in Thread, CheckNext(t)
  PROVE  Inv'
<1> USE DEF Inv
<1>1. PICK e : e = all[Position(cursor[t]) + 1]
  OBVIOUS
<1>2. /\ pc[t] = "check" /\ Position(cursor[t]) < Len(all)
      /\ cursor' = [cursor EXCEPT ![t] = e.id]
      /\ pc' = [pc EXCEPT ![t] = IF Overwrites(e, t) THEN "fail" ELSE "check"]
      /\ UNCHANGED <<build, lock, all, active, refs, db, gone, count, calls, start, rs,
                     ws, since, reads, finish, todo, aborted, hist>>
  BY <1>1 DEF CheckNext, Goto, txnVars
<1>3. PICK q \in From(t) .. Len(all) :
        /\ cursor[t] = NodeAt(q)
        /\ \A i \in From(t) + 1 .. q : all[i].ws \cap rs[t] = {}
  BY <1>2 DEF Checked
<1>4. From(t) \in 0 .. Len(all) /\ Len(all) \in Nat /\ q \in 0 .. Len(all)
  BY <1>2, <1>3, ListTypes DEF Running
<1>5. q < Len(all) /\ e = all[q + 1]
  BY <1>1, <1>2, <1>3, <1>4, PositionIs
<1>6. PICK m \in 1 .. Len(all) : m = q + 1
  BY <1>4, <1>5
<1>7. e = all[m] /\ e \in ListNode /\ e.id = NodeAt(m) /\ e.id \in Txn
  BY <1>5, <1>6, ListTypes DEF NodeAt
<1>8. \A u \in Thread :
         /\ u # t => pc'[u] = pc[u] /\ cursor'[u] = cursor[u]
         /\ cursor'[t] = NodeAt(m)
         /\ pc'[t] \in {"check", "fail"} /\ (pc'[t] = "check" => e.ws \cap rs[t] = {})
  BY <1>2, <1>7 DEF Types, Overwrites
<1>9. History' /\ Listed' /\ Running' /\ Counts'
      /\ Base' = Base /\ (\A i \in 0 .. Len(all) : NodeAt(i)' = NodeAt(i))
      /\ \A u \in Thread : From(u)' = From(u)
  BY <1>2, <1>8, QuietKeeps
<1>10. Types'
  <2>1. pc' \in [Thread -> Label]
    BY <1>2 DEF Types, Label
  <2>2. cursor' \in [Thread -> Starts]
    BY <1>2, <1>7 DEF Types, Starts
  <2>3. QED
    BY <1>2, <2>1, <2>2 DEF Types
<1>11. \A u \in Thread : (Busy(u)' <=> Busy(u)) /\ Mine(u)' = Mine(u)
  BY <1>2, <1>8 DEF Busy, Mine, Id
<1>12. Commits'
  BY <1>2, <1>11 DEF Commits, Free
<1>13. Checked'
  <2>1. SUFFICES ASSUME NEW u \in Thread, pc'[u] = "check"
                 PROVE  \E p \in From(u) .. Len(all) :
                          /\ cursor'[u] = NodeAt(p)
                          /\ \A i \in From(u) + 1 .. p : all[i].ws \cap rs[u] = {}
    BY <1>2, <1>9 DEF Checked, NodeAt
  <2>2. CASE u = t
    <3>1. m \in From(t) .. Len(all) /\ \A i \in From(t) + 1 .. m : i = m \/ i \in From(t) + 1 .. q
      BY <1>3, <1>4, <1>6
    <3>2. QED
      BY <1>3, <1>7, <1>8, <2>1, <2>2, <3>1
  <2>3. CASE u # t
    BY <1>8, <2>1, <2>3 DEF Checked
  <2>4. QED
    BY <2>2, <2>3
<1>14. QED
  BY <1>9, <1>10, <1>12, <1>13

LEMMA CheckEndKeeps ==
  ASSUME Inv, NEW t \in Thread, CheckEnd(t)
  PROVE  Inv'
<1> USE DEF Inv
<1>1. /\ pc[t] = "check"
      /\ todo' = [todo EXCEPT ![t] = DOMAIN ws[t]]
      /\ finish' = [finish EXCEPT ![t] = {}]
      /\ pc' = [pc EXCEPT ![t] = IF Clashes(t) THEN "fail" ELSE "write"]
      /\ UNCHANGED <<build, lock, all, active, refs, db, gone, count, calls, start, rs,
                     ws, since, reads, cursor, aborted, hist>>
  BY DEF CheckEnd, Goto, txnVars
<1>2. \A u \in Thread : /\ u # t => pc'[u] = pc[u]
                        /\ pc'[t] \in {"write", "fail"}
  BY <1>1 DEF Types
<1>3. History' /\ Listed' /\ Running' /\ Counts'
      /\ Base' = Base /\ (\A i \in 0 .. Len(all) : NodeAt(i)' = NodeAt(i))
      /\ \A u \in Thread : From(u)' = From(u)
  BY <1>1, <1>2, QuietKeeps
<1>4. Types'
  <2>1. pc' \in [Thread -> Label]
    BY <1>1 DEF Types, Label
  <2>2. todo' \in [Thread -> SUBSET Key] /\ finish' \in [Thread -> SUBSET ListNode]
    BY <1>1 DEF Types
  <2>3. QED
    BY <1>1, <2>1, <2>2 DEF Types
<1>5. \A u \in Thread : (Busy(u)' <=> Busy(u)) /\ Mine(u)' = Mine(u)
  BY <1>1, <1>2 DEF Busy, Mine, Id
<1>6. Commits'
  BY <1>1, <1>5 DEF Commits, Free
<1>7. Checked'
  BY <1>1, <1>2, <1>3 DEF Checked, NodeAt
<1>8. QED
  BY <1>3, <1>4, <1>6, <1>7

LEMMA StoreKeeps ==
  ASSUME Inv, NEW t \in Thread, Store(t)
  PROVE  Inv'
<1> USE DEF Inv
<1>1. PICK k \in todo[t] :
        /\ db' = [db EXCEPT ![k] = Append(@, Id(t))]
        /\ todo' = [todo EXCEPT ![t] = @ \ {k}]
  BY DEF Store
<1>2. UNCHANGED <<build, lock, all, active, refs, pc, count, calls, start, rs, ws,
                  since, reads, finish, cursor, aborted, hist>>
  BY DEF Store, txnVars
<1>3. History' /\ Listed' /\ Running' /\ Counts'
      /\ Base' = Base /\ (\A i \in 0 .. Len(all) : NodeAt(i)' = NodeAt(i))
      /\ \A u \in Thread : From(u)' = From(u)
  BY <1>2, QuietKeeps
<1>4. Types'
  <2>1. k \in Key
    BY <1>1 DEF Types
  <2>2. Id(t) \in Txn
    BY IdsNotHead
  <2>3. db[k] \in Seq(Txn) /\ Append(db[k], Id(t)) \in Seq(Txn)
    BY <2>1, <2>2 DEF Types
  <2>4. db' \in [Key -> Seq(Txn)]
    BY <1>1, <2>1, <2>3 DEF Types
  <2>5. todo' \in [Thread -> SUBSET Key]
    BY <1>1 DEF Types
  <2>6. QED
    BY <1>2, <2>4, <2>5 DEF Types
<1>5. \A u \in Thread : (Busy(u)' <=> Busy(u)) /\ Mine(u)' = Mine(u)
  BY <1>2 DEF Busy, Mine, Id
<1>6. Commits'
  BY <1>2, <1>5 DEF Commits, Free
<1>7. Checked'
  BY <1>2, <1>3 DEF Checked, NodeAt
<1>8. QED
  BY <1>3, <1>4, <1>6, <1>7

-----------------------------------------------------------------------------
(* A transaction begins, or its application aborts it.                     *)

\* The node a transaction begins from is counted once more ...
LEMMA StartedMore ==
  ASSUME KrOccAssumption, Types, NEW t \in Thread, pc[t] = "idle", NEW s,
         \A u \in Thread : /\ pc'[u] = IF u = t THEN "run" ELSE pc[u]
                           /\ start'[u] = IF u = t THEN s ELSE start[u],
         UNCHANGED aborted
  PROVE  \A n : StartedAt(n)' = IF n = s THEN StartedAt(n) + 1 ELSE StartedAt(n)
<1>1. ASSUME NEW n PROVE StartedAt(n)' = Cardinality(Runners(n)') + Cardinality(Aborters(n))
  BY DEF StartedAt, Runners, Aborters
<1>2. Runners(s)' = Runners(s) \cup {t} /\ t \notin Runners(s)
  BY DEF Runners
<1>3. \A n : n # s => Runners(n)' = Runners(n)
  BY DEF Runners
<1>4. Cardinality(Runners(s) \cup {t}) = Cardinality(Runners(s)) + 1
  BY <1>2, StartedIs, FS_AddElement
<1>5. ASSUME NEW n
      PROVE  StartedAt(n)' = IF n = s THEN StartedAt(n) + 1 ELSE StartedAt(n)
  <2>1. /\ StartedAt(n) = Cardinality(Runners(n)) + Cardinality(Aborters(n))
        /\ Cardinality(Runners(n)) \in Nat /\ Cardinality(Aborters(n)) \in Nat
        /\ StartedAt(n)' = Cardinality(Runners(n)') + Cardinality(Aborters(n))
    BY <1>1, StartedIs
  <2>2. Cardinality(Runners(n)') = IF n = s THEN Cardinality(Runners(n)) + 1
                                   ELSE Cardinality(Runners(n))
    BY <1>2, <1>3, <1>4
  <2>3. QED
    BY <2>1, <2>2
<1>6. QED
  BY <1>5

\* ... and the one that a transaction that ends began from, once less ...
LEMMA StartedLess ==
  ASSUME KrOccAssumption, Types, NEW t \in Thread, pc[t] # "idle",
         \A u \in Thread : pc'[u] = IF u = t THEN "idle" ELSE pc[u],
         UNCHANGED <<start, aborted>>
  PROVE  \A n : StartedAt(n)' = IF n = start[t] THEN StartedAt(n) - 1 ELSE StartedAt(n)
<1>1. ASSUME NEW n PROVE StartedAt(n)' = Cardinality(Runners(n)') + Cardinality(Aborters(n))
  BY DEF StartedAt, Runners, Aborters
<1>2. Runners(start[t])' = Runners(start[t]) \ {t} /\ t \in Runners(start[t])
  BY DEF Runners
<1>3. \A n : n # start[t] => Runners(n)' = Runners(n)
  BY DEF Runners
<1>4. Cardinality(Runners(start[t]) \ {t}) = Cardinality(Runners(start[t])) - 1
  BY <1>2, StartedIs, FS_RemoveElement
<1>5. ASSUME NEW n
      PROVE  StartedAt(n)' = IF n = start[t] THEN StartedAt(n) - 1 ELSE StartedAt(n)
  <2>1. /\ StartedAt(n) = Cardinality(Runners(n)) + Cardinality(Aborters(n))
        /\ Cardinality(Runners(n)) \in Nat /\ Cardinality(Aborters(n)) \in Nat
        /\ StartedAt(n)' = Cardinality(Runners(n)') + Cardinality(Aborters(n))
    BY <1>1, StartedIs
  <2>2. Cardinality(Runners(n)') = IF n = start[t] THEN Cardinality(Runners(n)) - 1
                                   ELSE Cardinality(Runners(n))
    BY <1>2, <1>3, <1>4
  <2>3. QED
    BY <2>1, <2>2
<1>6. QED
  BY <1>5

\* ... unless its application aborted it.
LEMMA StartedSame ==
  ASSUME KrOccAssumption, Types, NEW t \in Thread, pc[t] # "idle",
         \A u \in Thread : pc'[u] = IF u = t THEN "idle" ELSE pc[u],
         UNCHANGED start, aborted' = Append(aborted, start[t])
  PROVE  \A n : StartedAt(n)' = StartedAt(n)
<1>0. PICK s, a : s = start[t] /\ a = Len(aborted) + 1
  OBVIOUS
<1>1. ASSUME NEW n PROVE StartedAt(n)' = Cardinality(Runners(n)') + Cardinality(Aborters(n)')
  BY DEF StartedAt, Runners, Aborters
<1>2. Runners(s)' = Runners(s) \ {t} /\ t \in Runners(s)
  BY <1>0 DEF Runners
<1>3. \A n : n # s => Runners(n)' = Runners(n)
  BY <1>0 DEF Runners
<1>4. /\ Len(aborted) \in Nat /\ DOMAIN aborted = 1 .. Len(aborted)
      /\ DOMAIN aborted' = 1 .. a /\ aborted'[a] = s
      /\ \A i \in DOMAIN aborted : aborted'[i] = aborted[i]
  <2>1. aborted \in Seq(Starts) /\ s \in Starts
    BY <1>0 DEF Types
  <2>2. QED
    BY <1>0, <2>1
<1>5. DOMAIN aborted' = DOMAIN aborted \cup {a} /\ a \notin DOMAIN aborted
  BY <1>0, <1>4
<1>6. Aborters(s)' = Aborters(s) \cup {a} /\ a \notin Aborters(s)
  <2>1. Aborters(s)' = {i \in DOMAIN aborted' : aborted'[i] = s}
    BY DEF Aborters
  <2>2. QED
    BY <1>4, <1>5, <2>1 DEF Aborters
<1>7. \A n : n # s => Aborters(n)' = Aborters(n)
  BY <1>4, <1>5 DEF Aborters
<1>8. /\ Cardinality(Runners(s) \ {t}) = Cardinality(Runners(s)) - 1
      /\ Cardinality(Aborters(s) \cup {a}) = Cardinality(Aborters(s)) + 1
  BY <1>2, <1>6, StartedIs, FS_RemoveElement, FS_AddElement
<1>9. ASSUME NEW n PROVE StartedAt(n)' = StartedAt(n)
  <2>1. /\ StartedAt(n) = Cardinality(Runners(n)) + Cardinality(Aborters(n))
        /\ Cardinality(Runners(n)) \in Nat /\ Cardinality(Aborters(n)) \in Nat
        /\ StartedAt(n)' = Cardinality(Runners(n)') + Cardinality(Aborters(n)')
    BY <1>1, StartedIs
  <2>2. CASE n = s
    <3>1. Cardinality(Runners(n)') = Cardinality(Runners(n)) - 1
      BY <1>2, <1>8, <2>2
    <3>2. Cardinality(Aborters(n)') = Cardinality(Aborters(n)) + 1
      BY <1>6, <1>8, <2>2
    <3>3. QED
      BY <2>1, <3>1, <3>2
  <2>3. CASE n # s
    BY <1>3, <1>7, <2>1, <2>3
  <2>4. QED
    BY <2>2, <2>3
<1>10. QED
  BY <1>9

LEMMA BeginKeeps ==
  ASSUME KrOccAssumption, Inv, NEW t \in Thread, Begin(t)
  PROVE  Inv'
<1> USE DEF Inv
<1>1. /\ pc[t] = "idle" /\ count[t] < Len(Programs[t])
      /\ count' = [count EXCEPT ![t] = @ + 1]
      /\ start' = [start EXCEPT ![t] = Last_]
      /\ refs' = [refs EXCEPT ![Last_] = @ + 1]
      /\ rs' = [rs EXCEPT ![t] = {}]
      /\ ws' = [ws EXCEPT ![t] = <<>>]
      /\ since' = [since EXCEPT ![t] = Cardinality(hist)]
      /\ reads' = [reads EXCEPT ![t] = {}]
      /\ pc' = [pc EXCEPT ![t] = "run"]
      /\ UNCHANGED <<build, lock, all, active, db, gone, finish, cursor, todo, aborted, hist>>
  BY DEF Begin, Goto
<1>2. PICK p \in Programs[t][count[t] + 1] : calls' = [calls EXCEPT ![t] = p]
  BY DEF Begin
<1>3. /\ \A u \in Thread : /\ pc'[u] = IF u = t THEN "run" ELSE pc[u]
                           /\ start'[u] = IF u = t THEN Last_ ELSE start[u]
                           /\ since'[u] = IF u = t THEN Cardinality(hist) ELSE since[u]
                           /\ rs'[u] = IF u = t THEN {} ELSE rs[u]
                           /\ ws'[u] = IF u = t THEN <<>> ELSE ws[u]
                           /\ count'[u] = IF u = t THEN count[t] + 1 ELSE count[u]
      /\ \A u \in Thread : count[u] \in Nat
  BY <1>1 DEF Types
<1>4. /\ Base' = Base /\ (\A i \in 0 .. Len(all) : NodeAt(i)' = NodeAt(i))
      /\ Base \in Nat /\ Len(all) \in Nat /\ Cardinality(hist) \in Nat
      /\ Cardinality(hist) - Base = Len(all)
      /\ Last_ = NodeAt(Len(all)) /\ Last_ \in Starts
  BY <1>1, ListTypes, LastIs, PositionIs DEF Base, NodeAt, Listed
<1>5. \A u \in Thread : u # t => From(u)' = From(u) /\ Mine(u)' = Mine(u) /\ Id(u)' = Id(u)
  BY <1>3, <1>4 DEF From, Mine, Id
<1>6. Types'
  <2>1. pc' \in [Thread -> Label] /\ start' \in [Thread -> Starts]
    BY <1>1, <1>4 DEF Types, Label
  <2>2. DOMAIN refs' \in SUBSET Starts /\ refs' \in [DOMAIN refs' -> Int]
    <3>1. DOMAIN refs' = DOMAIN refs
      BY <1>1
    <3>2. \A n \in DOMAIN refs : refs[n] \in Int
      BY DEF Types
    <3>3. \A n \in DOMAIN refs : refs'[n] = IF n = Last_ THEN refs[n] + 1 ELSE refs[n]
      BY <1>1
    <3>4. \A n \in DOMAIN refs' : refs'[n] \in Int
      BY <3>1, <3>2, <3>3
    <3>5. refs' = [n \in DOMAIN refs' |-> refs'[n]]
      BY <1>1
    <3>6. QED
      BY <3>1, <3>4, <3>5 DEF Types
  <2>3. count' \in [Thread -> Nat] /\ since' \in [Thread -> Nat]
    BY <1>1, <1>4 DEF Types
  <2>4. rs' \in [Thread -> SUBSET Key] /\ reads' \in [Thread -> SUBSET Read]
    BY <1>1 DEF Types
  <2>5. DOMAIN ws' = Thread /\ \A u \in Thread : DOMAIN ws'[u] \in SUBSET Key
    <3>1. DOMAIN <<>> \in SUBSET Key
      OBVIOUS
    <3>2. QED
      BY <1>1, <1>3, <3>1 DEF Types
  <2>6. calls' \in [Thread -> Seq(Op)]
    <3>1. Programs[t] \in Seq(SUBSET Seq(Op)) /\ count[t] \in Nat
      BY DEF KrOccAssumption, Types
    <3>2. Programs[t][count[t] + 1] \in SUBSET Seq(Op)
      BY <1>1, <3>1
    <3>3. QED
      BY <1>2, <3>2 DEF Types
  <2>7. QED
    BY <1>1, <2>1, <2>2, <2>3, <2>4, <2>5, <2>6 DEF Types
<1>7. \A u \in Thread : (Busy(u)' <=> Busy(u)) /\ (Busy(u) => Mine(u)' = Mine(u))
  BY <1>1, <1>3, <1>5 DEF Busy
<1>8. Commits'
  BY <1>1, <1>7 DEF Commits, Free
<1>9. History'
  <2>1. \A h \in hist : h.id[2] \in 1 .. count'[h.id[1]] /\ h.cts < Cardinality(hist)
    <3>1. ASSUME NEW h \in hist PROVE h.id[2] \in 1 .. count'[h.id[1]]
      <4>1. h.id[1] \in Thread /\ h.id[2] \in Nat /\ h.id[2] \in 1 .. count[h.id[1]]
        BY ListTypes DEF History, Txn
      <4>2. PICK u \in Thread : u = h.id[1]
        BY <4>1
      <4>3. count'[u] \in Nat /\ count'[u] >= count[u]
        BY <1>3
      <4>4. QED
        BY <4>1, <4>2, <4>3, <1>3
    <3>2. QED
      BY <3>1 DEF History
  <2>2. ASSUME NEW u \in Thread, pc'[u] # "idle", NEW h \in hist
        PROVE  count'[u] > 0 /\ h.id # Id(u)'
    <3>1. CASE u = t
      <4>1. Id(t)' = <<t, count[t] + 1>> /\ count'[t] > 0
        BY <1>3 DEF Id
      <4>2. h.id # <<t, count[t] + 1>>
        <5>1. h.id[2] \in 1 .. count[h.id[1]]
          BY DEF History
        <5>2. QED
          BY <1>3, <5>1
      <4>3. QED
        BY <3>1, <4>1, <4>2
    <3>2. CASE u # t
      BY <1>3, <1>5, <2>2, <3>2 DEF History
    <3>3. QED
      BY <3>1, <3>2
  <2>3. \A u \in Thread : pc'[u] # "idle" => count'[u] > 0
    <3>1. ASSUME NEW u \in Thread, pc'[u] # "idle" PROVE count'[u] > 0
      BY <1>3, <3>1 DEF History
    <3>2. QED
      BY <3>1
  <2>4. QED
    BY <1>1, <2>1, <2>2, <2>3 DEF History
<1>10. Listed'
  BY <1>1, <1>4 DEF Listed
<1>11. Running'
  <2>1. ASSUME NEW u \in Thread, pc'[u] # "idle"
        PROVE  From(u)' \in 0 .. Len(all) /\ start'[u] = NodeAt(From(u)')
    <3>1. CASE u = t
      <4>1. From(t)' = Len(all)
        BY <1>3, <1>4 DEF From
      <4>2. QED
        BY <1>3, <1>4, <3>1, <4>1
    <3>2. CASE u # t
      BY <1>3, <1>5, <2>1, <3>2 DEF Running
    <3>3. QED
      BY <3>1, <3>2
  <2>2. QED
    BY <1>1, <2>1 DEF Running, NodeAt
<1>12. Checked'
  <2>1. ASSUME NEW u \in Thread, pc'[u] = "check"
        PROVE  \E q \in From(u)' .. Len(all) :
                 /\ cursor[u] = NodeAt(q)
                 /\ \A i \in From(u)' + 1 .. q : all[i].ws \cap rs'[u] = {}
    <3>1. u # t /\ pc[u] = "check" /\ From(u)' = From(u) /\ rs'[u] = rs[u]
      BY <1>3, <1>5, <2>1
    <3>2. QED
      BY <3>1 DEF Checked
  <2>2. QED
    BY <1>1, <2>1 DEF Checked, NodeAt
<1>13. Counts'
  <2>1. \A n : StartedAt(n)' = IF n = Last_ THEN StartedAt(n) + 1 ELSE StartedAt(n)
    <3>1. \A u \in Thread : /\ pc'[u] = IF u = t THEN "run" ELSE pc[u]
                            /\ start'[u] = IF u = t THEN Last_ ELSE start[u]
      BY <1>3
    <3>2. UNCHANGED aborted /\ pc[t] = "idle"
      BY <1>1
    <3> DEFINE s == Last_
    <3> HIDE DEF s
    <3>3. \A u \in Thread : /\ pc'[u] = IF u = t THEN "run" ELSE pc[u]
                            /\ start'[u] = IF u = t THEN s ELSE start[u]
      BY <3>1 DEF s
    <3>4. \A n : StartedAt(n)' = IF n = s THEN StartedAt(n) + 1 ELSE StartedAt(n)
      BY <3>2, <3>3, StartedMore
    <3>5. QED
      BY <3>4 DEF s
  <2>2. ASSUME NEW i \in 0 .. Len(all)
        PROVE  NodeAt(i)' \in DOMAIN refs' /\ refs'[NodeAt(i)'] = StartedAt(NodeAt(i))'
    <3>1. NodeAt(i) \in DOMAIN refs /\ refs[NodeAt(i)] = StartedAt(NodeAt(i))
      BY DEF Counts
    <3>2. PICK n : n = NodeAt(i)
      OBVIOUS
    <3>3. NodeAt(i)' = n
      BY <1>4, <3>2
    <3>4. n \in DOMAIN refs' /\ refs'[n] = IF n = Last_ THEN refs[n] + 1 ELSE refs[n]
      BY <1>1, <3>1, <3>2
    <3>5. StartedAt(n)' = IF n = Last_ THEN StartedAt(n) + 1 ELSE StartedAt(n)
      BY <2>1
    <3>6. refs'[n] = StartedAt(n)'
      BY <3>1, <3>2, <3>4, <3>5
    <3>7. QED
      BY <3>3, <3>4, <3>6 DEF StartedAt
  <2>3. QED
    BY <1>1, <2>2 DEF Counts
<1>14. QED
  BY <1>6, <1>8, <1>9, <1>10, <1>11, <1>12, <1>13

LEMMA AbortKeeps ==
  ASSUME KrOccAssumption, Inv, NEW t \in Thread, Abort(t)
  PROVE  Inv'
<1> USE DEF Inv
<1>1. /\ pc[t] = "run" /\ aborted' = Append(aborted, start[t])
      /\ pc' = [pc EXCEPT ![t] = "idle"]
      /\ UNCHANGED <<build, lock, all, active, refs, db, gone, count, calls, start, rs,
                     ws, since, reads, finish, cursor, todo, hist>>
  BY DEF Abort, Goto, Calling, txnVars
<1>2. \A u \in Thread : pc'[u] = IF u = t THEN "idle" ELSE pc[u]
  BY <1>1 DEF Types
<1>3. /\ Base' = Base /\ (\A i \in 0 .. Len(all) : NodeAt(i)' = NodeAt(i))
      /\ \A u \in Thread : From(u)' = From(u) /\ Mine(u)' = Mine(u) /\ Id(u)' = Id(u)
      /\ \A u \in Thread : Busy(u)' <=> Busy(u)
  BY <1>1, <1>2 DEF Base, NodeAt, From, Mine, Id, Busy
<1>4. aborted \in Seq(Starts) /\ start[t] \in Starts
  BY DEF Types
<1>5. aborted' \in Seq(Starts) /\ \A i \in DOMAIN aborted' :
        aborted'[i] = start[t] \/ (i \in DOMAIN aborted /\ aborted'[i] = aborted[i])
  BY <1>1, <1>4
<1>6. Types'
  <2>1. pc' \in [Thread -> Label]
    BY <1>1 DEF Types, Label
  <2>2. QED
    BY <1>1, <1>5, <2>1 DEF Types
<1>7. Commits'
  BY <1>1, <1>3 DEF Commits, Free
<1>8. History'
  BY <1>1, <1>2, <1>3 DEF History
<1>9. Listed'
  BY <1>1, <1>3 DEF Listed
<1>10. Running'
  BY <1>1, <1>2, <1>3 DEF Running, NodeAt
<1>11. Checked'
  BY <1>1, <1>2, <1>3 DEF Checked, NodeAt
<1>12. Counts'
  <2>1. \A n : StartedAt(n)' = StartedAt(n)
    BY <1>1, <1>2, StartedSame
  <2>2. start[t] = HeadNode \/ \E h \in hist : h.id = start[t]
    <3>1. From(t) \in 0 .. Len(all) /\ start[t] = NodeAt(From(t))
      BY <1>1 DEF Running
    <3>2. From(t) # 0 => From(t) \in DOMAIN all
      BY <3>1, ListTypes
    <3>3. QED
      BY <3>1, <3>2 DEF NodeAt, Listed
  <2>3. QED
    BY <1>1, <1>3, <1>5, <2>1, <2>2 DEF Counts
<1>13. QED
  BY <1>6, <1>7, <1>8, <1>9, <1>10, <1>11, <1>12

-----------------------------------------------------------------------------
(* A transaction ends, and the list is collected.                          *)

\* A transaction that goes on is counted by the node it started from.
LEMMA StillCounted ==
  ASSUME KrOccAssumption, Types', NEW n, NEW u \in Thread, pc'[u] # "idle", start'[u] = n
  PROVE  StartedAt(n)' \in Nat /\ StartedAt(n)' >= 1
<1>1. IsFiniteSet(Thread)
  BY DEF KrOccAssumption
<1>2. IsFiniteSet(Runners(n)') /\ u \in Runners(n)'
  <2>1. Runners(n)' \subseteq Thread /\ u \in Runners(n)'
    BY DEF Runners
  <2>2. QED
    BY <1>1, <2>1, FS_Subset
<1>3. Cardinality(Runners(n)') \in Nat /\ Cardinality(Runners(n)') # 0
  BY <1>2, FS_CardinalityType, FS_EmptySet
<1>4. DOMAIN aborted' = 1 .. Len(aborted') /\ Len(aborted') \in Nat
  BY DEF Types
<1>5. IsFiniteSet(Aborters(n)')
  <2>1. Aborters(n)' \subseteq 1 .. Len(aborted')
    BY <1>4 DEF Aborters
  <2>2. IsFiniteSet(1 .. Len(aborted'))
    BY <1>4, FS_Interval
  <2>3. QED
    BY <2>1, <2>2, FS_Subset
<1>6. Cardinality(Aborters(n)') \in Nat
  BY <1>5, FS_CardinalityType
<1>7. StartedAt(n)' = Cardinality(Runners(n)') + Cardinality(Aborters(n)')
  BY DEF StartedAt, Runners, Aborters
<1>8. QED
  BY <1>3, <1>6, <1>7

\* A step in which t ends.
Ends(t) ==
  /\ pc[t] # "idle" /\ \A u \in Thread : pc'[u] = IF u = t THEN "idle" ELSE pc[u]
  /\ UNCHANGED <<start, since, cursor, rs, aborted>> /\ hist \subseteq hist'

\* A step whose list is L, of length m, which continues the one before, without
\* its first d nodes, which nobody refers to.
Collects(L, m, d) ==
  /\ m \in Nat /\ m >= Len(all) /\ Cardinality(hist)' = Base + m
  /\ \A i \in 1 .. Len(all) : L[i] = all[i]
  /\ \A i \in 1 .. m : \E h \in hist' : h.id = L[i].id /\ h.cts = Base + i - 1
  /\ HeadNode \in DOMAIN refs' /\ refs'[HeadNode] = StartedAt(HeadNode)'
  /\ \A i \in 1 .. m : L[i].id \in DOMAIN refs' /\ refs'[L[i].id] = StartedAt(L[i].id)'
  /\ d \in 0 .. m /\ Len(all') = m - d /\ \A i \in 1 .. m - d : all'[i] = L[i + d]
  /\ d > 0 => refs'[HeadNode] <= 0 /\ \A i \in 1 .. d : refs'[L[i].id] <= 0

\* Nobody starts from a node that is collected, so every start and cursor is
\* still there.
LEMMA EndKeeps ==
  ASSUME KrOccAssumption, Inv, Types', NEW t \in Thread, Ends(t),
         NEW L, NEW m, NEW d, Collects(L, m, d)
  PROVE  Listed' /\ Running' /\ Checked' /\ Counts'
<1> SUFFICES
      ASSUME \A u \in Thread : pc'[u] = IF u = t THEN "idle" ELSE pc[u],
             UNCHANGED <<start, since, cursor, rs, aborted>>, hist \subseteq hist',
             m \in Nat, m >= Len(all), Cardinality(hist)' = Base + m,
             \A i \in 1 .. Len(all) : L[i] = all[i],
             \A i \in 1 .. m : \E h \in hist' : h.id = L[i].id /\ h.cts = Base + i - 1,
             HeadNode \in DOMAIN refs', refs'[HeadNode] = StartedAt(HeadNode)',
             \A i \in 1 .. m : L[i].id \in DOMAIN refs' /\ refs'[L[i].id] = StartedAt(L[i].id)',
             d \in 0 .. m, Len(all') = m - d, \A i \in 1 .. m - d : all'[i] = L[i + d],
             d > 0 => refs'[HeadNode] <= 0 /\ \A i \in 1 .. d : refs'[L[i].id] <= 0
      PROVE  Listed' /\ Running' /\ Checked' /\ Counts'
  BY DEF Ends, Collects
<1>0. Types /\ Listed /\ Running /\ Checked /\ Counts
  BY DEF Inv
<1>1. /\ Len(all) \in Nat /\ Base \in Nat /\ m \in Nat /\ d \in Nat /\ m - d \in Nat
      /\ Len(all) <= m /\ d <= m
      /\ all' \in Seq(ListNode) /\ DOMAIN all' = 1 .. m - d
  BY <1>0, ListTypes DEF Listed, Types
<1>2. PICK b \in Nat : b = Base
  BY <1>1
<1>3. Base' = b + d
  BY <1>1, <1>2 DEF Base
<1>4. \A i \in 1 .. m - d : i + d \in 1 .. m /\ NodeAt(i)' = L[i + d].id
  BY <1>1 DEF NodeAt
<1>5. NodeAt(0)' = HeadNode
  BY DEF NodeAt
<1>6. Listed'
  <2>1. \A i \in 1 .. m - d : \E h \in hist' : h.id = all'[i].id /\ h.cts = Base' + i - 1
    <3>1. TAKE i \in 1 .. m - d
    <3>2. PICK j \in 1 .. m : j = i + d
      BY <1>4
    <3>3. PICK h \in hist' : h.id = L[j].id /\ h.cts = b + j - 1
      BY <1>2
    <3>4. all'[i] = L[j]
      BY <3>2
    <3>5. b + j - 1 = Base' + i - 1
      BY <1>3, <3>2
    <3>6. QED
      BY <3>3, <3>4, <3>5
  <2>2. QED
    BY <1>1, <1>3, <2>1 DEF Listed
<1>7. ASSUME NEW u \in Thread, pc'[u] # "idle"
      PROVE  /\ u # t /\ pc'[u] = pc[u]
             /\ From(u) \in 0 .. Len(all) /\ start[u] = NodeAt(From(u))
             /\ d = 0 \/ d < From(u)
             /\ From(u)' = From(u) - d
  <2>1. u # t /\ pc'[u] = pc[u] /\ pc[u] # "idle"
    BY <1>7
  <2>2. From(u) \in 0 .. Len(all) /\ start[u] = NodeAt(From(u))
    BY <1>0, <2>1 DEF Running
  <2>3. PICK p \in 0 .. Len(all) : p = From(u)
    BY <2>2
  <2>4. PICK n : n = start[u]
    OBVIOUS
  <2>5. StartedAt(n)' \in Nat /\ StartedAt(n)' >= 1
    BY <1>7, <2>4, StillCounted
  <2>6. ASSUME p = 0 PROVE d = 0
    <3>1. n = HeadNode
      BY <2>2, <2>3, <2>4, <2>6 DEF NodeAt
    <3>2. refs'[HeadNode] >= 1
      BY <2>5, <3>1
    <3>3. QED
      BY <1>1, <3>2, <2>5, <3>1
  <2>7. ASSUME p # 0 PROVE d = 0 \/ d < p
    <3>1. p \in 1 .. m /\ n = L[p].id
      <4>1. p \in 1 .. Len(all) /\ p \in 1 .. m
        BY <1>1, <2>3, <2>7
      <4>2. QED
        BY <2>2, <2>3, <2>4, <2>7, <4>1 DEF NodeAt
    <3>2. refs'[L[p].id] = StartedAt(n)'
      BY <3>1
    <3>3. ~(refs'[L[p].id] <= 0)
      BY <2>5, <3>2
    <3>4. ~(d > 0 /\ p \in 1 .. d)
      BY <3>3
    <3>5. QED
      BY <1>1, <3>1, <3>4
  <2>8. From(u)' = From(u) - d
    <3>1. since[u] \in Nat
      BY <1>0 DEF Types
    <3>2. QED
      BY <1>2, <1>3, <3>1 DEF From
  <2>9. QED
    BY <2>1, <2>2, <2>3, <2>6, <2>7, <2>8
<1>8. ASSUME NEW q \in 0 .. Len(all), d = 0 \/ d < q
      PROVE  q - d \in 0 .. m - d /\ NodeAt(q - d)' = NodeAt(q)
  <2>1. PICK i \in 0 .. m - d : i = q - d
    BY <1>1, <1>8
  <2>2. CASE i = 0
    <3>1. q = 0
      BY <1>1, <1>8, <2>1, <2>2
    <3>2. NodeAt(q) = HeadNode
      BY <3>1 DEF NodeAt
    <3>3. QED
      BY <1>5, <2>1, <2>2, <3>2
  <2>3. CASE i # 0
    <3>1. i \in 1 .. m - d /\ i + d = q /\ q \in 1 .. Len(all)
      BY <1>1, <2>1, <2>3
    <3>2. NodeAt(i)' = L[q].id
      BY <1>4, <3>1
    <3>3. NodeAt(q) = L[q].id
      BY <3>1 DEF NodeAt
    <3>4. QED
      BY <2>1, <3>2, <3>3
  <2>4. QED
    BY <2>2, <2>3
<1>9. Running'
  <2>1. ASSUME NEW u \in Thread, pc'[u] # "idle"
        PROVE  From(u)' \in 0 .. m - d /\ start'[u] = NodeAt(From(u))'
    <3>1. PICK q \in 0 .. Len(all) : q = From(u)
      BY <1>7, <2>1
    <3>2. PICK i \in 0 .. m - d : i = q - d
      BY <1>7, <1>8, <2>1, <3>1
    <3>3. NodeAt(i)' = NodeAt(q)
      BY <1>7, <1>8, <2>1, <3>1, <3>2
    <3>4. From(u)' = i
      BY <1>7, <2>1, <3>1, <3>2
    <3>5. NodeAt(From(u))' = NodeAt(i)'
      BY <3>4 DEF NodeAt
    <3>6. QED
      BY <1>7, <2>1, <3>1, <3>2, <3>3, <3>4, <3>5
  <2>2. QED
    BY <2>1 DEF Running
<1>10. Checked'
  <2>1. ASSUME NEW u \in Thread, pc'[u] = "check"
        PROVE  \E i \in From(u)' .. m - d :
                 /\ cursor'[u] = NodeAt(i)'
                 /\ \A j \in From(u)' + 1 .. i : all'[j].ws \cap rs'[u] = {}
    <3>1. PICK f \in 0 .. Len(all) : f = From(u) /\ (d = 0 \/ d < f) /\ From(u)' = f - d
      BY <1>7, <2>1
    <3>2. pc[u] = "check"
      BY <1>7, <2>1
    <3>3. PICK q \in f .. Len(all) :
            cursor[u] = NodeAt(q) /\ \A j \in f + 1 .. q : all[j].ws \cap rs[u] = {}
      BY <1>0, <3>1, <3>2 DEF Checked
    <3>4. q \in 0 .. Len(all) /\ (d = 0 \/ d < q)
      BY <3>1, <1>1
    <3>5. PICK i \in 0 .. m - d : i = q - d
      BY <1>8, <3>4
    <3>6. NodeAt(i)' = NodeAt(q)
      BY <1>8, <3>4, <3>5
    <3>7. i \in f - d .. m - d
      BY <3>1, <3>5, <1>1
    <3>8. ASSUME NEW j \in f - d + 1 .. i PROVE all'[j].ws \cap rs[u] = {}
      <4>1. PICK k \in f + 1 .. q : k = j + d
        BY <3>1, <3>5, <1>1
      <4>2. k \in 1 .. Len(all) /\ j \in 1 .. m - d
        <5>1. f \in Nat /\ q \in Nat /\ f <= q /\ q <= Len(all) /\ i \in Nat /\ i <= m - d
          BY <1>1, <3>1, <3>4, <3>5, <3>7
        <5>2. k \in Int /\ j \in Int /\ f + 1 <= k /\ k <= q /\ j <= i /\ k = j + d /\ f - d + 1 <= j
          BY <1>1, <4>1, <5>1
        <5>3. f - d >= 0
          <6>1. d \in Nat /\ (d = 0 \/ d < f)
            BY <1>1, <3>1
          <6>2. QED
            BY <5>1, <6>1
        <5>4. QED
          BY <1>1, <5>1, <5>2, <5>3
      <4>3. all'[j] = all[k]
        BY <4>1, <4>2
      <4>4. QED
        BY <3>3, <4>1, <4>3
    <3>9. QED
      BY <3>1, <3>3, <3>6, <3>7, <3>8
  <2>2. QED
    BY <2>1 DEF Checked
<1>11. Counts'
  <2>1. \A i \in DOMAIN aborted : aborted[i] = HeadNode \/ \E h \in hist' : h.id = aborted[i]
    BY <1>0 DEF Counts
  <2>2. ASSUME NEW i \in 0 .. m - d
        PROVE  NodeAt(i)' \in DOMAIN refs' /\ refs'[NodeAt(i)'] = StartedAt(NodeAt(i))'
    <3>1. CASE i = 0
      <4>1. StartedAt(NodeAt(i))' = StartedAt(HeadNode)'
        BY <1>5, <3>1 DEF StartedAt
      <4>2. QED
        BY <1>5, <3>1, <4>1
    <3>2. CASE i # 0
      <4>0. i \in 1 .. m - d
        BY <1>1, <3>2
      <4>1. PICK j \in 1 .. m : j = i + d /\ NodeAt(i)' = L[j].id
        BY <1>4, <4>0
      <4>2. PICK n : n = L[j].id
        OBVIOUS
      <4>3. StartedAt(NodeAt(i))' = StartedAt(n)'
        BY <4>1, <4>2 DEF StartedAt
      <4>4. QED
        BY <4>1, <4>2, <4>3
    <3>3. QED
      BY <3>1, <3>2
  <2>3. QED
    BY <2>1, <2>2 DEF Counts
<1>12. QED
  BY <1>6, <1>9, <1>10, <1>11

\* A commit that ends no longer holds the mutex, nor is it among the active.
LEMMA EndCommits ==
  ASSUME KrOccAssumption, Inv, NEW t \in Thread, Busy(t),
         \A u \in Thread : pc'[u] = IF u = t THEN "idle" ELSE pc[u],
         lock' = "free", active' = active \ {Mine(t)}, UNCHANGED <<build, count, ws>>
  PROVE  Commits'
<1>1. \A u \in Thread : /\ Busy(u)' <=> (u # t /\ Busy(u))
                        /\ Mine(u)' = Mine(u) /\ (u # t => Mine(u) # Mine(t))
  BY DEF Busy, Mine, Id
<1>2. CASE build = "serial"
  <2>1. \A u \in Thread : ~Busy(u)' /\ u # "free"
    BY <1>1, <1>2 DEF Inv, Commits, KrOccAssumption
  <2>2. QED
    BY <1>2, <2>1 DEF Commits
<1>3. CASE build # "serial"
  BY <1>1, <1>3 DEF Inv, Commits, Free
<1>4. QED
  BY <1>2, <1>3

LEMMA FailKeeps ==
  ASSUME KrOccAssumption, Inv, NEW t \in Thread, Fail(t)
  PROVE  Inv'
<1>0. Types /\ Commits /\ History /\ Listed /\ Running /\ Checked /\ Counts
  BY DEF Inv
<1>1. /\ pc[t] = "fail"
      /\ refs' = [refs EXCEPT ![start[t]] = @ - 1]
      /\ all' = IF build = "serial" THEN Collected(all, refs') ELSE all
      /\ active' = active \ {Mine(t)} /\ lock' = "free"
      /\ finish' = [finish EXCEPT ![t] = {}]
      /\ pc' = [pc EXCEPT ![t] = "idle"]
      /\ UNCHANGED <<build, db, gone, count, calls, start, rs, ws, since, reads, cursor,
                     todo, aborted, hist>>
  BY DEF Fail, Goto, txnVars
<1>2. \A u \in Thread : pc'[u] = IF u = t THEN "idle" ELSE pc[u]
  BY <1>0, <1>1 DEF Types
<1>3. /\ DOMAIN refs' = DOMAIN refs
      /\ \A n \in DOMAIN refs : /\ refs'[n] = IF n = start[t] THEN refs[n] - 1 ELSE refs[n]
                                /\ refs[n] \in Int /\ refs'[n] \in Int
  BY <1>0, <1>1 DEF Types
<1>4. \A n : StartedAt(n)' = IF n = start[t] THEN StartedAt(n) - 1 ELSE StartedAt(n)
  BY <1>0, <1>1, <1>2, StartedLess
<1>5. ASSUME NEW n, NEW i \in 0 .. Len(all), n = NodeAt(i)
      PROVE  n \in DOMAIN refs' /\ refs'[n] = StartedAt(n)' /\ refs'[n] \in Int
  <2>1. n \in DOMAIN refs /\ refs[n] = StartedAt(n)
    BY <1>0, <1>5 DEF Counts
  <2>2. QED
    BY <1>3, <1>4, <2>1
<1>6. Len(all) \in Nat /\ DOMAIN all = 1 .. Len(all)
  BY <1>0, ListTypes
<1>7. /\ HeadNode \in DOMAIN refs' /\ refs'[HeadNode] = StartedAt(HeadNode)'
      /\ refs'[HeadNode] \in Int
  <2>1. 0 \in 0 .. Len(all) /\ HeadNode = NodeAt(0)
    BY <1>6 DEF NodeAt
  <2>2. QED
    BY <1>5, <2>1
<1>8. PICK L : L = all
  OBVIOUS
<1>9. \A i \in 1 .. Len(all) : /\ L[i].id \in DOMAIN refs'
                               /\ refs'[L[i].id] = StartedAt(L[i].id)'
                               /\ refs'[L[i].id] \in Int
  <2>1. TAKE i \in 1 .. Len(all)
  <2>2. i \in 0 .. Len(all) /\ L[i].id = NodeAt(i)
    BY <1>6, <1>8 DEF NodeAt
  <2>3. QED
    BY <1>5, <2>2
<1>10. PICK r : r = refs'
  OBVIOUS
<1>11. PICK d \in 0 .. Len(all) :
         /\ all' \in Seq(ListNode) /\ Len(all') = Len(all) - d
         /\ \A i \in 1 .. Len(all) - d : all'[i] = L[i + d]
         /\ d > 0 => r[HeadNode] <= 0 /\ \A i \in 1 .. d : r[L[i].id] <= 0
  <2>1. L \in Seq(ListNode)
    BY <1>0, <1>8 DEF Types
  <2>2. CASE build = "serial"
    <3>1. all' = Collected(L, r)
      BY <1>1, <1>8, <1>10, <2>2
    <3>2. /\ \A i \in DOMAIN L : r[L[i].id] \in Int
          /\ r[HeadNode] \in Int
      BY <1>6, <1>7, <1>8, <1>9, <1>10
    <3>3. QED
      BY <1>8, <2>1, <3>1, <3>2, CollectedIs
  <2>3. CASE build # "serial"
    <3>1. all' = L /\ Len(all) - 0 = Len(all) /\ 0 \in 0 .. Len(all) /\ ~(0 > 0)
      BY <1>1, <1>6, <1>8, <2>3
    <3>2. \A i \in 1 .. Len(all) - 0 : all'[i] = L[i + 0]
      BY <3>1
    <3>3. QED
      BY <1>8, <2>1, <3>1, <3>2
  <2>4. QED
    BY <2>2, <2>3
<1>12. Types'
  <2>1. pc' \in [Thread -> Label] /\ finish' \in [Thread -> SUBSET ListNode]
    BY <1>0, <1>1 DEF Types, Label
  <2>2. DOMAIN refs' \in SUBSET Starts /\ refs' \in [DOMAIN refs' -> Int]
    BY <1>0, <1>1, <1>3 DEF Types
  <2>3. active' \in SUBSET ListNode /\ lock' \in Thread \cup {"free"}
    BY <1>0, <1>1 DEF Types
  <2>4. QED
    BY <1>0, <1>1, <1>11, <2>1, <2>2, <2>3 DEF Types
<1>13. Listed' /\ Running' /\ Checked' /\ Counts'
  <2>1. PICK m \in Nat : m = Len(all)
    BY <1>6
  <2>2. Cardinality(hist)' = Base + m
    BY <1>0, <1>1, <2>1, ListTypes DEF Base
  <2>3. \A i \in 1 .. m : \E h \in hist' : h.id = L[i].id /\ h.cts = Base + i - 1
    BY <1>0, <1>1, <1>6, <1>8, <2>1 DEF Listed
  <2>4. Ends(t)
    BY <1>1, <1>2 DEF Ends
  <2>5. m >= Len(all) /\ \A i \in 1 .. Len(all) : L[i] = all[i]
    BY <1>6, <1>8, <2>1
  <2>6. \A i \in 1 .. m : L[i].id \in DOMAIN refs' /\ refs'[L[i].id] = StartedAt(L[i].id)'
    BY <1>9, <2>1
  <2>7. /\ d \in 0 .. m /\ Len(all') = m - d /\ \A i \in 1 .. m - d : all'[i] = L[i + d]
        /\ d > 0 => refs'[HeadNode] <= 0 /\ \A i \in 1 .. d : refs'[L[i].id] <= 0
    BY <1>10, <1>11, <2>1
  <2>8. Collects(L, m, d)
    BY <1>7, <2>1, <2>2, <2>3, <2>5, <2>6, <2>7 DEF Collects
  <2>9. QED
    BY <1>12, <2>4, <2>8, EndKeeps
<1>14. Commits'
  BY <1>1, <1>2, EndCommits DEF Busy
<1>15. History'
  BY <1>0, <1>1, <1>2 DEF History, Id
<1>16. QED
  BY <1>12, <1>13, <1>14, <1>15 DEF Inv

\* A transaction starts from the head, or from one that committed.
LEMMA StartsFrom ==
  ASSUME Inv, NEW u \in Thread, pc[u] # "idle"
  PROVE  start[u] = HeadNode \/ \E h \in hist : h.id = start[u]
<1>1. Types /\ Listed /\ From(u) \in 0 .. Len(all) /\ start[u] = NodeAt(From(u))
  BY DEF Inv, Running
<1>2. From(u) # 0 => From(u) \in DOMAIN all
  BY <1>1, ListTypes
<1>3. QED
  BY <1>1, <1>2 DEF NodeAt, Listed

\* What a valid commit adds to the history, and the list before it is collected.
LEMMA FinishIs ==
  ASSUME KrOccAssumption, Inv, NEW t \in Thread, Finish(t)
  PROVE  /\ pc[t] = "write" /\ todo[t] = {}
         /\ refs' = [With(refs, Id(t), 0) EXCEPT ![start[t]] = @ - 1]
         /\ all' = Collected(Append(all, Mine(t)), refs')
         /\ active' = active \ {Mine(t)} /\ lock' = "free"
         /\ pc' = [pc EXCEPT ![t] = "idle"]
         /\ \A u \in Thread : pc'[u] = IF u = t THEN "idle" ELSE pc[u]
         /\ UNCHANGED <<build, db, gone, count, calls, start, rs, ws, since, reads, cursor,
                        finish, todo, aborted>>
         /\ \E new \in Commit :
              /\ new.id = Id(t) /\ new.cts = Cardinality(hist) /\ new.reads = reads[t]
              /\ new \notin hist /\ hist' = hist \cup {new}
              /\ Cardinality(hist)' = Cardinality(hist) + 1
<1>0. Types /\ History
  BY DEF Inv
<1>1. /\ pc[t] = "write" /\ todo[t] = {}
      /\ refs' = [With(refs, Id(t), 0) EXCEPT ![start[t]] = @ - 1]
      /\ all' = Collected(Append(all, Mine(t)), refs')
      /\ active' = active \ {Mine(t)} /\ lock' = "free"
      /\ pc' = [pc EXCEPT ![t] = "idle"]
      /\ UNCHANGED <<build, db, gone, count, calls, start, rs, ws, since, reads, cursor,
                     finish, todo, aborted>>
      /\ hist' = hist \cup {[id |-> Id(t), cts |-> Cardinality(hist), reads |-> reads[t]]}
  BY DEF Finish, Goto, txnVars
<1>2. \A u \in Thread : pc'[u] = IF u = t THEN "idle" ELSE pc[u]
  BY <1>0, <1>1 DEF Types
<1>3. PICK new : new = [id |-> Id(t), cts |-> Cardinality(hist), reads |-> reads[t]]
  OBVIOUS
<1>4. new \in Commit
  <2>1. Id(t) \in Txn /\ Cardinality(hist) \in Nat /\ reads[t] \in SUBSET Read
    BY <1>0, IdsNotHead, ListTypes DEF Types
  <2>2. QED
    BY <1>3, <2>1 DEF Commit
<1>5. new.id = Id(t) /\ new.cts = Cardinality(hist) /\ new.reads = reads[t]
  BY <1>3
<1>6. new \notin hist
  BY <1>0, <1>1, <1>5 DEF History
<1>7. hist' = hist \cup {new}
  BY <1>1, <1>3
<1>8. Cardinality(hist \cup {new}) = Cardinality(hist) + 1
  BY <1>0, <1>6, FS_AddElement DEF Types
<1>9. QED
  BY <1>1, <1>2, <1>4, <1>5, <1>6, <1>7, <1>8

LEMMA FinishKeeps ==
  ASSUME KrOccAssumption, Inv, NEW t \in Thread, Finish(t)
  PROVE  Inv'
<1>0. Types /\ Commits /\ History /\ Listed /\ Running /\ Checked /\ Counts
  BY DEF Inv
<1>1. /\ pc[t] = "write"
      /\ refs' = [With(refs, Id(t), 0) EXCEPT ![start[t]] = @ - 1]
      /\ all' = Collected(Append(all, Mine(t)), refs')
      /\ active' = active \ {Mine(t)} /\ lock' = "free"
      /\ pc' = [pc EXCEPT ![t] = "idle"]
      /\ UNCHANGED <<build, db, gone, count, calls, start, rs, ws, since, reads, cursor,
                     finish, todo, aborted>>
  BY FinishIs
<1>2. \A u \in Thread : pc'[u] = IF u = t THEN "idle" ELSE pc[u]
  BY FinishIs
<1>3. PICK new \in Commit :
        /\ new.id = Id(t) /\ new.cts = Cardinality(hist) /\ new \notin hist
        /\ hist' = hist \cup {new} /\ Cardinality(hist)' = Cardinality(hist) + 1
  BY FinishIs
<1>4. PICK n0 \in Txn : n0 = Id(t) /\ n0 # HeadNode /\ \A h \in hist : h.id # n0
  BY <1>0, <1>1, IdsNotHead DEF History
<1>5. PICK s0 \in Starts : s0 = start[t]
  BY <1>0 DEF Types
<1>6. \A u \in Thread : pc[u] # "idle" => start[u] # n0
  BY <1>4, StartsFrom
<1>7. /\ DOMAIN refs' = {n0} \cup DOMAIN refs /\ refs'[n0] = 0
      /\ \A n \in DOMAIN refs : n # n0 => /\ refs'[n] = IF n = s0 THEN refs[n] - 1 ELSE refs[n]
                                          /\ refs[n] \in Int /\ refs'[n] \in Int
  <2>1. PICK w : w = With(refs, n0, 0)
    OBVIOUS
  <2>2. /\ DOMAIN w = {n0} \cup DOMAIN refs /\ w[n0] = 0
        /\ \A n \in DOMAIN refs : n # n0 => w[n] = refs[n]
    <3>1. /\ DOMAIN With(refs, n0, 0) = {n0} \cup DOMAIN refs
          /\ With(refs, n0, 0)[n0] = 0
          /\ \A n \in DOMAIN refs : n # n0 => With(refs, n0, 0)[n] = refs[n]
      BY DEF With
    <3>2. QED
      BY <2>1, <3>1
  <2>3. n0 # s0
    BY <1>1, <1>5, <1>6
  <2>4. refs' = [w EXCEPT ![s0] = @ - 1]
    BY <1>1, <1>4, <1>5, <2>1
  <2>5. /\ DOMAIN refs' = DOMAIN w
        /\ \A n \in DOMAIN w : refs'[n] = IF n = s0 THEN w[n] - 1 ELSE w[n]
    BY <2>4
  <2>6. \A n \in DOMAIN refs : refs[n] \in Int
    BY <1>0 DEF Types
  <2>7. QED
    BY <2>2, <2>3, <2>5, <2>6
<1>8. \A n : StartedAt(n)' = IF n = s0 THEN StartedAt(n) - 1 ELSE StartedAt(n)
  BY <1>0, <1>1, <1>2, <1>5, StartedLess
<1>9. PICK L : L = Append(all, Mine(t))
  OBVIOUS
<1>10. PICK m \in Nat : m = Len(all) + 1
  BY <1>0, ListTypes
<1>11. /\ Len(all) \in Nat /\ DOMAIN all = 1 .. Len(all)
       /\ L \in Seq(ListNode) /\ Len(L) = m /\ DOMAIN L = 1 .. m
       /\ \A i \in 1 .. Len(all) : L[i] = all[i]
       /\ L[m].id = n0
  <2>1. Mine(t) \in ListNode /\ Mine(t).id = n0
    BY <1>0, <1>4, IdsNotHead DEF Mine, ListNode, Types
  <2>2. all \in Seq(ListNode)
    BY <1>0 DEF Types
  <2>3. QED
    BY <1>9, <1>10, <2>1, <2>2
<1>12. ASSUME NEW n, n \in DOMAIN refs, n # n0, refs[n] = StartedAt(n)
       PROVE  n \in DOMAIN refs' /\ refs'[n] = StartedAt(n)' /\ refs'[n] \in Int
  BY <1>7, <1>8, <1>12
<1>13. /\ HeadNode \in DOMAIN refs' /\ refs'[HeadNode] = StartedAt(HeadNode)'
       /\ refs'[HeadNode] \in Int
  <2>1. 0 \in 0 .. Len(all) /\ HeadNode = NodeAt(0)
    BY <1>11 DEF NodeAt
  <2>2. HeadNode \in DOMAIN refs /\ refs[HeadNode] = StartedAt(HeadNode)
    BY <1>0, <2>1 DEF Counts
  <2>3. QED
    BY <1>4, <1>12, <2>2
<1>14. \A i \in 1 .. Len(all) : \E h \in hist : h.id = L[i].id /\ h.cts = Base + i - 1
  BY <1>0, <1>11 DEF Listed
<1>15. \A i \in 1 .. m : /\ L[i].id \in DOMAIN refs'
                         /\ refs'[L[i].id] = StartedAt(L[i].id)'
                         /\ refs'[L[i].id] \in Int
  <2>1. TAKE i \in 1 .. m
  <2>2. CASE i = m
    <3>1. StartedAt(n0) = 0
      <4>1. \A j \in DOMAIN aborted : aborted[j] # n0
        BY <1>0, <1>4 DEF Counts
      <4>2. ~(StartedAt(n0) > 0) /\ StartedAt(n0) \in Nat
        BY <1>0, <1>6, <4>1, StartedAtMost
      <4>3. QED
        BY <4>2
    <3>2. n0 # s0
      BY <1>1, <1>5, <1>6
    <3>3. StartedAt(n0)' = 0
      BY <1>8, <3>1, <3>2
    <3>4. QED
      BY <1>7, <1>11, <2>2, <3>3
  <2>3. CASE i # m
    <3>1. i \in 1 .. Len(all) /\ i \in 0 .. Len(all)
      BY <1>10, <1>11, <2>3
    <3>2. L[i].id = NodeAt(i)
      BY <1>11, <3>1 DEF NodeAt
    <3>3. L[i].id \in DOMAIN refs /\ refs[L[i].id] = StartedAt(L[i].id)
      BY <1>0, <3>1, <3>2 DEF Counts
    <3>4. L[i].id # n0
      BY <1>4, <1>14, <3>1
    <3>5. QED
      BY <1>12, <3>3, <3>4
  <2>4. QED
    BY <2>2, <2>3
<1>16. PICK r : r = refs'
  OBVIOUS
<1>17. PICK d \in 0 .. m :
         /\ all' \in Seq(ListNode) /\ Len(all') = m - d
         /\ \A i \in 1 .. m - d : all'[i] = L[i + d]
         /\ d > 0 => r[HeadNode] <= 0 /\ \A i \in 1 .. d : r[L[i].id] <= 0
  <2>1. all' = Collected(L, r)
    BY <1>1, <1>9, <1>16
  <2>2. /\ \A i \in DOMAIN L : r[L[i].id] \in Int
        /\ r[HeadNode] \in Int
    BY <1>11, <1>13, <1>15, <1>16
  <2>3. L \in Seq(ListNode) /\ Len(L) = m
    BY <1>11
  <2>4. QED
    BY <2>1, <2>2, <2>3, CollectedIs
<1>18. Types'
  <2>1. pc' \in [Thread -> Label]
    BY <1>0, <1>1 DEF Types, Label
  <2>2. DOMAIN refs' \in SUBSET Starts /\ refs' \in [DOMAIN refs' -> Int]
    <3>1. DOMAIN refs \in SUBSET Starts /\ n0 \in Starts
      BY <1>0 DEF Types, Starts
    <3>2. \A n \in DOMAIN refs' : refs'[n] \in Int
      BY <1>7
    <3>3. refs' = [n \in DOMAIN refs' |-> refs'[n]]
      BY <1>1
    <3>4. QED
      BY <1>7, <3>1, <3>2, <3>3
  <2>3. active' \in SUBSET ListNode /\ lock' \in Thread \cup {"free"}
    BY <1>0, <1>1 DEF Types
  <2>4. hist' \in SUBSET Commit /\ IsFiniteSet(hist')
    BY <1>0, <1>3, FS_AddElement DEF Types
  <2>5. QED
    BY <1>0, <1>1, <1>17, <2>1, <2>2, <2>3, <2>4 DEF Types
<1>19. Listed' /\ Running' /\ Checked' /\ Counts'
  <2>1. Base \in Nat /\ Cardinality(hist) \in Nat /\ Cardinality(hist) = Base + Len(all)
    BY <1>0, ListTypes DEF Base, Listed
  <2>2. Cardinality(hist)' = Base + m
    BY <1>3, <1>10, <1>11, <2>1
  <2>3. \A i \in 1 .. m : \E h \in hist' : h.id = L[i].id /\ h.cts = Base + i - 1
    <3>1. TAKE i \in 1 .. m
    <3>2. CASE i = m
      <4>1. new \in hist' /\ new.id = L[i].id /\ new.cts = Base + i - 1
        BY <1>3, <1>4, <1>10, <1>11, <2>1, <3>2
      <4>2. QED
        BY <4>1
    <3>3. CASE i # m
      <4>1. i \in 1 .. Len(all)
        BY <1>10, <1>11, <3>3
      <4>2. QED
        BY <1>3, <1>14, <4>1
    <3>4. QED
      BY <3>2, <3>3
  <2>4. Ends(t)
    BY <1>1, <1>2, <1>3 DEF Ends
  <2>5. m >= Len(all) /\ \A i \in 1 .. Len(all) : L[i] = all[i]
    BY <1>10, <1>11
  <2>6. \A i \in 1 .. m : L[i].id \in DOMAIN refs' /\ refs'[L[i].id] = StartedAt(L[i].id)'
    BY <1>15
  <2>7. d > 0 => refs'[HeadNode] <= 0 /\ \A i \in 1 .. d : refs'[L[i].id] <= 0
    BY <1>16, <1>17
  <2>8. Collects(L, m, d)
    BY <1>13, <1>17, <2>2, <2>3, <2>5, <2>6, <2>7 DEF Collects
  <2>9. QED
    BY <1>18, <2>4, <2>8, EndKeeps
<1>20. Commits'
  BY <1>1, <1>2, EndCommits DEF Busy
<1>21. History'
  <2>1. \A u \in Thread : Id(u)' = Id(u) /\ (u # t => Id(u) # n0)
    BY <1>1, <1>4 DEF Id
  <2>2. Cardinality(hist) \in Nat /\ \A h \in hist : h.cts \in Nat /\ h.cts < Cardinality(hist)
    BY <1>0, ListTypes DEF History
  <2>3. new.id[2] \in 1 .. count[new.id[1]]
    <3>1. count[t] \in Nat /\ count[t] > 0
      BY <1>0, <1>1 DEF Types, History
    <3>2. QED
      BY <1>3, <3>1 DEF Id
  <2>4. \A h \in hist' : h.id[2] \in 1 .. count[h.id[1]] /\ h.cts < Cardinality(hist)'
    BY <1>0, <1>3, <2>2, <2>3 DEF History
  <2>5. \A u \in Thread : pc'[u] # "idle" => count[u] > 0 /\ \A h \in hist' : h.id # Id(u)'
    BY <1>0, <1>2, <1>3, <1>4, <2>1 DEF History
  <2>6. \A h \in hist : h.id # new.id /\ h.cts # new.cts
    BY <1>3, <1>4, <2>2
  <2>7. \A g, h \in hist' : g.id = h.id \/ g.cts = h.cts => g = h
    BY <1>0, <1>3, <2>6 DEF History
  <2>8. QED
    BY <1>1, <2>4, <2>5, <2>7 DEF History
<1>22. QED
  BY <1>18, <1>19, <1>20, <1>21 DEF Inv

-----------------------------------------------------------------------------
(* The list has what a check goes over.                                    *)

LEMMA InvInit ==
  ASSUME KrOccAssumption, Init
  PROVE  Inv
<1>0. /\ build \in Builds /\ lock = "free" /\ all = <<>> /\ active = {}
      /\ refs = [n \in {HeadNode} |-> 0] /\ db = [k \in Key |-> <<>>]
      /\ pc = [t \in Thread |-> "idle"] /\ count = [t \in Thread |-> 0]
      /\ calls = [t \in Thread |-> <<>>] /\ start = [t \in Thread |-> HeadNode]
      /\ rs = [t \in Thread |-> {}] /\ ws = [t \in Thread |-> <<>>]
      /\ finish = [t \in Thread |-> {}] /\ cursor = [t \in Thread |-> HeadNode]
      /\ todo = [t \in Thread |-> {}] /\ since = [t \in Thread |-> 0]
      /\ reads = [t \in Thread |-> {}] /\ aborted = <<>> /\ hist = {}
  BY DEF Init
<1>1. HeadNode \in Starts
  BY DEF Starts
<1>2. Types
  <2>1. DOMAIN refs \in SUBSET Starts /\ refs \in [DOMAIN refs -> Int]
    BY <1>0, <1>1
  <2>2. DOMAIN ws = Thread /\ \A t \in Thread : DOMAIN ws[t] \in SUBSET Key
    BY <1>0
  <2>3. db \in [Key -> Seq(Txn)] /\ calls \in [Thread -> Seq(Op)] /\ aborted \in Seq(Starts)
        /\ all \in Seq(ListNode)
    BY <1>0
  <2>4. pc \in [Thread -> Label] /\ count \in [Thread -> Nat] /\ since \in [Thread -> Nat]
    BY <1>0 DEF Label
  <2>5. start \in [Thread -> Starts] /\ cursor \in [Thread -> Starts]
    BY <1>0, <1>1
  <2>6. IsFiniteSet(hist)
    BY <1>0, FS_EmptySet
  <2>7. rs \in [Thread -> SUBSET Key] /\ todo \in [Thread -> SUBSET Key]
    BY <1>0
  <2>8. finish \in [Thread -> SUBSET ListNode] /\ reads \in [Thread -> SUBSET Read]
    BY <1>0
  <2>9. build \in Builds /\ lock \in Thread \cup {"free"} /\ active \in SUBSET ListNode
        /\ hist \in SUBSET Commit
    BY <1>0
  <2>10. QED
    BY <2>1, <2>2, <2>3, <2>4, <2>5, <2>6, <2>7, <2>8, <2>9 DEF Types
<1>3. Commits
  BY <1>0 DEF Commits, Busy, Free, KrOccAssumption
<1>4. History
  BY <1>0 DEF History
<1>5. Len(all) = 0 /\ DOMAIN all = {} /\ Cardinality(hist) = 0 /\ Base = 0
  BY <1>0, FS_EmptySet DEF Base
<1>6. Listed
  BY <1>5 DEF Listed
<1>7. Running /\ Checked
  BY <1>0 DEF Running, Checked
<1>8. Counts
  <2>1. StartedAt(HeadNode) = 0
    <3>1. Runners(HeadNode) = {} /\ Aborters(HeadNode) = {}
      BY <1>0 DEF Runners, Aborters
    <3>2. QED
      BY <3>1, <1>2, StartedIs, FS_EmptySet
  <2>2. \A i \in 0 .. Len(all) : NodeAt(i) = HeadNode
    BY <1>5 DEF NodeAt
  <2>3. HeadNode \in DOMAIN refs /\ refs[HeadNode] = 0
    BY <1>0
  <2>4. DOMAIN aborted = {}
    BY <1>0
  <2>5. QED
    BY <2>1, <2>2, <2>3, <2>4 DEF Counts
<1>9. QED
  BY <1>2, <1>3, <1>4, <1>6, <1>7, <1>8 DEF Inv

LEMMA InvStep ==
  ASSUME KrOccAssumption, Inv, [Next]_vars
  PROVE  Inv'
<1>1. CASE UNCHANGED vars
  <2>1. UNCHANGED <<build, lock, all, active, refs, db, gone, pc, count, calls, start, rs, ws,
                    since, reads, finish, cursor, todo, aborted, hist>>
    BY <1>1 DEF vars, txnVars
  <2>2. Types' /\ History' /\ Listed' /\ Running' /\ Counts'
    BY <2>1, QuietKeeps DEF Inv, Types
  <2>3. Commits' /\ Checked'
    BY <2>1 DEF Inv, Commits, Busy, Free, Mine, Id, Checked, From, Base, NodeAt
  <2>4. QED
    BY <2>2, <2>3 DEF Inv
<1>2. ASSUME NEW t \in Thread, Step(t) PROVE Inv'
  BY <1>2, BeginKeeps, WriteKeeps, LookupKeeps, CommitBeginKeeps, CheckNextKeeps,
     CheckEndKeeps, StoreKeeps, FinishKeeps, FailKeeps DEF Step
<1>3. ASSUME NEW t \in Thread, Abort(t) PROVE Inv'
  BY <1>3, AbortKeeps
<1>4. QED
  BY <1>1, <1>2, <1>3 DEF Next, Done

LEMMA InvKeepsStarts ==
  ASSUME Inv
  PROVE  StartsKept
<1>0. Types /\ History /\ Listed /\ Running /\ Checked /\ Counts
  BY DEF Inv
<1> DEFINE listed == {all[i].id : i \in DOMAIN all}
<1>1. Len(all) \in Nat /\ DOMAIN all = 1 .. Len(all) /\ Base \in Nat
  BY <1>0, ListTypes DEF Listed
<1>2. \A i \in 1 .. Len(all) : all[i].id \in listed
  BY <1>1
<1>3. \A n \in listed : \E i \in 1 .. Len(all) : n = all[i].id
  BY <1>1
<1> HIDE DEF listed
<1>4. \A i \in 0 .. Len(all) : NodeAt(i) \in {HeadNode} \cup listed
  BY <1>1, <1>2 DEF NodeAt
<1>5. ASSUME NEW t \in Thread, pc[t] # "idle"
      PROVE  /\ start[t] \in {HeadNode} \cup listed
             /\ pc[t] = "check" => cursor[t] \in {HeadNode} \cup listed
             /\ \A h \in hist : h.cts >= since[t] => h.id \in listed
  <2>1. From(t) \in 0 .. Len(all) /\ start[t] = NodeAt(From(t))
    BY <1>0, <1>5 DEF Running
  <2>2. ASSUME pc[t] = "check" PROVE cursor[t] \in {HeadNode} \cup listed
    <3>1. PICK q \in From(t) .. Len(all) : cursor[t] = NodeAt(q)
      BY <1>0, <2>2 DEF Checked
    <3>2. q \in 0 .. Len(all)
      BY <1>1, <2>1, <3>1
    <3>3. QED
      BY <1>4, <3>1, <3>2
  <2>3. ASSUME NEW h \in hist, h.cts >= since[t] PROVE h.id \in listed
    <3>1. since[t] \in Nat /\ From(t) = since[t] - Base
      BY <1>0 DEF Types, From
    <3>2. since[t] >= Base
      BY <1>1, <2>1, <3>1
    <3>3. h.cts \in Nat
      BY <1>0, ListTypes
    <3>4. h.cts >= Base
      BY <1>1, <2>3, <3>1, <3>2, <3>3
    <3>5. QED
      BY <1>0, <1>2, <3>4, CommittedListed
  <2>4. QED
    BY <1>4, <2>1, <2>2, <2>3
<1>6. ASSUME NEW n \in {HeadNode} \cup listed PROVE refs[n] = StartedAt(n)
  <2>1. PICK i \in 0 .. Len(all) : n = NodeAt(i)
    <3>1. CASE n = HeadNode
      BY <1>1, <3>1 DEF NodeAt
    <3>2. CASE n \in listed
      <4>1. PICK i \in 1 .. Len(all) : n = all[i].id
        BY <1>3, <3>2
      <4>2. i \in 0 .. Len(all) /\ n = NodeAt(i)
        BY <1>1, <4>1 DEF NodeAt
      <4>3. QED
        BY <4>2
    <3>3. QED
      BY <3>1, <3>2
  <2>2. QED
    BY <1>0, <2>1 DEF Counts
<1>7. QED
  BY <1>5, <1>6 DEF StartsKept, listed

\* What a check will go over is in the list, though others collect it, and each
\* node counts who starts from it: transaction_gc and the ref_count of
\* transaction_kr_occ.h.
THEOREM StartsStay == KrOccAssumption => (Spec => []StartsKept)
<1> SUFFICES ASSUME KrOccAssumption PROVE Spec => []StartsKept
  OBVIOUS
<1>1. Init => Inv
  BY InvInit
<1>2. Inv /\ [Next]_vars => Inv'
  BY InvStep
<1>3. Inv => StartsKept
  BY InvKeepsStarts
<1>4. QED
  BY <1>1, <1>2, <1>3, PTL DEF Spec

-----------------------------------------------------------------------------
(* The order of the commits.                                               *)

\* Who wrote a version is in the history or at its writes, but not both.
LEMMA WriterIs ==
  ASSUME Inv, Writers, NEW k \in Key, NEW j \in DOMAIN db[k]
  PROVE  /\ db[k][j] \in Txn
         /\ \A t \in Thread : db[k][j] = Id(t) /\ pc[t] # "idle" =>
              pc[t] = "write" /\ k \in DOMAIN ws[t] /\ k \notin todo[t]
<1>1. Types /\ History
  BY DEF Inv
<1>2. db[k] \in Seq(Txn)
  BY <1>1 DEF Types
<1>3. db[k][j] \in Txn
  BY <1>2
<1>4. ASSUME NEW t \in Thread, db[k][j] = Id(t), pc[t] # "idle"
      PROVE  pc[t] = "write" /\ k \in DOMAIN ws[t] /\ k \notin todo[t]
  <2>1. \A h \in hist : h.id # db[k][j]
    BY <1>1, <1>4 DEF History
  <2>2. PICK u \in Thread : /\ pc[u] = "write" /\ db[k][j] = Id(u)
                            /\ k \in DOMAIN ws[u] /\ k \notin todo[u]
    BY <2>1 DEF Writers
  <2>3. u = t
    BY <1>1, <1>4, <2>2, IdsNotHead
  <2>4. QED
    BY <2>2, <2>3
<1>5. QED
  BY <1>3, <1>4

\* The nodes that are left after a collection were in the list.
LEMMA CollectedFrom ==
  ASSUME NEW S, NEW list \in Seq(S), NEW r, NEW i \in DOMAIN Collected(list, r)
  PROVE  \E j \in DOMAIN list : Collected(list, r)[i] = list[j]
<1> DEFINE kept == {j \in DOMAIN list : r[list[j].id] > 0}
<1>1. CASE r[HeadNode] > 0
  BY <1>1 DEF Collected
<1>2. CASE ~(r[HeadNode] > 0) /\ kept = {}
  <2>1. Collected(list, r) = <<>>
    BY <1>2 DEF Collected
  <2>2. QED
    BY <2>1
<1>3. CASE ~(r[HeadNode] > 0) /\ kept # {}
  <2>1. kept \in SUBSET Nat /\ kept \in SUBSET (1 .. Len(list))
    OBVIOUS
  <2> DEFINE m == CHOOSE j \in kept : \A l \in kept : j <= l
  <2>2. m \in kept
    <3> HIDE DEF kept
    <3>1. \E j \in kept : \A l \in kept : j <= l
      BY <1>3, <2>1, Smallest
    <3>2. QED
      BY <3>1
  <2>3. m \in 1 .. Len(list)
    BY <2>1, <2>2
  <2>4. Collected(list, r) = SubSeq(list, m, Len(list))
    BY <1>3 DEF Collected
  <2> HIDE DEF m
  <2>5. \A j \in DOMAIN SubSeq(list, m, Len(list)) :
           /\ j + m - 1 \in DOMAIN list
           /\ SubSeq(list, m, Len(list))[j] = list[j + m - 1]
    BY <2>3
  <2>6. QED
    BY <2>4, <2>5
<1>4. QED
  BY <1>1, <1>2, <1>3

\* A step that neither stores a write nor adds to the history, and leaves the
\* commits that go on as they were.
Leaves ==
  /\ UNCHANGED <<db, hist>>
  /\ \A i \in DOMAIN all' : \E j \in DOMAIN all : all'[i] = all[j]
  /\ \A u \in Thread :
       /\ Busy(u)' => Busy(u) /\ Mine(u)' = Mine(u) /\ rs'[u] = rs[u] /\ reads'[u] = reads[u]
                      /\ DOMAIN ws'[u] = DOMAIN ws[u]
       /\ pc'[u] = "check" => pc[u] = "check" /\ finish'[u] = finish[u]
       /\ pc'[u] = "write" <=> pc[u] = "write"
       /\ pc[u] = "write" => todo'[u] = todo[u]

LEMMA LeavesOrder ==
  ASSUME Inv, Writers, HistReads, NEW R, NEW N, Order(R, N), Leaves
  PROVE  Writers' /\ HistReads' /\ Order(R, N)'
<1>1. UNCHANGED <<db, hist>>
  BY DEF Leaves
<1>2. \A u \in Thread : Busy(u)' => /\ Busy(u) /\ Id(u)' = Id(u) /\ Mine(u)' = Mine(u)
                                    /\ rs'[u] = rs[u] /\ reads'[u] = reads[u]
                                    /\ DOMAIN ws'[u] = DOMAIN ws[u]
  BY DEF Leaves, Mine
<1>3. \A u \in Thread : pc'[u] = "write" => Busy(u)'
  BY DEF Busy
<1>4. \A id, k : Stored(id, k)' <=> Stored(id, k)
  BY <1>1 DEF Stored
<1>5. Writers'
  <2>1. \A k \in Key : \A j \in DOMAIN db[k] :
          \/ \E h \in hist : h.id = db[k][j]
          \/ \E t \in Thread : /\ pc'[t] = "write" /\ db[k][j] = Id(t)'
                               /\ k \in DOMAIN ws'[t] /\ k \notin todo'[t]
    BY <1>2, <1>3 DEF Writers, Leaves
  <2>2. \A k \in Key : \A i \in DOMAIN all' : Stored(all'[i].id, k) => k \in all'[i].ws
    BY DEF Writers, Leaves
  <2>3. \A t \in Thread : pc'[t] = "write" => todo'[t] \subseteq DOMAIN ws'[t]
    BY <1>2, <1>3 DEF Writers, Leaves
  <2>4. QED
    BY <1>1, <1>4, <2>1, <2>2, <2>3 DEF Writers
<1>6. HistReads'
  BY <1>1 DEF HistReads
<1>7. Ranks(R, N)'
  BY <1>1, <1>2 DEF Order, Ranks
<1>8. Clear(R)'
  <2>1. \A t, u \in Thread : pc'[u] = "check" /\ Busy(t)' /\ R[Id(t)'] < R[Id(u)']
                               => Mine(t)' \in finish'[u]
    BY <1>2 DEF Order, Clear, Earlier, Leaves, Busy
  <2>2. \A t, u \in Thread : pc'[u] = "write" /\ Busy(t)' /\ R[Id(t)'] < R[Id(u)'] =>
          \A k \in DOMAIN ws'[t] : k \notin DOMAIN ws'[u] /\ k \notin rs'[u]
    BY <1>2, <1>3 DEF Order, Clear, Earlier, Leaves
  <2>3. \A t \in Thread : \A h \in hist : Busy(t)' /\ R[Id(t)'] < R[h.id] =>
          \A k \in DOMAIN ws'[t] : ~Stored(h.id, k) /\ \A r \in h.reads : r.key # k
    BY <1>2 DEF Order, Clear
  <2>4. QED
    BY <1>1, <1>4, <2>1, <2>2, <2>3 DEF Clear, Earlier
<1>9. Ordered(R)'
  <2>1. \A id, r : (After(R, id, r)' <=> After(R, id, r)) /\ (Before(R, id, r)' <=> Before(R, id, r))
    BY <1>1 DEF After, Before
  <2>2. \A t \in Thread : Busy(t)' => \A r \in reads'[t] : After(R, Id(t)', r)
    BY <1>2 DEF Order, Ordered
  <2>3. \A t \in Thread : pc'[t] = "write" => \A r \in reads'[t] : Before(R, Id(t)', r)
    BY <1>2, <1>3 DEF Order, Ordered, Leaves
  <2>4. QED
    BY <1>1, <2>1, <2>2, <2>3 DEF Order, Ordered
<1>10. QED
  BY <1>5, <1>6, <1>7, <1>8, <1>9 DEF Order

\* Nor does anybody read, but for the last version of a key.
ReadsLast ==
  \A u \in Thread :
    /\ pc'[u] # "idle" =>
         \/ reads'[u] = {}
         \/ /\ pc[u] # "idle" /\ since'[u] = since[u] /\ rs[u] \subseteq rs'[u]
            /\ \A r \in reads'[u] : \/ r \in reads[u]
                                    \/ r.key \in rs'[u] /\ r.ver = Len(db[r.key]) /\ r.key \in Key
    /\ pc[u] = "write" => pc'[u] = "write" /\ Id(u)' = Id(u)

LEMMA LeavesReads ==
  ASSUME Inv, Reads, UNCHANGED <<db, hist>>, ReadsLast
  PROVE  Reads'
<1>1. SUFFICES ASSUME NEW u \in Thread, pc'[u] # "idle", NEW r \in reads'[u]
               PROVE  /\ r.key \in rs'[u] /\ r.ver <= Len(db[r.key])
                      /\ \A j \in DOMAIN db[r.key] : j > r.ver =>
                           \/ \E h \in hist : h.id = db[r.key][j] /\ h.cts >= since'[u]
                           \/ \E v \in Thread : pc'[v] = "write" /\ db[r.key][j] = Id(v)'
  BY DEF Reads
<1>2. pc[u] # "idle" /\ since'[u] = since[u] /\ rs[u] \subseteq rs'[u]
  BY <1>1 DEF ReadsLast
<1>3. CASE r \in reads[u]
  <2>1. /\ r.key \in rs[u] /\ r.ver <= Len(db[r.key])
        /\ \A j \in DOMAIN db[r.key] : j > r.ver =>
             \/ \E h \in hist : h.id = db[r.key][j] /\ h.cts >= since[u]
             \/ \E v \in Thread : pc[v] = "write" /\ db[r.key][j] = Id(v)
    BY <1>2, <1>3 DEF Reads
  <2>2. \A v \in Thread : pc[v] = "write" => pc'[v] = "write" /\ Id(v)' = Id(v)
    BY DEF ReadsLast
  <2>3. QED
    BY <1>2, <2>1, <2>2
<1>4. CASE r \notin reads[u]
  <2>1. r.key \in rs'[u] /\ r.ver = Len(db[r.key]) /\ r.key \in Key
    BY <1>1, <1>4 DEF ReadsLast
  <2>2. db[r.key] \in Seq(Txn)
    BY <2>1 DEF Inv, Types
  <2>3. Len(db[r.key]) \in Nat /\ DOMAIN db[r.key] = 1 .. Len(db[r.key])
    BY <2>2
  <2>4. r.ver <= Len(db[r.key]) /\ \A j \in DOMAIN db[r.key] : ~(j > r.ver)
    BY <2>1, <2>3
  <2>5. QED
    BY <2>1, <2>4
<1>5. QED
  BY <1>3, <1>4

\* The steps that leave the order as it is.
LEMMA BeginOrder ==
  ASSUME Inv, NEW t \in Thread, Begin(t)
  PROVE  Leaves /\ ReadsLast
<1>1. /\ pc[t] = "idle"
      /\ count' = [count EXCEPT ![t] = @ + 1]
      /\ rs' = [rs EXCEPT ![t] = {}]
      /\ ws' = [ws EXCEPT ![t] = <<>>]
      /\ since' = [since EXCEPT ![t] = Cardinality(hist)]
      /\ reads' = [reads EXCEPT ![t] = {}]
      /\ pc' = [pc EXCEPT ![t] = "run"]
      /\ UNCHANGED <<all, db, finish, todo, hist>>
  BY DEF Begin, Goto
<1>2. \A u \in Thread :
        IF u = t THEN pc'[u] = "run" /\ reads'[u] = {}
        ELSE /\ pc'[u] = pc[u] /\ rs'[u] = rs[u] /\ ws'[u] = ws[u] /\ since'[u] = since[u]
             /\ reads'[u] = reads[u] /\ count'[u] = count[u]
  BY <1>1 DEF Inv, Types
<1>3. \A u \in Thread : u # t => Id(u)' = Id(u) /\ Mine(u)' = Mine(u)
  BY <1>2 DEF Id, Mine
<1>4. Leaves
  BY <1>1, <1>2, <1>3 DEF Leaves, Busy
<1>5. ReadsLast
  BY <1>1, <1>2, <1>3 DEF ReadsLast
<1>6. QED
  BY <1>4, <1>5

LEMMA WriteOrder ==
  ASSUME Inv, NEW t \in Thread, Write(t)
  PROVE  Leaves /\ ReadsLast
<1>1. /\ pc[t] = "run"
      /\ ws' = [ws EXCEPT ![t] = With(ws[t], Call(t).key, Call(t).op)]
      /\ UNCHANGED <<all, db, pc, count, rs, since, reads, finish, todo, hist>>
  BY DEF Write, Calling
<1>2. \A u \in Thread : Id(u)' = Id(u) /\ (u # t => ws'[u] = ws[u] /\ Mine(u)' = Mine(u))
  BY <1>1 DEF Id, Mine, Inv, Types
<1>3. Leaves
  BY <1>1, <1>2 DEF Leaves, Busy
<1>4. ReadsLast
  BY <1>1, <1>2 DEF ReadsLast
<1>5. QED
  BY <1>3, <1>4

LEMMA LookupOrder ==
  ASSUME Inv, NEW t \in Thread, Lookup(t)
  PROVE  Leaves /\ ReadsLast
<1> DEFINE k == Call(t).key
<1>1. /\ pc[t] = "run" /\ k \in Key
      /\ rs' = [rs EXCEPT ![t] = IF k \in DOMAIN ws[t] \/ Present(k) THEN @ \cup {k} ELSE @]
      /\ reads' = [reads EXCEPT ![t] =
                      IF k \in DOMAIN ws[t] \/ ~Present(k) THEN @
                      ELSE @ \cup {[key |-> k, ver |-> Len(db[k])]}]
      /\ UNCHANGED <<all, db, pc, count, ws, since, finish, todo, hist>>
  BY CallIs DEF Lookup, Calling, Inv
<1>2. PICK new : new = [key |-> k, ver |-> Len(db[k])]
  OBVIOUS
<1>3. new.key = k /\ new.ver = Len(db[k])
  BY <1>2
<1>4. \A u \in Thread :
        /\ Id(u)' = Id(u) /\ Mine(u)' = Mine(u)
        /\ u # t => rs'[u] = rs[u] /\ reads'[u] = reads[u]
  BY <1>1 DEF Id, Mine, Inv, Types
<1>5. rs[t] \subseteq rs'[t] /\ \A r \in reads'[t] : r \in reads[t] \/ (r = new /\ k \in rs'[t])
  BY <1>1, <1>2 DEF Inv, Types
<1>6. Leaves
  BY <1>1, <1>4 DEF Leaves, Busy
<1>7. ReadsLast
  <2>1. \A r \in reads'[t] : \/ r \in reads[t]
                             \/ r.key \in rs'[t] /\ r.ver = Len(db[r.key]) /\ r.key \in Key
    BY <1>1, <1>3, <1>5
  <2>2. QED
    BY <1>1, <1>4, <1>5, <2>1 DEF ReadsLast
<1>8. QED
  BY <1>6, <1>7

LEMMA AbortOrder ==
  ASSUME Inv, NEW t \in Thread, Abort(t)
  PROVE  Leaves /\ ReadsLast
<1>1. /\ pc[t] = "run" /\ pc' = [pc EXCEPT ![t] = "idle"]
      /\ UNCHANGED <<all, db, count, ws, rs, since, reads, finish, todo, hist>>
  BY DEF Abort, Goto, Calling, txnVars
<1>2. \A u \in Thread : Id(u)' = Id(u) /\ Mine(u)' = Mine(u) /\ pc'[u] = IF u = t THEN "idle" ELSE pc[u]
  BY <1>1 DEF Id, Mine, Inv, Types
<1>3. Leaves
  BY <1>1, <1>2 DEF Leaves, Busy
<1>4. ReadsLast
  BY <1>1, <1>2 DEF ReadsLast
<1>5. QED
  BY <1>3, <1>4

LEMMA CheckNextOrder ==
  ASSUME Inv, NEW t \in Thread, CheckNext(t)
  PROVE  Leaves /\ ReadsLast
<1>1. /\ pc[t] = "check"
      /\ \E l \in {"check", "fail"} : pc' = [pc EXCEPT ![t] = l]
      /\ UNCHANGED <<all, db, count, ws, rs, since, reads, finish, todo, hist>>
  BY DEF CheckNext, Goto, txnVars
<1>2. \A u \in Thread : /\ Id(u)' = Id(u) /\ Mine(u)' = Mine(u)
                        /\ IF u = t THEN pc'[u] \in {"check", "fail"} ELSE pc'[u] = pc[u]
  BY <1>1 DEF Id, Mine, Inv, Types
<1>3. Leaves
  BY <1>1, <1>2 DEF Leaves, Busy
<1>4. ReadsLast
  BY <1>1, <1>2 DEF ReadsLast
<1>5. QED
  BY <1>3, <1>4

\* A check that finds an active transaction in its way.
LEMMA ClashOrder ==
  ASSUME Inv, NEW t \in Thread, CheckEnd(t), Clashes(t)
  PROVE  Leaves /\ ReadsLast
<1>1. /\ pc[t] = "check" /\ pc' = [pc EXCEPT ![t] = "fail"]
      /\ todo' = [todo EXCEPT ![t] = DOMAIN ws[t]]
      /\ finish' = [finish EXCEPT ![t] = {}]
      /\ UNCHANGED <<all, db, count, ws, rs, since, reads, hist>>
  BY DEF CheckEnd, Goto, txnVars
<1>2. \A u \in Thread : /\ Id(u)' = Id(u) /\ Mine(u)' = Mine(u)
                        /\ IF u = t THEN pc'[u] = "fail"
                           ELSE pc'[u] = pc[u] /\ todo'[u] = todo[u] /\ finish'[u] = finish[u]
  BY <1>1 DEF Id, Mine, Inv, Types
<1>3. Leaves
  BY <1>1, <1>2 DEF Leaves, Busy
<1>4. ReadsLast
  BY <1>1, <1>2 DEF ReadsLast
<1>5. QED
  BY <1>3, <1>4

LEMMA FailOrder ==
  ASSUME Inv, NEW t \in Thread, Fail(t)
  PROVE  Leaves /\ ReadsLast
<1>1. /\ pc[t] = "fail" /\ pc' = [pc EXCEPT ![t] = "idle"]
      /\ all' = IF build = "serial" THEN Collected(all, refs') ELSE all
      /\ finish' = [finish EXCEPT ![t] = {}]
      /\ UNCHANGED <<db, count, ws, rs, since, reads, todo, hist>>
  BY DEF Fail, Goto, txnVars
<1>2. \A u \in Thread : /\ Id(u)' = Id(u) /\ Mine(u)' = Mine(u)
                        /\ IF u = t THEN pc'[u] = "idle"
                           ELSE pc'[u] = pc[u] /\ finish'[u] = finish[u]
  BY <1>1 DEF Id, Mine, Inv, Types
<1>3. \A i \in DOMAIN all' : \E j \in DOMAIN all : all'[i] = all[j]
  <2>1. PICK L, r : L = all /\ r = refs'
    OBVIOUS
  <2>2. L \in Seq(ListNode)
    BY <2>1 DEF Inv, Types
  <2>3. \A i \in DOMAIN Collected(L, r) : \E j \in DOMAIN L : Collected(L, r)[i] = L[j]
    BY <2>2, CollectedFrom
  <2>4. QED
    BY <1>1, <2>1, <2>3
<1>4. Leaves
  BY <1>1, <1>2, <1>3 DEF Leaves, Busy
<1>5. ReadsLast
  BY <1>1, <1>2 DEF ReadsLast
<1>6. QED
  BY <1>4, <1>5

\* A commit that begins is the last of the order.
LEMMA CommitBeginOrder ==
  ASSUME KrOccAssumption, Inv, Writers, Reads, HistReads, NEW R, NEW N, Order(R, N),
         NEW t \in Thread, CommitBegin(t)
  PROVE  /\ Writers' /\ Reads' /\ HistReads'
         /\ \E Q \in [Txn -> Nat] : \E M \in Nat : Order(Q, M)'
<1>0. Types /\ Commits /\ History /\ Ranks(R, N) /\ R \in [Txn -> Nat] /\ N \in Nat
  BY DEF Inv, Order, Ranks
<1>1. /\ pc[t] = "run" /\ Free
      /\ \/ build = "serial" /\ UNCHANGED <<active, finish>>
         \/ build # "serial" /\ finish' = [finish EXCEPT ![t] = active]
      /\ pc' = [pc EXCEPT ![t] = "check"]
      /\ UNCHANGED <<all, db, count, rs, ws, since, reads, todo, hist>>
  BY DEF CommitBegin, Goto, txnVars
<1>2. \A u \in Thread : /\ Id(u)' = Id(u) /\ Mine(u)' = Mine(u)
                        /\ pc'[u] = IF u = t THEN "check" ELSE pc[u]
                        /\ u # t => finish'[u] = finish[u]
  BY <1>0, <1>1 DEF Id, Mine, Types
<1>3. PICK id \in Txn : id = Id(t) /\ \A h \in hist : h.id # id
  BY <1>0, <1>1, IdsNotHead DEF History
<1>4. \A u \in Thread : Id(u) \in Txn /\ (u # t => Id(u) # id)
  BY <1>0, <1>3, IdsNotHead
<1>5. \A u \in Thread : /\ Busy(u)' <=> (u = t \/ Busy(u))
                        /\ ~Busy(t)
  BY <1>1, <1>2 DEF Busy
<1>6. PICK Q \in [Txn -> Nat] : Q = [R EXCEPT ![id] = N]
  BY <1>0
<1>7. Q[id] = N /\ \A x \in Txn : x # id => Q[x] = R[x]
  BY <1>0, <1>6
<1>8. \A h \in hist : h.id \in Txn /\ Q[h.id] = R[h.id] /\ R[h.id] \in Nat /\ R[h.id] < N
  BY <1>0, <1>3, <1>7, ListTypes DEF Ranks
<1>9. \A u \in Thread : Busy(u) => /\ Q[Id(u)] = R[Id(u)] /\ R[Id(u)] \in Nat /\ R[Id(u)] < N
  BY <1>0, <1>4, <1>5, <1>7 DEF Ranks
<1>10. \A k \in Key : \A j \in DOMAIN db[k] :
          Q[db[k][j]] = R[db[k][j]] /\ R[db[k][j]] \in Nat /\ R[db[k][j]] < N
  <2>1. ASSUME NEW k \in Key, NEW j \in DOMAIN db[k]
        PROVE  Q[db[k][j]] = R[db[k][j]] /\ R[db[k][j]] \in Nat /\ R[db[k][j]] < N
    <3>1. CASE \E h \in hist : h.id = db[k][j]
      BY <1>8, <3>1
    <3>2. CASE \E u \in Thread : pc[u] = "write" /\ db[k][j] = Id(u)
      BY <1>9, <3>2 DEF Busy
    <3>3. QED
      BY <3>1, <3>2 DEF Writers
  <2>2. QED
    BY <2>1
<1>11. PICK M \in Nat : M = N + 1
  BY <1>0
<1>12. Writers'
  <2>1. \A u \in Thread : pc'[u] = "write" <=> pc[u] = "write"
    BY <1>1, <1>2
  <2>2. QED
    BY <1>1, <1>2, <2>1 DEF Writers, Stored
<1>13. Reads'
  <2>1. ReadsLast
    BY <1>1, <1>2 DEF ReadsLast
  <2>2. QED
    BY <1>1, <2>1, LeavesReads
<1>14. HistReads'
  BY <1>1 DEF HistReads
<1>15. Ranks(Q, M)'
  <2>1. \A h \in hist : Q[h.id] < M
    BY <1>0, <1>8, <1>11
  <2>2. ASSUME NEW u \in Thread, Busy(u)'
        PROVE  Q[Id(u)] < M /\ \A h \in hist : Q[h.id] # Q[Id(u)]
    <3>1. CASE u = t
      BY <1>0, <1>3, <1>7, <1>8, <1>11, <3>1
    <3>2. CASE u # t
      BY <1>0, <1>5, <1>8, <1>9, <1>11, <2>2, <3>2 DEF Ranks
    <3>3. QED
      BY <3>1, <3>2
  <2>3. \A u, v \in Thread : Busy(u)' /\ Busy(v)' /\ Q[Id(u)] = Q[Id(v)] => u = v
    <3>1. \A u \in Thread : u # t /\ Busy(u) => Q[Id(u)] # Q[Id(t)]
      BY <1>0, <1>3, <1>7, <1>9
    <3>2. \A u, v \in Thread : Busy(u) /\ Busy(v) /\ Q[Id(u)] = Q[Id(v)] => u = v
      BY <1>0, <1>9 DEF Ranks
    <3>3. QED
      BY <1>5, <3>1, <3>2
  <2>4. QED
    BY <1>1, <1>2, <2>1, <2>2, <2>3 DEF Ranks
<1>16. Clear(Q)'
  <2>0. \A u \in Thread : Busy(u)' => Q[Id(u)] \in Nat /\ ~(Q[Id(t)] < Q[Id(u)])
    BY <1>0, <1>3, <1>5, <1>7, <1>9
  <2>1. ASSUME NEW v \in Thread, NEW u \in Thread, pc'[u] = "check", Busy(v)', Q[Id(v)] < Q[Id(u)]
        PROVE  Mine(v) \in finish'[u]
    <3>1. v # t
      BY <2>0, <2>1 DEF Busy
    <3>2. Busy(v)
      BY <1>5, <2>1, <3>1
    <3>3. CASE u = t
      <4>1. build # "serial"
        BY <1>0, <1>1, <3>2 DEF Commits, Free, KrOccAssumption
      <4>2. Mine(v) \in active
        BY <1>0, <3>2, <4>1 DEF Commits
      <4>3. finish'[t] = active
        BY <1>0, <1>1, <4>1 DEF Types
      <4>4. QED
        BY <3>3, <4>2, <4>3
    <3>4. CASE u # t
      <4>1. pc[u] = "check" /\ finish'[u] = finish[u] /\ Busy(u)
        BY <1>2, <2>1, <3>4 DEF Busy
      <4>2. R[Id(v)] < R[Id(u)]
        BY <1>9, <2>1, <3>2, <4>1
      <4>3. QED
        BY <3>2, <4>1, <4>2 DEF Order, Clear, Earlier
    <3>5. QED
      BY <3>3, <3>4
  <2>2. ASSUME NEW v \in Thread, NEW u \in Thread, pc'[u] = "write", Busy(v)', Q[Id(v)] < Q[Id(u)]
        PROVE  \A k \in DOMAIN ws[v] : k \notin DOMAIN ws[u] /\ k \notin rs[u]
    <3>1. v # t
      BY <2>0, <2>2 DEF Busy
    <3>2. u # t /\ pc[u] = "write" /\ Busy(u) /\ Busy(v)
      BY <1>2, <1>5, <2>2, <3>1 DEF Busy
    <3>3. R[Id(v)] < R[Id(u)]
      BY <1>9, <2>2, <3>2
    <3>4. QED
      BY <3>2, <3>3 DEF Order, Clear, Earlier
  <2>3. ASSUME NEW v \in Thread, NEW h \in hist, Busy(v)', Q[Id(v)] < Q[h.id]
        PROVE  \A k \in DOMAIN ws[v] : ~Stored(h.id, k) /\ \A r \in h.reads : r.key # k
    <3>1. v # t
      BY <1>0, <1>3, <1>7, <1>8, <2>3
    <3>2. Busy(v) /\ R[Id(v)] < R[h.id]
      BY <1>5, <1>8, <1>9, <2>3, <3>1
    <3>3. QED
      BY <3>2 DEF Order, Clear
  <2>4. \A x, k : Stored(x, k)' <=> Stored(x, k)
    BY <1>1 DEF Stored
  <2>5. QED
    BY <1>1, <1>2, <2>1, <2>2, <2>3, <2>4 DEF Clear, Earlier
<1>17. Ordered(Q)'
  <2>1. \A k \in Key : \A i, j \in DOMAIN db[k] : i < j => Q[db[k][i]] < Q[db[k][j]]
    BY <1>10 DEF Order, Ordered
  <2>2. ASSUME NEW r \in Read, NEW x \in Txn, Q[x] = R[x]
        PROVE  (After(R, x, r) => After(Q, x, r)) /\ (Before(R, x, r) => Before(Q, x, r))
    <3>1. r.key \in Key
      BY DEF Read
    <3>2. QED
      BY <1>10, <2>2, <3>1 DEF After, Before
  <2>3. ASSUME NEW u \in Thread, Busy(u)', NEW r \in reads[u] PROVE After(Q, Id(u), r)
    <3>1. r \in Read
      BY <1>0 DEF Types
    <3>2. CASE u = t
      <4>1. r.key \in Key
        BY <3>1 DEF Read
      <4>2. QED
        BY <1>3, <1>7, <1>10, <3>2, <4>1 DEF After
    <3>3. CASE u # t
      BY <1>4, <1>5, <1>9, <2>2, <2>3, <3>1, <3>3 DEF Order, Ordered
    <3>4. QED
      BY <3>2, <3>3
  <2>4. ASSUME NEW u \in Thread, pc'[u] = "write", NEW r \in reads[u] PROVE Before(Q, Id(u), r)
    <3>1. pc[u] = "write" /\ Busy(u) /\ r \in Read
      BY <1>0, <1>2, <2>4 DEF Types, Busy
    <3>2. QED
      BY <1>4, <1>9, <2>2, <2>4, <3>1 DEF Order, Ordered
  <2>5. ASSUME NEW h \in hist, NEW r \in h.reads PROVE After(Q, h.id, r) /\ Before(Q, h.id, r)
    <3>1. r \in Read
      BY <1>0, ListTypes
    <3>2. QED
      BY <1>8, <2>2, <3>1 DEF Order, Ordered
  <2>6. \A x, r : (After(Q, x, r)' <=> After(Q, x, r)) /\ (Before(Q, x, r)' <=> Before(Q, x, r))
    BY <1>1 DEF After, Before
  <2>7. QED
    BY <1>1, <1>2, <2>1, <2>3, <2>4, <2>5, <2>6 DEF Ordered
<1>18. QED
  BY <1>12, <1>13, <1>14, <1>15, <1>16, <1>17 DEF Order

\* What has overwritten a read of a transaction whose check found nothing came
\* later: if it had committed the list had it, and if it had not, and had begun
\* its commit before, the check looked at it among the active ones.
LEMMA CheckFound ==
  ASSUME KrOccAssumption, Inv, Writers, Reads, NEW R, NEW N, Order(R, N),
         NEW t \in Thread, CheckEnd(t), ~Clashes(t), NEW r \in reads[t]
  PROVE  Before(R, Id(t), r)
<1>0. Types /\ History /\ Listed /\ Running /\ Checked /\ Ranks(R, N) /\ R \in [Txn -> Nat]
  BY DEF Inv, Order, Ranks
<1>1. pc[t] = "check" /\ Position(cursor[t]) = Len(all)
  BY DEF CheckEnd
<1>2. PICK k \in Key : k = r.key
  BY <1>0 DEF Types, Read
<1>3. k \in rs[t] /\ \A j \in DOMAIN db[k] : j > r.ver =>
         \/ \E h \in hist : h.id = db[k][j] /\ h.cts >= since[t]
         \/ \E u \in Thread : pc[u] = "write" /\ db[k][j] = Id(u)
  BY <1>1, <1>2 DEF Reads
<1>4. SUFFICES ASSUME NEW j \in DOMAIN db[k], j > r.ver, db[k][j] # Id(t)
               PROVE  R[Id(t)] < R[db[k][j]]
  BY <1>2 DEF Before
<1>5. ~\E h \in hist : h.id = db[k][j] /\ h.cts >= since[t]
  <2>1. SUFFICES ASSUME NEW h \in hist, h.id = db[k][j], h.cts >= since[t] PROVE FALSE
    OBVIOUS
  <2>2. From(t) \in 0 .. Len(all) /\ Len(all) \in Nat /\ Base \in Nat /\ h.cts \in Nat
        /\ since[t] \in Nat /\ From(t) = since[t] - Base
    BY <1>0, <1>1, ListTypes DEF Running, Listed, From, Types
  <2>3. PICK q \in From(t) .. Len(all) :
          /\ cursor[t] = NodeAt(q)
          /\ \A i \in From(t) + 1 .. q : all[i].ws \cap rs[t] = {}
    BY <1>0, <1>1 DEF Checked
  <2>4. q = Len(all)
    BY <1>0, <1>1, <2>2, <2>3, PositionIs
  <2>5. h.cts >= Base
    BY <2>1, <2>2
  <2>6. PICK i \in 1 .. Len(all) : i = h.cts - Base + 1 /\ all[i].id = h.id
    BY <1>0, <2>5, CommittedListed
  <2>7. i \in From(t) + 1 .. q
    BY <2>1, <2>2, <2>4, <2>6
  <2>8. k \in all[i].ws
    <3>1. Stored(all[i].id, k) /\ i \in DOMAIN all
      BY <1>0, <2>1, <2>6, ListTypes DEF Stored
    <3>2. QED
      BY <3>1 DEF Writers
  <2>9. QED
    BY <1>3, <2>3, <2>7, <2>8
<1>6. PICK u \in Thread : pc[u] = "write" /\ db[k][j] = Id(u)
  BY <1>3, <1>4, <1>5
<1>7. u # t /\ Busy(u) /\ Busy(t) /\ k \in DOMAIN ws[u]
  BY <1>1, <1>6, WriterIs DEF Busy
<1>8. R[Id(u)] \in Nat /\ R[Id(t)] \in Nat /\ R[Id(u)] # R[Id(t)]
  BY <1>0, <1>7, IdsNotHead DEF Ranks
<1>9. ~(R[Id(u)] < R[Id(t)])
  <2>1. SUFFICES ASSUME R[Id(u)] < R[Id(t)] PROVE FALSE
    OBVIOUS
  <2>2. Mine(u) \in finish[t]
    BY <1>1, <1>7, <2>1 DEF Order, Clear, Earlier
  <2>3. k \in Mine(u).ws
    BY <1>7 DEF Mine
  <2>4. QED
    BY <1>3, <2>2, <2>3 DEF Clashes, Overwrites
<1>10. QED
  BY <1>6, <1>8, <1>9

LEMMA CheckEndOrder ==
  ASSUME KrOccAssumption, Inv, Writers, Reads, HistReads, NEW R, NEW N, Order(R, N),
         NEW t \in Thread, CheckEnd(t), ~Clashes(t)
  PROVE  Writers' /\ Reads' /\ HistReads' /\ Order(R, N)'
<1>0. Types /\ History
  BY DEF Inv
<1>1. /\ pc[t] = "check" /\ pc' = [pc EXCEPT ![t] = "write"]
      /\ todo' = [todo EXCEPT ![t] = DOMAIN ws[t]]
      /\ finish' = [finish EXCEPT ![t] = {}]
      /\ UNCHANGED <<all, db, count, ws, rs, since, reads, hist>>
  BY DEF CheckEnd, Goto, txnVars
<1>2. \A u \in Thread : /\ Id(u)' = Id(u) /\ Mine(u)' = Mine(u) /\ (Busy(u)' <=> Busy(u))
                        /\ IF u = t THEN pc'[u] = "write" /\ todo'[u] = DOMAIN ws[u]
                           ELSE pc'[u] = pc[u] /\ todo'[u] = todo[u] /\ finish'[u] = finish[u]
  <2>1. \A u \in Thread : /\ Id(u)' = Id(u) /\ Mine(u)' = Mine(u)
                          /\ IF u = t THEN pc'[u] = "write" /\ todo'[u] = DOMAIN ws[u]
                             ELSE pc'[u] = pc[u] /\ todo'[u] = todo[u] /\ finish'[u] = finish[u]
    BY <1>0, <1>1 DEF Id, Mine, Types
  <2>2. QED
    BY <1>1, <2>1 DEF Busy
<1>3. \A x, k : Stored(x, k)' <=> Stored(x, k)
  BY <1>1 DEF Stored
<1>4. Writers'
  <2>1. \A k \in Key : \A j \in DOMAIN db[k] :
          \/ \E h \in hist : h.id = db[k][j]
          \/ \E u \in Thread : /\ pc'[u] = "write" /\ db[k][j] = Id(u)
                               /\ k \in DOMAIN ws[u] /\ k \notin todo'[u]
    BY <1>1, <1>2 DEF Writers
  <2>2. \A u \in Thread : pc'[u] = "write" => todo'[u] \subseteq DOMAIN ws[u]
    BY <1>2 DEF Writers
  <2>3. \A k \in Key : \A i \in DOMAIN all : Stored(all[i].id, k) => k \in all[i].ws
    BY DEF Writers
  <2>4. QED
    BY <1>1, <1>2, <1>3, <2>1, <2>2, <2>3 DEF Writers
<1>5. Reads'
  <2>1. ReadsLast
    BY <1>1, <1>2 DEF ReadsLast
  <2>2. QED
    BY <1>1, <2>1, LeavesReads
<1>6. HistReads'
  BY <1>1 DEF HistReads
<1>7. Ranks(R, N)'
  BY <1>1, <1>2 DEF Order, Ranks
<1>8. Clear(R)'
  <2>1. \A v, u \in Thread : pc'[u] = "check" /\ Busy(v) /\ R[Id(v)] < R[Id(u)] => Mine(v) \in finish'[u]
    BY <1>2 DEF Order, Clear, Earlier
  <2>2. ASSUME NEW v \in Thread, NEW u \in Thread, pc'[u] = "write", Busy(v), R[Id(v)] < R[Id(u)]
        PROVE  \A k \in DOMAIN ws[v] : k \notin DOMAIN ws[u] /\ k \notin rs[u]
    <3>1. CASE u = t
      <4>1. Mine(v) \in finish[t]
        BY <1>1, <2>2, <3>1 DEF Order, Clear, Earlier
      <4>2. Mine(v).ws = DOMAIN ws[v]
        BY DEF Mine
      <4>3. QED
        BY <3>1, <4>1, <4>2 DEF Clashes, Overwrites
    <3>2. CASE u # t
      BY <1>2, <2>2, <3>2 DEF Order, Clear, Earlier
    <3>3. QED
      BY <3>1, <3>2
  <2>3. \A v \in Thread : \A h \in hist : Busy(v) /\ R[Id(v)] < R[h.id] =>
          \A k \in DOMAIN ws[v] : ~Stored(h.id, k) /\ \A r \in h.reads : r.key # k
    BY DEF Order, Clear
  <2>4. QED
    BY <1>1, <1>2, <1>3, <2>1, <2>2, <2>3 DEF Clear, Earlier
<1>9. Ordered(R)'
  <2>1. \A x, r : (After(R, x, r)' <=> After(R, x, r)) /\ (Before(R, x, r)' <=> Before(R, x, r))
    BY <1>1 DEF After, Before
  <2>2. \A u \in Thread : pc'[u] = "write" => \A r \in reads[u] : Before(R, Id(u), r)
    BY <1>2, CheckFound DEF Order, Ordered
  <2>3. QED
    BY <1>1, <1>2, <2>1, <2>2 DEF Order, Ordered
<1>10. QED
  BY <1>4, <1>5, <1>6, <1>7, <1>8, <1>9 DEF Order

LEMMA StoreOrder ==
  ASSUME KrOccAssumption, Inv, Writers, Reads, HistReads, NEW R, NEW N, Order(R, N),
         NEW t \in Thread, Store(t)
  PROVE  Writers' /\ Reads' /\ HistReads' /\ Order(R, N)'
<1>0. Types /\ History /\ Ranks(R, N) /\ R \in [Txn -> Nat]
  BY DEF Inv, Order, Ranks
<1>1. PICK k \in todo[t] :
        /\ db' = [db EXCEPT ![k] = Append(@, Id(t))]
        /\ todo' = [todo EXCEPT ![t] = @ \ {k}]
  BY DEF Store
<1>2. /\ pc[t] = "write"
      /\ UNCHANGED <<all, pc, count, ws, rs, since, reads, finish, hist>>
  BY DEF Store, txnVars
<1>3. k \in Key /\ k \in DOMAIN ws[t] /\ Busy(t)
  BY <1>0, <1>1, <1>2 DEF Types, Writers, Busy
<1>4. PICK id \in Txn : id = Id(t) /\ \A h \in hist : h.id # id
  BY <1>0, <1>2, IdsNotHead DEF History
<1>5. \A u \in Thread : Id(u)' = Id(u) /\ Mine(u)' = Mine(u) /\ (Busy(u)' <=> Busy(u))
  BY <1>2 DEF Id, Mine, Busy
<1>6. PICK n \in Nat :
        /\ DOMAIN db[k] = 1 .. n /\ Len(db[k]) = n
        /\ DOMAIN db'[k] = 1 .. n + 1 /\ Len(db'[k]) = n + 1 /\ db'[k][n + 1] = id
        /\ \A j \in 1 .. n : db'[k][j] = db[k][j]
        /\ \A l \in Key : l # k => db'[l] = db[l]
  <2>1. db[k] \in Seq(Txn) /\ db'[k] = Append(db[k], id) /\ \A l \in Key : l # k => db'[l] = db[l]
    BY <1>0, <1>1, <1>3, <1>4 DEF Types
  <2>2. PICK n \in Nat : n = Len(db[k])
    BY <2>1
  <2>3. QED
    BY <2>1, <2>2
<1>7. \A l \in Key : \A j \in DOMAIN db'[l] :
         \/ l = k /\ j = n + 1 /\ db'[l][j] = id
         \/ j \in DOMAIN db[l] /\ db'[l][j] = db[l][j]
  <2>1. ASSUME NEW j \in 1 .. n + 1
        PROVE  j = n + 1 \/ (j \in 1 .. n /\ db'[k][j] = db[k][j])
    BY <1>6
  <2>2. QED
    BY <1>6, <2>1
<1>8. Writers'
  <2>1. ASSUME NEW l \in Key, NEW j \in DOMAIN db'[l]
        PROVE  \/ \E h \in hist : h.id = db'[l][j]
               \/ \E u \in Thread : /\ pc[u] = "write" /\ db'[l][j] = Id(u)
                                    /\ l \in DOMAIN ws[u] /\ l \notin todo'[u]
    <3>1. CASE l = k /\ j = n + 1 /\ db'[l][j] = id
      BY <1>0, <1>1, <1>2, <1>3, <1>4, <3>1 DEF Types
    <3>2. CASE j \in DOMAIN db[l] /\ db'[l][j] = db[l][j]
      <4>1. \A u \in Thread : todo'[u] \subseteq todo[u]
        BY <1>0, <1>1 DEF Types
      <4>2. QED
        BY <3>2, <4>1 DEF Writers
    <3>3. QED
      BY <1>7, <3>1, <3>2
  <2>2. ASSUME NEW l \in Key, NEW i \in DOMAIN all, NEW j \in DOMAIN db'[l], db'[l][j] = all[i].id
        PROVE  l \in all[i].ws
    <3>1. all[i].id # id
      BY <1>0, <1>4 DEF Inv, Listed
    <3>2. j \in DOMAIN db[l] /\ db[l][j] = all[i].id
      BY <1>7, <2>2, <3>1
    <3>3. QED
      BY <3>2 DEF Writers, Stored
  <2>3. \A u \in Thread : pc[u] = "write" => todo'[u] \subseteq DOMAIN ws[u]
    BY <1>0, <1>1 DEF Types, Writers
  <2>4. QED
    BY <1>2, <1>5, <2>1, <2>2, <2>3 DEF Writers, Stored
<1>9. \A l \in Key : Len(db[l]) \in Nat /\ Len(db'[l]) \in Nat /\ Len(db[l]) <= Len(db'[l])
  <2>1. \A l \in Key : db[l] \in Seq(Txn)
    BY <1>0 DEF Types
  <2>2. \A l \in Key : Len(db[l]) \in Nat
    BY <2>1
  <2>3. QED
    BY <1>6, <2>2
<1>10. \A r \in Read : r.key \in Key /\ r.ver \in Nat
  BY DEF Read
<1>11. \A u \in Thread : reads[u] \subseteq Read
  BY <1>0 DEF Types
<1>12. \A h \in hist : h.reads \subseteq Read /\ h.id \in Txn
  BY <1>0, ListTypes
<1>13. Reads'
  <2>1. ASSUME NEW u \in Thread, pc[u] # "idle", NEW r \in reads[u]
        PROVE  /\ r.key \in rs[u] /\ r.ver <= Len(db'[r.key])
               /\ \A j \in DOMAIN db'[r.key] : j > r.ver =>
                    \/ \E h \in hist : h.id = db'[r.key][j] /\ h.cts >= since[u]
                    \/ \E v \in Thread : pc[v] = "write" /\ db'[r.key][j] = Id(v)
    <3>1. r.key \in Key /\ r.ver \in Nat
      BY <1>10, <1>11
    <3>2. /\ r.key \in rs[u] /\ r.ver <= Len(db[r.key])
          /\ \A j \in DOMAIN db[r.key] : j > r.ver =>
               \/ \E h \in hist : h.id = db[r.key][j] /\ h.cts >= since[u]
               \/ \E v \in Thread : pc[v] = "write" /\ db[r.key][j] = Id(v)
      BY <2>1 DEF Reads
    <3>3. r.ver <= Len(db'[r.key])
      BY <1>9, <3>1, <3>2
    <3>4. \A j \in DOMAIN db'[r.key] : j > r.ver =>
               \/ \E h \in hist : h.id = db'[r.key][j] /\ h.cts >= since[u]
               \/ \E v \in Thread : pc[v] = "write" /\ db'[r.key][j] = Id(v)
      BY <1>2, <1>4, <1>7, <3>1, <3>2
    <3>5. QED
      BY <3>2, <3>3, <3>4
  <2>2. QED
    BY <1>2, <1>5, <2>1 DEF Reads
<1>14. HistReads'
  <2>1. ASSUME NEW h \in hist, NEW r \in h.reads PROVE r.ver <= Len(db'[r.key])
    <3>1. r.key \in Key /\ r.ver \in Nat /\ r.ver <= Len(db[r.key])
      BY <1>10, <1>12 DEF HistReads
    <3>2. QED
      BY <1>9, <3>1
  <2>2. QED
    BY <1>2, <2>1 DEF HistReads
<1>15. Ranks(R, N)'
  BY <1>0, <1>2, <1>5 DEF Ranks
<1>16. Clear(R)'
  <2>1. ASSUME NEW v \in Thread, NEW h \in hist, Busy(v), R[Id(v)] < R[h.id], NEW l \in DOMAIN ws[v]
        PROVE  /\ \A j \in DOMAIN db'[l] : db'[l][j] # h.id
               /\ \A r \in h.reads : r.key # l
    <3>1. l \in Key /\ ~Stored(h.id, l) /\ \A r \in h.reads : r.key # l
      BY <1>0, <2>1 DEF Order, Clear, Types
    <3>2. \A j \in DOMAIN db'[l] : db'[l][j] # h.id
      BY <1>4, <1>7, <3>1 DEF Stored
    <3>3. QED
      BY <3>1, <3>2
  <2>2. \A v, u \in Thread : pc[u] = "check" /\ Busy(v) /\ R[Id(v)] < R[Id(u)] => Mine(v) \in finish[u]
    BY DEF Order, Clear, Earlier
  <2>3. \A v, u \in Thread : pc[u] = "write" /\ Busy(v) /\ R[Id(v)] < R[Id(u)] =>
          \A l \in DOMAIN ws[v] : l \notin DOMAIN ws[u] /\ l \notin rs[u]
    BY DEF Order, Clear, Earlier
  <2>4. QED
    BY <1>2, <1>5, <2>1, <2>2, <2>3 DEF Clear, Earlier, Stored
<1>17. R[id] \in Nat /\ \A h \in hist : R[h.id] \in Nat /\ R[h.id] # R[id] /\ ~(R[id] < R[h.id] /\ Stored(h.id, k))
  <2>1. R[id] \in Nat /\ \A h \in hist : R[h.id] \in Nat
    BY <1>0, <1>12
  <2>2. \A h \in hist : R[h.id] # R[id]
    BY <1>0, <1>3, <1>4 DEF Ranks
  <2>3. \A h \in hist : ~(R[id] < R[h.id] /\ Stored(h.id, k))
    BY <1>3, <1>4 DEF Order, Clear
  <2>4. QED
    BY <2>1, <2>2, <2>3
<1>18. \A u \in Thread : u # t /\ Busy(u) => R[Id(u)] \in Nat /\ R[Id(u)] # R[id]
  BY <1>0, <1>3, <1>4, IdsNotHead DEF Ranks
<1>19. \A j \in 1 .. n : R[db[k][j]] < R[id]
  <2>1. TAKE j \in 1 .. n
  <2>2. CASE \E h \in hist : h.id = db[k][j]
    <3>1. PICK h \in hist : h.id = db[k][j]
      BY <2>2
    <3>2. Stored(h.id, k)
      BY <1>6, <3>1 DEF Stored
    <3>3. QED
      BY <1>17, <3>1, <3>2
  <2>3. CASE \E u \in Thread : pc[u] = "write" /\ db[k][j] = Id(u) /\ k \in DOMAIN ws[u] /\ k \notin todo[u]
    <3>1. PICK u \in Thread : pc[u] = "write" /\ db[k][j] = Id(u) /\ k \in DOMAIN ws[u] /\ k \notin todo[u]
      BY <2>3
    <3>2. u # t /\ Busy(u)
      BY <1>1, <3>1 DEF Busy
    <3>3. ~(R[id] < R[Id(u)])
      BY <1>3, <1>4, <3>1 DEF Order, Clear, Earlier
    <3>4. QED
      BY <1>17, <1>18, <3>1, <3>2, <3>3
  <2>4. QED
    BY <1>3, <1>6, <2>2, <2>3 DEF Writers
<1>20. Ordered(R)'
  <2>1. ASSUME NEW l \in Key, NEW i \in DOMAIN db'[l], NEW j \in DOMAIN db'[l], i < j
        PROVE  R[db'[l][i]] < R[db'[l][j]]
    <3>1. CASE l = k
      <4>1. i \in 1 .. n /\ j \in 1 .. n + 1
        BY <1>6, <2>1, <3>1
      <4>2. CASE j = n + 1
        BY <1>6, <1>19, <3>1, <4>1, <4>2
      <4>3. CASE j # n + 1
        <5>1. j \in 1 .. n
          BY <4>1, <4>3
        <5>2. R[db[k][i]] < R[db[k][j]]
          BY <1>3, <1>6, <2>1, <4>1, <5>1 DEF Order, Ordered
        <5>3. QED
          BY <1>6, <3>1, <4>1, <5>1, <5>2
      <4>4. QED
        BY <4>2, <4>3
    <3>2. CASE l # k
      BY <1>6, <2>1, <3>2 DEF Order, Ordered
    <3>3. QED
      BY <3>1, <3>2
  <2>2. ASSUME NEW r \in Read, r.ver <= Len(db[r.key]), NEW x, After(R, x, r)
        PROVE  \A i \in DOMAIN db'[r.key] : i <= r.ver => R[db'[r.key][i]] < R[x]
    <3>1. TAKE i \in DOMAIN db'[r.key]
    <3>2. r.key \in Key /\ r.ver \in Nat
      BY <1>10
    <3>3. ~(r.key = k /\ i = n + 1 /\ i <= r.ver)
      BY <1>6, <2>2, <3>2
    <3>4. QED
      BY <1>7, <2>2, <3>2, <3>3 DEF After
  <2>3. ASSUME NEW r \in Read, NEW x, Before(R, x, r), r.key = k /\ x # id => R[x] < R[id]
        PROVE  \A i \in DOMAIN db'[r.key] : i > r.ver /\ db'[r.key][i] # x => R[x] < R[db'[r.key][i]]
    <3>1. TAKE i \in DOMAIN db'[r.key]
    <3>2. r.key \in Key
      BY <1>10
    <3>3. QED
      BY <1>7, <2>3, <3>2 DEF Before
  <2>4. ASSUME NEW u \in Thread, Busy(u), NEW r \in reads[u]
        PROVE  \A i \in DOMAIN db'[r.key] : i <= r.ver => R[db'[r.key][i]] < R[Id(u)]
    <3>1. After(R, Id(u), r) /\ r \in Read /\ r.ver <= Len(db[r.key])
      BY <1>11, <2>4 DEF Order, Ordered, Reads, Busy
    <3>2. QED
      BY <2>2, <3>1
  <2>5. ASSUME NEW u \in Thread, pc[u] = "write", NEW r \in reads[u]
        PROVE  \A i \in DOMAIN db'[r.key] : i > r.ver /\ db'[r.key][i] # Id(u) => R[Id(u)] < R[db'[r.key][i]]
    <3>1. Before(R, Id(u), r) /\ r \in Read /\ r.key \in rs[u] /\ Busy(u)
      BY <1>11, <2>5 DEF Order, Ordered, Reads, Busy
    <3>2. r.key = k /\ Id(u) # id => R[Id(u)] < R[id]
      <4>1. SUFFICES ASSUME r.key = k, Id(u) # id PROVE R[Id(u)] < R[id]
        OBVIOUS
      <4>2. u # t
        BY <1>4, <4>1
      <4>3. ~(R[id] < R[Id(u)])
        BY <1>3, <1>4, <2>5, <3>1, <4>1 DEF Order, Clear, Earlier
      <4>4. QED
        BY <1>17, <1>18, <3>1, <4>2, <4>3
    <3>3. QED
      BY <2>3, <3>1, <3>2
  <2>6. ASSUME NEW h \in hist, NEW r \in h.reads
        PROVE  /\ \A i \in DOMAIN db'[r.key] : i <= r.ver => R[db'[r.key][i]] < R[h.id]
               /\ \A i \in DOMAIN db'[r.key] : i > r.ver /\ db'[r.key][i] # h.id => R[h.id] < R[db'[r.key][i]]
    <3>1. After(R, h.id, r) /\ Before(R, h.id, r) /\ r \in Read /\ r.ver <= Len(db[r.key])
      BY <1>12 DEF Order, Ordered, HistReads
    <3>2. r.key = k => R[h.id] < R[id]
      <4>1. SUFFICES ASSUME r.key = k PROVE R[h.id] < R[id]
        OBVIOUS
      <4>2. ~(R[id] < R[h.id])
        BY <1>3, <1>4, <4>1 DEF Order, Clear
      <4>3. QED
        BY <1>17, <4>2
    <3>3. QED
      BY <2>2, <2>3, <3>1, <3>2
  <2>7. QED
    BY <1>2, <1>5, <2>1, <2>4, <2>5, <2>6 DEF Ordered, After, Before
<1>21. QED
  BY <1>8, <1>13, <1>14, <1>15, <1>16, <1>20 DEF Order

LEMMA FinishOrder ==
  ASSUME KrOccAssumption, Inv, Writers, Reads, HistReads, NEW R, NEW N, Order(R, N),
         NEW t \in Thread, Finish(t)
  PROVE  Writers' /\ Reads' /\ HistReads' /\ Order(R, N)'
<1>0. Types /\ History /\ Listed /\ Running /\ Ranks(R, N) /\ R \in [Txn -> Nat]
  BY DEF Inv, Order, Ranks
<1>1. /\ pc[t] = "write" /\ todo[t] = {}
      /\ all' = Collected(Append(all, Mine(t)), refs')
      /\ UNCHANGED <<db, count, ws, rs, since, reads, finish, todo>>
      /\ \A u \in Thread : pc'[u] = IF u = t THEN "idle" ELSE pc[u]
  BY FinishIs
<1>2. PICK new \in Commit :
        /\ new.id = Id(t) /\ new.cts = Cardinality(hist) /\ new.reads = reads[t]
        /\ hist' = hist \cup {new}
  BY FinishIs
<1>3. Busy(t) /\ \A u \in Thread : /\ Id(u)' = Id(u) /\ Mine(u)' = Mine(u)
                                   /\ Busy(u)' <=> (Busy(u) /\ u # t)
  BY <1>1 DEF Id, Mine, Busy
<1>4. \A x, k : Stored(x, k)' <=> Stored(x, k)
  BY <1>1 DEF Stored
<1>5. \A k : Stored(Id(t), k) /\ k \in Key => k \in DOMAIN ws[t]
  BY <1>1, WriterIs DEF Stored
<1>6. \A i \in DOMAIN all' : all'[i] = Mine(t) \/ \E j \in DOMAIN all : all'[i] = all[j]
  <2>1. PICK L, r : L = Append(all, Mine(t)) /\ r = refs'
    OBVIOUS
  <2>2. Mine(t) \in ListNode /\ all \in Seq(ListNode)
    BY <1>0, IdsNotHead DEF Mine, ListNode, Types
  <2>3. L \in Seq(ListNode) /\ \A j \in DOMAIN L : L[j] = Mine(t) \/ (j \in DOMAIN all /\ L[j] = all[j])
    BY <2>1, <2>2
  <2>4. \A i \in DOMAIN Collected(L, r) : \E j \in DOMAIN L : Collected(L, r)[i] = L[j]
    BY <2>3, CollectedFrom
  <2>5. all' = Collected(L, r)
    BY <1>1, <2>1
  <2>6. QED
    BY <2>3, <2>4, <2>5
<1>7. Writers'
  <2>1. ASSUME NEW k \in Key, NEW j \in DOMAIN db[k]
        PROVE  \/ \E h \in hist' : h.id = db[k][j]
               \/ \E u \in Thread : /\ pc'[u] = "write" /\ db[k][j] = Id(u)
                                    /\ k \in DOMAIN ws[u] /\ k \notin todo[u]
    <3>1. CASE \E h \in hist : h.id = db[k][j]
      BY <1>2, <3>1
    <3>2. CASE \E u \in Thread : /\ pc[u] = "write" /\ db[k][j] = Id(u)
                                 /\ k \in DOMAIN ws[u] /\ k \notin todo[u]
      BY <1>1, <1>2, <3>2
    <3>3. QED
      BY <3>1, <3>2 DEF Writers
  <2>2. ASSUME NEW k \in Key, NEW i \in DOMAIN all', Stored(all'[i].id, k)
        PROVE  k \in all'[i].ws
    <3>1. CASE all'[i] = Mine(t)
      <4>1. Mine(t).id = Id(t) /\ Mine(t).ws = DOMAIN ws[t]
        BY DEF Mine
      <4>2. QED
        BY <1>5, <2>2, <3>1, <4>1
    <3>2. CASE \E j \in DOMAIN all : all'[i] = all[j]
      BY <2>2, <3>2 DEF Writers
    <3>3. QED
      BY <1>6, <3>1, <3>2
  <2>3. \A u \in Thread : pc'[u] = "write" => todo[u] \subseteq DOMAIN ws[u]
    BY <1>1 DEF Writers
  <2>4. \A k \in Key : \A i \in DOMAIN all' : \A j \in DOMAIN db[k] :
          db[k][j] = all'[i].id => k \in all'[i].ws
    BY <2>2 DEF Stored
  <2>5. QED
    BY <1>1, <1>3, <2>1, <2>3, <2>4 DEF Writers, Stored
<1>8. Reads'
  <2>1. ASSUME NEW u \in Thread, pc'[u] # "idle", NEW r \in reads[u]
        PROVE  /\ r.key \in rs[u] /\ r.ver <= Len(db[r.key])
               /\ \A j \in DOMAIN db[r.key] : j > r.ver =>
                    \/ \E h \in hist' : h.id = db[r.key][j] /\ h.cts >= since[u]
                    \/ \E v \in Thread : pc'[v] = "write" /\ db[r.key][j] = Id(v)
    <3>1. pc[u] # "idle" /\ u # t
      BY <1>1, <2>1
    <3>2. /\ r.key \in rs[u] /\ r.ver <= Len(db[r.key])
          /\ \A j \in DOMAIN db[r.key] : j > r.ver =>
               \/ \E h \in hist : h.id = db[r.key][j] /\ h.cts >= since[u]
               \/ \E v \in Thread : pc[v] = "write" /\ db[r.key][j] = Id(v)
      BY <3>1 DEF Reads
    <3>3. new.cts >= since[u]
      <4>1. From(u) \in 0 .. Len(all) /\ From(u) = since[u] - Base /\ Base \in Nat
            /\ since[u] \in Nat /\ Len(all) \in Nat /\ Cardinality(hist) \in Nat
            /\ Base = Cardinality(hist) - Len(all)
        BY <1>0, <3>1, ListTypes DEF Running, From, Listed, Base, Types
      <4>2. QED
        BY <1>2, <4>1
    <3>4. QED
      BY <1>1, <1>2, <3>2, <3>3
  <2>2. QED
    BY <1>1, <1>3, <2>1 DEF Reads
<1>9. \A r \in reads[t] : r.key \in rs[t] /\ r.ver <= Len(db[r.key])
  BY <1>1 DEF Reads
<1>10. HistReads'
  BY <1>1, <1>2, <1>9 DEF HistReads
<1>11. Ranks(R, N)'
  <2>1. \A h \in hist' : R[h.id] < N
    BY <1>0, <1>2, <1>3 DEF Ranks
  <2>2. ASSUME NEW u \in Thread, Busy(u), u # t
        PROVE  R[Id(u)] < N /\ \A h \in hist' : R[h.id] # R[Id(u)]
    BY <1>0, <1>2, <1>3, <2>2 DEF Ranks
  <2>3. QED
    BY <1>0, <1>3, <2>1, <2>2 DEF Ranks
<1>12. Clear(R)'
  <2>1. ASSUME NEW v \in Thread, NEW h \in hist', Busy(v), v # t, R[Id(v)] < R[h.id],
               NEW k \in DOMAIN ws[v]
        PROVE  ~Stored(h.id, k) /\ \A r \in h.reads : r.key # k
    <3>1. CASE h \in hist
      BY <2>1, <3>1 DEF Order, Clear
    <3>2. CASE h = new
      <4>1. k \notin DOMAIN ws[t] /\ k \notin rs[t]
        BY <1>1, <1>2, <2>1, <3>2 DEF Order, Clear, Earlier
      <4>2. k \in Key
        BY <1>0 DEF Types
      <4>3. QED
        BY <1>2, <1>5, <1>9, <3>2, <4>1, <4>2
    <3>3. QED
      BY <1>2, <3>1, <3>2
  <2>2. \A v, u \in Thread : pc'[u] = "check" /\ Busy(v) /\ R[Id(v)] < R[Id(u)] => Mine(v) \in finish[u]
    BY <1>1 DEF Order, Clear, Earlier
  <2>3. \A v, u \in Thread : pc'[u] = "write" /\ Busy(v) /\ R[Id(v)] < R[Id(u)] =>
          \A k \in DOMAIN ws[v] : k \notin DOMAIN ws[u] /\ k \notin rs[u]
    BY <1>1 DEF Order, Clear, Earlier
  <2>4. \A v \in Thread : \A h \in hist' : Busy(v) /\ v # t /\ R[Id(v)] < R[h.id] =>
          \A k \in DOMAIN ws[v] : ~Stored(h.id, k)' /\ \A r \in h.reads : r.key # k
    BY <1>4, <2>1
  <2>5. QED
    BY <1>1, <1>3, <2>2, <2>3, <2>4 DEF Clear, Earlier
<1>13. Ordered(R)'
  <2>1. \A x, r : (After(R, x, r)' <=> After(R, x, r)) /\ (Before(R, x, r)' <=> Before(R, x, r))
    BY <1>1 DEF After, Before
  <2>2. \A h \in hist' : \A r \in h.reads : After(R, h.id, r) /\ Before(R, h.id, r)
    BY <1>1, <1>2, <1>3 DEF Order, Ordered
  <2>3. QED
    BY <1>1, <1>3, <2>1, <2>2 DEF Order, Ordered
<1>14. QED
  BY <1>7, <1>8, <1>10, <1>11, <1>12, <1>13 DEF Order

LEMMA SerialInit ==
  ASSUME KrOccAssumption, Init
  PROVE  SerialInv
<1>0. /\ all = <<>> /\ db = [k \in Key |-> <<>>] /\ hist = {}
      /\ pc = [t \in Thread |-> "idle"] /\ reads = [t \in Thread |-> {}]
  BY DEF Init
<1>1. \A t \in Thread : pc[t] = "idle" /\ ~Busy(t)
  BY <1>0 DEF Busy
<1>2. DOMAIN all = {} /\ \A k \in Key : DOMAIN db[k] = {}
  BY <1>0
<1>3. Writers /\ Reads /\ HistReads
  BY <1>0, <1>1, <1>2 DEF Writers, Reads, HistReads
<1>4. PICK R \in [Txn -> Nat] : R = [x \in Txn |-> 0]
  OBVIOUS
<1>5. Order(R, 0)
  BY <1>0, <1>1, <1>2 DEF Order, Ranks, Clear, Ordered
<1>6. QED
  BY <1>3, <1>4, <1>5, InvInit DEF SerialInv

LEMMA SerialStep ==
  ASSUME KrOccAssumption, SerialInv, [Next]_vars
  PROVE  SerialInv'
<1>1. PICK R \in [Txn -> Nat], N \in Nat : Order(R, N)
  BY DEF SerialInv
<1>2. Inv /\ Writers /\ Reads /\ HistReads /\ Inv'
  BY InvStep DEF SerialInv
<1>3. SUFFICES /\ Writers' /\ Reads' /\ HistReads'
               /\ \E Q \in [Txn -> Nat] : \E M \in Nat : Order(Q, M)'
  BY <1>2 DEF SerialInv
<1>4. ASSUME Leaves, ReadsLast
      PROVE  Writers' /\ Reads' /\ HistReads' /\ Order(R, N)'
  BY <1>1, <1>2, <1>4, LeavesOrder, LeavesReads DEF Leaves
<1>5. CASE UNCHANGED vars
  <2>1. UNCHANGED <<all, db, pc, count, rs, ws, since, reads, finish, todo, hist>>
    BY <1>5 DEF vars, txnVars
  <2>2. Leaves /\ ReadsLast
    BY <2>1 DEF Leaves, ReadsLast, Mine, Id, Busy
  <2>3. QED
    BY <1>1, <1>4, <2>2
<1>6. ASSUME NEW t \in Thread, Begin(t) \/ Write(t) \/ Lookup(t) \/ Abort(t) \/ CheckNext(t) \/ Fail(t)
      PROVE  Writers' /\ Reads' /\ HistReads' /\ Order(R, N)'
  BY <1>2, <1>4, <1>6, BeginOrder, WriteOrder, LookupOrder, AbortOrder, CheckNextOrder, FailOrder
<1>7. ASSUME NEW t \in Thread, CheckEnd(t) \/ Store(t) \/ Finish(t)
      PROVE  Writers' /\ Reads' /\ HistReads' /\ Order(R, N)'
  BY <1>1, <1>2, <1>4, <1>7, ClashOrder, CheckEndOrder, StoreOrder, FinishOrder
<1>8. ASSUME NEW t \in Thread, CommitBegin(t)
      PROVE  /\ Writers' /\ Reads' /\ HistReads'
             /\ \E Q \in [Txn -> Nat] : \E M \in Nat : Order(Q, M)'
  BY <1>1, <1>2, <1>8, CommitBeginOrder
<1>9. QED
  BY <1>1, <1>5, <1>6, <1>7, <1>8 DEF Next, Step, Done

-----------------------------------------------------------------------------
(* Serializability.                                                        *)

\* A direct conflict of a with b, over all that they found.
Follows(a, b) ==
  \/ \E k \in Key : \E i, j \in DOMAIN db[k] :
       i < j /\ db[k][i] = a.id /\ db[k][j] = b.id
  \/ \E r \in b.reads : \E i \in DOMAIN db[r.key] : i <= r.ver /\ db[r.key][i] = a.id
  \/ \E r \in a.reads : \E j \in DOMAIN db[r.key] : j > r.ver /\ db[r.key][j] = b.id

LEMMA FoundIs ==
  FoundSerializable <=>
    ~\E S \in SUBSET hist : S # {} /\ \A a \in S : \E b \in S \ {a} : Follows(a, b)
BY DEF FoundSerializable, Iso!Acyclic, Iso!Conflict, Follows

\* A conflict leads to a commit that began later.
LEMMA FollowsLater ==
  ASSUME Inv, NEW R, NEW N, Order(R, N), NEW a \in hist, NEW b \in hist, a # b, Follows(a, b)
  PROVE  R[a.id] < R[b.id]
<1>1. a.id # b.id
  BY DEF Inv, History
<1>2. CASE \E k \in Key : \E i, j \in DOMAIN db[k] : i < j /\ db[k][i] = a.id /\ db[k][j] = b.id
  BY <1>2 DEF Order, Ordered
<1>3. CASE \E r \in b.reads : \E i \in DOMAIN db[r.key] : i <= r.ver /\ db[r.key][i] = a.id
  BY <1>3 DEF Order, Ordered, After
<1>4. CASE \E r \in a.reads : \E j \in DOMAIN db[r.key] : j > r.ver /\ db[r.key][j] = b.id
  BY <1>1, <1>4 DEF Order, Ordered, Before
<1>5. QED
  BY <1>2, <1>3, <1>4 DEF Follows

LEMMA SerialFound ==
  ASSUME SerialInv
  PROVE  FoundSerializable
<1>1. PICK R \in [Txn -> Nat], N \in Nat : Order(R, N)
  BY DEF SerialInv
<1>2. Inv /\ \A h \in hist : R[h.id] \in Nat /\ R[h.id] < N
  BY <1>1, ListTypes DEF SerialInv, Inv, Order, Ranks
<1>3. SUFFICES ASSUME NEW S \in SUBSET hist, S # {},
                      \A a \in S : \E b \in S \ {a} : Follows(a, b)
               PROVE  FALSE
  BY FoundIs
<1> DEFINE D == {n \in Nat : \E a \in S : n = R[a.id]}
<1>4. D \in SUBSET Nat /\ D # {} /\ \A n \in D : n < N
  BY <1>2, <1>3
<1>5. PICK m \in D : \A n \in D : n <= m
  <2> HIDE DEF D
  <2>1. QED
    BY <1>1, <1>4, Greatest
<1>6. PICK a \in S : m = R[a.id]
  OBVIOUS
<1>7. PICK b \in S \ {a} : Follows(a, b)
  BY <1>3
<1>8. R[a.id] < R[b.id]
  BY <1>1, <1>2, <1>7, FollowsLater
<1>9. R[b.id] \in D
  BY <1>2, <1>7
<1>10. R[b.id] <= m
  BY <1>5, <1>9
<1>11. QED
  BY <1>2, <1>6, <1>7, <1>8, <1>10

\* What commits is serializable, as far as what the transactions found goes,
\* in the order in which the commits began, in both builds of
\* transaction_kr_occ.h: the check of the list and of the active transactions
\* misses nobody.
THEOREM SerialCommits == KrOccAssumption => (Spec => []FoundSerializable)
<1> SUFFICES ASSUME KrOccAssumption PROVE Spec => []FoundSerializable
  OBVIOUS
<1>1. Init => SerialInv
  BY SerialInit
<1>2. SerialInv /\ [Next]_vars => SerialInv'
  BY SerialStep
<1>3. SerialInv => FoundSerializable
  BY SerialFound
<1>4. QED
  BY <1>1, <1>2, <1>3, PTL DEF Spec
=============================================================================
