------------------------------ MODULE StoProofs ------------------------------
(***************************************************************************)
(* Proofs about Sto, for any threads, keys, programs and builds.  Dirty    *)
(* bits and references have the owners that will give them back, which is  *)
(* inductive together with the types; so a key's timestamps never go back, *)
(* wherever they are kept; so the transactions are serializable in the     *)
(* order in which they began.                                              *)
(***************************************************************************)
EXTENDS Sto, TLAPS, FiniteSetTheorems, WellFoundedInduction

Stamp  == [wts : Nat, rts : Nat]
Txn    == Thread \X Nat
Read   == [key : Key, ver : Nat]
Commit == [id : Txn, cts : Nat, reads : SUBSET Read]
Label  == {"idle", "run", "load", "lock", "stamp", "get", "raise", "install", "unlock",
           "abort", "deinit"}

\* The type of every variable.
Types ==
  /\ build \in Builds
  /\ global_ts \in Nat
  /\ stamp \in [Key -> Stamp]
  /\ dirty \in [Key -> Thread \cup {"clean"}]
  /\ cached \in SUBSET Key
  /\ refs \in [Key -> Nat]
  /\ counter \in Stamp
  /\ header \in [Key -> Stamp]
  /\ db \in [Key -> Seq(Txn)]
  /\ pc \in [Thread -> Label]
  /\ count \in [Thread -> Nat]
  /\ ts \in [Thread -> Nat]
  /\ calls \in [Thread -> Seq(Op)]
  /\ order \in [Thread -> Seq(Key)]
  /\ writes \in [Thread -> SUBSET Key]
  /\ todo \in [Thread -> Seq(Key)]
  /\ reads \in [Thread -> SUBSET Read]
  /\ hist \in SUBSET Commit

Distinct(s) == \A i, j \in DOMAIN s : s[i] = s[j] => i = j

\* A transaction in the middle of a call, and one in the loop of commit or
\* abort.
InCall(t)  == pc[t] \in {"load", "lock", "stamp", "get", "raise"}
Looping(t) == pc[t] \in {"install", "unlock", "abort"}

\* What a thread's variables say of one another.
Books(t) ==
  /\ Distinct(order[t]) /\ Distinct(todo[t]) /\ writes[t] \subseteq Elems(order[t])
  /\ InCall(t) => calls[t] # <<>> /\ CallKey(t) \in Elems(order[t]) \ writes[t]
  /\ pc[t] = "load" => build = "cache"
  /\ pc[t] = "stamp" => Writing(t)
  /\ pc[t] \in {"get", "raise"} => ~Writing(t)
  /\ Looping(t) => Elems(todo[t]) \subseteq writes[t]
  /\ pc[t] = "unlock" => todo[t] # <<>>
  /\ pc[t] = "deinit" => Elems(todo[t]) \subseteq Elems(order[t])

\* The dirty bits a thread has set, and the keys it has a reference to.
Locks(t, k) ==
  \/ pc[t] \in {"run", "load", "lock"} /\ k \in writes[t]
  \/ pc[t] \in {"stamp", "get", "raise"} /\ k \in writes[t] \cup {CallKey(t)}
  \/ Looping(t) /\ k \in Elems(todo[t])
Uses(t, k) ==
  \/ pc[t] \notin {"idle", "deinit"} /\ k \in Elems(order[t])
  \/ pc[t] = "deinit" /\ k \in Elems(todo[t])
Users(k) == {t \in Thread : Uses(t, k)}

\* Nothing in use leaves the table.
UsedCached == \A k \in Key : \A t \in Thread : Uses(t, k) => k \in cached

Inv ==
  /\ Types /\ UsedCached
  /\ \A t \in Thread : Books(t)
  /\ \A k \in Key, t \in Thread : dirty[k] = t <=> Locks(t, k)
  /\ \A k \in Key : build # "memory" => refs[k] = Cardinality(Users(k))

\* Whoever has set a key's dirty bit may read or write the key.
Fits(t) ==
  /\ pc[t] \in {"stamp", "get", "raise"} => Visible(CallKey(t)).wts <= ts[t]
  /\ pc[t] = "stamp" => Visible(CallKey(t)).rts <= ts[t]

TimeInv == Inv /\ \A t \in Thread : Fits(t)

\* A transaction that may still commit, and the keys whose write it has not
\* stored.
Running(t)  == pc[t] \in {"run"} \cup {"load", "lock", "stamp", "get", "raise"}
Unstored(t) ==
  CASE Running(t)         -> writes[t]
    [] pc[t] = "install" -> Elems(todo[t])
    [] pc[t] = "unlock"  -> Elems(Tail(todo[t]))
    [] OTHER             -> {}
\* With the one it has set the dirty bit for.
Writes(t) == IF pc[t] = "stamp" THEN writes[t] \cup {CallKey(t)} ELSE Unstored(t)

\* Timestamps tell transactions apart.
TimesApart ==
  /\ \A t \in Thread : /\ ts[t] <= global_ts
                       /\ pc[t] # "idle" => ts[t] > 0
  /\ \A t, u \in Thread : ts[t] = ts[u] => t = u \/ ts[t] = 0
  /\ \A h \in hist : /\ 0 < h.cts /\ h.cts <= global_ts
                     /\ h.id[2] <= count[h.id[1]]
                     /\ \A t \in Thread : h.cts = ts[t] => h.id = Id(t)
                     /\ \A t \in Thread : h.id = Id(t) => h.cts = ts[t] /\ ~Running(t)
  /\ \A g, h \in hist : g.id = h.id \/ g.cts = h.cts => g = h

\* Who stores its writes has committed.
Committed(t) ==
  pc[t] \in {"install", "unlock"} => \E h \in hist : h.id = Id(t) /\ h.cts = ts[t]

\* The versions of a key are those of committed transactions, in the order of
\* their timestamps, and its wts is no earlier.
VersionsOrdered ==
  \A k \in Key :
    /\ \A i \in DOMAIN db[k] : \E h \in hist : h.id = db[k][i]
    /\ \A i \in DOMAIN db[k] : \A h \in hist : h.id = db[k][i] => h.cts <= Visible(k).wts
    /\ \A i, j \in DOMAIN db[k] : \A g, h \in hist :
         i < j /\ g.id = db[k][i] /\ h.id = db[k][j] => g.cts < h.cts

\* A key that is to be written has the timestamp of the transaction, and
\* versions that are earlier.
WritesLast(t) ==
  \A k \in Unstored(t) :
    /\ Visible(k).wts = ts[t]
    /\ \A i \in DOMAIN db[k] : \A h \in hist : h.id = db[k][i] => h.cts < ts[t]

\* Version v of a key is what there is at c: later ones, stored or to be
\* stored, are later than c, but for those of transaction x.
Holds(k, v, c, x) ==
  /\ v \in 0 .. Len(db[k])
  /\ \A h \in hist : v > 0 /\ h.id = db[k][v] => h.cts <= c
  /\ \A j \in v + 1 .. Len(db[k]) : \A h \in hist : h.id = db[k][j] /\ h.id # x => c < h.cts
  /\ \A u \in Thread : k \in Writes(u) /\ Id(u) # x => c < ts[u]

\* What a transaction has read holds at its timestamp, and the key remembers it.
ReadsHold(t) ==
  Running(t) => \A r \in reads[t] :
    /\ Holds(r.key, r.ver, ts[t], Id(t))
    /\ ts[t] <= Visible(r.key).rts \/ (pc[t] = "raise" /\ r.key = CallKey(t))
ReadsKept ==
  \A h \in hist : \A r \in h.reads :
    Holds(r.key, r.ver, h.cts, h.id) /\ h.cts <= Visible(r.key).rts

SerialInv ==
  /\ TimeInv /\ TimesApart /\ VersionsOrdered /\ ReadsKept
  /\ \A t \in Thread : Committed(t) /\ WritesLast(t) /\ ReadsHold(t)

-----------------------------------------------------------------------------
(* Sequences without repetition, and what the loops of commit and abort     *)
(* go over.                                                                 *)

\* A new element at the end.
LEMMA AppendElems ==
  ASSUME NEW S, NEW s \in Seq(S), NEW x \in S
  PROVE  /\ Elems(Append(s, x)) = Elems(s) \cup {x}
         /\ Distinct(s) /\ x \notin Elems(s) => Distinct(Append(s, x))
<1>1. Len(Append(s, x)) = Len(s) + 1 /\ Append(s, x)[Len(s) + 1] = x
  OBVIOUS
<1>2. \A i \in DOMAIN s : Append(s, x)[i] = s[i]
  OBVIOUS
<1>3. DOMAIN Append(s, x) = DOMAIN s \cup {Len(s) + 1}
  OBVIOUS
<1>4. QED
  BY <1>1, <1>2, <1>3 DEF Elems, Distinct

\* The first element and the others.
LEMMA HeadTailElems ==
  ASSUME NEW S, NEW s \in Seq(S), s # <<>>
  PROVE  /\ Head(s) \in S /\ Tail(s) \in Seq(S)
         /\ Elems(s) = Elems(Tail(s)) \cup {Head(s)}
         /\ Distinct(s) => Distinct(Tail(s)) /\ Head(s) \notin Elems(Tail(s))
<1>1. /\ Head(s) \in S /\ Tail(s) \in Seq(S) /\ Head(s) = s[1]
      /\ Len(s) \in Nat /\ Len(s) >= 1
  OBVIOUS
<1>2. DOMAIN Tail(s) = 1 .. Len(s) - 1 /\ \A i \in DOMAIN Tail(s) : Tail(s)[i] = s[i + 1]
  OBVIOUS
<1>3. \A i \in 1 .. Len(s) - 1 : i + 1 \in DOMAIN s
  BY <1>1
<1>4. \A i \in DOMAIN s : i = 1 \/ (i - 1 \in 1 .. Len(s) - 1 /\ s[i] = Tail(s)[i - 1])
  BY <1>1, <1>2
<1>5. Elems(s) = Elems(Tail(s)) \cup {Head(s)}
  <2>1. ASSUME NEW i \in DOMAIN s
        PROVE  s[i] \in Elems(Tail(s)) \cup {Head(s)}
    BY <1>1, <1>2, <1>4 DEF Elems
  <2>2. ASSUME NEW i \in DOMAIN Tail(s)
        PROVE  Tail(s)[i] \in Elems(s)
    BY <1>2, <1>3 DEF Elems
  <2>3. Head(s) \in Elems(s)
    BY <1>1 DEF Elems
  <2>4. QED
    BY <2>1, <2>2, <2>3 DEF Elems
<1>6. ASSUME Distinct(s)
      PROVE  Distinct(Tail(s)) /\ Head(s) \notin Elems(Tail(s))
  <2>1. \A i, j \in 1 .. Len(s) - 1 : s[i + 1] = s[j + 1] => i = j
    BY <1>3, <1>6 DEF Distinct
  <2>2. \A i \in 1 .. Len(s) - 1 : s[i + 1] # s[1]
    BY <1>1, <1>3, <1>6 DEF Distinct
  <2>3. QED
    BY <1>1, <1>2, <2>1, <2>2 DEF Distinct, Elems
<1>7. QED
  BY <1>1, <1>5, <1>6

\* The order of the numbers as a relation.
Less == {p \in Nat \X Nat : p[1] < p[2]}

\* Induction over the numbers, for a set that is closed under successor.
LEMMA InductiveSet ==
  ASSUME NEW S \in SUBSET Nat, 0 \in S, \A n \in S : n + 1 \in S
  PROVE  S = Nat
<1>1. SUFFICES ASSUME Nat \ S # {} PROVE FALSE
  OBVIOUS
<1>2. IsWellFoundedOn(Less, Nat)
  BY NatLessThanWellFounded, Zenon DEF OpToRel, Less
<1>3. PICK m \in Nat \ S : \A n \in Nat \ S : <<n, m>> \notin Less
  BY <1>1, <1>2, WFMin, Zenon
<1>4. ASSUME NEW a \in Nat, NEW b \in Nat, <<a, b>> \notin Less PROVE ~(a < b)
  BY <1>4, Zenon DEF Less
<1>5. \A n \in Nat \ S : m <= n
  <2>1. \A n \in Nat \ S : ~(n < m)
    BY <1>3, <1>4, Zenon
  <2>2. QED
    BY <2>1
<1>6. m - 1 \in Nat /\ m - 1 \notin Nat \ S
  BY <1>5
<1>7. (m - 1) + 1 \in S
  BY <1>6
<1>8. QED
  BY <1>3, <1>7

\* The loops of commit and abort go over the written keys of the transaction.
LEMMA HeldKeys ==
  ASSUME NEW t \in Thread, order[t] \in Seq(Key), Distinct(order[t])
  PROVE  /\ Held(t) \in Seq(Key) /\ Distinct(Held(t))
         /\ Elems(Held(t)) = Elems(order[t]) \cap writes[t]
<1>0. PICK W : W = writes[t]
  OBVIOUS
<1>1. PICK s \in Seq(Key) : s = order[t] /\ Distinct(s)
  OBVIOUS
<1>2. Len(s) \in Nat /\ DOMAIN s = 1 .. Len(s) /\ \A i \in 1 .. Len(s) : s[i] \in Key
  OBVIOUS
<1> DEFINE Next_(g, i) == IF s[i] \in W THEN Append(g[i - 1], s[i]) ELSE g[i - 1]
           Upto(g, n) == /\ DOMAIN g = 0 .. n /\ g[0] = <<>>
                         /\ \A i \in 1 .. n : g[i] = Next_(g, i)
           Made == {n \in Nat : n <= Len(s) => \E g : Upto(g, n) /\ g = [i \in 0 .. n |-> g[i]]}
<1>3. Made = Nat
  <2>1. 0 \in Made
    <3>1. PICK g : g = [i \in 0 .. 0 |-> <<>>]
      OBVIOUS
    <3>2. Upto(g, 0) /\ g = [i \in 0 .. 0 |-> g[i]]
      BY <3>1
    <3>3. QED
      BY <3>2
  <2>2. ASSUME NEW n \in Made PROVE n + 1 \in Made
    <3>1. SUFFICES ASSUME n + 1 <= Len(s)
                   PROVE  \E g : Upto(g, n + 1) /\ g = [i \in 0 .. n + 1 |-> g[i]]
      BY <2>2
    <3>2. n \in Nat /\ n <= Len(s)
      BY <1>2, <2>2, <3>1
    <3>3. PICK g : Upto(g, n)
      BY <2>2, <3>2
    <3>4. PICK f : f = [i \in 0 .. n + 1 |-> IF i = n + 1 THEN Next_(g, n + 1) ELSE g[i]]
      OBVIOUS
    <3>5. DOMAIN f = 0 .. n + 1 /\ f[n + 1] = Next_(g, n + 1) /\ \A i \in 0 .. n : f[i] = g[i]
      BY <3>2, <3>4
    <3>6. ASSUME NEW i \in 1 .. n + 1 PROVE f[i] = Next_(f, i)
      <4>1. i - 1 \in 0 .. n
        BY <3>2
      <4>2. Next_(f, i) = Next_(g, i)
        BY <3>5, <4>1
      <4>3. CASE i = n + 1
        BY <3>5, <4>2, <4>3
      <4>4. CASE i \in 1 .. n
        BY <3>3, <3>5, <4>2, <4>4
      <4>5. QED
        BY <3>2, <4>3, <4>4
    <3>7. f = [i \in 0 .. n + 1 |-> f[i]]
      BY <3>4
    <3>8. f[0] = <<>>
      <4>1. 0 \in 0 .. n /\ g[0] = <<>>
        BY <3>2, <3>3
      <4>2. QED
        BY <3>5, <4>1, Zenon
    <3>9. QED
      BY <3>5, <3>6, <3>7, <3>8
  <2>3. Made \in SUBSET Nat
    OBVIOUS
  <2> HIDE DEF Made
  <2>4. QED
    BY <2>1, <2>2, <2>3, InductiveSet
<1> DEFINE F == CHOOSE g : g = [i \in 0 .. Len(s) |-> IF i = 0 THEN <<>> ELSE Next_(g, i)]
<1>4. F = [i \in 0 .. Len(s) |-> IF i = 0 THEN <<>> ELSE Next_(F, i)]
  <2>1. PICK g : Upto(g, Len(s)) /\ g = [i \in 0 .. Len(s) |-> g[i]]
    BY <1>2, <1>3
  <2>2. g = [i \in 0 .. Len(s) |-> IF i = 0 THEN <<>> ELSE Next_(g, i)]
    <3>1. \A i \in 0 .. Len(s) : g[i] = IF i = 0 THEN <<>> ELSE Next_(g, i)
      <4>1. g[0] = <<>> /\ \A i \in 1 .. Len(s) : g[i] = Next_(g, i)
        BY <2>1
      <4> HIDE DEF Next_
      <4>2. \A i \in 0 .. Len(s) : i = 0 \/ i \in 1 .. Len(s)
        BY <1>2
      <4>3. QED
        BY <1>2, <4>1, <4>2
    <3>2. QED
      BY <2>1, <3>1
  <2>3. QED
    BY <2>2
<1>5. Held(t) = F[Len(s)]
  BY <1>0, <1>1 DEF Held
<1> HIDE DEF F
<1> DEFINE Kept(n) == {s[i] : i \in 1 .. n} \cap W
           Right == {n \in Nat : n <= Len(s) =>
                       /\ F[n] \in Seq(Key) /\ Distinct(F[n]) /\ Elems(F[n]) = Kept(n)}
<1>6. Right = Nat
  <2>1. 0 \in Right
    <3>1. F[0] = <<>>
      BY <1>2, <1>4
    <3>2. Elems(<<>>) = {} /\ Distinct(<<>>) /\ <<>> \in Seq(Key)
      BY DEF Elems, Distinct
    <3>3. Kept(0) = {}
      OBVIOUS
    <3>4. QED
      BY <3>1, <3>2, <3>3
  <2>2. ASSUME NEW n \in Right PROVE n + 1 \in Right
    <3>1. SUFFICES ASSUME n + 1 <= Len(s)
                   PROVE  /\ F[n + 1] \in Seq(Key) /\ Distinct(F[n + 1])
                          /\ Elems(F[n + 1]) = Kept(n + 1)
      BY <2>2
    <3>2. n \in Nat /\ n <= Len(s) /\ n + 1 \in 1 .. Len(s) /\ s[n + 1] \in Key
      BY <1>2, <2>2, <3>1
    <3>3. F[n] \in Seq(Key) /\ Distinct(F[n]) /\ Elems(F[n]) = Kept(n)
      BY <2>2, <3>2
    <3>4. F[n + 1] = Next_(F, n + 1)
      <4>1. n + 1 \in 0 .. Len(s) /\ n + 1 # 0
        BY <1>2, <3>2
      <4> HIDE DEF Next_
      <4>2. QED
        BY <1>4, <4>1
    <3>5. F[n + 1] = IF s[n + 1] \in W THEN Append(F[n], s[n + 1]) ELSE F[n]
      BY <3>2, <3>4
    <3>6. {s[i] : i \in 1 .. n + 1} = {s[i] : i \in 1 .. n} \cup {s[n + 1]}
      <4>1. 1 .. n + 1 = (1 .. n) \cup {n + 1}
        BY <3>2
      <4>2. QED
        BY <4>1
    <3>7. s[n + 1] \notin {s[i] : i \in 1 .. n}
      <4>1. \A i \in 1 .. n : i \in DOMAIN s /\ n + 1 \in DOMAIN s /\ i # n + 1
        BY <1>2, <3>2
      <4>2. QED
        BY <1>1, <4>1 DEF Distinct
    <3>8. CASE s[n + 1] \in W
      <4>1. s[n + 1] \notin Elems(F[n])
        BY <3>3, <3>7
      <4>2. QED
        BY <3>2, <3>3, <3>5, <3>6, <3>8, <4>1, AppendElems
    <3>9. CASE s[n + 1] \notin W
      BY <3>3, <3>5, <3>6, <3>9
    <3>10. QED
      BY <3>8, <3>9
  <2>3. Right \in SUBSET Nat
    OBVIOUS
  <2> HIDE DEF Right
  <2>4. QED
    BY <2>1, <2>2, <2>3, InductiveSet
<1>7. /\ F[Len(s)] \in Seq(Key) /\ Distinct(F[Len(s)])
      /\ Elems(F[Len(s)]) = {s[i] : i \in 1 .. Len(s)} \cap W
  <2>1. Len(s) \in Right
    BY <1>2, <1>6
  <2>2. Len(s) <= Len(s)
    BY <1>2
  <2>3. QED
    BY <2>1, <2>2
<1>8. Elems(s) = {s[i] : i \in 1 .. Len(s)}
  BY <1>2 DEF Elems
<1>9. QED
  BY <1>0, <1>1, <1>5, <1>7, <1>8

-----------------------------------------------------------------------------
(* Who has what.                                                           *)

\* A thread that a step does not move.
Same(u) == /\ pc'[u] = pc[u] /\ order'[u] = order[u] /\ todo'[u] = todo[u]
           /\ writes'[u] = writes[u] /\ calls'[u] = calls[u]

LEMMA SameThread ==
  ASSUME NEW u \in Thread, Same(u), build' = build
  PROVE  /\ Books(u)' = Books(u) /\ Running(u)' = Running(u)
         /\ \A k \in Key : Locks(u, k)' = Locks(u, k) /\ Uses(u, k)' = Uses(u, k)
         /\ Unstored(u)' = Unstored(u) /\ Writes(u)' = Writes(u)
BY DEF Same, Books, InCall, Looping, Locks, Uses, Unstored, Writes, Running, CallKey, Writing

LEMMA ThreadTypes ==
  ASSUME Types, NEW t \in Thread
  PROVE  /\ pc[t] \in Label /\ count[t] \in Nat /\ ts[t] \in Nat /\ calls[t] \in Seq(Op)
         /\ order[t] \in Seq(Key) /\ todo[t] \in Seq(Key) /\ writes[t] \in SUBSET Key
         /\ reads[t] \in SUBSET Read /\ Id(t) \in Txn
         /\ \A r \in reads[t] : r.key \in Key /\ r.ver \in Nat
  BY DEF Types, Read, Id, Txn

\* The call that is made.
LEMMA CallTypes ==
  ASSUME Types, NEW t \in Thread, calls[t] # <<>>
  PROVE  /\ CallKey(t) \in Key /\ Tail(calls[t]) \in Seq(Op)
         /\ Head(calls[t]) \in Op
<1>1. calls[t] \in Seq(Op)
  BY ThreadTypes
<1>2. Head(calls[t]) \in Op /\ Tail(calls[t]) \in Seq(Op)
  BY <1>1
<1>3. QED
  BY <1>2 DEF CallKey, Op

LEMMA UsersFinite ==
  ASSUME StoAssumption, NEW k \in Key
  PROVE  IsFiniteSet(Users(k)) /\ Cardinality(Users(k)) \in Nat
<1>1. IsFiniteSet(Users(k))
  BY FS_Subset DEF Users, StoAssumption
<1>2. QED
  BY <1>1, FS_CardinalityType

\* A key in use has a reference to give back.
LEMMA UsedCounted ==
  ASSUME StoAssumption, Inv, NEW t \in Thread, NEW k \in Key, Uses(t, k), build # "memory"
  PROVE  refs[k] > 0 /\ refs[k] - 1 \in Nat
<1>1. t \in Users(k) /\ refs[k] = Cardinality(Users(k)) /\ refs[k] \in Nat
  BY DEF Users, Inv, Types
<1>2. Cardinality(Users(k)) # 0
  BY <1>1, UsersFinite, FS_EmptySet
<1>3. QED
  BY <1>1, <1>2

\* A step of t, by what it does to dirty bits, references and the table.
LEMMA StepInv ==
  ASSUME StoAssumption, Inv, Types', NEW t \in Thread, Books(t)', build' = build,
         \A u \in Thread \ {t} : Same(u),
         \A k \in Key :
           \/ dirty'[k] = dirty[k] /\ Locks(t, k)' = Locks(t, k)
           \/ dirty[k] = "clean" /\ dirty'[k] = t /\ Locks(t, k)'
           \/ dirty[k] = t /\ dirty'[k] = "clean" /\ ~Locks(t, k)',
         \A k \in Key :
           \/ /\ Uses(t, k)' = Uses(t, k) /\ refs'[k] = refs[k]
              /\ k \in cached => k \in cached' \/ (build # "memory" /\ refs[k] = 0)
           \/ /\ ~Uses(t, k) /\ Uses(t, k)' /\ k \in cached'
              /\ build # "memory" => refs'[k] = refs[k] + 1
           \/ /\ Uses(t, k) /\ ~Uses(t, k)'
              /\ build # "memory" => refs'[k] = refs[k] - 1
              /\ k \in cached' \/ (build # "memory" /\ refs[k] = 1)
  PROVE  Inv'
<1>1. \A u \in Thread \ {t} :
        Books(u)' /\ \A k \in Key : Locks(u, k)' = Locks(u, k) /\ Uses(u, k)' = Uses(u, k)
  BY SameThread DEF Inv
<1>2. \A u \in Thread : Books(u)'
  BY <1>1
<1>3. ASSUME NEW k \in Key, NEW u \in Thread PROVE dirty'[k] = u <=> Locks(u, k)'
  <2>1. dirty[k] = u <=> Locks(u, k)
    BY DEF Inv
  <2>2. u # "clean" /\ t # "clean"
    BY DEF StoAssumption
  <2>3. CASE u = t
    BY <2>1, <2>2, <2>3
  <2>4. CASE u # t
    BY <1>1, <2>1, <2>2, <2>4
  <2>5. QED
    BY <2>3, <2>4
<1>4. ASSUME NEW k \in Key
      PROVE  /\ build # "memory" => refs'[k] = Cardinality(Users(k)')
             /\ \A u \in Thread : Uses(u, k)' => k \in cached'
  <2>1. /\ build # "memory" => refs[k] = Cardinality(Users(k))
        /\ \A u \in Thread : Uses(u, k) => k \in cached
        /\ IsFiniteSet(Users(k)) /\ Cardinality(Users(k)) \in Nat
    BY UsersFinite DEF Inv, UsedCached
  <2>2. CASE /\ Uses(t, k)' = Uses(t, k) /\ refs'[k] = refs[k]
             /\ k \in cached => k \in cached' \/ (build # "memory" /\ refs[k] = 0)
    <3>1. Users(k)' = Users(k)
      BY <1>1, <2>2 DEF Users
    <3>2. ASSUME NEW u \in Thread, Uses(u, k)' PROVE k \in cached'
      <4>1. Uses(u, k) /\ k \in cached
        BY <1>1, <2>1, <2>2, <3>2
      <4>2. QED
        BY <2>2, <4>1, UsedCounted
    <3>3. QED
      BY <2>1, <2>2, <3>1, <3>2
  <2>3. CASE /\ ~Uses(t, k) /\ Uses(t, k)' /\ k \in cached'
             /\ build # "memory" => refs'[k] = refs[k] + 1
    <3>1. Users(k)' = Users(k) \cup {t} /\ t \notin Users(k)
      BY <1>1, <2>3 DEF Users
    <3>2. Cardinality(Users(k)') = Cardinality(Users(k)) + 1
      BY <2>1, <3>1, FS_AddElement
    <3>3. QED
      BY <2>1, <2>3, <3>2
  <2>4. CASE /\ Uses(t, k) /\ ~Uses(t, k)'
             /\ build # "memory" => refs'[k] = refs[k] - 1
             /\ k \in cached' \/ (build # "memory" /\ refs[k] = 1)
    <3>1. Users(k)' = Users(k) \ {t} /\ t \in Users(k)
      BY <1>1, <2>4 DEF Users
    <3>2. Cardinality(Users(k)') = Cardinality(Users(k)) - 1 /\ IsFiniteSet(Users(k)')
      BY <2>1, <3>1, FS_RemoveElement
    <3>3. ASSUME NEW u \in Thread, Uses(u, k)', k \notin cached' PROVE FALSE
      <4>1. u \in Users(k)'
        BY <3>3 DEF Users
      <4>2. build # "memory" /\ refs[k] = 1
        BY <2>4, <3>3
      <4>3. Cardinality(Users(k)') = 0
        BY <2>1, <3>2, <4>2
      <4>4. QED
        BY <3>2, <4>1, <4>3, FS_EmptySet
    <3>4. QED
      BY <2>1, <2>4, <3>2, <3>3
  <2>5. QED
    BY <2>2, <2>3, <2>4
<1>5. QED
  BY <1>2, <1>3, <1>4 DEF Inv, UsedCached

LEMMA InitInv == StoAssumption /\ Init => Inv
<1> SUFFICES ASSUME StoAssumption, Init PROVE Inv
  OBVIOUS
<1>1. Types
  BY DEF Init, Types, Zero, Stamp, Label, Op, Commit, Read, Txn, StoAssumption
<1>2. \A t \in Thread : Books(t)
  BY DEF Init, Books, InCall, Looping, Elems, Distinct
<1>3. \A t \in Thread, k \in Key : ~Uses(t, k) /\ ~Locks(t, k) /\ dirty[k] # t
  BY DEF Init, Uses, Locks, Looping, StoAssumption
<1>4. \A k \in Key : Users(k) = {} /\ refs[k] = 0
  BY <1>3 DEF Users, Init
<1>5. Cardinality({}) = 0
  BY FS_EmptySet
<1>6. QED
  BY <1>1, <1>2, <1>3, <1>4, <1>5 DEF Inv, UsedCached

\* The timestamps an entry starts from.
LEMMA LoadedType ==
  ASSUME StoAssumption, Types, NEW k \in Key
  PROVE  Loaded(k) \in Stamp /\ Visible(k) \in Stamp
<1>1. Zero \in Stamp
  BY DEF Zero, Stamp
<1>2. Merge(Zero, counter) \in Stamp
  BY <1>1 DEF Merge, Larger, Stamp, Types
<1>3. header[k] \in Stamp /\ stamp[k] \in Stamp /\ build \in Builds
  BY DEF Types
<1>4. Loaded(k) \in Stamp
  BY <1>1, <1>2, <1>3 DEF Loaded, StoAssumption
<1>5. QED
  BY <1>3, <1>4 DEF Visible

\* After a step, too.
LEMMA VisibleType ==
  ASSUME StoAssumption, Types', NEW k \in Key
  PROVE  Visible(k)' \in Stamp
<1>1. Zero \in Stamp
  BY DEF Zero, Stamp
<1>2. Merge(Zero, counter') \in Stamp
  BY <1>1 DEF Merge, Larger, Stamp, Types
<1>3. header'[k] \in Stamp /\ stamp'[k] \in Stamp /\ build' \in Builds
  BY DEF Types
<1>4. Loaded(k)' \in Stamp
  BY <1>1, <1>2, <1>3 DEF Loaded, StoAssumption
<1>5. QED
  BY <1>3, <1>4 DEF Visible

\* A step of t that changes neither locks nor references.
LEMMA QuietInv ==
  ASSUME StoAssumption, Inv, Types', NEW t \in Thread, Books(t)',
         \A u \in Thread \ {t} : Same(u),
         UNCHANGED <<build, dirty, refs, cached>>,
         \A k \in Key : Locks(t, k)' = Locks(t, k) /\ Uses(t, k)' = Uses(t, k)
  PROVE  Inv'
BY StepInv

LEMMA BeginInv ==
  ASSUME StoAssumption, Inv, NEW t \in Thread, Begin(t)
  PROVE  Inv'
<1>1. Types /\ Books(t)
  BY DEF Inv
<1>2. PICK p \in Programs[t][count[t] + 1] : calls' = [calls EXCEPT ![t] = p]
  BY DEF Begin
<1>3. p \in Seq(Op)
  <2>1. Programs[t] \in Seq(SUBSET Seq(Op)) /\ count[t] + 1 \in 1 .. Len(Programs[t])
    BY <1>1 DEF StoAssumption, Types, Begin
  <2>2. QED
    BY <1>2, <2>1
<1>4. /\ pc[t] = "idle" /\ pc' = [pc EXCEPT ![t] = "run"]
      /\ order' = [order EXCEPT ![t] = <<>>] /\ writes' = [writes EXCEPT ![t] = {}]
      /\ UNCHANGED <<build, dirty, refs, cached, todo>>
  BY DEF Begin, Goto, tableVars
<1>5. Types'
  BY <1>1, <1>2, <1>3 DEF Types, Begin, Goto, tableVars, Label
<1>6. \A u \in Thread \ {t} : Same(u)
  BY <1>1, <1>2, <1>4 DEF Types, Same
<1>7. /\ pc'[t] = "run" /\ order'[t] = <<>> /\ writes'[t] = {} /\ todo'[t] = todo[t]
  BY <1>1, <1>4 DEF Types
<1>8. Books(t)'
  BY <1>1, <1>4, <1>7 DEF Books, InCall, Looping, Distinct, Elems
<1>9. \A k \in Key : Locks(t, k)' = Locks(t, k) /\ Uses(t, k)' = Uses(t, k)
  BY <1>4, <1>7 DEF Locks, Uses, Looping, Elems
<1>10. QED
  BY <1>4, <1>5, <1>6, <1>8, <1>9, QuietInv

\* A call that is over changes nobody's locks and references.
LEMMA CallInv ==
  ASSUME StoAssumption, Inv, NEW t \in Thread, OwnWrite(t) \/ Refuse(t) \/ SetWts(t) \/ Get(t)
  PROVE  Inv'
<1>1. /\ Types /\ Books(t) /\ pc \in [Thread -> Label] /\ calls[t] # <<>>
      /\ CallKey(t) \in Key /\ Tail(calls[t]) \in Seq(Op)
  <2>1. Types /\ Books(t)
    BY DEF Inv
  <2>2. calls[t] # <<>>
    BY <2>1 DEF OwnWrite, Calling, Refuse, SetWts, Get, Books, InCall
  <2>3. QED
    BY <2>1, <2>2, CallTypes DEF Types
<1>2. CASE OwnWrite(t)
  <2>1. /\ pc[t] = "run" /\ calls' = [calls EXCEPT ![t] = Tail(calls[t])]
        /\ UNCHANGED <<build, global_ts, tableVars, db, pc, count, ts, order, writes, reads, todo, hist>>
    BY <1>2 DEF OwnWrite, Calling, Return
  <2>2. Types'
    BY <1>1, <2>1 DEF Types, tableVars
  <2>3. \A u \in Thread \ {t} : Same(u)
    BY <1>1, <2>1 DEF Types, Same
  <2>4. Books(t)'
    BY <1>1, <2>1 DEF Books, InCall, Looping
  <2>5. \A k \in Key : Locks(t, k)' = Locks(t, k) /\ Uses(t, k)' = Uses(t, k)
    BY <2>1 DEF Locks, Uses, Looping
  <2>6. QED
    BY <2>1, <2>2, <2>3, <2>4, <2>5, QuietInv DEF tableVars
<1>3. CASE Refuse(t)
  <2>1. /\ pc[t] = "lock" /\ pc' = [pc EXCEPT ![t] = "abort"]
        /\ todo' = [todo EXCEPT ![t] = Held(t)]
        /\ UNCHANGED <<build, global_ts, tableVars, db, txnVars, hist>>
    BY <1>3 DEF Refuse, Goto
  <2>2. Held(t) \in Seq(Key) /\ Distinct(Held(t)) /\ Elems(Held(t)) = writes[t]
    BY <1>1, HeldKeys, ThreadTypes DEF Books
  <2>3. Types'
    BY <1>1, <2>1, <2>2 DEF Types, tableVars, txnVars, Label
  <2>4. \A u \in Thread \ {t} : Same(u)
    BY <1>1, <2>1 DEF Types, Same, txnVars
  <2>5. pc'[t] = "abort" /\ todo'[t] = Held(t)
    BY <1>1, <2>1 DEF Types
  <2>6. Books(t)'
    BY <1>1, <2>1, <2>2, <2>5 DEF Books, InCall, Looping, txnVars
  <2>7. \A k \in Key : Locks(t, k)' = Locks(t, k) /\ Uses(t, k)' = Uses(t, k)
    BY <2>1, <2>2, <2>5 DEF Locks, Uses, Looping, txnVars
  <2>8. QED
    BY <2>1, <2>3, <2>4, <2>6, <2>7, QuietInv DEF tableVars
<1>4. CASE SetWts(t)
  <2>1. PICK k \in Key : k = CallKey(t)
    BY <1>1
  <2>2. /\ pc[t] = "stamp" /\ pc' = [pc EXCEPT ![t] = "run"]
        /\ calls' = [calls EXCEPT ![t] = Tail(calls[t])]
        /\ writes' = [writes EXCEPT ![t] = writes[t] \cup {k}]
        /\ stamp' = [stamp EXCEPT ![k].wts = ts[t]]
        /\ UNCHANGED <<build, global_ts, dirty, cached, refs, counter, header, db,
                       count, ts, order, reads, todo, hist>>
    BY <1>4, <2>1 DEF SetWts, Goto, Return
  <2>3. stamp' \in [Key -> Stamp]
    BY <1>1, <2>2 DEF Types, Stamp
  <2>4. Types'
    BY <1>1, <2>1, <2>2, <2>3 DEF Types, Label
  <2>5. \A u \in Thread \ {t} : Same(u)
    BY <1>1, <2>2 DEF Types, Same
  <2>6. pc'[t] = "run" /\ writes'[t] = writes[t] \cup {k} /\ order'[t] = order[t] /\ todo'[t] = todo[t]
    BY <1>1, <2>2 DEF Types
  <2>7. Books(t)'
    BY <1>1, <2>1, <2>2, <2>6 DEF Books, InCall, Looping
  <2>8. \A j \in Key : Locks(t, j)' = Locks(t, j) /\ Uses(t, j)' = Uses(t, j)
    BY <2>1, <2>2, <2>6 DEF Locks, Uses, Looping
  <2>9. QED
    BY <2>2, <2>4, <2>5, <2>7, <2>8, QuietInv
<1>5. CASE Get(t)
  <2>1. PICK k \in Key : k = CallKey(t)
    BY <1>1
  <2>2. /\ pc[t] = "get" /\ pc' = [pc EXCEPT ![t] = "raise"]
        /\ reads' = [reads EXCEPT ![t] = reads[t] \cup {[key |-> k, ver |-> Len(db[k])]}]
        /\ UNCHANGED <<build, global_ts, tableVars, db, count, ts, calls, order, writes, todo, hist>>
    BY <1>5, <2>1 DEF Get, Goto
  <2>3. [key |-> k, ver |-> Len(db[k])] \in Read
    BY <1>1 DEF Types, Read
  <2>4. Types'
    BY <1>1, <2>1, <2>2, <2>3 DEF Types, Label, tableVars
  <2>5. \A u \in Thread \ {t} : Same(u)
    BY <1>1, <2>2 DEF Types, Same
  <2>6. pc'[t] = "raise"
    BY <1>1, <2>2
  <2>7. Books(t)'
    BY <1>1, <2>1, <2>2, <2>6 DEF Books, InCall, Looping, CallKey, Writing
  <2>8. \A j \in Key : Locks(t, j)' = Locks(t, j) /\ Uses(t, j)' = Uses(t, j)
    BY <2>1, <2>2, <2>6 DEF Locks, Uses, Looping, CallKey
  <2>9. QED
    BY <2>2, <2>4, <2>5, <2>7, <2>8, QuietInv DEF tableVars
<1>6. QED
  BY <1>2, <1>3, <1>4, <1>5

\* The end of a transaction begins, stores a write, or is over but for the
\* references.
LEMMA EndInv ==
  ASSUME StoAssumption, Inv, NEW t \in Thread,
         CommitBegin(t) \/ Abort(t) \/ Install(t) \/ Deinit(t)
  PROVE  Inv'
<1>1. Types /\ Books(t) /\ pc \in [Thread -> Label] /\ todo \in [Thread -> Seq(Key)]
  BY DEF Inv, Types
<1>2. CASE CommitBegin(t) \/ Abort(t)
  <2>1. /\ pc[t] = "run" /\ todo' = [todo EXCEPT ![t] = Held(t)]
        /\ pc' = [pc EXCEPT ![t] = "install"] \/ pc' = [pc EXCEPT ![t] = "abort"]
        /\ UNCHANGED <<build, global_ts, tableVars, db, txnVars>>
        /\ hist' \subseteq hist \cup {[id |-> Id(t), cts |-> ts[t], reads |-> reads[t]]}
    BY <1>2 DEF CommitBegin, Abort, Calling, Goto
  <2>2. Held(t) \in Seq(Key) /\ Distinct(Held(t)) /\ Elems(Held(t)) = writes[t]
    BY <1>1, HeldKeys, ThreadTypes DEF Books
  <2>3. hist' \in SUBSET Commit
    BY <1>1, <2>1, ThreadTypes DEF Types, Commit
  <2>4. Types'
    BY <1>1, <2>1, <2>2, <2>3 DEF Types, tableVars, txnVars, Label
  <2>5. \A u \in Thread \ {t} : Same(u)
    BY <1>1, <2>1 DEF Same, txnVars
  <2>6. pc'[t] \in {"install", "abort"} /\ todo'[t] = Held(t)
    BY <1>1, <2>1
  <2>7. Books(t)'
    BY <1>1, <2>1, <2>2, <2>6 DEF Books, InCall, Looping, txnVars
  <2>8. \A k \in Key : Locks(t, k)' = Locks(t, k) /\ Uses(t, k)' = Uses(t, k)
    BY <2>1, <2>2, <2>6 DEF Locks, Uses, Looping, txnVars
  <2>9. QED
    BY <2>1, <2>4, <2>5, <2>7, <2>8, QuietInv DEF tableVars
<1>3. CASE Install(t)
  <2>1. Head(todo[t]) \in Key
    BY <1>1, <1>3 DEF Install
  <2>2. PICK k \in Key : k = Head(todo[t])
    BY <2>1
  <2>3. /\ pc[t] = "install" /\ todo[t] # <<>> /\ pc' = [pc EXCEPT ![t] = "unlock"]
        /\ db' = [db EXCEPT ![k] = Append(db[k], Id(t))]
        /\ header' = header \/ header' = [header EXCEPT ![k] = [wts |-> ts[t], rts |-> ts[t]]]
        /\ UNCHANGED <<build, global_ts, stamp, dirty, cached, refs, counter, txnVars, todo, hist>>
    BY <1>3, <2>2 DEF Install, Goto
  <2>4. header' \in [Key -> Stamp]
    <3>1. [wts |-> ts[t], rts |-> ts[t]] \in Stamp
      BY <1>1, ThreadTypes DEF Stamp
    <3>2. QED
      BY <1>1, <2>3, <3>1 DEF Types
  <2>5. db' \in [Key -> Seq(Txn)]
    BY <1>1, <2>3, ThreadTypes DEF Types
  <2>6. Types'
    BY <1>1, <2>3, <2>4, <2>5 DEF Types, txnVars, Label
  <2>7. \A u \in Thread \ {t} : Same(u)
    BY <1>1, <2>3 DEF Same, txnVars
  <2>8. pc'[t] = "unlock"
    BY <1>1, <2>3
  <2>9. Books(t)'
    BY <1>1, <2>3, <2>8 DEF Books, InCall, Looping, txnVars
  <2>10. \A j \in Key : Locks(t, j)' = Locks(t, j) /\ Uses(t, j)' = Uses(t, j)
    BY <2>3, <2>8 DEF Locks, Uses, Looping, txnVars
  <2>11. QED
    BY <2>3, <2>6, <2>7, <2>9, <2>10, QuietInv
<1>4. CASE Deinit(t)
  <2>1. /\ pc[t] \in {"install", "abort"} /\ todo[t] = <<>> /\ pc' = [pc EXCEPT ![t] = "deinit"]
        /\ todo' = [todo EXCEPT ![t] = order[t]]
        /\ UNCHANGED <<build, global_ts, tableVars, db, txnVars, hist>>
    BY <1>4 DEF Deinit, Goto
  <2>2. order[t] \in Seq(Key)
    BY <1>1, ThreadTypes
  <2>3. Types'
    BY <1>1, <2>1, <2>2 DEF Types, tableVars, txnVars, Label
  <2>4. \A u \in Thread \ {t} : Same(u)
    BY <1>1, <2>1 DEF Same, txnVars
  <2>5. pc'[t] = "deinit" /\ todo'[t] = order[t] /\ order'[t] = order[t]
    BY <1>1, <2>1 DEF txnVars
  <2>6. Books(t)'
    BY <1>1, <2>1, <2>5 DEF Books, InCall, Looping, txnVars
  <2>7. Elems(todo[t]) = {}
    BY <2>1 DEF Elems
  <2>8. \A k \in Key : Locks(t, k)' = Locks(t, k) /\ Uses(t, k)' = Uses(t, k)
    BY <2>1, <2>5, <2>7 DEF Locks, Uses, Looping
  <2>9. QED
    BY <2>1, <2>3, <2>4, <2>6, <2>8, QuietInv DEF tableVars
<1>5. QED
  BY <1>2, <1>3, <1>4

\* A dirty bit is set, or cleared by whoever has set it.
LEMMA LockInv ==
  ASSUME StoAssumption, Inv, NEW t \in Thread, TryLock(t) \/ RaiseRts(t) \/ Unlock(t)
  PROVE  Inv'
<1>1. Types /\ Books(t) /\ pc \in [Thread -> Label] /\ \A k \in Key : dirty[k] = t <=> Locks(t, k)
  BY DEF Inv, Types
<1>2. CASE TryLock(t)
  <2>1. calls[t] # <<>> /\ CallKey(t) \notin writes[t]
    BY <1>1, <1>2 DEF TryLock, Books, InCall
  <2>2. PICK k \in Key : k = CallKey(t)
    BY <1>1, <2>1, CallTypes
  <2>3. /\ pc[t] = "lock" /\ dirty[k] = "clean" /\ dirty' = [dirty EXCEPT ![k] = t]
        /\ pc' = [pc EXCEPT ![t] = IF Writing(t) THEN "stamp" ELSE "get"]
        /\ UNCHANGED <<build, global_ts, stamp, cached, refs, counter, header, db, txnVars, todo, hist>>
    BY <1>2, <2>2 DEF TryLock, Goto
  <2>4. Types'
    BY <1>1, <2>3 DEF Types, txnVars, Label
  <2>5. \A u \in Thread \ {t} : Same(u)
    BY <1>1, <2>3 DEF Same, txnVars
  <2>6. pc'[t] = IF Writing(t) THEN "stamp" ELSE "get"
    BY <1>1, <2>3
  <2>7. Books(t)' /\ CallKey(t)' = k
    BY <1>1, <2>1, <2>2, <2>3, <2>6 DEF Books, InCall, Looping, txnVars, CallKey, Writing
  <2>8. \A j \in Key : /\ j # k => Locks(t, j)' = Locks(t, j)
                       /\ Locks(t, k)' /\ Uses(t, j)' = Uses(t, j)
    BY <2>2, <2>3, <2>6, <2>7 DEF Locks, Uses, Looping, txnVars
  <2>9. \A j \in Key : j # k => dirty'[j] = dirty[j]
    BY <1>1, <2>3 DEF Types
  <2>10. dirty'[k] = t
    BY <1>1, <2>3 DEF Types
  <2>11. QED
    BY <2>3, <2>4, <2>5, <2>7, <2>8, <2>9, <2>10, StepInv
<1>3. CASE RaiseRts(t)
  <2>1. calls[t] # <<>> /\ CallKey(t) \notin writes[t]
    BY <1>1, <1>3 DEF RaiseRts, Books, InCall
  <2>2. PICK k \in Key : k = CallKey(t)
    BY <1>1, <2>1, CallTypes
  <2>3. /\ pc[t] = "raise" /\ dirty' = [dirty EXCEPT ![k] = "clean"]
        /\ stamp' = [stamp EXCEPT ![k].rts = Larger(stamp[k].rts, ts[t])]
        /\ pc' = [pc EXCEPT ![t] = "run"] /\ calls' = [calls EXCEPT ![t] = Tail(calls[t])]
        /\ UNCHANGED <<build, global_ts, cached, refs, counter, header, db, count, ts,
                       order, writes, reads, todo, hist>>
    BY <1>3, <2>2 DEF RaiseRts, Goto, Return
  <2>4. stamp' \in [Key -> Stamp] /\ Tail(calls[t]) \in Seq(Op)
    <3>1. Larger(stamp[k].rts, ts[t]) \in Nat
      BY <1>1, ThreadTypes DEF Larger, Types, Stamp
    <3>2. QED
      BY <1>1, <2>1, <2>3, <3>1, CallTypes DEF Types, Stamp
  <2>5. Types'
    BY <1>1, <2>3, <2>4 DEF Types, Label
  <2>6. \A u \in Thread \ {t} : Same(u)
    BY <1>1, <2>3 DEF Same, Types
  <2>7. pc'[t] = "run"
    BY <1>1, <2>3
  <2>8. Books(t)'
    BY <1>1, <2>3, <2>7 DEF Books, InCall, Looping
  <2>9. \A j \in Key : /\ j # k => Locks(t, j)' = Locks(t, j)
                       /\ ~Locks(t, k)' /\ Uses(t, j)' = Uses(t, j)
    BY <2>1, <2>2, <2>3, <2>7 DEF Locks, Uses, Looping
  <2>10. dirty[k] = t
    BY <1>1, <2>2, <2>3 DEF Locks
  <2>11. dirty'[k] = "clean" /\ \A j \in Key : j # k => dirty'[j] = dirty[j]
    BY <1>1, <2>3 DEF Types
  <2>12. QED
    BY <2>3, <2>5, <2>6, <2>8, <2>9, <2>10, <2>11, StepInv
<1>4. CASE Unlock(t)
  <2>1. todo[t] \in Seq(Key) /\ todo[t] # <<>> /\ Distinct(todo[t])
        /\ Elems(todo[t]) \subseteq writes[t]
    BY <1>1, <1>4, ThreadTypes DEF Unlock, Books, Looping
  <2>2. PICK k \in Key : k = Head(todo[t])
    BY <2>1
  <2>3. /\ Tail(todo[t]) \in Seq(Key) /\ Distinct(Tail(todo[t]))
        /\ Elems(todo[t]) = Elems(Tail(todo[t])) \cup {k} /\ k \notin Elems(Tail(todo[t]))
    BY <2>1, <2>2, HeadTailElems
  <2>4. /\ pc[t] \in {"unlock", "abort"} /\ dirty' = [dirty EXCEPT ![k] = "clean"]
        /\ todo' = [todo EXCEPT ![t] = Tail(todo[t])]
        /\ pc' = [pc EXCEPT ![t] = IF pc[t] = "unlock" THEN "install" ELSE "abort"]
        /\ UNCHANGED <<build, global_ts, stamp, cached, refs, counter, header, db, txnVars, hist>>
    BY <1>4, <2>2 DEF Unlock, Goto
  <2>5. Types'
    BY <1>1, <2>3, <2>4 DEF Types, txnVars, Label
  <2>6. \A u \in Thread \ {t} : Same(u)
    BY <1>1, <2>4 DEF Same, Types, txnVars
  <2>7. pc'[t] \in {"install", "abort"} /\ todo'[t] = Tail(todo[t])
    BY <1>1, <2>4 DEF Types
  <2>8. Books(t)'
    BY <1>1, <2>1, <2>3, <2>4, <2>7 DEF Books, InCall, Looping, txnVars
  <2>9. \A j \in Key : /\ j # k => Locks(t, j)' = Locks(t, j)
                       /\ ~Locks(t, k)' /\ Locks(t, k) /\ Uses(t, j)' = Uses(t, j)
    BY <2>3, <2>4, <2>7 DEF Locks, Uses, Looping, txnVars
  <2>10. dirty[k] = t
    BY <1>1, <2>9
  <2>11. dirty'[k] = "clean" /\ \A j \in Key : j # k => dirty'[j] = dirty[j]
    BY <1>1, <2>4 DEF Types
  <2>12. QED
    BY <2>4, <2>5, <2>6, <2>8, <2>9, <2>10, <2>11, StepInv
<1>5. QED
  BY <1>2, <1>3, <1>4

\* The first use of a key takes a reference, and its entry into the table.
LEMMA RequestInv ==
  ASSUME StoAssumption, Inv, NEW t \in Thread, Request(t)
  PROVE  Inv'
<1>1. /\ Types /\ Books(t) /\ pc \in [Thread -> Label] /\ UsedCached
      /\ pc[t] = "run" /\ calls[t] # <<>> /\ CallKey(t) \notin writes[t]
  BY DEF Inv, Types, Request, Calling
<1>2. PICK k \in Key : k = CallKey(t)
  BY <1>1, CallTypes
<1>3. CASE k \in Elems(order[t])
  <2>1. /\ pc' = [pc EXCEPT ![t] = "lock"]
        /\ UNCHANGED <<build, global_ts, tableVars, db, txnVars, todo, hist>>
    BY <1>2, <1>3 DEF Request, Goto, txnVars
  <2>2. Types'
    BY <1>1, <2>1 DEF Types, tableVars, txnVars, Label
  <2>3. \A u \in Thread \ {t} : Same(u)
    BY <1>1, <2>1 DEF Same, txnVars
  <2>4. pc'[t] = "lock"
    BY <1>1, <2>1
  <2>5. Books(t)'
    BY <1>1, <1>2, <1>3, <2>1, <2>4 DEF Books, InCall, Looping, txnVars, CallKey
  <2>6. \A j \in Key : Locks(t, j)' = Locks(t, j) /\ Uses(t, j)' = Uses(t, j)
    BY <1>1, <2>1, <2>4 DEF Locks, Uses, Looping, txnVars
  <2>7. QED
    BY <2>1, <2>2, <2>3, <2>5, <2>6, QuietInv DEF tableVars
<1>4. CASE k \notin Elems(order[t])
  <2>1. /\ Pin(k) /\ order' = [order EXCEPT ![t] = Append(order[t], k)]
        /\ pc' = [pc EXCEPT ![t] = IF build = "cache" /\ k \notin cached THEN "load" ELSE "lock"]
        /\ UNCHANGED <<build, global_ts, db, count, ts, calls, writes, reads, todo, hist>>
    BY <1>2, <1>4 DEF Request, Goto
  <2>2. order[t] \in Seq(Key) /\ Distinct(order[t]) /\ Append(order[t], k) \in Seq(Key)
    BY <1>1, ThreadTypes DEF Books
  <2>3. /\ Elems(Append(order[t], k)) = Elems(order[t]) \cup {k}
        /\ Distinct(Append(order[t], k))
    BY <1>4, <2>2, AppendElems
  <2>4. /\ refs' \in [Key -> Nat] /\ stamp' \in [Key -> Stamp] /\ cached' = cached \cup {k}
        /\ UNCHANGED <<dirty, counter, header>>
        /\ build # "memory" => refs'[k] = refs[k] + 1
    BY <1>1, <2>1, LoadedType DEF Pin, Types
  <2>5. Types'
    BY <1>1, <2>1, <2>2, <2>4 DEF Types, Label
  <2>6. \A u \in Thread \ {t} : Same(u)
    BY <1>1, <2>1 DEF Same, Types
  <2>7. pc'[t] \in {"load", "lock"} /\ (pc'[t] = "load" => build = "cache")
        /\ order'[t] = Append(order[t], k)
    BY <1>1, <2>1 DEF Types
  <2>8. Books(t)'
    BY <1>1, <1>2, <2>1, <2>3, <2>7 DEF Books, InCall, Looping, CallKey
  <2>9. /\ \A j \in Key : /\ Locks(t, j)' = Locks(t, j)
                          /\ j # k => Uses(t, j)' = Uses(t, j)
        /\ Uses(t, k)' /\ ~Uses(t, k)
    BY <1>1, <1>4, <2>1, <2>3, <2>7 DEF Locks, Uses, Looping
  <2>10. \A j \in Key : j # k => refs'[j] = refs[j]
    BY <1>1, <2>1 DEF Pin, Types
  <2>11. QED
    BY <2>1, <2>4, <2>5, <2>6, <2>8, <2>9, <2>10, StepInv
<1>5. QED
  BY <1>3, <1>4

\* The clock takes an entry that nobody refers to.
LEMMA CheckLoadInv ==
  ASSUME StoAssumption, Inv, NEW t \in Thread, CheckLoad(t)
  PROVE  Inv'
<1>1. Types /\ Books(t) /\ pc \in [Thread -> Label] /\ pc[t] = "load" /\ build = "cache"
  BY DEF Inv, Types, CheckLoad, Books
<1>2. /\ pc' = [pc EXCEPT ![t] = "lock"]
      /\ UNCHANGED <<build, global_ts, db, txnVars, todo, hist>>
      /\ UNCHANGED tableVars \/ \E k \in Key : EvictEntry(k)
  BY DEF CheckLoad, Goto
<1>3. /\ UNCHANGED <<dirty, refs, counter>> /\ cached' \subseteq cached
      /\ \A k \in Key : k \in cached \ cached' => refs[k] = 0
      /\ stamp' \in [Key -> Stamp] /\ header' \in [Key -> Stamp]
  <2>1. CASE UNCHANGED tableVars
    BY <1>1, <2>1 DEF tableVars, Types
  <2>2. CASE \E k \in Key : EvictEntry(k)
    <3>1. PICK k \in Key : EvictEntry(k)
      BY <2>2
    <3>2. Zero \in Stamp /\ stamp[k] \in Stamp
      BY <1>1 DEF Zero, Stamp, Types
    <3>3. QED
      BY <1>1, <3>1, <3>2 DEF EvictEntry, WriteBack, Types
  <2>3. QED
    BY <1>2, <2>1, <2>2
<1>4. Types'
  BY <1>1, <1>2, <1>3 DEF Types, txnVars, Label
<1>5. \A u \in Thread \ {t} : Same(u)
  BY <1>1, <1>2 DEF Same, txnVars
<1>6. pc'[t] = "lock"
  BY <1>1, <1>2
<1>7. Books(t)'
  BY <1>1, <1>2, <1>6 DEF Books, InCall, Looping, txnVars, CallKey
<1>8. \A k \in Key : Locks(t, k)' = Locks(t, k) /\ Uses(t, k)' = Uses(t, k)
  BY <1>1, <1>2, <1>6 DEF Locks, Uses, Looping, txnVars
<1>9. QED
  BY <1>1, <1>2, <1>3, <1>4, <1>5, <1>7, <1>8, StepInv

\* A reference is given back.
LEMMA RemoveInv ==
  ASSUME StoAssumption, Inv, NEW t \in Thread, Remove(t)
  PROVE  Inv'
<1>1. /\ Types /\ Books(t) /\ pc \in [Thread -> Label] /\ pc[t] = "deinit"
      /\ todo[t] \in Seq(Key) /\ Distinct(todo[t]) /\ Elems(todo[t]) \subseteq Elems(order[t])
  BY ThreadTypes DEF Inv, Types, Remove, Books
<1>2. CASE todo[t] = <<>>
  <2>1. /\ pc' = [pc EXCEPT ![t] = "idle"]
        /\ UNCHANGED <<build, global_ts, tableVars, db, txnVars, todo, hist>>
    BY <1>2 DEF Remove, Goto
  <2>2. Types'
    BY <1>1, <2>1 DEF Types, tableVars, txnVars, Label
  <2>3. \A u \in Thread \ {t} : Same(u)
    BY <1>1, <2>1 DEF Same, txnVars
  <2>4. pc'[t] = "idle"
    BY <1>1, <2>1
  <2>5. Books(t)'
    BY <1>1, <2>1, <2>4 DEF Books, InCall, Looping, txnVars
  <2>6. Elems(todo[t]) = {}
    BY <1>2 DEF Elems
  <2>7. \A j \in Key : Locks(t, j)' = Locks(t, j) /\ Uses(t, j)' = Uses(t, j)
    BY <1>1, <2>1, <2>4, <2>6 DEF Locks, Uses, Looping, txnVars
  <2>8. QED
    BY <2>1, <2>2, <2>3, <2>5, <2>7, QuietInv DEF tableVars
<1>3. CASE todo[t] # <<>>
  <2>1. PICK k \in Key : k = Head(todo[t])
    BY <1>1, <1>3
  <2>2. /\ Tail(todo[t]) \in Seq(Key) /\ Distinct(Tail(todo[t]))
        /\ Elems(todo[t]) = Elems(Tail(todo[t])) \cup {k} /\ k \notin Elems(Tail(todo[t]))
    BY <1>1, <1>3, <2>1, HeadTailElems
  <2>3. /\ Unpin(k) /\ todo' = [todo EXCEPT ![t] = Tail(todo[t])]
        /\ UNCHANGED <<pc, build, global_ts, db, txnVars, hist>>
    BY <1>3, <2>1 DEF Remove
  <2>4. Uses(t, k)
    BY <1>1, <2>2 DEF Uses
  <2>5. /\ refs' \in [Key -> Nat] /\ UNCHANGED <<dirty, header>>
        /\ build # "memory" => refs'[k] = refs[k] - 1
        /\ \A j \in Key : j # k => refs'[j] = refs[j]
    BY <1>1, <2>3, <2>4, UsedCounted DEF Unpin, Types
  <2>6. /\ stamp' \in [Key -> Stamp] /\ counter' \in Stamp /\ cached' \in SUBSET Key
        /\ \A j \in Key : j # k => (j \in cached' <=> j \in cached)
        /\ k \in cached \ cached' => build = "counter" /\ refs[k] = 1
    <3>1. stamp[k] \in Stamp /\ counter \in Stamp /\ Zero \in Stamp
      BY <1>1 DEF Types, Zero, Stamp
    <3>2. Merge(counter, stamp[k]) \in Stamp
      BY <3>1 DEF Merge, Larger, Stamp
    <3>3. QED
      BY <1>1, <2>3, <3>1, <3>2 DEF Unpin, Types
  <2>7. Types'
    BY <1>1, <2>2, <2>3, <2>5, <2>6 DEF Types, txnVars
  <2>8. \A u \in Thread \ {t} : Same(u)
    BY <1>1, <2>3 DEF Same, txnVars, Types
  <2>9. pc'[t] = "deinit" /\ todo'[t] = Tail(todo[t])
    BY <1>1, <2>3 DEF Types
  <2>10. Books(t)'
    BY <1>1, <2>2, <2>3, <2>9 DEF Books, InCall, Looping, txnVars
  <2>11. /\ \A j \in Key : /\ Locks(t, j)' = Locks(t, j)
                           /\ j # k => Uses(t, j)' = Uses(t, j)
         /\ ~Uses(t, k)'
    BY <1>1, <2>2, <2>3, <2>9 DEF Locks, Uses, Looping, txnVars
  <2>12. k \in cached
    BY <2>4 DEF Inv, UsedCached
  <2>13. QED
    BY <2>3, <2>4, <2>5, <2>6, <2>7, <2>8, <2>10, <2>11, <2>12, StepInv
<1>4. QED
  BY <1>2, <1>3

\* The invariant is inductive.
LEMMA NextInv == StoAssumption /\ Inv /\ [Next]_vars => Inv'
<1> SUFFICES ASSUME StoAssumption, Inv, [Next]_vars PROVE Inv'
  OBVIOUS
<1>1. CASE UNCHANGED vars
  <2>1. Types'
    BY <1>1 DEF vars, tableVars, txnVars, Inv, Types
  <2>2. \A t \in Thread : Same(t) /\ build' = build
    BY <1>1 DEF vars, txnVars, Same
  <2>3. \A t \in Thread : /\ Books(t)'
                          /\ \A k \in Key : Locks(t, k)' = Locks(t, k) /\ Uses(t, k)' = Uses(t, k)
    BY <2>2, SameThread DEF Inv
  <2>4. \A k \in Key : Users(k)' = Users(k)
    BY <2>3 DEF Users
  <2>5. UNCHANGED <<build, dirty, refs, cached>>
    BY <1>1 DEF vars, tableVars
  <2>6. QED
    BY <2>1, <2>3, <2>4, <2>5 DEF Inv, UsedCached
<1>2. CASE \E t \in Thread : Step(t) \/ Abort(t)
  <2>1. PICK t \in Thread : Step(t) \/ Abort(t)
    BY <1>2
  <2>2. CASE Busy(t)
    BY <1>1, <2>2 DEF Busy
  <2>3. CASE ~Busy(t)
    BY <2>1, <2>3, BeginInv, CallInv, EndInv, LockInv, RequestInv, CheckLoadInv, RemoveInv DEF Step
  <2>4. QED
    BY <2>2, <2>3
<1>3. QED
  BY <1>1, <1>2 DEF Next, Done

THEOREM Invariance == StoAssumption => (Spec => []Inv)
<1> SUFFICES ASSUME StoAssumption PROVE Spec => []Inv
  OBVIOUS
<1>1. Init => Inv
  BY InitInv
<1>2. Inv /\ [Next]_vars => Inv'
  BY NextInv
<1>3. QED
  BY <1>1, <1>2, PTL DEF Spec

\* A transaction's uncommitted writes, and the key it is in the middle of
\* reading or writing, are locked by it, and nobody else's bit is left behind.
THEOREM BitsOwned == StoAssumption => (Spec => []DirtyOwned)
<1> SUFFICES ASSUME StoAssumption PROVE Spec => []DirtyOwned
  OBVIOUS
<1>1. Inv => DirtyOwned
  BY DEF Inv, DirtyOwned, Locks, Looping
<1>2. QED
  BY <1>1, Invariance, PTL

\* Every reference to an entry belongs to an rw_entry that will give it back,
\* so no entry leaves the table that a transaction uses.
THEOREM ReferencesOwned == StoAssumption => (Spec => []PinsOwned)
<1> SUFFICES ASSUME StoAssumption PROVE Spec => []PinsOwned
  OBVIOUS
<1>1. Inv => PinsOwned
  BY DEF Inv, PinsOwned, Users, Uses
<1>2. QED
  BY <1>1, Invariance, PTL

-----------------------------------------------------------------------------
(* The timestamps of a key.                                                *)

\* a is no later than b.
NotAfter(a, b) == a.wts <= b.wts /\ a.rts <= b.rts

\* Whoever locks a key refers to it, and its timestamps are in the table.
LEMMA LockedVisible ==
  ASSUME Inv, NEW t \in Thread, NEW k \in Key, Locks(t, k) \/ Uses(t, k)
  PROVE  Uses(t, k) /\ k \in cached /\ Visible(k) = stamp[k]
<1>1. Books(t)
  BY DEF Inv
<1>2. ASSUME Locks(t, k) PROVE Uses(t, k)
  <2>1. CASE pc[t] \in {"run", "load", "lock"} /\ k \in writes[t]
    BY <1>1, <2>1 DEF Books, Uses
  <2>2. CASE pc[t] \in {"stamp", "get", "raise"} /\ k \in writes[t] \cup {CallKey(t)}
    BY <1>1, <2>2 DEF Books, InCall, Uses
  <2>3. CASE Looping(t) /\ k \in Elems(todo[t])
    BY <1>1, <2>3 DEF Books, Looping, Uses
  <2>4. QED
    BY <1>2, <2>1, <2>2, <2>3 DEF Locks
<1>3. QED
  BY <1>2 DEF Inv, UsedCached, Visible

\* What merging and the sketch do to timestamps.
LEMMA MergeAfter ==
  ASSUME NEW a \in Stamp, NEW b \in Stamp, NEW c \in Stamp, NotAfter(b, c)
  PROVE  /\ Merge(a, b) \in Stamp /\ NotAfter(a, Merge(a, b)) /\ NotAfter(b, Merge(a, b))
         /\ NotAfter(Merge(a, b), Merge(a, c))
  BY DEF Stamp, NotAfter, Merge, Larger

\* No step makes the timestamps smaller that a key is known by, and those of a
\* key in use change only by a write or a lookup of it.
LEMMA VisibleStep ==
  ASSUME StoAssumption, Inv, Inv', NEW t \in Thread, Fits(t), Step(t) \/ Abort(t), NEW k \in Key
  PROVE  /\ NotAfter(Visible(k), Visible(k)')
         /\ (\E u \in Thread : Uses(u, k) /\ Uses(u, k)') =>
              \/ Visible(k)' = Visible(k)
              \/ (SetWts(t) \/ RaiseRts(t)) /\ k = CallKey(t)
<1>1. /\ Types /\ Books(t) /\ Visible(k) \in Stamp /\ stamp \in [Key -> Stamp]
      /\ counter \in Stamp /\ header \in [Key -> Stamp] /\ NotAfter(Visible(k), Visible(k))
  <2>1. Types /\ Books(t)
    BY DEF Inv
  <2>2. Visible(k) \in Stamp
    BY <2>1, LoadedType
  <2>3. NotAfter(Visible(k), Visible(k))
    BY <2>2 DEF NotAfter, Stamp
  <2>4. QED
    BY <2>1, <2>2, <2>3 DEF Types
<1>2. ASSUME NEW u \in Thread, Uses(u, k), Uses(u, k)'
      PROVE  k \in cached /\ k \in cached' /\ Visible(k) = stamp[k] /\ Visible(k)' = stamp'[k]
  BY <1>2 DEF Inv, UsedCached, Visible
<1>3. CASE UNCHANGED <<build, tableVars>>
  <2>1. Visible(k)' = Visible(k)
    BY <1>3 DEF tableVars, Visible, Loaded
  <2>2. QED
    BY <1>1, <2>1
<1>4. CASE Request(t)
  <2>1. SUFFICES ASSUME ~UNCHANGED <<build, tableVars>>
                 PROVE  Visible(k)' = Visible(k)
    BY <1>1, <1>3
  <2>2. PICK j : j = CallKey(t) /\ Pin(j) /\ build' = build
    BY <1>4, <2>1 DEF Request
  <2>3. CASE k = j /\ k \notin cached
    BY <1>1, <2>2, <2>3 DEF Pin, Visible
  <2>4. CASE k # j \/ k \in cached
    <3>1. stamp'[k] = stamp[k] /\ (k \in cached' <=> k \in cached)
      BY <1>1, <2>2, <2>4 DEF Pin
    <3>2. Loaded(k)' = Loaded(k)
      BY <2>2 DEF Pin, Loaded
    <3>3. QED
      BY <3>1, <3>2 DEF Visible
  <2>5. QED
    BY <2>3, <2>4
<1>5. CASE CheckLoad(t)
  <2>1. SUFFICES ASSUME ~UNCHANGED <<build, tableVars>>
                 PROVE  Visible(k)' = Visible(k)
    BY <1>1, <1>3
  <2>2. PICK j \in Key : EvictEntry(j) /\ build' = build /\ build = "cache"
    BY <1>1, <1>5, <2>1 DEF CheckLoad, Books
  <2>3. CASE k = j
    BY <1>1, <2>2, <2>3 DEF EvictEntry, WriteBack, Visible, Loaded
  <2>4. CASE k # j
    <3>1. /\ stamp'[k] = stamp[k] /\ (k \in cached' <=> k \in cached)
          /\ header'[k] = header[k]
      BY <1>1, <2>2, <2>4 DEF EvictEntry, WriteBack
    <3>2. QED
      BY <2>2, <3>1 DEF Visible, Loaded
  <2>5. QED
    BY <2>3, <2>4
<1>6. CASE TryLock(t) \/ Unlock(t)
  <2>1. UNCHANGED <<build, stamp, cached, counter, header>>
    BY <1>6 DEF TryLock, Unlock
  <2>2. Visible(k)' = Visible(k)
    BY <2>1 DEF Visible, Loaded
  <2>3. QED
    BY <1>1, <2>2
<1>7. CASE SetWts(t) \/ RaiseRts(t)
  <2>1. UNCHANGED <<build, cached, counter, header>>
    BY <1>7 DEF SetWts, RaiseRts
  <2>2. CASE k # CallKey(t)
    <3>1. stamp'[k] = stamp[k]
      BY <1>1, <1>7, <2>2 DEF SetWts, RaiseRts
    <3>2. Visible(k)' = Visible(k)
      BY <2>1, <3>1 DEF Visible, Loaded
    <3>3. QED
      BY <1>1, <3>2
  <2>3. CASE k = CallKey(t)
    <3>1. Locks(t, k)
      BY <1>7, <2>3 DEF SetWts, RaiseRts, Locks
    <3>2. k \in cached /\ k \in cached' /\ Visible(k) = stamp[k] /\ Visible(k)' = stamp'[k]
      BY <2>1, <3>1, LockedVisible DEF Visible
    <3>3. stamp[k] \in Stamp /\ ts[t] \in Nat
      BY <1>1, ThreadTypes
    <3>4. CASE SetWts(t)
      <4>1. stamp'[k] = [stamp[k] EXCEPT !.wts = ts[t]] /\ stamp[k].wts <= ts[t]
        BY <1>1, <2>3, <3>2, <3>4 DEF SetWts, Fits
      <4>2. QED
        BY <2>3, <3>2, <3>3, <3>4, <4>1 DEF NotAfter, Stamp
    <3>5. CASE RaiseRts(t)
      <4>1. stamp'[k] = [stamp[k] EXCEPT !.rts = Larger(stamp[k].rts, ts[t])]
        BY <1>1, <2>3, <3>5 DEF RaiseRts
      <4>2. QED
        BY <2>3, <3>2, <3>3, <3>5, <4>1 DEF NotAfter, Stamp, Larger
    <3>6. QED
      BY <1>7, <3>4, <3>5
  <2>4. QED
    BY <2>2, <2>3
<1>8. CASE Install(t)
  <2>1. todo[t] \in Seq(Key) /\ todo[t] # <<>>
    BY <1>1, <1>8, ThreadTypes DEF Install
  <2>2. PICK j \in Key : j = Head(todo[t])
    BY <2>1
  <2>3. /\ UNCHANGED <<build, stamp, cached, counter>>
        /\ k # j => header'[k] = header[k]
    BY <1>1, <1>8, <2>2 DEF Install
  <2>4. j \in cached
    <3>1. Locks(t, j)
      BY <1>8, <2>1, <2>2, HeadTailElems DEF Install, Locks, Looping
    <3>2. QED
      BY <3>1, LockedVisible
  <2>5. Visible(k)' = Visible(k)
    BY <2>3, <2>4 DEF Visible, Loaded
  <2>6. QED
    BY <1>1, <2>5
<1>9. CASE Remove(t)
  <2>1. SUFFICES ASSUME ~UNCHANGED <<build, tableVars>>
                 PROVE  /\ NotAfter(Visible(k), Visible(k)')
                        /\ k \in cached /\ k \in cached' => stamp'[k] = stamp[k]
    BY <1>1, <1>2, <1>3
  <2>2. PICK j \in Key : Unpin(j) /\ build' = build
    <3>1. todo[t] # <<>> /\ todo[t] \in Seq(Key)
      BY <1>1, <1>9, <2>1, ThreadTypes DEF Remove
    <3>2. QED
      BY <1>9, <3>1 DEF Remove
  <2>3. CASE ~(build = "counter" /\ refs[j] = 1)
    <3>1. UNCHANGED <<build, stamp, cached, counter, header>>
      BY <2>2, <2>3 DEF Unpin
    <3>2. Visible(k)' = Visible(k)
      BY <3>1 DEF Visible, Loaded
    <3>3. QED
      BY <1>1, <3>1, <3>2
  <2>4. CASE build = "counter" /\ refs[j] = 1
    <3>1. /\ counter' = Merge(counter, stamp[j]) /\ cached' = cached \ {j}
          /\ stamp' = [stamp EXCEPT ![j] = Zero]
      BY <2>2, <2>4 DEF Unpin
    <3>2. Zero \in Stamp
      BY DEF Zero, Stamp
    <3>3. CASE k \in cached /\ k # j
      <4>1. Visible(k)' = Visible(k) /\ stamp'[k] = stamp[k]
        BY <1>1, <3>1, <3>3 DEF Visible
      <4>2. QED
        BY <1>1, <4>1
    <3>4. CASE k \notin cached \/ k = j
      <4>1. PICK a \in Stamp : a = stamp[j]
        BY <1>1
      <4>2. PICK b \in Stamp : b = counter /\ counter' = Merge(b, a)
        BY <1>1, <3>1, <4>1
      <4>3. NotAfter(b, Merge(b, a)) /\ NotAfter(a, Merge(b, a)) /\ Merge(b, a) \in Stamp
        BY MergeAfter DEF NotAfter, Stamp
      <4>4. Visible(k)' = Merge(Zero, Merge(b, a)) /\ k \notin cached'
        BY <2>2, <2>4, <3>1, <3>4, <4>2 DEF Visible, Loaded
      <4>5. /\ NotAfter(Merge(Zero, b), Merge(Zero, Merge(b, a)))
            /\ NotAfter(Merge(b, a), Merge(Zero, Merge(b, a)))
        BY <3>2, <4>3, MergeAfter DEF NotAfter, Stamp
      <4>6. CASE k \notin cached
        BY <2>4, <4>2, <4>4, <4>5, <4>6 DEF Visible, Loaded
      <4>7. CASE k \in cached
        <5>1. Visible(k) = a
          BY <3>4, <4>1, <4>7 DEF Visible
        <5>2. Merge(Zero, Merge(b, a)) \in Stamp
          BY <3>2, <4>3, MergeAfter DEF NotAfter, Stamp
        <5>3. QED
          BY <4>3, <4>4, <4>5, <5>1, <5>2 DEF NotAfter, Stamp
      <4>8. QED
        BY <4>6, <4>7
    <3>5. QED
      BY <3>3, <3>4
  <2>5. QED
    BY <2>3, <2>4
<1>10. CASE Begin(t) \/ OwnWrite(t) \/ Busy(t) \/ Refuse(t) \/ Get(t) \/ CommitBegin(t) \/ Deinit(t) \/ Abort(t)
  <2>1. UNCHANGED <<build, tableVars>>
    BY <1>10 DEF Begin, OwnWrite, Busy, Refuse, Get, CommitBegin, Deinit, Abort, vars, tableVars
  <2>2. QED
    BY <1>3, <2>1
<1>11. QED
  BY <1>4, <1>5, <1>6, <1>7, <1>8, <1>9, <1>10 DEF Step

LEMMA InitTime == StoAssumption /\ Init => TimeInv
<1>1. Init => \A t \in Thread : Fits(t)
  BY DEF Init, Fits
<1>2. QED
  BY <1>1, InitInv DEF TimeInv

\* The key a thread is in the middle of reading or writing changes under its
\* own hands only.
LEMMA LockedSame ==
  ASSUME StoAssumption, Inv, Inv', NEW t \in Thread, Fits(t), Step(t) \/ Abort(t),
         NEW u \in Thread \ {t}, Same(u), build' = build, NEW k \in Key, Locks(u, k)
  PROVE  Visible(k)' = Visible(k)
<1>1. Uses(u, k) /\ Uses(u, k)'
  BY LockedVisible, SameThread
<1>2. ~((SetWts(t) \/ RaiseRts(t)) /\ k = CallKey(t))
  <2>1. ASSUME SetWts(t) \/ RaiseRts(t), k = CallKey(t) PROVE FALSE
    <3>1. Locks(t, k)
      BY <2>1 DEF SetWts, RaiseRts, Locks
    <3>2. dirty[k] = t /\ dirty[k] = u
      BY <3>1 DEF Inv
    <3>3. QED
      BY <3>2
  <2>2. QED
    BY <2>1
<1>3. QED
  BY <1>1, <1>2, VisibleStep

\* What all steps have in common: the others stay where they are.
LEMMA OthersSame ==
  ASSUME Inv, NEW t \in Thread, Step(t) \/ Abort(t), NEW u \in Thread \ {t}
  PROVE  /\ Same(u) /\ build' = build /\ count'[u] = count[u] /\ ts'[u] = ts[u]
         /\ reads'[u] = reads[u]
<1>1. Types
  BY DEF Inv
<1>2. CASE Begin(t) \/ OwnWrite(t) \/ Request(t) \/ CheckLoad(t) \/ TryLock(t) \/ Busy(t)
  BY <1>1, <1>2 DEF Begin, OwnWrite, Request, CheckLoad, TryLock, Busy, Types, Same, Goto,
     Return, txnVars, vars
<1>3. CASE Refuse(t) \/ SetWts(t) \/ Get(t) \/ RaiseRts(t) \/ CommitBegin(t)
  BY <1>1, <1>3 DEF Refuse, SetWts, Get, RaiseRts, CommitBegin, Types, Same, Goto, Return, txnVars
<1>4. CASE Install(t) \/ Unlock(t) \/ Deinit(t) \/ Remove(t) \/ Abort(t)
  BY <1>1, <1>4 DEF Install, Unlock, Deinit, Remove, Abort, Types, Same, Goto, txnVars
<1>5. QED
  BY <1>2, <1>3, <1>4 DEF Step

LEMMA NextTime == StoAssumption /\ TimeInv /\ [Next]_vars => TimeInv'
<1> SUFFICES ASSUME StoAssumption, TimeInv, [Next]_vars PROVE TimeInv'
  OBVIOUS
<1>1. Inv /\ Inv'
  BY NextInv DEF TimeInv
<1>2. CASE UNCHANGED vars
  BY <1>1, <1>2 DEF TimeInv, vars, tableVars, txnVars, Fits, Visible, Loaded, CallKey
<1>3. CASE \E t \in Thread : Step(t) \/ Abort(t)
  <2>1. PICK t \in Thread : Step(t) \/ Abort(t)
    BY <1>3
  <2>2. Fits(t) /\ Types /\ Books(t) /\ pc \in [Thread -> Label]
    BY <1>1 DEF TimeInv, Inv, Types
  <2>3. ASSUME NEW u \in Thread \ {t} PROVE Fits(u)'
    <3>1. Same(u) /\ build' = build /\ ts'[u] = ts[u] /\ Fits(u) /\ Books(u)
      BY <1>1, <2>1, OthersSame DEF TimeInv, Inv
    <3>2. SUFFICES ASSUME pc[u] \in {"stamp", "get", "raise"} PROVE Fits(u)'
      BY <3>1 DEF Same, Fits
    <3>3. PICK k \in Key : k = CallKey(u)
      BY <2>2, <3>1, <3>2, CallTypes DEF Books, InCall
    <3>4. Locks(u, k)
      BY <3>2, <3>3 DEF Locks
    <3>5. Visible(k)' = Visible(k)
      BY <1>1, <2>1, <2>2, <3>1, <3>4, LockedSame
    <3>6. k = CallKey(u)'
      BY <3>1, <3>3 DEF Same, CallKey
    <3>7. QED
      BY <3>1, <3>3, <3>5, <3>6 DEF Same, Fits
  <2>4. Fits(t)'
    <3>1. CASE TryLock(t)
      <4>1. PICK k \in Key : k = CallKey(t)
        BY <2>2, <3>1, CallTypes DEF TryLock, Books, InCall
      <4>2. Uses(t, k)
        BY <2>2, <3>1, <4>1 DEF TryLock, Books, InCall, Uses
      <4>3. Visible(k) = stamp[k] /\ k \in cached
        BY <1>1, <4>2, LockedVisible
      <4>4. /\ UNCHANGED <<build, stamp, cached, counter, header, ts, calls>> /\ ~Late(t, k)
            /\ pc'[t] = IF Writing(t) THEN "stamp" ELSE "get"
        BY <2>2, <3>1, <4>1 DEF TryLock, Goto, txnVars
      <4>5. Visible(k)' = stamp[k] /\ CallKey(t)' = k
        BY <4>1, <4>3, <4>4 DEF Visible, CallKey
      <4>6. stamp[k].wts \in Nat /\ stamp[k].rts \in Nat /\ ts[t] \in Nat
        BY <2>2, ThreadTypes DEF Types, Stamp
      <4>7. stamp[k].wts <= ts[t] /\ (Writing(t) => stamp[k].rts <= ts[t])
        BY <4>4, <4>6 DEF Late
      <4>8. PICK s : s = stamp[k]
        OBVIOUS
      <4>9. Visible(CallKey(t))' = s
        BY <4>5, <4>8
      <4>10. QED
        BY <4>4, <4>7, <4>8, <4>9 DEF Fits
    <3>2. CASE Get(t)
      <4>1. /\ UNCHANGED <<build, stamp, cached, counter, header, ts, calls>>
            /\ pc[t] = "get" /\ pc'[t] = "raise"
        BY <2>2, <3>2 DEF Get, Goto, tableVars
      <4>2. QED
        BY <2>2, <4>1 DEF Fits, Visible, Loaded, CallKey
    <3>3. CASE Busy(t)
      BY <2>2, <3>3 DEF Busy, vars, tableVars, txnVars, Fits, Visible, Loaded, CallKey
    <3>4. CASE ~(TryLock(t) \/ Get(t) \/ Busy(t))
      <4>1. pc'[t] \notin {"stamp", "get", "raise"}
        BY <2>1, <2>2, <3>4 DEF Step, Begin, OwnWrite, Request, CheckLoad, Refuse, SetWts,
           RaiseRts, CommitBegin, Install, Unlock, Deinit, Remove, Abort, Goto, Calling
      <4>2. QED
        BY <4>1 DEF Fits
    <3>5. QED
      BY <3>1, <3>2, <3>3, <3>4
  <2>5. QED
    BY <1>1, <2>3, <2>4 DEF TimeInv
<1>4. QED
  BY <1>2, <1>3 DEF Next, Done

\* No step makes the timestamps smaller that a key is known by.
LEMMA KeepsStep ==
  ASSUME StoAssumption, TimeInv, Inv', [Next]_vars
  PROVE  KeepsTimestamps
<1>1. \A k \in Key : Visible(k) \in Stamp
  BY LoadedType DEF TimeInv, Inv
<1>2. CASE UNCHANGED vars
  <2>1. \A k \in Key : Visible(k)' = Visible(k)
    BY <1>2 DEF vars, tableVars, Visible, Loaded
  <2>2. QED
    BY <1>1, <2>1 DEF KeepsTimestamps, Stamp
<1>3. CASE \E t \in Thread : Step(t) \/ Abort(t)
  <2>1. \A k \in Key : NotAfter(Visible(k), Visible(k)')
    BY <1>3, VisibleStep DEF TimeInv
  <2>2. QED
    BY <2>1 DEF KeepsTimestamps, NotAfter
<1>4. QED
  BY <1>2, <1>3 DEF Next, Done

\* Wherever a key's timestamps go, to the sketch, to the tuple or back, a later
\* transaction never finds smaller ones.
THEOREM TimestampsForward == StoAssumption => (Spec => [][KeepsTimestamps]_vars)
<1> SUFFICES ASSUME StoAssumption PROVE Spec => [][KeepsTimestamps]_vars
  OBVIOUS
<1>1. Init => TimeInv
  BY InitTime
<1>2. TimeInv /\ [Next]_vars => TimeInv'
  BY NextTime
<1>3. TimeInv /\ TimeInv' /\ [Next]_vars => [KeepsTimestamps]_vars
  BY KeepsStep DEF TimeInv
<1>4. QED
  BY <1>1, <1>2, <1>3, PTL DEF Spec

-----------------------------------------------------------------------------
(* The serial order.                                                       *)

\* The types of what has committed.
LEMMA HistTypes ==
  ASSUME Types, NEW h \in hist
  PROVE  /\ h.cts \in Nat /\ h.id \in Txn /\ h.id[1] \in Thread /\ h.id[2] \in Nat
         /\ \A r \in h.reads : r.key \in Key /\ r.ver \in Nat
  BY DEF Types, Commit, Read, Txn

\* What is to be written is locked.
LEMMA WritesLocked ==
  ASSUME Inv, NEW t \in Thread, NEW k \in Key, k \in Writes(t) \/ k \in Unstored(t)
  PROVE  Locks(t, k) /\ dirty[k] = t /\ k \in Writes(t)
<1>1. Types /\ Books(t) /\ (dirty[k] = t <=> Locks(t, k))
  BY DEF Inv
<1>2. CASE pc[t] = "unlock"
  <2>1. Elems(Tail(todo[t])) \subseteq Elems(todo[t])
    BY <1>1, <1>2, ThreadTypes, HeadTailElems DEF Books
  <2>2. QED
    BY <1>1, <1>2, <2>1 DEF Writes, Unstored, Locks, Looping, Running
<1>3. CASE pc[t] # "unlock"
  BY <1>1, <1>3 DEF Writes, Unstored, Locks, Looping, Running
<1>4. QED
  BY <1>2, <1>3

\* What is to be written is a key of the transaction.
LEMMA UnstoredKeys ==
  ASSUME Inv, NEW t \in Thread
  PROVE  /\ Unstored(t) \subseteq Key /\ Writes(t) \subseteq Key
<1>1. Types /\ Books(t)
  BY DEF Inv
<1>2. Unstored(t) \subseteq Key
  <2>1. Elems(todo[t]) \subseteq Key /\ writes[t] \subseteq Key
    BY <1>1, ThreadTypes DEF Elems
  <2>2. pc[t] = "unlock" => Elems(Tail(todo[t])) \subseteq Elems(todo[t])
    BY <1>1, ThreadTypes, HeadTailElems DEF Books
  <2>3. QED
    BY <2>1, <2>2 DEF Unstored
<1>3. pc[t] = "stamp" => CallKey(t) \in Key
  BY <1>1, CallTypes DEF Books, InCall
<1>4. QED
  BY <1>1, <1>2, <1>3, ThreadTypes DEF Writes

\* And one it has a reference to, after a step too.
LEMMA UnstoredUsed ==
  ASSUME Inv', NEW t \in Thread
  PROVE  \A k \in Unstored(t)' : Uses(t, k)'
<1>1. Types' /\ Books(t)' /\ todo' \in [Thread -> Seq(Key)]
  BY DEF Inv, Types
<1>2. pc'[t] = "unlock" => Elems(Tail(todo'[t])) \subseteq Elems(todo'[t])
  <2>1. todo'[t] \in Seq(Key)
    BY <1>1
  <2>2. pc'[t] = "unlock" => todo'[t] # <<>>
    BY <1>1 DEF Books
  <2>3. QED
    BY <2>1, <2>2, HeadTailElems
<1>3. CASE Running(t)'
  BY <1>1, <1>3 DEF Unstored, Uses, Books, Running
<1>4. CASE ~Running(t)'
  BY <1>1, <1>2, <1>4 DEF Unstored, Uses, Books, Looping, Elems
<1>5. QED
  BY <1>3, <1>4

\* What a step adds to the history.
LEMMA HistoryStep ==
  ASSUME NEW t \in Thread, Step(t) \/ Abort(t)
  PROVE  /\ hist \subseteq hist' /\ (hist' # hist => CommitBegin(t))
         /\ db' = db \/ Install(t)
  BY DEF Step, Begin, OwnWrite, Request, CheckLoad, TryLock, Busy, Refuse, SetWts, Get,
     RaiseRts, CommitBegin, Install, Unlock, Deinit, Remove, Abort, vars

\* What it adds to a key: the version of a transaction that has it locked and
\* had yet to store it.
LEMMA VersionsStep ==
  ASSUME StoAssumption, Inv, NEW t \in Thread, Step(t) \/ Abort(t), NEW k \in Key
  PROVE  /\ db[k] \in Seq(Txn) /\ Len(db[k]) \in Nat /\ DOMAIN db[k] = 1 .. Len(db[k])
         /\ \/ db'[k] = db[k]
            \/ /\ Install(t) /\ hist' = hist /\ k = Head(todo[t]) /\ k \in Unstored(t)
               /\ Len(db'[k]) = Len(db[k]) + 1 /\ DOMAIN db'[k] = 1 .. Len(db[k]) + 1
               /\ \A j \in 1 .. Len(db[k]) : db'[k][j] = db[k][j]
               /\ db'[k][Len(db[k]) + 1] = Id(t)
<1>1. Types /\ db \in [Key -> Seq(Txn)]
  BY DEF Inv, Types
<1>2. db[k] \in Seq(Txn) /\ Len(db[k]) \in Nat /\ DOMAIN db[k] = 1 .. Len(db[k])
  BY <1>1
<1>3. CASE Install(t)
  <2>1. /\ todo[t] \in Seq(Key) /\ todo[t] # <<>> /\ pc[t] = "install" /\ hist' = hist
        /\ db' = [db EXCEPT ![Head(todo[t])] = Append(@, Id(t))]
    BY <1>1, <1>3, ThreadTypes DEF Install
  <2>2. Head(todo[t]) \in Unstored(t)
    BY <2>1, HeadTailElems DEF Unstored, Running
  <2>3. CASE k # Head(todo[t])
    BY <1>1, <1>2, <2>1, <2>3
  <2>4. CASE k = Head(todo[t])
    <3>1. db'[k] = Append(db[k], Id(t))
      BY <1>1, <2>1, <2>4
    <3>2. QED
      BY <1>2, <1>3, <2>1, <2>2, <2>4, <3>1
  <2>5. QED
    BY <2>3, <2>4
<1>4. CASE ~Install(t)
  BY <1>2, <1>4, HistoryStep
<1>5. QED
  BY <1>3, <1>4

\* Timestamps tell transactions apart after a step as they did before.
LEMMA TimesStep ==
  ASSUME StoAssumption, Inv, TimesApart, NEW t \in Thread, Step(t) \/ Abort(t)
  PROVE  TimesApart'
<1>1. /\ Types /\ pc \in [Thread -> Label] /\ ts \in [Thread -> Nat] /\ count \in [Thread -> Nat]
      /\ global_ts \in Nat
  BY DEF Inv, Types
<1>2. \A h \in hist : h.cts \in Nat /\ h.id[1] \in Thread /\ h.id[2] \in Nat
  BY <1>1, HistTypes
<1>3. CASE Begin(t)
  <2>1. /\ global_ts' = global_ts + 1 /\ hist' = hist
        /\ \A u \in Thread : u # t => ts'[u] = ts[u] /\ count'[u] = count[u] /\ pc'[u] = pc[u]
        /\ ts'[t] = global_ts + 1 /\ count'[t] = count[t] + 1
    BY <1>1, <1>3 DEF Begin, Goto
  <2>2. \A u \in Thread : u # t => Id(u)' = Id(u) /\ Running(u)' = Running(u)
    BY <2>1 DEF Id, Running
  <2>3. Id(t)' = <<t, count[t] + 1>>
    BY <2>1 DEF Id
  <2>4. \A u \in Thread : ts'[u] <= global_ts' /\ (pc'[u] # "idle" => ts'[u] > 0)
    BY <1>1, <2>1 DEF TimesApart
  <2>5. \A u, v \in Thread : ts'[u] = ts'[v] => u = v \/ ts'[u] = 0
    BY <1>1, <2>1 DEF TimesApart
  <2>6. ASSUME NEW h \in hist
        PROVE  /\ 0 < h.cts /\ h.cts <= global_ts' /\ h.id[2] <= count'[h.id[1]]
               /\ \A u \in Thread : h.cts = ts'[u] => h.id = Id(u)'
               /\ \A u \in Thread : h.id = Id(u)' => h.cts = ts'[u] /\ ~Running(u)'
    <3>1. h.cts <= global_ts /\ 0 < h.cts /\ h.id[2] <= count[h.id[1]]
      BY DEF TimesApart
    <3>2. h.cts # ts'[t]
      BY <1>1, <1>2, <2>1, <3>1
    <3>3. h.id # Id(t)'
      BY <1>1, <1>2, <2>3, <3>1
    <3>4. h.cts <= global_ts' /\ h.id[2] <= count'[h.id[1]]
      BY <1>1, <1>2, <2>1, <3>1
    <3>5. \A u \in Thread : u # t => /\ h.cts = ts'[u] => h.id = Id(u)'
                                     /\ h.id = Id(u)' => h.cts = ts'[u] /\ ~Running(u)'
      BY <2>1, <2>2 DEF TimesApart
    <3>6. QED
      BY <3>1, <3>2, <3>3, <3>4, <3>5
  <2>7. QED
    BY <2>1, <2>4, <2>5, <2>6 DEF TimesApart
<1>4. CASE ~Begin(t)
  <2>1. UNCHANGED <<ts, count, global_ts>>
    BY <1>4 DEF Step, OwnWrite, Request, CheckLoad, TryLock, Busy, Refuse, SetWts, Get,
       RaiseRts, CommitBegin, Install, Unlock, Deinit, Remove, Abort, vars, txnVars
  <2>2. \A u \in Thread : Running(u)' => Running(u)
    <3>1. Running(t)' => Running(t)
      BY <1>1, <1>4 DEF Step, OwnWrite, Request, CheckLoad, TryLock, Busy, Refuse, SetWts, Get,
         RaiseRts, CommitBegin, Install, Unlock, Deinit, Remove, Abort, vars, Running, Goto, Calling
    <3>2. QED
      BY <3>1, OthersSame DEF Same, Running
  <2>3. pc'[t] # "idle" => pc[t] # "idle"
    BY <1>1, <1>4 DEF Step, OwnWrite, Request, CheckLoad, TryLock, Busy, Refuse, SetWts, Get,
       RaiseRts, CommitBegin, Install, Unlock, Deinit, Remove, Abort, vars, Goto, Calling
  <2>4. \A u \in Thread : pc'[u] # "idle" => pc[u] # "idle"
    BY <2>3, OthersSame DEF Same
  <2>5. CASE ~CommitBegin(t)
    BY <2>1, <2>2, <2>4, <2>5, HistoryStep DEF TimesApart, Id
  <2>6. CASE CommitBegin(t)
    <3>1. PICK n : n = [id |-> Id(t), cts |-> ts[t], reads |-> reads[t]]
      OBVIOUS
    <3>2. /\ hist' = hist \cup {n} /\ n.id = Id(t) /\ n.cts = ts[t] /\ Running(t) /\ ~Running(t)'
          /\ pc[t] # "idle"
      BY <1>1, <2>6, <3>1 DEF CommitBegin, Running, Goto
    <3>3. /\ 0 < n.cts /\ n.cts <= global_ts
          /\ n.id[2] <= count[n.id[1]]
          /\ \A u \in Thread : n.cts = ts[u] => u = t
          /\ \A u \in Thread : n.id = Id(u) => u = t
      BY <1>1, <3>2 DEF TimesApart, Id
    <3>4. \A h \in hist : h.id # n.id /\ h.cts # n.cts
      BY <3>2 DEF TimesApart
    <3>5. \A u \in Thread : Id(u)' = Id(u)
      BY <2>1 DEF Id
    <3>6. ASSUME NEW h \in hist'
          PROVE  /\ 0 < h.cts /\ h.cts <= global_ts /\ h.id[2] <= count[h.id[1]]
                 /\ \A u \in Thread : h.cts = ts[u] => h.id = Id(u)
                 /\ \A u \in Thread : h.id = Id(u) => h.cts = ts[u] /\ ~Running(u)'
      <4>1. CASE h \in hist
        BY <2>2, <4>1 DEF TimesApart
      <4>2. CASE h = n
        BY <3>2, <3>3, <4>2
      <4>3. QED
        BY <3>2, <4>1, <4>2
    <3>7. \A g, h \in hist' : g.id = h.id \/ g.cts = h.cts => g = h
      BY <3>2, <3>4 DEF TimesApart
    <3>8. QED
      BY <2>1, <2>4, <3>5, <3>6, <3>7 DEF TimesApart
  <2>7. QED
    BY <2>5, <2>6
<1>5. QED
  BY <1>3, <1>4

\* Who stores its writes has committed, still.
LEMMA CommittedStep ==
  ASSUME Inv, NEW t \in Thread, Step(t) \/ Abort(t), NEW u \in Thread, Committed(u)
  PROVE  Committed(u)'
<1>1. Types /\ hist \subseteq hist'
  BY HistoryStep DEF Inv
<1>2. CASE u # t
  <2>1. pc'[u] = pc[u] /\ Id(u)' = Id(u) /\ ts'[u] = ts[u]
    BY <1>2, OthersSame DEF Same, Id
  <2>2. QED
    BY <1>1, <2>1 DEF Committed
<1>3. CASE u = t
  <2>1. SUFFICES ASSUME pc'[t] \in {"install", "unlock"}
                 PROVE  \E h \in hist' : h.id = Id(t)' /\ h.cts = ts'[t]
    BY <1>3 DEF Committed
  <2>2. UNCHANGED <<ts, count>> /\ (CommitBegin(t) \/ pc[t] \in {"install", "unlock"})
    BY <1>1, <2>1 DEF Types, Step, Begin, OwnWrite, Request, CheckLoad, TryLock, Busy, Refuse,
       SetWts, Get, RaiseRts, CommitBegin, Install, Unlock, Deinit, Remove, Abort, vars, txnVars, Goto
  <2>3. Id(t)' = Id(t)
    BY <2>2 DEF Id
  <2>4. CASE CommitBegin(t)
    <3>1. [id |-> Id(t), cts |-> ts[t], reads |-> reads[t]] \in hist'
      BY <2>4 DEF CommitBegin
    <3>2. QED
      BY <2>2, <2>3, <3>1
  <2>5. CASE pc[t] \in {"install", "unlock"}
    BY <1>1, <1>3, <2>2, <2>3, <2>5 DEF Committed
  <2>6. QED
    BY <2>2, <2>4, <2>5
<1>4. QED
  BY <1>2, <1>3

\* The writer of a version that was there has its commit in the history that
\* was there.
LEMMA OldCommit ==
  ASSUME VersionsOrdered, TimesApart', hist \subseteq hist', NEW k \in Key,
         NEW i \in DOMAIN db[k], NEW h \in hist', h.id = db[k][i]
  PROVE  h \in hist
<1>1. PICK g \in hist : g.id = db[k][i]
  BY DEF VersionsOrdered
<1>2. QED
  BY <1>1 DEF TimesApart

\* The versions of a key stay in the order of their timestamps.
LEMMA OrderedStep ==
  ASSUME StoAssumption, SerialInv, Inv', TimesApart', NEW t \in Thread, Step(t) \/ Abort(t)
  PROVE  VersionsOrdered'
<1>1. Inv /\ Types /\ hist \subseteq hist' /\ VersionsOrdered /\ TimesApart /\ Fits(t)
  BY HistoryStep DEF SerialInv, TimeInv, Inv
<1>2. SUFFICES ASSUME NEW k \in Key
               PROVE /\ \A i \in DOMAIN db'[k] : \E h \in hist' : h.id = db'[k][i]
                     /\ \A i \in DOMAIN db'[k] : \A h \in hist' :
                          h.id = db'[k][i] => h.cts <= Visible(k)'.wts
                     /\ \A i, j \in DOMAIN db'[k] : \A g, h \in hist' :
                          i < j /\ g.id = db'[k][i] /\ h.id = db'[k][j] => g.cts < h.cts
  BY DEF VersionsOrdered
<1>3. /\ Len(db[k]) \in Nat /\ DOMAIN db[k] = 1 .. Len(db[k])
  BY <1>1, VersionsStep
<1>4. Visible(k).wts <= Visible(k)'.wts
  BY <1>1, VisibleStep DEF NotAfter
<1>5. Visible(k).wts \in Nat /\ Visible(k)'.wts \in Nat
  <2>1. Visible(k) \in Stamp
    BY <1>1, LoadedType
  <2>2. Visible(k)' \in Stamp
    BY VisibleType DEF Inv
  <2>3. QED
    BY <2>1, <2>2 DEF Stamp
<1>6. ASSUME NEW i \in DOMAIN db[k]
      PROVE  /\ \E h \in hist' : h.id = db[k][i]
             /\ \A h \in hist' : h.id = db[k][i] => h \in hist /\ h.cts <= Visible(k)'.wts
  <2>1. \E h \in hist : h.id = db[k][i]
    BY <1>1 DEF VersionsOrdered
  <2>2. ASSUME NEW h \in hist', h.id = db[k][i] PROVE h \in hist /\ h.cts <= Visible(k)'.wts
    <3>1. h \in hist
      BY <1>1, <2>2, OldCommit
    <3>2. h.cts <= Visible(k).wts /\ h.cts \in Nat
      BY <1>1, <2>2, <3>1, HistTypes DEF VersionsOrdered
    <3>3. QED
      BY <1>4, <1>5, <3>1, <3>2
  <2>3. QED
    BY <1>1, <2>1, <2>2
<1>7. \A i, j \in DOMAIN db[k] : \A g, h \in hist' :
        i < j /\ g.id = db[k][i] /\ h.id = db[k][j] => g.cts < h.cts
  BY <1>1, <1>6 DEF VersionsOrdered
<1>8. CASE db'[k] = db[k]
  BY <1>6, <1>7, <1>8
<1>9. CASE db'[k] # db[k]
  <2>1. /\ Install(t) /\ hist' = hist /\ k \in Unstored(t)
        /\ DOMAIN db'[k] = 1 .. Len(db[k]) + 1
        /\ \A j \in 1 .. Len(db[k]) : db'[k][j] = db[k][j]
        /\ db'[k][Len(db[k]) + 1] = Id(t)
    BY <1>1, <1>9, VersionsStep
  <2>2. \A i \in 1 .. Len(db[k]) + 1 : i \in 1 .. Len(db[k]) \/ i = Len(db[k]) + 1
    BY <1>3
  <2>3. \E h \in hist : h.id = Id(t)
    BY <2>1 DEF SerialInv, Committed, Install
  <2>4. \A h \in hist : h.id = Id(t) => h.cts = ts[t]
    BY <1>1 DEF TimesApart
  <2>5. /\ Visible(k).wts = ts[t]
        /\ \A i \in DOMAIN db[k] : \A h \in hist : h.id = db[k][i] => h.cts < ts[t]
    BY <2>1 DEF SerialInv, WritesLast
  <2>6. \A i \in DOMAIN db'[k] : \E h \in hist' : h.id = db'[k][i]
    BY <1>3, <1>6, <2>1, <2>2, <2>3
  <2>7. \A i \in DOMAIN db'[k] : \A h \in hist' : h.id = db'[k][i] => h.cts <= Visible(k)'.wts
    BY <1>3, <1>4, <1>6, <2>1, <2>2, <2>4, <2>5
  <2>8. ASSUME NEW i \in DOMAIN db'[k], NEW j \in DOMAIN db'[k], NEW g \in hist', NEW h \in hist',
               i < j, g.id = db'[k][i], h.id = db'[k][j]
        PROVE  g.cts < h.cts
    <3>1. i \in 1 .. Len(db[k])
      BY <1>3, <2>1, <2>8
    <3>2. g.id = db[k][i] /\ g \in hist /\ h \in hist
      BY <2>1, <2>8, <3>1
    <3>3. CASE j \in 1 .. Len(db[k])
      <4>1. h.id = db[k][j]
        BY <2>1, <2>8, <3>3
      <4>2. QED
        BY <1>3, <1>7, <2>1, <2>8, <3>1, <3>2, <3>3, <4>1
    <3>4. CASE j = Len(db[k]) + 1
      <4>1. h.cts = ts[t]
        BY <2>1, <2>4, <2>8, <3>2, <3>4
      <4>2. QED
        BY <1>3, <2>5, <3>1, <3>2, <4>1
    <3>5. QED
      BY <2>1, <2>2, <3>3, <3>4
  <2>9. QED
    BY <2>6, <2>7, <2>8
<1>10. QED
  BY <1>8, <1>9

\* What a step adds to the writes that are to come.
LEMMA UnstoredStep ==
  ASSUME StoAssumption, Inv, NEW t \in Thread, Step(t) \/ Abort(t)
  PROVE  /\ \A k \in Unstored(t)' : k \in Unstored(t) \/ (SetWts(t) /\ k = CallKey(t))
         /\ \A k \in Writes(t)' : k \in Writes(t) \/ (TryLock(t) /\ Writing(t) /\ k = CallKey(t))
         /\ Install(t) => Head(todo[t]) \notin Unstored(t)'
         /\ Begin(t) => Unstored(t)' = {} /\ Writes(t)' = {}
         /\ ~Begin(t) => ts' = ts /\ Id(t)' = Id(t)
<1>1. /\ Types /\ Books(t) /\ pc \in [Thread -> Label] /\ writes \in [Thread -> SUBSET Key]
      /\ todo \in [Thread -> Seq(Key)] /\ todo[t] \in Seq(Key)
  BY ThreadTypes DEF Inv, Types
<1>2. CASE Begin(t)
  <2>1. pc'[t] = "run" /\ writes'[t] = {}
    BY <1>1, <1>2 DEF Begin, Goto
  <2>2. Unstored(t)' = {} /\ Writes(t)' = {}
    BY <2>1 DEF Unstored, Writes, Running
  <2>3. ~Install(t)
    BY <1>2 DEF Begin, Install
  <2>4. QED
    BY <1>2, <2>2, <2>3
<1>3. CASE ~Begin(t)
  <2>1. ts' = ts /\ count' = count
    BY <1>3 DEF Step, OwnWrite, Request, CheckLoad, TryLock, Busy, Refuse, SetWts, Get,
       RaiseRts, CommitBegin, Install, Unlock, Deinit, Remove, Abort, vars, txnVars
  <2>2. Id(t)' = Id(t)
    BY <2>1 DEF Id
  <2>3. CASE OwnWrite(t) \/ Request(t) \/ CheckLoad(t) \/ Get(t) \/ RaiseRts(t)
    <3>1. /\ Running(t) /\ Running(t)' /\ pc[t] # "stamp" /\ pc'[t] # "stamp" /\ writes' = writes
      BY <1>1, <2>3 DEF OwnWrite, Request, CheckLoad, Get, RaiseRts, Calling, Goto, Running, txnVars
    <3>2. ~Install(t)
      BY <3>1 DEF Install, Running
    <3>3. Unstored(t)' = Unstored(t) /\ Writes(t)' = Writes(t)
      BY <3>1 DEF Unstored, Writes, Running
    <3>4. QED
      BY <1>3, <2>1, <2>2, <3>2, <3>3
  <2>4. CASE TryLock(t)
    <3>1. /\ Running(t) /\ Running(t)' /\ pc[t] # "stamp" /\ writes' = writes /\ calls' = calls
          /\ pc'[t] = "stamp" => Writing(t)
      BY <1>1, <2>4 DEF TryLock, Goto, Running, txnVars
    <3>2. ~Install(t) /\ CallKey(t)' = CallKey(t)
      BY <3>1 DEF Install, Running, CallKey
    <3>3. Unstored(t)' = Unstored(t) /\ Writes(t) = writes[t]
      BY <3>1 DEF Unstored, Writes, Running
    <3>4. \A k \in Writes(t)' : k \in writes[t] \/ (Writing(t) /\ k = CallKey(t))
      BY <3>1, <3>2 DEF Unstored, Writes, Running
    <3>5. QED
      BY <1>3, <2>1, <2>2, <2>4, <3>2, <3>3, <3>4
  <2>5. CASE SetWts(t)
    <3>1. /\ Running(t) /\ Running(t)' /\ pc[t] = "stamp" /\ pc'[t] # "stamp"
          /\ writes'[t] = writes[t] \cup {CallKey(t)}
      BY <1>1, <2>5 DEF SetWts, Goto, Running
    <3>2. ~Install(t)
      BY <3>1 DEF Install
    <3>3. /\ Unstored(t) = writes[t] /\ Unstored(t)' = writes[t] \cup {CallKey(t)}
          /\ Writes(t)' = Writes(t)
      BY <3>1 DEF Unstored, Writes, Running
    <3>4. QED
      BY <1>3, <2>1, <2>2, <2>5, <3>2, <3>3
  <2>6. CASE Refuse(t) \/ Abort(t) \/ Deinit(t) \/ Remove(t)
    <3>1. pc'[t] \in {"abort", "deinit", "idle"}
      BY <1>1, <2>6 DEF Refuse, Abort, Deinit, Remove, Goto
    <3>2. Unstored(t)' = {} /\ Writes(t)' = {}
      BY <3>1 DEF Unstored, Writes, Running
    <3>3. Install(t) => Head(todo[t]) \notin Unstored(t)'
      BY <3>2
    <3>4. QED
      BY <1>3, <2>1, <2>2, <3>2, <3>3
  <2>7. CASE CommitBegin(t)
    <3>1. /\ pc[t] = "run" /\ pc'[t] = "install" /\ todo'[t] = Held(t)
      BY <1>1, <2>7 DEF CommitBegin, Goto
    <3>2. Elems(Held(t)) \subseteq writes[t]
      BY <1>1, ThreadTypes, HeldKeys DEF Books
    <3>3. Unstored(t) = writes[t] /\ Writes(t) = writes[t] /\ Unstored(t)' = Elems(Held(t)) /\ Writes(t)' = Elems(Held(t))
      BY <3>1 DEF Unstored, Writes, Running, Elems
    <3>4. ~Install(t)
      BY <3>1 DEF Install
    <3>5. QED
      BY <1>3, <2>1, <2>2, <3>2, <3>3, <3>4
  <2>8. CASE Install(t)
    <3>1. /\ pc[t] = "install" /\ pc'[t] = "unlock" /\ todo'[t] = todo[t] /\ todo[t] # <<>>
      BY <1>1, <2>8 DEF Install, Goto
    <3>2. /\ Unstored(t) = Elems(todo[t]) /\ Writes(t) = Elems(todo[t])
          /\ Unstored(t)' = Elems(Tail(todo[t])) /\ Writes(t)' = Elems(Tail(todo[t]))
      BY <3>1 DEF Unstored, Writes, Running, Elems
    <3>3. Elems(Tail(todo[t])) \subseteq Elems(todo[t]) /\ Head(todo[t]) \notin Elems(Tail(todo[t]))
      BY <1>1, <3>1, HeadTailElems DEF Books
    <3>4. QED
      BY <1>3, <2>1, <2>2, <3>2, <3>3
  <2>9. CASE Unlock(t)
    <3>1. /\ todo'[t] = Tail(todo[t])
          /\ \/ pc[t] = "unlock" /\ pc'[t] = "install"
             \/ pc[t] = "abort" /\ pc'[t] = "abort"
      BY <1>1, <2>9 DEF Unlock, Goto
    <3>2. Unstored(t)' = Unstored(t) /\ Writes(t)' = Writes(t)
      BY <3>1 DEF Unstored, Writes, Running, Elems
    <3>3. ~Install(t)
      BY <3>1 DEF Install
    <3>4. QED
      BY <1>3, <2>1, <2>2, <3>2, <3>3
  <2>10. CASE Busy(t)
    <3>1. UNCHANGED <<pc, writes, todo, calls>> /\ ~Install(t)
      BY <2>10 DEF Busy, vars, txnVars, Install
    <3>2. Unstored(t)' = Unstored(t) /\ Writes(t)' = Writes(t)
      BY <3>1 DEF Unstored, Writes, Running, Elems, CallKey
    <3>3. QED
      BY <1>3, <2>1, <2>2, <3>1, <3>2
  <2>11. QED
    BY <1>3, <2>3, <2>4, <2>5, <2>6, <2>7, <2>8, <2>9, <2>10 DEF Step
<1>4. QED
  BY <1>2, <1>3

\* The other threads' writes are those of before.
LEMMA OthersWrites ==
  ASSUME Inv, NEW t \in Thread, Step(t) \/ Abort(t), NEW u \in Thread \ {t}
  PROVE  /\ Unstored(u)' = Unstored(u) /\ Writes(u)' = Writes(u) /\ Running(u)' = Running(u)
         /\ Id(u)' = Id(u) /\ ts'[u] = ts[u] /\ reads'[u] = reads[u]
<1>1. Same(u) /\ count'[u] = count[u] /\ ts'[u] = ts[u] /\ reads'[u] = reads[u]
  BY OthersSame
<1>2. QED
  BY <1>1 DEF Same, Unstored, Writes, Running, Id, CallKey, Elems

\* A key that is to be written keeps the timestamp of its writer.
LEMMA WritesLastStep ==
  ASSUME StoAssumption, SerialInv, Inv', TimesApart', NEW t \in Thread, Step(t) \/ Abort(t),
         NEW u \in Thread
  PROVE  WritesLast(u)'
<1>1. /\ Inv /\ Types /\ hist \subseteq hist' /\ VersionsOrdered /\ TimesApart /\ Fits(t)
      /\ WritesLast(u) /\ Books(t) /\ ts \in [Thread -> Nat]
  BY HistoryStep DEF SerialInv, TimeInv, Inv, Types
<1>2. SUFFICES ASSUME NEW k \in Unstored(u)'
               PROVE /\ Visible(k)'.wts = ts'[u]
                     /\ \A i \in DOMAIN db'[k] : \A h \in hist' :
                          h.id = db'[k][i] => h.cts < ts'[u]
  BY DEF WritesLast
<1>3. ASSUME k \in Key, db'[k] = db[k], k \in Unstored(u), ts'[u] = ts[u], Visible(k)' = Visible(k)
      PROVE  /\ Visible(k)'.wts = ts'[u]
             /\ \A i \in DOMAIN db'[k] : \A h \in hist' : h.id = db'[k][i] => h.cts < ts'[u]
  <2>1. \A i \in DOMAIN db[k] : \A h \in hist' : h.id = db[k][i] => h \in hist
    BY <1>1, <1>3, OldCommit
  <2>2. QED
    BY <1>1, <1>3, <2>1 DEF WritesLast
<1>4. CASE u # t
  <2>1. /\ Unstored(u)' = Unstored(u) /\ ts'[u] = ts[u] /\ Same(u) /\ build' = build
    BY <1>1, <1>4, OthersWrites, OthersSame
  <2>2. k \in Key
    BY <1>1, <2>1, UnstoredKeys
  <2>3. Locks(u, k) /\ dirty[k] = u
    BY <1>1, <2>1, <2>2, WritesLocked
  <2>4. Visible(k)' = Visible(k)
    BY <1>1, <1>4, <2>1, <2>2, <2>3, LockedSame
  <2>5. db'[k] = db[k]
    <3>1. k \in Unstored(t) => dirty[k] = t
      BY <1>1, <2>2, WritesLocked
    <3>2. QED
      BY <1>1, <1>4, <2>2, <2>3, <3>1, VersionsStep
  <2>6. QED
    BY <1>3, <2>1, <2>2, <2>4, <2>5
<1>5. CASE u = t
  <2>1. ts' = ts /\ (k \in Unstored(t) \/ (SetWts(t) /\ k = CallKey(t)))
    BY <1>1, <1>2, <1>5, UnstoredStep
  <2>2. CASE k \in Unstored(t)
    <3>1. k \in Key
      BY <1>1, <2>2, UnstoredKeys
    <3>2. db'[k] = db[k]
      BY <1>1, <1>2, <1>5, <3>1, UnstoredStep, VersionsStep
    <3>3. Uses(t, k) /\ Uses(t, k)'
      BY <1>1, <1>2, <1>5, <2>2, <3>1, WritesLocked, UnstoredUsed, LockedVisible
    <3>4. ~((SetWts(t) \/ RaiseRts(t)) /\ k = CallKey(t))
      BY <1>1, <2>2 DEF SetWts, RaiseRts, Books, InCall, Unstored, Running
    <3>5. Visible(k)' = Visible(k)
      BY <1>1, <3>1, <3>3, <3>4, VisibleStep
    <3>6. QED
      BY <1>3, <1>5, <2>1, <2>2, <3>1, <3>2, <3>5
  <2>3. CASE SetWts(t) /\ k = CallKey(t)
    <3>1. k \in Key
      BY <1>1, <2>3, CallTypes DEF SetWts, Books, InCall
    <3>2. /\ db' = db /\ hist' = hist /\ cached' = cached /\ pc[t] = "stamp"
          /\ stamp' = [stamp EXCEPT ![k].wts = ts[t]]
      BY <2>3 DEF SetWts
    <3>3. Locks(t, k)
      BY <2>3, <3>2 DEF Locks
    <3>4. k \in cached
      BY <1>1, <3>1, <3>3, LockedVisible
    <3>5. stamp'[k].wts = ts[t]
      BY <1>1, <3>1, <3>2 DEF Types, Stamp
    <3>6. Visible(k)'.wts = ts[t]
      BY <3>2, <3>4, <3>5 DEF Visible
    <3>7. Visible(k).wts <= ts[t] /\ Visible(k).wts \in Nat
      BY <1>1, <2>3, <3>1, <3>2, LoadedType DEF Fits, Stamp
    <3>8. ASSUME NEW i \in DOMAIN db[k], NEW h \in hist, h.id = db[k][i] PROVE h.cts < ts[t]
      <4>1. h.cts <= Visible(k).wts /\ h.cts \in Nat
        BY <1>1, <3>1, <3>8, HistTypes DEF VersionsOrdered
      <4>2. h.cts # ts[t]
        BY <1>1, <3>2 DEF TimesApart, Running
      <4>3. QED
        BY <1>1, <3>7, <4>1, <4>2
    <3>9. QED
      BY <1>5, <2>1, <3>2, <3>6, <3>8
  <2>4. QED
    BY <2>1, <2>2, <2>3
<1>6. QED
  BY <1>4, <1>5

\* What holds at c holds after a step, unless a writer comes that is not later
\* than c.
LEMMA HoldsStep ==
  ASSUME StoAssumption, SerialInv, Inv', TimesApart', NEW t \in Thread, Step(t) \/ Abort(t),
         NEW k \in Key, NEW v \in Nat, NEW c \in Nat, NEW x, Holds(k, v, c, x),
         TryLock(t) /\ Writing(t) /\ k = CallKey(t) /\ Id(t) # x => c < ts[t]
  PROVE  Holds(k, v, c, x)'
<1>1. /\ Inv /\ Types /\ hist \subseteq hist' /\ VersionsOrdered /\ TimesApart
      /\ Len(db[k]) \in Nat /\ DOMAIN db[k] = 1 .. Len(db[k])
  BY HistoryStep, VersionsStep DEF SerialInv, TimeInv, Inv
<1>2. \/ Len(db'[k]) = Len(db[k]) /\ db'[k] = db[k]
      \/ /\ Install(t) /\ hist' = hist /\ k \in Unstored(t)
         /\ Len(db'[k]) = Len(db[k]) + 1 /\ db'[k][Len(db[k]) + 1] = Id(t)
         /\ \A j \in 1 .. Len(db[k]) : db'[k][j] = db[k][j]
  BY <1>1, VersionsStep
<1>3. v \in 0 .. Len(db[k]) /\ v \in 0 .. Len(db'[k])
  BY <1>1, <1>2 DEF Holds
<1>4. \A j \in 1 .. Len(db[k]) : db'[k][j] = db[k][j]
  BY <1>2
<1>5. \A j \in 1 .. Len(db[k]) : \A h \in hist' : h.id = db[k][j] => h \in hist
  BY <1>1, OldCommit
<1>6. ASSUME NEW h \in hist', v > 0, h.id = db'[k][v] PROVE h.cts <= c
  <2>1. v \in 1 .. Len(db[k])
    BY <1>1, <1>3, <1>6
  <2>2. h.id = db[k][v] /\ h \in hist
    BY <1>4, <1>5, <1>6, <2>1
  <2>3. QED
    BY <1>6, <2>2 DEF Holds
<1>7. ASSUME NEW j \in v + 1 .. Len(db'[k]), NEW h \in hist', h.id = db'[k][j], h.id # x
      PROVE  c < h.cts
  <2>1. CASE j \in 1 .. Len(db[k])
    <3>1. h.id = db[k][j] /\ h \in hist /\ j \in v + 1 .. Len(db[k])
      BY <1>1, <1>4, <1>5, <1>7, <2>1
    <3>2. QED
      BY <1>7, <3>1 DEF Holds
  <2>2. CASE j \notin 1 .. Len(db[k])
    <3>1. /\ Install(t) /\ hist' = hist /\ k \in Unstored(t) /\ j = Len(db[k]) + 1
          /\ db'[k][j] = Id(t)
      BY <1>1, <1>2, <2>2
    <3>2. h.id = Id(t) /\ h.cts = ts[t]
      BY <1>1, <1>7, <3>1 DEF TimesApart
    <3>3. k \in Writes(t)
      BY <1>1, <3>1, WritesLocked
    <3>4. QED
      BY <1>7, <3>2, <3>3 DEF Holds
  <2>3. QED
    BY <2>1, <2>2
<1>8. ASSUME NEW u \in Thread, k \in Writes(u)', Id(u)' # x PROVE c < ts'[u]
  <2>1. CASE u # t
    BY <1>1, <1>8, <2>1, OthersWrites DEF Holds
  <2>2. CASE u = t
    <3>1. ts' = ts /\ Id(t)' = Id(t)
      BY <1>1, <1>8, <2>2, UnstoredStep
    <3>2. k \in Writes(t) \/ (TryLock(t) /\ Writing(t) /\ k = CallKey(t))
      BY <1>1, <1>8, <2>2, UnstoredStep
    <3>3. QED
      BY <1>8, <2>2, <3>1, <3>2 DEF Holds
  <2>3. QED
    BY <2>1, <2>2
<1>9. QED
  BY <1>3, <1>6, <1>7, <1>8 DEF Holds

\* Who sets the dirty bit of a key to write it, is no earlier than its readers.
LEMMA LateForReaders ==
  ASSUME StoAssumption, SerialInv, NEW t \in Thread, TryLock(t), Writing(t)
  PROVE  /\ CallKey(t) \in Key /\ ts[t] \in Nat /\ dirty[CallKey(t)] = "clean"
         /\ Visible(CallKey(t)).rts \in Nat /\ Visible(CallKey(t)).rts <= ts[t]
<1>1. Inv /\ Types /\ Books(t)
  BY DEF SerialInv, TimeInv, Inv
<1>2. PICK k \in Key : k = CallKey(t)
  BY <1>1, CallTypes DEF TryLock, Books, InCall
<1>3. pc[t] = "lock" /\ ~Late(t, k) /\ dirty[k] = "clean" /\ k \in Elems(order[t])
  BY <1>1, <1>2 DEF TryLock, Books, InCall
<1>4. Uses(t, k)
  BY <1>3 DEF Uses
<1>5. Visible(k) = stamp[k]
  BY <1>1, <1>4, LockedVisible
<1>6. stamp[k].rts \in Nat /\ ts[t] \in Nat
  BY <1>1, ThreadTypes DEF Types, Stamp
<1>7. stamp[k].rts <= ts[t]
  BY <1>3, <1>6 DEF Late
<1>8. QED
  BY <1>2, <1>3, <1>5, <1>6, <1>7

\* What is in the history a transaction reads of holds.
LEMMA KeptStep ==
  ASSUME StoAssumption, SerialInv, Inv', TimesApart', NEW t \in Thread, Step(t) \/ Abort(t)
  PROVE  ReadsKept'
<1>1. Inv /\ Types /\ hist \subseteq hist' /\ TimesApart /\ Fits(t) /\ ReadsKept
  BY HistoryStep DEF SerialInv, TimeInv, Inv
<1>2. \A k \in Key : /\ Visible(k).rts <= Visible(k)'.rts
                     /\ Visible(k).rts \in Nat /\ Visible(k)'.rts \in Nat
  BY <1>1, VisibleStep, LoadedType, VisibleType DEF NotAfter, Inv, Stamp
<1>3. ASSUME NEW h \in hist, NEW r \in h.reads
      PROVE  Holds(r.key, r.ver, h.cts, h.id)' /\ h.cts <= Visible(r.key)'.rts
  <2>1. r.key \in Key /\ r.ver \in Nat /\ h.cts \in Nat
    BY <1>1, HistTypes
  <2>2. Holds(r.key, r.ver, h.cts, h.id) /\ h.cts <= Visible(r.key).rts
    BY <1>1 DEF ReadsKept
  <2>3. ASSUME TryLock(t), Writing(t), r.key = CallKey(t), Id(t) # h.id PROVE h.cts < ts[t]
    <3>1. h.cts <= Visible(r.key).rts /\ Visible(r.key).rts <= ts[t] /\ ts[t] \in Nat
      BY <2>2, <2>3, LateForReaders
    <3>2. h.cts # ts[t]
      BY <1>1, <2>3 DEF TimesApart
    <3>3. QED
      BY <1>2, <2>1, <3>1, <3>2
  <2>4. h.cts <= Visible(r.key)'.rts
    BY <1>2, <2>1, <2>2
  <2>5. PICK k \in Key, v \in Nat, c \in Nat, x \in Txn : k = r.key /\ v = r.ver /\ c = h.cts /\ x = h.id
    BY <1>1, <2>1, HistTypes
  <2>6. Holds(k, v, c, x)'
    BY <2>2, <2>3, <2>5, HoldsStep
  <2>7. QED
    BY <2>4, <2>5, <2>6
<1>4. CASE ~CommitBegin(t)
  BY <1>3, <1>4, HistoryStep DEF ReadsKept
<1>5. CASE CommitBegin(t)
  <2>1. PICK n : n = [id |-> Id(t), cts |-> ts[t], reads |-> reads[t]]
    OBVIOUS
  <2>2. hist' = hist \cup {n} /\ Running(t) /\ pc[t] = "run"
    BY <1>5, <2>1 DEF CommitBegin, Running
  <2>3. ASSUME NEW r \in reads[t]
        PROVE  Holds(r.key, r.ver, n.cts, n.id)' /\ n.cts <= Visible(r.key)'.rts
    <3>1. r.key \in Key /\ r.ver \in Nat /\ ts[t] \in Nat
      BY <1>1, ThreadTypes DEF Types, Read
    <3>2. Holds(r.key, r.ver, ts[t], Id(t)) /\ ts[t] <= Visible(r.key).rts
      BY <2>2 DEF SerialInv, ReadsHold
    <3>3. ts[t] <= Visible(r.key)'.rts
      BY <1>2, <3>1, <3>2
    <3>4. PICK k \in Key, v \in Nat, c \in Nat : k = r.key /\ v = r.ver /\ c = ts[t]
      BY <3>1
    <3>5. PICK x : x = Id(t)
      OBVIOUS
    <3>6. ~TryLock(t)
      BY <2>2 DEF TryLock
    <3>7. Holds(k, v, c, x)'
      BY <3>2, <3>4, <3>5, <3>6, HoldsStep
    <3>8. QED
      BY <2>1, <3>3, <3>4, <3>5, <3>7
  <2>4. QED
    BY <1>3, <2>1, <2>2, <2>3 DEF ReadsKept
<1>6. QED
  BY <1>4, <1>5

\* What the lookups of a running transaction delivered still holds.
LEMMA ReadsHoldStep ==
  ASSUME StoAssumption, SerialInv, Inv', TimesApart', NEW t \in Thread, Step(t) \/ Abort(t),
         NEW u \in Thread
  PROVE  ReadsHold(u)'
<1>1. /\ Inv /\ Types /\ hist \subseteq hist' /\ TimesApart /\ Fits(t) /\ Books(t)
      /\ VersionsOrdered /\ pc \in [Thread -> Label]
  BY HistoryStep DEF SerialInv, TimeInv, Inv, Types
<1>2. \A k \in Key : /\ Visible(k).rts <= Visible(k)'.rts
                     /\ Visible(k).rts \in Nat /\ Visible(k)'.rts \in Nat
  BY <1>1, VisibleStep, LoadedType, VisibleType DEF NotAfter, Inv, Stamp
<1>3. ASSUME NEW r \in reads[u], Running(u), u # t \/ ~Begin(t)
      PROVE  /\ r.key \in Key /\ r.ver \in Nat /\ ts[u] \in Nat
             /\ Holds(r.key, r.ver, ts[u], Id(u))'
  <2>1. r.key \in Key /\ r.ver \in Nat /\ ts[u] \in Nat
    BY <1>1, ThreadTypes DEF Types, Read
  <2>2. /\ Holds(r.key, r.ver, ts[u], Id(u))
        /\ ts[u] <= Visible(r.key).rts \/ (pc[u] = "raise" /\ r.key = CallKey(u))
    BY <1>3 DEF SerialInv, ReadsHold
  <2>3. ts'[u] = ts[u] /\ Id(u)' = Id(u)
    BY <1>1, <1>3, UnstoredStep, OthersWrites
  <2>4. ASSUME TryLock(t), Writing(t), r.key = CallKey(t), Id(t) # Id(u) PROVE ts[u] < ts[t]
    <3>1. /\ ts[t] \in Nat /\ dirty[r.key] = "clean" /\ Visible(r.key).rts <= ts[t]
      BY <2>4, LateForReaders
    <3>2. u # t /\ pc[t] = "lock"
      BY <2>4 DEF TryLock
    <3>3. ~(pc[u] = "raise" /\ r.key = CallKey(u))
      <4>1. pc[u] = "raise" /\ r.key = CallKey(u) => Locks(u, r.key)
        BY DEF Locks
      <4>2. Locks(u, r.key) => dirty[r.key] = u
        BY <1>1, <2>1 DEF Inv
      <4>3. QED
        BY <3>1, <4>1, <4>2 DEF StoAssumption
    <3>4. ts[u] <= Visible(r.key).rts
      BY <2>2, <3>3
    <3>5. ts[u] # ts[t]
      BY <1>1, <2>1, <3>1, <3>2 DEF TimesApart
    <3>6. QED
      BY <1>2, <2>1, <3>1, <3>4, <3>5
  <2>5. PICK k \in Key, v \in Nat, c \in Nat : k = r.key /\ v = r.ver /\ c = ts[u]
    BY <2>1
  <2>6. PICK x : x = Id(u)
    OBVIOUS
  <2>7. Holds(k, v, c, x)'
    BY <2>2, <2>4, <2>5, <2>6, HoldsStep
  <2>8. QED
    BY <2>1, <2>3, <2>5, <2>6, <2>7
<1>4. CASE u # t
  <2>1. /\ reads'[u] = reads[u] /\ Running(u)' = Running(u) /\ Same(u) /\ ts'[u] = ts[u]
        /\ Id(u)' = Id(u)
    BY <1>1, <1>4, OthersWrites, OthersSame
  <2>2. SUFFICES ASSUME Running(u), NEW r \in reads[u]
                 PROVE  /\ Holds(r.key, r.ver, ts[u], Id(u))'
                        /\ ts'[u] <= Visible(r.key)'.rts \/ (pc'[u] = "raise" /\ r.key = CallKey(u)')
    BY <2>1 DEF ReadsHold
  <2>3. /\ r.key \in Key /\ ts[u] \in Nat /\ Holds(r.key, r.ver, ts[u], Id(u))'
    BY <1>3, <1>4, <2>2
  <2>4. ts[u] <= Visible(r.key).rts \/ (pc[u] = "raise" /\ r.key = CallKey(u))
    BY <2>2 DEF SerialInv, ReadsHold
  <2>5. CallKey(u)' = CallKey(u) /\ pc'[u] = pc[u]
    BY <2>1 DEF Same, CallKey
  <2>6. QED
    BY <1>2, <2>1, <2>3, <2>4, <2>5
<1>5. CASE u = t
  <2>1. CASE Begin(t)
    <3>1. reads'[t] = {}
      BY <1>1, <2>1 DEF Begin, Types
    <3>2. QED
      BY <1>5, <3>1 DEF ReadsHold
  <2>2. CASE Get(t)
    <3>1. PICK k \in Key : k = CallKey(t)
      BY <1>1, <2>2, CallTypes DEF Get, Books, InCall
    <3>2. /\ pc[t] = "get" /\ pc'[t] = "raise" /\ UNCHANGED <<ts, count, calls>>
          /\ reads'[t] = reads[t] \cup {[key |-> k, ver |-> Len(db[k])]}
      BY <1>1, <2>2, <3>1 DEF Get, Goto, Types
    <3>3. ts[t] \in Nat /\ Len(db[k]) \in Nat /\ DOMAIN db[k] = 1 .. Len(db[k])
      BY <1>1, ThreadTypes, VersionsStep
    <3>4. PICK v \in Nat, c \in Nat : v = Len(db[k]) /\ c = ts[t]
      BY <3>3
    <3>5. PICK x : x = Id(t)
      OBVIOUS
    <3>6. Holds(k, v, c, x)
      <4>1. ASSUME NEW h \in hist, v > 0, h.id = db[k][v] PROVE h.cts <= c
        <5>1. v \in DOMAIN db[k]
          BY <3>3, <3>4, <4>1
        <5>2. h.cts <= Visible(k).wts /\ h.cts \in Nat
          BY <1>1, <4>1, <5>1, HistTypes DEF VersionsOrdered
        <5>3. Visible(k).wts <= ts[t] /\ Visible(k).wts \in Nat
          BY <1>1, <3>1, <3>2, LoadedType DEF Fits, Stamp
        <5>4. QED
          BY <3>4, <5>2, <5>3
      <4>2. ASSUME NEW w \in Thread, k \in Writes(w), Id(w) # x PROVE c < ts[w]
        <5>1. dirty[k] = w
          BY <1>1, <4>2, WritesLocked
        <5>2. dirty[k] = t
          BY <1>1, <3>1, <3>2 DEF Inv, Locks
        <5>3. QED
          BY <3>5, <4>2, <5>1, <5>2
      <4>3. v + 1 .. Len(db[k]) = {} /\ v \in 0 .. Len(db[k])
        BY <3>3, <3>4
      <4>4. QED
        BY <4>1, <4>2, <4>3 DEF Holds
    <3>7. ~TryLock(t) /\ ~Begin(t)
      BY <3>2 DEF TryLock, Begin
    <3>8. Holds(k, v, c, x)'
      BY <3>4, <3>6, <3>7, HoldsStep
    <3>9. Id(t)' = Id(t) /\ CallKey(t)' = CallKey(t) /\ Running(t)
      BY <3>2 DEF Id, CallKey, Running
    <3>10. Holds(k, Len(db[k]), ts[t], Id(t))' /\ Len(db'[k]) = Len(db[k])
      BY <2>2, <3>2, <3>4, <3>5, <3>8, <3>9 DEF Get
    <3>11. ASSUME NEW r \in reads[t]
           PROVE  /\ Holds(r.key, r.ver, ts[t], Id(t))'
                  /\ ts'[t] <= Visible(r.key)'.rts \/ (pc'[t] = "raise" /\ r.key = CallKey(t)')
      <4>1. r.key \in Key /\ ts[t] \in Nat /\ Holds(r.key, r.ver, ts[t], Id(t))'
        BY <1>3, <1>5, <3>7, <3>9
      <4>2. ts[t] <= Visible(r.key).rts
        BY <1>5, <3>2, <3>9 DEF SerialInv, ReadsHold
      <4>3. QED
        BY <1>2, <3>2, <4>1, <4>2
    <3>12. QED
      BY <1>5, <3>1, <3>2, <3>9, <3>10, <3>11 DEF ReadsHold
  <2>3. CASE ~Begin(t) /\ ~Get(t)
    <3>1. reads' = reads /\ ts' = ts /\ Id(t)' = Id(t)
      <4>1. reads' = reads
        BY <2>3 DEF Step, OwnWrite, Request, CheckLoad, TryLock, Busy, Refuse, SetWts,
           RaiseRts, CommitBegin, Install, Unlock, Deinit, Remove, Abort, vars, txnVars
      <4>2. QED
        BY <1>1, <2>3, <4>1, UnstoredStep
    <3>2. Running(t)' => Running(t)
      BY <1>1, <2>3 DEF Step, OwnWrite, Request, CheckLoad, TryLock, Busy, Refuse, SetWts,
         RaiseRts, CommitBegin, Install, Unlock, Deinit, Remove, Abort, vars, Running, Goto, Calling
    <3>3. SUFFICES ASSUME Running(t), NEW r \in reads[t], Running(t)'
                   PROVE  /\ Holds(r.key, r.ver, ts[t], Id(t))'
                          /\ ts'[t] <= Visible(r.key)'.rts \/ (pc'[t] = "raise" /\ r.key = CallKey(t)')
      BY <1>5, <3>1, <3>2 DEF ReadsHold
    <3>4. r.key \in Key /\ ts[t] \in Nat /\ Holds(r.key, r.ver, ts[t], Id(t))'
      BY <1>3, <1>5, <2>3, <3>3
    <3>5. CASE ts[t] <= Visible(r.key).rts
      BY <1>2, <3>1, <3>4, <3>5
    <3>6. CASE pc[t] = "raise" /\ r.key = CallKey(t)
      <4>1. PICK k \in Key : k = CallKey(t)
        BY <3>4, <3>6
      <4>2. CASE Busy(t)
        <5>1. pc' = pc /\ CallKey(t)' = CallKey(t)
          BY <4>2 DEF Busy, vars, txnVars, CallKey
        <5>2. QED
          BY <3>4, <3>6, <5>1
      <4>3. CASE ~Busy(t)
        <5>1. RaiseRts(t)
          BY <2>3, <3>6, <4>3 DEF Step, OwnWrite, Request, CheckLoad, TryLock, Refuse, SetWts,
             CommitBegin, Install, Unlock, Deinit, Remove, Abort, Calling
        <5>2. cached' = cached /\ stamp' = [stamp EXCEPT ![k].rts = Larger(@, ts[t])]
          BY <4>1, <5>1 DEF RaiseRts
        <5>3. Locks(t, k)
          BY <3>6, <4>1 DEF Locks
        <5>4. k \in cached
          BY <1>1, <5>3, LockedVisible
        <5>5. stamp'[k].rts = Larger(stamp[k].rts, ts[t]) /\ stamp[k].rts \in Nat
          BY <1>1, <5>2 DEF Types, Stamp
        <5>6. ts[t] <= stamp'[k].rts
          BY <3>4, <5>5 DEF Larger
        <5>7. Visible(k)' = stamp'[k]
          BY <5>2, <5>4 DEF Visible
        <5>8. QED
          BY <3>1, <3>4, <3>6, <4>1, <5>6, <5>7
      <4>4. QED
        BY <4>2, <4>3
    <3>7. QED
      BY <3>3, <3>5, <3>6 DEF SerialInv, ReadsHold
  <2>4. QED
    BY <2>1, <2>2, <2>3
<1>6. QED
  BY <1>4, <1>5

LEMMA InitSerial == StoAssumption /\ Init => SerialInv
<1> SUFFICES ASSUME StoAssumption, Init PROVE SerialInv
  OBVIOUS
<1>1. TimeInv
  BY InitTime
<1>2. TimesApart
  BY DEF Init, TimesApart
<1>3. VersionsOrdered /\ ReadsKept
  BY DEF Init, VersionsOrdered, ReadsKept
<1>4. ASSUME NEW t \in Thread PROVE Committed(t) /\ WritesLast(t) /\ ReadsHold(t)
  BY DEF Init, Committed, WritesLast, ReadsHold, Unstored, Running
<1>5. QED
  BY <1>1, <1>2, <1>3, <1>4 DEF SerialInv

\* The invariant of the serial order is inductive.
LEMMA NextSerial == StoAssumption /\ SerialInv /\ [Next]_vars => SerialInv'
<1> SUFFICES ASSUME StoAssumption, SerialInv, [Next]_vars PROVE SerialInv'
  OBVIOUS
<1>1. TimeInv' /\ Inv' /\ Inv /\ TimesApart
  BY NextTime DEF SerialInv, TimeInv
<1>2. CASE UNCHANGED vars
  <2>1. UNCHANGED <<build, global_ts, stamp, cached, counter, header, db, pc, count, ts, calls,
                    order, writes, todo, reads, hist>>
    BY <1>2 DEF vars, tableVars, txnVars
  <2>2. \A k \in Key : Visible(k)' = Visible(k)
    BY <2>1 DEF Visible, Loaded
  <2>3. \A u \in Thread : /\ Id(u)' = Id(u) /\ Running(u)' = Running(u) /\ CallKey(u)' = CallKey(u)
                          /\ Unstored(u)' = Unstored(u)
    BY <2>1 DEF Id, Running, CallKey, Unstored, Elems
  <2>4. \A u \in Thread : Writes(u)' = Writes(u)
    BY <2>1, <2>3 DEF Writes
  <2>5. TimesApart'
    BY <1>1, <2>1, <2>3 DEF TimesApart
  <2>6. VersionsOrdered'
    BY <2>1, <2>2 DEF VersionsOrdered, SerialInv
  <2>7. \A u \in Thread : Committed(u)'
    BY <2>1, <2>3 DEF SerialInv, Committed
  <2>8. ASSUME NEW u \in Thread PROVE WritesLast(u)'
    <3>1. WritesLast(u) /\ Unstored(u) \subseteq Key /\ Unstored(u)' = Unstored(u)
      BY <1>1, <2>3, UnstoredKeys DEF SerialInv
    <3>2. QED
      BY <2>1, <2>2, <3>1 DEF WritesLast
  <2>9. ASSUME NEW k \in Key, NEW v, NEW c, NEW x, Holds(k, v, c, x) PROVE Holds(k, v, c, x)'
    BY <2>1, <2>3, <2>4, <2>9 DEF Holds
  <2>10. Types
    BY <1>1 DEF Inv
  <2>11. ASSUME NEW u \in Thread PROVE ReadsHold(u)'
    <3>1. SUFFICES ASSUME Running(u), NEW r \in reads[u]
                   PROVE  /\ Holds(r.key, r.ver, ts[u], Id(u))'
                          /\ ts[u] <= Visible(r.key)'.rts \/ (pc[u] = "raise" /\ r.key = CallKey(u))
      BY <2>1, <2>3 DEF ReadsHold
    <3>2. r.key \in Key
      BY <2>10, <3>1, ThreadTypes DEF Types, Read
    <3>3. /\ Holds(r.key, r.ver, ts[u], Id(u))
          /\ ts[u] <= Visible(r.key).rts \/ (pc[u] = "raise" /\ r.key = CallKey(u))
      BY <3>1 DEF SerialInv, ReadsHold
    <3>4. PICK k, v, c, x : k \in Key /\ k = r.key /\ v = r.ver /\ c = ts[u] /\ x = Id(u)
      BY <3>2
    <3>5. Holds(k, v, c, x)'
      BY <2>9, <3>3, <3>4
    <3>6. QED
      BY <2>1, <2>2, <2>3, <3>2, <3>3, <3>4, <3>5
  <2>12. ReadsKept'
    <3>1. ASSUME NEW h \in hist, NEW r \in h.reads
          PROVE  Holds(r.key, r.ver, h.cts, h.id)' /\ h.cts <= Visible(r.key)'.rts
      <4>1. r.key \in Key
        BY <2>10, HistTypes
      <4>2. Holds(r.key, r.ver, h.cts, h.id) /\ h.cts <= Visible(r.key).rts
        BY DEF SerialInv, ReadsKept
      <4>3. QED
        BY <2>2, <2>9, <4>1, <4>2
    <3>2. QED
      BY <2>1, <3>1 DEF ReadsKept
  <2>13. QED
    BY <1>1, <2>5, <2>6, <2>7, <2>8, <2>11, <2>12 DEF SerialInv
<1>3. CASE \E t \in Thread : Step(t) \/ Abort(t)
  <2>1. PICK t \in Thread : Step(t) \/ Abort(t)
    BY <1>3
  <2>2. TimesApart'
    BY <1>1, <2>1, TimesStep
  <2>3. VersionsOrdered' /\ ReadsKept'
    BY <1>1, <2>1, <2>2, OrderedStep, KeptStep
  <2>4. ASSUME NEW u \in Thread PROVE Committed(u)' /\ WritesLast(u)' /\ ReadsHold(u)'
    <3>1. Committed(u)'
      BY <1>1, <2>1, CommittedStep DEF SerialInv
    <3>2. WritesLast(u)' /\ ReadsHold(u)'
      BY <1>1, <2>1, <2>2, WritesLastStep, ReadsHoldStep
    <3>3. QED
      BY <3>1, <3>2
  <2>5. QED
    BY <1>1, <2>2, <2>3, <2>4 DEF SerialInv
<1>4. QED
  BY <1>2, <1>3 DEF Next, Done

\* The transactions are serializable in the order of the timestamps they took
\* when they began: the writes of a key are stored in that order, and a lookup
\* of a committed transaction delivered the write before its own timestamp,
\* which nobody slipped in later.
THEOREM SerialCommits == StoAssumption => (Spec => []SerialByTimestamp)
<1> SUFFICES ASSUME StoAssumption PROVE Spec => []SerialByTimestamp
  OBVIOUS
<1>1. Init => SerialInv
  BY InitSerial
<1>2. SerialInv /\ [Next]_vars => SerialInv'
  BY NextSerial
<1>3. ASSUME SerialInv PROVE SerialByTimestamp
  <2>1. /\ Types /\ VersionsOrdered /\ TimesApart /\ ReadsKept
        /\ \A k \in Key : Len(db[k]) \in Nat /\ DOMAIN db[k] = 1 .. Len(db[k])
    BY <1>3 DEF SerialInv, TimeInv, Inv, Types
  <2>2. ASSUME NEW h \in hist PROVE Iso!TsOf(h.id) = h.cts
    <3>1. PICK g : g = CHOOSE f \in hist : f.id = h.id
      OBVIOUS
    <3>2. g \in hist /\ g.id = h.id
      BY <3>1
    <3>3. g = h
      BY <2>1, <3>2 DEF TimesApart
    <3>4. QED
      BY <3>1, <3>3 DEF Iso!TsOf
  <2>3. \A k \in Key : \A i \in DOMAIN db[k] :
          \E h \in hist : h.id = db[k][i] /\ Iso!TsOf(db[k][i]) = h.cts
    <3>1. ASSUME NEW k \in Key, NEW i \in DOMAIN db[k]
          PROVE  \E h \in hist : h.id = db[k][i] /\ Iso!TsOf(db[k][i]) = h.cts
      <4>1. PICK h \in hist : h.id = db[k][i]
        BY <2>1 DEF VersionsOrdered
      <4>2. QED
        BY <2>2, <4>1
    <3>2. QED
      BY <3>1
  <2>4. Iso!InCommitOrder
    BY <2>1, <2>3 DEF VersionsOrdered, Iso!InCommitOrder
  <2>5. ASSUME NEW h \in hist, NEW r \in h.reads PROVE Iso!ValidAt(h, r)
    <3>1. r.key \in Key /\ r.ver \in Nat /\ h.cts \in Nat /\ Holds(r.key, r.ver, h.cts, h.id)
      BY <2>1, HistTypes DEF ReadsKept
    <3>2. Len(db[r.key]) \in Nat /\ DOMAIN db[r.key] = 1 .. Len(db[r.key])
      BY <2>1, <3>1
    <3>3. ASSUME r.ver > 0 PROVE Iso!TsOf(db[r.key][r.ver]) <= h.cts
      <4>1. r.ver \in DOMAIN db[r.key]
        BY <3>1, <3>2, <3>3 DEF Holds
      <4>2. QED
        BY <2>3, <3>1, <3>3, <4>1 DEF Holds
    <3>4. ASSUME NEW j \in DOMAIN db[r.key], j > r.ver, db[r.key][j] # h.id
          PROVE  Iso!TsOf(db[r.key][j]) > h.cts
      <4>1. PICK g \in hist : g.id = db[r.key][j] /\ Iso!TsOf(db[r.key][j]) = g.cts
        BY <2>3, <3>1
      <4>2. j \in r.ver + 1 .. Len(db[r.key]) /\ g.cts \in Nat
        BY <2>1, <3>1, <3>2, <3>4, HistTypes
      <4>3. h.cts < g.cts
        BY <3>1, <3>4, <4>1, <4>2 DEF Holds
      <4>4. QED
        BY <3>1, <4>1, <4>2, <4>3
    <3>5. QED
      BY <3>3, <3>4 DEF Iso!ValidAt
  <2>6. QED
    BY <2>4, <2>5 DEF SerialByTimestamp
<1>4. QED
  BY <1>1, <1>2, <1>3, PTL DEF Spec

=============================================================================
