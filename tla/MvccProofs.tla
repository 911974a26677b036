----------------------------- MODULE MvccProofs -----------------------------
(***************************************************************************)
(* Proofs about Mvcc, for any threads, keys, programs and builds.  Version *)
(* locks and references to lists have the owners that will give them back, *)
(* which is inductive together with the types; so the versions of a key    *)
(* divide time between them; so the transactions are serializable in the   *)
(* order in which they began, but for the reads that are excused.          *)
(***************************************************************************)
EXTENDS Mvcc, TLAPS, FiniteSetTheorems, WellFoundedInduction

Stamp   == [wts : Nat, rts : Nat]
Txn     == Thread \X Nat
Read    == [key : Key, ver : Nat]
Commit  == [id : Txn, cts : Nat, reads : SUBSET Read]
Lock    == [by : Thread \cup {"free"}, holder : Nat]
Version == [min : Nat, max : Nat, rts : Nat, ver : Nat, top : BOOLEAN, lock : Lock]
Latest  == [ver : Nat, stamp : Stamp]
Label   == {"idle", "run", "load", "find", "lock", "get", "publish", "close", "latest",
            "unlock", "abort", "deinit"}

\* The type of every variable.
Types ==
  /\ build \in Builds
  /\ global_ts \in Nat
  /\ chain \in [Key -> Seq(Version)]
  /\ refs \in [Key -> Nat]
  /\ counter \in Stamp
  /\ latest \in [Key -> Latest]
  /\ db \in [Key -> Seq(Txn)]
  /\ pc \in [Thread -> Label]
  /\ count \in [Thread -> Nat]
  /\ ts \in [Thread -> Nat]
  /\ calls \in [Thread -> Seq(Op)]
  /\ order \in [Thread -> Seq(Key)]
  /\ writes \in [Thread -> SUBSET Key]
  /\ at \in [Thread -> [Key -> Nat]]
  /\ todo \in [Thread -> Seq(Key)]
  /\ reads \in [Thread -> SUBSET Read]
  /\ hist \in SUBSET Commit
  /\ excused \in SUBSET Read

Distinct(s) == \A i, j \in DOMAIN s : s[i] = s[j] => i = j

\* A transaction in the middle of a call, and one in the loop of commit or
\* abort.
InCall(t)  == pc[t] \in {"load", "find", "lock", "get"}
Running(t) == pc[t] \in {"run", "load", "find", "lock", "get"}
Looping(t) == pc[t] \in {"publish", "close", "latest", "unlock", "abort"}

\* What a thread's variables say of one another, and of the versions it looks at.
Books(t) ==
  /\ Distinct(order[t]) /\ Distinct(todo[t]) /\ writes[t] \subseteq Elems(order[t])
  /\ InCall(t) => calls[t] # <<>> /\ CallKey(t) \in Elems(order[t]) \ writes[t]
  /\ pc[t] = "load" => build = "cache"
  /\ pc[t] = "get" => ~Writing(t)
  /\ Looping(t) => Elems(todo[t]) \subseteq writes[t]
  /\ pc[t] \in {"close", "latest", "unlock"} => todo[t] # <<>>
  /\ pc[t] = "latest" => Forgets
  /\ pc[t] = "deinit" => Elems(todo[t]) \subseteq Elems(order[t])

\* The locks a thread has, and the keys it has a reference to.
Owns(t, k) ==
  \/ Running(t) /\ k \in writes[t]
  \/ Looping(t) /\ k \in Elems(todo[t])
  \/ pc[t] = "get" /\ k = CallKey(t)
Uses(t, k) ==
  \/ pc[t] \notin {"idle", "deinit"} /\ k \in Elems(order[t])
  \/ pc[t] = "deinit" /\ k \in Elems(todo[t])
Users(k) == {t \in Thread : Uses(t, k)}

\* A version's lock, by whom it is.
LockRight(k, i) ==
  LET l == chain[k][i].lock IN
    /\ \A t \in Thread : l.by = t <=> Owns(t, k) /\ at[t][k] = i
    /\ l.by = "free" => l.holder = 0
    /\ \A t \in Thread : l.by = t => l.holder = (IF k \in writes[t] THEN ts[t] ELSE 0)

\* The versions a thread looks at are there, and the one it has stored.
Found(t) ==
  /\ pc[t] = "lock" => at[t][CallKey(t)] \in DOMAIN chain[CallKey(t)]
  /\ pc[t] \in {"close", "latest"} =>
       at[t][Head(todo[t])] + 1 \in DOMAIN chain[Head(todo[t])]
Places(t) == Found(t) /\ \A k \in Key : Owns(t, k) => at[t][k] \in DOMAIN chain[k]

\* What is in use is in the table.
UsedThere == \A k \in Key : chain[k] = <<>> => Forgets /\ \A t \in Thread : ~Uses(t, k)

Inv ==
  /\ Types /\ UsedThere
  /\ \A t \in Thread : Books(t) /\ Places(t)
  /\ \A k \in Key : \A i \in DOMAIN chain[k] : LockRight(k, i)
  /\ \A k \in Key : Forgets => refs[k] = Cardinality(Users(k))

\* The timestamps of the latest version of a key, wherever they are.
Visible(k) ==
  IF chain[k] # <<>> THEN [wts |-> Last(chain[k]).min, rts |-> Last(chain[k]).rts]
  ELSE IF build = "counter" THEN counter ELSE latest[k].stamp

\* The keys whose new version a transaction has still to store.
Unstored(t) ==
  CASE Running(t)                              -> writes[t]
    [] pc[t] = "publish"                       -> Elems(todo[t])
    [] pc[t] \in {"close", "latest", "unlock"} -> Elems(Tail(todo[t]))
    [] OTHER                                   -> {}

\* Timestamps tell transactions apart.
TimesApart ==
  /\ \A t \in Thread : /\ ts[t] <= global_ts
                       /\ pc[t] # "idle" => ts[t] > 0
  /\ \A t, u \in Thread : ts[t] = ts[u] => t = u \/ ts[t] = 0
  /\ \A h \in hist : /\ 0 < h.cts /\ h.cts <= global_ts
                     /\ h.id[2] <= count[h.id[1]]
                     /\ \A t \in Thread : h.cts = ts[t] => h.id = Id(t)
                     /\ \A t \in Thread : h.id = Id(t) => h.cts = ts[t] /\ ~Running(t)
  /\ \A g, h \in hist : g.id = h.id \/ g.cts = h.cts => g = h

\* No version has a timestamp that was not given out, nor one of a transaction
\* that has not committed.
Stamped(s) == s.wts <= s.rts /\ s.rts <= global_ts
Past ==
  /\ Stamped(counter)
  /\ \A k \in Key : /\ Stamped(latest[k].stamp)
                    /\ \A i \in DOMAIN chain[k] :
                         chain[k][i].min <= chain[k][i].rts /\ chain[k][i].rts <= global_ts
Fresh(t) ==
  Running(t) =>
    /\ counter.wts # ts[t]
    /\ \A k \in Key : /\ latest[k].stamp.wts # ts[t]
                      /\ \A i \in DOMAIN chain[k] : chain[k][i].min # ts[t]

\* The versions of k before the last divide time, and the last is open.
Divided(k) ==
  /\ chain[k] # <<>> => Last(chain[k]).max = Inf
  /\ \A i \in 1 .. Len(chain[k]) - 1 :
       LET v == chain[k][i]
           n == chain[k][i + 1] IN
         /\ v.min < n.min
         /\ \/ v.max = (IF v.top THEN 0 ELSE n.min)
            \/ v.max = Inf /\ \E t \in Thread :
                 pc[t] = "close" /\ Head(todo[t]) = k /\ at[t][k] = i /\ ts[t] = n.min

\* A version that is to be closed has the next one after it; a writer has the
\* last one, and a reader one that holds its timestamp.
Stands(t) ==
  /\ pc[t] \in {"close", "latest"} =>
       LET k == Head(todo[t]) IN
         /\ at[t][k] + 1 \in DOMAIN chain[k]
         /\ chain[k][at[t][k] + 1].min = ts[t]
  /\ \A k \in Unstored(t) : at[t][k] = Len(chain[k]) /\ Visible(k).wts < ts[t]
  /\ pc[t] \in {"lock", "get"} /\ ~Writing(t) => The(t, CallKey(t)).min <= ts[t]
  /\ pc[t] = "get" => ts[t] < The(t, CallKey(t)).max

TimeInv ==
  /\ Inv /\ TimesApart /\ Past
  /\ \A k \in Key : Divided(k)
  /\ \A t \in Thread : Fresh(t) /\ Stands(t)

\* Who stores its writes has committed.
Committed(t) ==
  pc[t] \in {"publish", "close", "latest", "unlock"} =>
    \E h \in hist : h.id = Id(t) /\ h.cts = ts[t]

\* The place in db of version i of a list.
TrueVer(k, i) == Len(db[k]) - Len(chain[k]) + i

\* The versions of a key are those of committed transactions, in the order of
\* their timestamps.  Its list is the last of them.
VersionsOrdered ==
  \A k \in Key :
    /\ \A i \in DOMAIN db[k] : \E h \in hist : h.id = db[k][i]
    /\ \A i \in DOMAIN db[k] : \A h \in hist : h.id = db[k][i] => h.cts <= Visible(k).wts
    /\ \A i, j \in DOMAIN db[k] : \A g, h \in hist :
         i < j /\ g.id = db[k][i] /\ h.id = db[k][j] => g.cts < h.cts
ListsRight ==
  \A k \in Key :
    /\ Len(chain[k]) <= Len(db[k]) + 1
    /\ \A i \in DOMAIN chain[k] :
         LET v == chain[k][i] IN
           /\ v.top => i = 1 /\ Forgets
           /\ ~v.top => v.ver = TrueVer(k, i)
           /\ TrueVer(k, i) > 0 => \A h \in hist : h.id = db[k][TrueVer(k, i)] =>
                                    h.cts <= v.min /\ (i > 1 => h.cts = v.min)

\* What is under LATEST is the last version, or excused, or about to change.
LatestRight ==
  Forgets => \A k \in Key : \/ latest[k].ver = Len(db[k])
                            \/ [key |-> k, ver |-> latest[k].ver] \in excused
                            \/ Storing(Thread, k)

\* Version v of a key is what there is at c: later ones, stored or to be
\* stored, are later than c, but for those of transaction x.
Holds(k, v, c, x) ==
  /\ v \in 0 .. Len(db[k])
  /\ \A h \in hist : v > 0 /\ h.id = db[k][v] => h.cts <= c
  /\ \A j \in v + 1 .. Len(db[k]) : \A h \in hist : h.id = db[k][j] /\ h.id # x => c < h.cts
  /\ \A u \in Thread : k \in Unstored(u) /\ Id(u) # x => c < ts[u]

\* What a transaction has read holds at its timestamp, and the key remembers it.
Kept(r, c, x) ==
  r \in excused \/ (Holds(r.key, r.ver, c, x)
                    /\ (r.ver = Len(db[r.key]) => c <= Visible(r.key).rts))
ReadsHold(t) == Running(t) => \A r \in reads[t] : Kept(r, ts[t], Id(t))
ReadsKept == \A h \in hist : \A r \in h.reads : Kept(r, h.cts, h.id)

SerialInv ==
  /\ TimeInv /\ VersionsOrdered /\ ListsRight /\ LatestRight /\ ReadsKept
  /\ \A t \in Thread : Committed(t) /\ ReadsHold(t)

-----------------------------------------------------------------------------
(* Sequences without repetition, and what the loops of commit and abort     *)
(* go over.                                                                 *)

\* A new element at the end.
LEMMA AppendElems ==
  ASSUME NEW S, NEW s \in Seq(S), NEW x \in S
  PROVE  /\ Elems(Append(s, x)) = Elems(s) \cup {x}
         /\ Distinct(s) /\ x \notin Elems(s) => Distinct(Append(s, x))
<1>1. Len(Append(s, x)) = Len(s) + 1 /\ Append(s, x)[Len(s) + 1] = x
  OBVIOUS
<1>2. \A i \in DOMAIN s : Append(s, x)[i] = s[i]
  OBVIOUS
<1>3. DOMAIN Append(s, x) = DOMAIN s \cup {Len(s) + 1}
  OBVIOUS
<1>4. QED
  BY <1>1, <1>2, <1>3 DEF Elems, Distinct

\* The first element and the others.
LEMMA HeadTailElems ==
  ASSUME NEW S, NEW s \in Seq(S), s # <<>>
  PROVE  /\ Head(s) \in S /\ Tail(s) \in Seq(S)
         /\ Elems(s) = Elems(Tail(s)) \cup {Head(s)}
         /\ Distinct(s) => Distinct(Tail(s)) /\ Head(s) \notin Elems(Tail(s))
<1>1. /\ Head(s) \in S /\ Tail(s) \in Seq(S) /\ Head(s) = s[1]
      /\ Len(s) \in Nat /\ Len(s) >= 1
  OBVIOUS
<1>2. DOMAIN Tail(s) = 1 .. Len(s) - 1 /\ \A i \in DOMAIN Tail(s) : Tail(s)[i] = s[i + 1]
  OBVIOUS
<1>3. \A i \in 1 .. Len(s) - 1 : i + 1 \in DOMAIN s
  BY <1>1
<1>4. \A i \in DOMAIN s : i = 1 \/ (i - 1 \in 1 .. Len(s) - 1 /\ s[i] = Tail(s)[i - 1])
  BY <1>1, <1>2
<1>5. Elems(s) = Elems(Tail(s)) \cup {Head(s)}
  <2>1. ASSUME NEW i \in DOMAIN s
        PROVE  s[i] \in Elems(Tail(s)) \cup {Head(s)}
    BY <1>1, <1>2, <1>4 DEF Elems
  <2>2. ASSUME NEW i \in DOMAIN Tail(s)
        PROVE  Tail(s)[i] \in Elems(s)
    BY <1>2, <1>3 DEF Elems
  <2>3. Head(s) \in Elems(s)
    BY <1>1 DEF Elems
  <2>4. QED
    BY <2>1, <2>2, <2>3 DEF Elems
<1>6. ASSUME Distinct(s)
      PROVE  Distinct(Tail(s)) /\ Head(s) \notin Elems(Tail(s))
  <2>1. \A i, j \in 1 .. Len(s) - 1 : s[i + 1] = s[j + 1] => i = j
    BY <1>3, <1>6 DEF Distinct
  <2>2. \A i \in 1 .. Len(s) - 1 : s[i + 1] # s[1]
    BY <1>1, <1>3, <1>6 DEF Distinct
  <2>3. QED
    BY <1>1, <1>2, <2>1, <2>2 DEF Distinct, Elems
<1>7. QED
  BY <1>1, <1>5, <1>6

\* The order of the numbers as a relation.
Less == {p \in Nat \X Nat : p[1] < p[2]}

\* Induction over the numbers, for a set that is closed under successor.
LEMMA InductiveSet ==
  ASSUME NEW S \in SUBSET Nat, 0 \in S, \A n \in S : n + 1 \in S
  PROVE  S = Nat
<1>1. SUFFICES ASSUME Nat \ S # {} PROVE FALSE
  OBVIOUS
<1>2. IsWellFoundedOn(Less, Nat)
  BY NatLessThanWellFounded, Zenon DEF OpToRel, Less
<1>3. PICK m \in Nat \ S : \A n \in Nat \ S : <<n, m>> \notin Less
  BY <1>1, <1>2, WFMin, Zenon
<1>4. ASSUME NEW a \in Nat, NEW b \in Nat, <<a, b>> \notin Less PROVE ~(a < b)
  BY <1>4, Zenon DEF Less
<1>5. \A n \in Nat \ S : m <= n
  <2>1. \A n \in Nat \ S : ~(n < m)
    BY <1>3, <1>4, Zenon
  <2>2. QED
    BY <2>1
<1>6. m - 1 \in Nat /\ m - 1 \notin Nat \ S
  BY <1>5
<1>7. (m - 1) + 1 \in S
  BY <1>6
<1>8. QED
  BY <1>3, <1>7

\* The loops of commit and abort go over the written keys of the transaction.
LEMMA HeldKeys ==
  ASSUME NEW t \in Thread, order[t] \in Seq(Key), Distinct(order[t])
  PROVE  /\ Held(t) \in Seq(Key) /\ Distinct(Held(t))
         /\ Elems(Held(t)) = Elems(order[t]) \cap writes[t]
<1>0. PICK W : W = writes[t]
  OBVIOUS
<1>1. PICK s \in Seq(Key) : s = order[t] /\ Distinct(s)
  OBVIOUS
<1>2. Len(s) \in Nat /\ DOMAIN s = 1 .. Len(s) /\ \A i \in 1 .. Len(s) : s[i] \in Key
  OBVIOUS
<1> DEFINE Next_(g, i) == IF s[i] \in W THEN Append(g[i - 1], s[i]) ELSE g[i - 1]
           Upto(g, n) == /\ DOMAIN g = 0 .. n /\ g[0] = <<>>
                         /\ \A i \in 1 .. n : g[i] = Next_(g, i)
           Made == {n \in Nat : n <= Len(s) => \E g : Upto(g, n) /\ g = [i \in 0 .. n |-> g[i]]}
<1>3. Made = Nat
  <2>1. 0 \in Made
    <3>1. PICK g : g = [i \in 0 .. 0 |-> <<>>]
      OBVIOUS
    <3>2. Upto(g, 0) /\ g = [i \in 0 .. 0 |-> g[i]]
      BY <3>1
    <3>3. QED
      BY <3>2
  <2>2. ASSUME NEW n \in Made PROVE n + 1 \in Made
    <3>1. SUFFICES ASSUME n + 1 <= Len(s)
                   PROVE  \E g : Upto(g, n + 1) /\ g = [i \in 0 .. n + 1 |-> g[i]]
      BY <2>2
    <3>2. n \in Nat /\ n <= Len(s)
      BY <1>2, <2>2, <3>1
    <3>3. PICK g : Upto(g, n)
      BY <2>2, <3>2
    <3>4. PICK f : f = [i \in 0 .. n + 1 |-> IF i = n + 1 THEN Next_(g, n + 1) ELSE g[i]]
      OBVIOUS
    <3>5. DOMAIN f = 0 .. n + 1 /\ f[n + 1] = Next_(g, n + 1) /\ \A i \in 0 .. n : f[i] = g[i]
      BY <3>2, <3>4
    <3>6. ASSUME NEW i \in 1 .. n + 1 PROVE f[i] = Next_(f, i)
      <4>1. i - 1 \in 0 .. n
        BY <3>2
      <4>2. Next_(f, i) = Next_(g, i)
        BY <3>5, <4>1
      <4>3. CASE i = n + 1
        BY <3>5, <4>2, <4>3
      <4>4. CASE i \in 1 .. n
        BY <3>3, <3>5, <4>2, <4>4
      <4>5. QED
        BY <3>2, <4>3, <4>4
    <3>7. f = [i \in 0 .. n + 1 |-> f[i]]
      BY <3>4
    <3>8. f[0] = <<>>
      <4>1. 0 \in 0 .. n /\ g[0] = <<>>
        BY <3>2, <3>3
      <4>2. QED
        BY <3>5, <4>1, Zenon
    <3>9. QED
      BY <3>5, <3>6, <3>7, <3>8
  <2>3. Made \in SUBSET Nat
    OBVIOUS
  <2> HIDE DEF Made
  <2>4. QED
    BY <2>1, <2>2, <2>3, InductiveSet
<1> DEFINE F == CHOOSE g : g = [i \in 0 .. Len(s) |-> IF i = 0 THEN <<>> ELSE Next_(g, i)]
<1>4. F = [i \in 0 .. Len(s) |-> IF i = 0 THEN <<>> ELSE Next_(F, i)]
  <2>1. PICK g : Upto(g, Len(s)) /\ g = [i \in 0 .. Len(s) |-> g[i]]
    BY <1>2, <1>3
  <2>2. g = [i \in 0 .. Len(s) |-> IF i = 0 THEN <<>> ELSE Next_(g, i)]
    <3>1. \A i \in 0 .. Len(s) : g[i] = IF i = 0 THEN <<>> ELSE Next_(g, i)
      <4>1. g[0] = <<>> /\ \A i \in 1 .. Len(s) : g[i] = Next_(g, i)
        BY <2>1
      <4> HIDE DEF Next_
      <4>2. \A i \in 0 .. Len(s) : i = 0 \/ i \in 1 .. Len(s)
        BY <1>2
      <4>3. QED
        BY <1>2, <4>1, <4>2
    <3>2. QED
      BY <2>1, <3>1
  <2>3. QED
    BY <2>2
<1>5. Held(t) = F[Len(s)]
  BY <1>0, <1>1 DEF Held
<1> HIDE DEF F
<1> DEFINE Passing(n) == {s[i] : i \in 1 .. n} \cap W
           Right == {n \in Nat : n <= Len(s) =>
                       /\ F[n] \in Seq(Key) /\ Distinct(F[n]) /\ Elems(F[n]) = Passing(n)}
<1>6. Right = Nat
  <2>1. 0 \in Right
    <3>1. F[0] = <<>>
      BY <1>2, <1>4
    <3>2. Elems(<<>>) = {} /\ Distinct(<<>>) /\ <<>> \in Seq(Key)
      BY DEF Elems, Distinct
    <3>3. Passing(0) = {}
      OBVIOUS
    <3>4. QED
      BY <3>1, <3>2, <3>3
  <2>2. ASSUME NEW n \in Right PROVE n + 1 \in Right
    <3>1. SUFFICES ASSUME n + 1 <= Len(s)
                   PROVE  /\ F[n + 1] \in Seq(Key) /\ Distinct(F[n + 1])
                          /\ Elems(F[n + 1]) = Passing(n + 1)
      BY <2>2
    <3>2. n \in Nat /\ n <= Len(s) /\ n + 1 \in 1 .. Len(s) /\ s[n + 1] \in Key
      BY <1>2, <2>2, <3>1
    <3>3. F[n] \in Seq(Key) /\ Distinct(F[n]) /\ Elems(F[n]) = Passing(n)
      BY <2>2, <3>2
    <3>4. F[n + 1] = Next_(F, n + 1)
      <4>1. n + 1 \in 0 .. Len(s) /\ n + 1 # 0
        BY <1>2, <3>2
      <4> HIDE DEF Next_
      <4>2. QED
        BY <1>4, <4>1
    <3>5. F[n + 1] = IF s[n + 1] \in W THEN Append(F[n], s[n + 1]) ELSE F[n]
      BY <3>2, <3>4
    <3>6. {s[i] : i \in 1 .. n + 1} = {s[i] : i \in 1 .. n} \cup {s[n + 1]}
      <4>1. 1 .. n + 1 = (1 .. n) \cup {n + 1}
        BY <3>2
      <4>2. QED
        BY <4>1
    <3>7. s[n + 1] \notin {s[i] : i \in 1 .. n}
      <4>1. \A i \in 1 .. n : i \in DOMAIN s /\ n + 1 \in DOMAIN s /\ i # n + 1
        BY <1>2, <3>2
      <4>2. QED
        BY <1>1, <4>1 DEF Distinct
    <3>8. CASE s[n + 1] \in W
      <4>1. s[n + 1] \notin Elems(F[n])
        BY <3>3, <3>7
      <4>2. QED
        BY <3>2, <3>3, <3>5, <3>6, <3>8, <4>1, AppendElems
    <3>9. CASE s[n + 1] \notin W
      BY <3>3, <3>5, <3>6, <3>9
    <3>10. QED
      BY <3>8, <3>9
  <2>3. Right \in SUBSET Nat
    OBVIOUS
  <2> HIDE DEF Right
  <2>4. QED
    BY <2>1, <2>2, <2>3, InductiveSet
<1>7. /\ F[Len(s)] \in Seq(Key) /\ Distinct(F[Len(s)])
      /\ Elems(F[Len(s)]) = {s[i] : i \in 1 .. Len(s)} \cap W
  <2>1. Len(s) \in Right
    BY <1>2, <1>6
  <2>2. Len(s) <= Len(s)
    BY <1>2
  <2>3. QED
    BY <2>1, <2>2
<1>8. Elems(s) = {s[i] : i \in 1 .. Len(s)}
  BY <1>2 DEF Elems
<1>9. QED
  BY <1>0, <1>1, <1>5, <1>7, <1>8

-----------------------------------------------------------------------------
(* Lists of versions.                                                      *)

\* One version of a list is changed.
LEMMA VersionChanged ==
  ASSUME NEW c \in [Key -> Seq(Version)], NEW k \in Key, NEW i \in DOMAIN c[k],
         NEW w \in Version, NEW d, d = [c EXCEPT ![k] = [c[k] EXCEPT ![i] = w]]
  PROVE  /\ d \in [Key -> Seq(Version)]
         /\ \A j \in Key : /\ DOMAIN d[j] = DOMAIN c[j] /\ Len(d[j]) = Len(c[j])
                           /\ j # k => d[j] = c[j]
                           /\ d[j] = <<>> <=> c[j] = <<>>
         /\ d[k][i] = w /\ \A j \in DOMAIN c[k] : j # i => d[k][j] = c[k][j]
<1>1. c[k] \in Seq(Version) /\ DOMAIN c[k] = 1 .. Len(c[k]) /\ Len(c[k]) \in Nat
  OBVIOUS
<1>2. PICK e : e = [c[k] EXCEPT ![i] = w]
  OBVIOUS
<1>3. e \in Seq(Version) /\ Len(e) = Len(c[k]) /\ DOMAIN e = DOMAIN c[k]
  BY <1>1, <1>2
<1>4. e[i] = w /\ \A j \in DOMAIN c[k] : j # i => e[j] = c[k][j]
  BY <1>1, <1>2
<1>5. e # <<>> /\ c[k] # <<>>
  BY <1>1, <1>3
<1>6. d[k] = e /\ \A j \in Key : j # k => d[j] = c[j]
  BY <1>2
<1>7. d \in [Key -> Seq(Version)]
  BY <1>2, <1>3
<1>8. QED
  BY <1>3, <1>4, <1>5, <1>6, <1>7

\* A version is added to a list.
LEMMA VersionAdded ==
  ASSUME NEW c \in [Key -> Seq(Version)], NEW k \in Key, NEW w \in Version,
         NEW d, d = [c EXCEPT ![k] = Append(c[k], w)]
  PROVE  /\ d \in [Key -> Seq(Version)] /\ Len(d[k]) = Len(c[k]) + 1
         /\ DOMAIN d[k] = DOMAIN c[k] \cup {Len(c[k]) + 1}
         /\ \A j \in Key : j # k => d[j] = c[j]
         /\ d[k][Len(c[k]) + 1] = w /\ \A j \in DOMAIN c[k] : d[k][j] = c[k][j]
<1>1. c[k] \in Seq(Version) /\ DOMAIN c[k] = 1 .. Len(c[k]) /\ Len(c[k]) \in Nat
  OBVIOUS
<1>2. PICK e : e = Append(c[k], w)
  OBVIOUS
<1>3. e \in Seq(Version) /\ Len(e) = Len(c[k]) + 1 /\ DOMAIN e = DOMAIN c[k] \cup {Len(c[k]) + 1}
  BY <1>1, <1>2
<1>4. e[Len(c[k]) + 1] = w /\ \A j \in DOMAIN c[k] : e[j] = c[k][j]
  BY <1>1, <1>2
<1>5. d[k] = e /\ \A j \in Key : j # k => d[j] = c[j]
  BY <1>2
<1>6. d \in [Key -> Seq(Version)]
  BY <1>2, <1>3
<1>7. QED
  BY <1>3, <1>4, <1>5, <1>6

\* A list of one version is made, or a list is dropped.
LEMMA ListMade ==
  ASSUME NEW c \in [Key -> Seq(Version)], NEW k \in Key, NEW w \in Version,
         NEW d, d = [c EXCEPT ![k] = <<w>>]
  PROVE  /\ d \in [Key -> Seq(Version)] /\ Len(d[k]) = 1 /\ DOMAIN d[k] = {1}
         /\ d[k] # <<>> /\ d[k][1] = w /\ \A j \in Key : j # k => d[j] = c[j]
OBVIOUS

LEMMA ListDropped ==
  ASSUME NEW c \in [Key -> Seq(Version)], NEW k \in Key, NEW d, d = [c EXCEPT ![k] = <<>>]
  PROVE  /\ d \in [Key -> Seq(Version)] /\ d[k] = <<>> /\ DOMAIN d[k] = {}
         /\ \A j \in Key : j # k => d[j] = c[j]
OBVIOUS

-----------------------------------------------------------------------------
(* Who has what.                                                           *)

\* A thread that a step does not move.
Same(u) == /\ pc'[u] = pc[u] /\ order'[u] = order[u] /\ todo'[u] = todo[u] /\ ts'[u] = ts[u]
           /\ writes'[u] = writes[u] /\ calls'[u] = calls[u] /\ at'[u] = at[u]

LEMMA SameThread ==
  ASSUME NEW u \in Thread, Same(u), build' = build
  PROVE  /\ Books(u)' = Books(u) /\ Running(u)' = Running(u) /\ Unstored(u)' = Unstored(u)
         /\ \A k \in Key : Owns(u, k)' = Owns(u, k) /\ Uses(u, k)' = Uses(u, k)
         /\ CallKey(u)' = CallKey(u) /\ Writing(u)' = Writing(u)
BY DEF Same, Books, InCall, Looping, Owns, Uses, Unstored, Running, CallKey, Writing, Forgets

LEMMA ThreadTypes ==
  ASSUME Types, NEW t \in Thread
  PROVE  /\ pc[t] \in Label /\ count[t] \in Nat /\ ts[t] \in Nat /\ calls[t] \in Seq(Op)
         /\ order[t] \in Seq(Key) /\ todo[t] \in Seq(Key) /\ writes[t] \in SUBSET Key
         /\ at[t] \in [Key -> Nat]
         /\ reads[t] \in SUBSET Read /\ Id(t) \in Txn
         /\ \A r \in reads[t] : r.key \in Key /\ r.ver \in Nat
  BY DEF Types, Read, Id, Txn

\* The call that is made.
LEMMA CallTypes ==
  ASSUME Types, NEW t \in Thread, calls[t] # <<>>
  PROVE  /\ CallKey(t) \in Key /\ Tail(calls[t]) \in Seq(Op)
         /\ Head(calls[t]) \in Op
<1>1. calls[t] \in Seq(Op)
  BY ThreadTypes
<1>2. Head(calls[t]) \in Op /\ Tail(calls[t]) \in Seq(Op)
  BY <1>1
<1>3. QED
  BY <1>2 DEF CallKey, Op

\* A version of a key.
LEMMA VersionTypes ==
  ASSUME Types, NEW k \in Key
  PROVE  /\ chain[k] \in Seq(Version) /\ Len(chain[k]) \in Nat /\ DOMAIN chain[k] = 1 .. Len(chain[k])
         /\ \A i \in DOMAIN chain[k] :
              /\ chain[k][i] \in Version /\ chain[k][i].lock \in Lock
              /\ chain[k][i].min \in Nat /\ chain[k][i].max \in Nat /\ chain[k][i].rts \in Nat
              /\ chain[k][i].ver \in Nat /\ chain[k][i].top \in BOOLEAN
              /\ chain[k][i].lock.by \in Thread \cup {"free"} /\ chain[k][i].lock.holder \in Nat
         /\ chain[k] # <<>> => Len(chain[k]) \in DOMAIN chain[k]
<1>1. chain[k] \in Seq(Version)
  BY DEF Types
<1>2. /\ Len(chain[k]) \in Nat /\ DOMAIN chain[k] = 1 .. Len(chain[k])
      /\ \A i \in DOMAIN chain[k] : chain[k][i] \in Version
      /\ chain[k] # <<>> => Len(chain[k]) \in DOMAIN chain[k]
  BY <1>1
<1>3. QED
  BY <1>1, <1>2 DEF Version, Lock

LEMMA UsersFinite ==
  ASSUME MvccAssumption, NEW k \in Key
  PROVE  IsFiniteSet(Users(k)) /\ Cardinality(Users(k)) \in Nat
<1>1. IsFiniteSet(Users(k))
  BY FS_Subset DEF Users, MvccAssumption
<1>2. QED
  BY <1>1, FS_CardinalityType

\* A list in use has a reference to give back.
LEMMA UsedCounted ==
  ASSUME MvccAssumption, Inv, NEW t \in Thread, NEW k \in Key, Uses(t, k), Forgets
  PROVE  refs[k] > 0 /\ refs[k] - 1 \in Nat
<1>1. t \in Users(k) /\ refs[k] = Cardinality(Users(k)) /\ refs[k] \in Nat
  BY DEF Users, Inv, Types
<1>2. Cardinality(Users(k)) # 0
  BY <1>1, UsersFinite, FS_EmptySet
<1>3. QED
  BY <1>1, <1>2

\* Whoever has a lock uses the key.
LEMMA OwnedUsed ==
  ASSUME NEW t \in Thread, Books(t), NEW k \in Key, Owns(t, k)
  PROVE  Uses(t, k)
  BY DEF Books, Owns, Uses, Running, Looping, InCall

\* The version that was stored last.
LEMMA NextVersion ==
  ASSUME Inv, NEW t \in Thread, pc[t] \in {"close", "latest"}
  PROVE  /\ todo[t] # <<>> /\ Head(todo[t]) \in Key /\ Owns(t, Head(todo[t]))
         /\ at[t][Head(todo[t])] \in DOMAIN chain[Head(todo[t])]
         /\ at[t][Head(todo[t])] + 1 \in DOMAIN chain[Head(todo[t])]
         /\ chain[Head(todo[t])][at[t][Head(todo[t])] + 1] \in Version
<1>1. Types /\ todo[t] # <<>> /\ todo[t] \in Seq(Key)
  BY ThreadTypes DEF Inv, Books
<1>2. PICK k \in Key : k = Head(todo[t]) /\ k \in Elems(todo[t])
  BY <1>1, HeadTailElems
<1>3. Owns(t, k)
  BY <1>2 DEF Owns, Looping
<1>4. at[t][k] \in DOMAIN chain[k] /\ at[t][k] + 1 \in DOMAIN chain[k]
  BY <1>2, <1>3 DEF Inv, Places, Found
<1>5. QED
  BY <1>1, <1>2, <1>3, <1>4, VersionTypes

\* After a step, too.
LEMMA OwnedUsedNext ==
  ASSUME NEW t \in Thread, Books(t)', NEW k \in Key, Owns(t, k)'
  PROVE  Uses(t, k)'
  BY DEF Books, Owns, Uses, Running, Looping, InCall

\* Boolean values, for the provers.
LEMMA UsesSame ==
  ASSUME NEW t \in Thread, NEW k \in Key, Uses(t, k)' <=> Uses(t, k)
  PROVE  Uses(t, k)' = Uses(t, k)
  BY Zenon DEF Uses

\* What a step of t does to the locks of k: nothing but add free ones, or
\* lock or unlock the version t looks at, or drop the list.
LocksStay(t, k) ==
  /\ \A i \in DOMAIN chain[k] : i \in DOMAIN chain'[k] /\ chain'[k][i].lock = chain[k][i].lock
  /\ \A i \in DOMAIN chain'[k] : i \in DOMAIN chain[k] \/ chain'[k][i].lock = Free
  /\ Owns(t, k)' = Owns(t, k)
  /\ Owns(t, k) => /\ at'[t][k] = at[t][k] /\ ts'[t] = ts[t]
                   /\ k \in writes'[t] <=> k \in writes[t]
LockMoves(t, k) ==
  LET i == at'[t][k] IN
    /\ DOMAIN chain'[k] = DOMAIN chain[k] /\ i \in DOMAIN chain[k]
    /\ \A j \in DOMAIN chain[k] : j # i => chain'[k][j].lock = chain[k][j].lock
    /\ \/ /\ chain[k][i].lock.by = "free" /\ ~Owns(t, k) /\ Owns(t, k)'
          /\ chain'[k][i].lock =
               [by |-> t, holder |-> IF k \in writes'[t] THEN ts'[t] ELSE 0]
       \/ /\ at[t][k] = i /\ Owns(t, k) /\ ~Owns(t, k)' /\ chain'[k][i].lock = Free
ListGoes(k) == chain'[k] = <<>> /\ Forgets /\ \A u \in Thread : ~Uses(u, k)'

\* And to the references.
RefMoves(t, k) ==
  \/ Uses(t, k)' = Uses(t, k) /\ refs'[k] = refs[k]
  \/ ~Uses(t, k) /\ Uses(t, k)' /\ chain'[k] # <<>> /\ (Forgets => refs'[k] = refs[k] + 1)
  \/ Uses(t, k) /\ ~Uses(t, k)' /\ (Forgets => refs'[k] = refs[k] - 1)

LEMMA CountedStep ==
  ASSUME MvccAssumption, Inv, NEW t \in Thread, Forgets, build' = build,
         \A u \in Thread \ {t} : Same(u), NEW k \in Key, RefMoves(t, k)
  PROVE  refs'[k] = Cardinality(Users(k)')
<1>1. \A u \in Thread \ {t} : Uses(u, k)' = Uses(u, k)
  BY SameThread
<1>2. refs[k] = Cardinality(Users(k)) /\ IsFiniteSet(Users(k)) /\ Cardinality(Users(k)) \in Nat
  BY UsersFinite DEF Inv
<1>3. CASE Uses(t, k)' = Uses(t, k) /\ refs'[k] = refs[k]
  <2>1. Users(k)' = Users(k)
    BY <1>1, <1>3 DEF Users
  <2>2. QED
    BY <1>2, <1>3, <2>1
<1>4. CASE ~Uses(t, k) /\ Uses(t, k)' /\ refs'[k] = refs[k] + 1
  <2>1. Users(k)' = Users(k) \cup {t} /\ t \notin Users(k)
    BY <1>1, <1>4 DEF Users
  <2>2. QED
    BY <1>2, <1>4, <2>1, FS_AddElement
<1>5. CASE Uses(t, k) /\ ~Uses(t, k)' /\ refs'[k] = refs[k] - 1
  <2>1. Users(k)' = Users(k) \ {t} /\ t \in Users(k)
    BY <1>1, <1>5 DEF Users
  <2>2. QED
    BY <1>2, <1>5, <2>1, FS_RemoveElement
<1>6. QED
  BY <1>3, <1>4, <1>5 DEF RefMoves

\* The locks of a key after a step of t.
LEMMA LockStep ==
  ASSUME MvccAssumption, Inv, NEW t \in Thread, build' = build,
         \A u \in Thread \ {t} : Same(u), Books(t)', NEW k \in Key,
         LocksStay(t, k) \/ LockMoves(t, k) \/ ListGoes(k)
  PROVE  /\ \A i \in DOMAIN chain'[k] : LockRight(k, i)'
         /\ \A u \in Thread : Owns(u, k)' => at'[u][k] \in DOMAIN chain'[k]
<1>1. ASSUME NEW u \in Thread \ {t}
      PROVE  /\ Owns(u, k)' = Owns(u, k) /\ at'[u][k] = at[u][k] /\ ts'[u] = ts[u]
             /\ writes'[u] = writes[u] /\ Books(u)'
  BY SameThread DEF Same, Inv
<1>2. t # "free" /\ \A u \in Thread : u # "free"
  BY DEF MvccAssumption
<1>3. /\ \A i \in DOMAIN chain[k] : LockRight(k, i)
      /\ \A u \in Thread : Owns(u, k) => at[u][k] \in DOMAIN chain[k]
  BY DEF Inv, Places
<1>4. CASE LocksStay(t, k)
  <2>1. ASSUME NEW i \in DOMAIN chain'[k] PROVE LockRight(k, i)'
    <3>1. CASE i \in DOMAIN chain[k]
      <4>1. chain'[k][i].lock = chain[k][i].lock /\ LockRight(k, i)
        BY <1>3, <1>4, <3>1 DEF LocksStay
      <4>2. ASSUME NEW u \in Thread
            PROVE  /\ chain'[k][i].lock.by = u <=> Owns(u, k)' /\ at'[u][k] = i
                   /\ chain'[k][i].lock.by = u =>
                        chain'[k][i].lock.holder = (IF k \in writes'[u] THEN ts'[u] ELSE 0)
        <5>1. CASE u = t
          BY <1>4, <4>1, <5>1 DEF LocksStay, LockRight
        <5>2. CASE u # t
          BY <1>1, <4>1, <5>2 DEF LockRight
        <5>3. QED
          BY <5>1, <5>2
      <4>3. QED
        BY <4>1, <4>2 DEF LockRight
    <3>2. CASE i \notin DOMAIN chain[k]
      <4>1. chain'[k][i].lock.by = "free" /\ chain'[k][i].lock.holder = 0
        BY <1>4, <3>2 DEF LocksStay, Free
      <4>2. \A u \in Thread : ~(Owns(u, k)' /\ at'[u][k] = i)
        BY <1>1, <1>3, <1>4, <3>2 DEF LocksStay
      <4>3. QED
        BY <1>2, <4>1, <4>2 DEF LockRight
    <3>3. QED
      BY <3>1, <3>2
  <2>2. ASSUME NEW u \in Thread, Owns(u, k)' PROVE at'[u][k] \in DOMAIN chain'[k]
    BY <1>1, <1>3, <1>4, <2>2 DEF LocksStay
  <2>3. QED
    BY <2>1, <2>2
<1>5. CASE LockMoves(t, k)
  <2>1. PICK i : i = at'[t][k]
    OBVIOUS
  <2>2. /\ DOMAIN chain'[k] = DOMAIN chain[k] /\ i \in DOMAIN chain[k]
        /\ \A j \in DOMAIN chain[k] : j # i => chain'[k][j].lock = chain[k][j].lock
    BY <1>5, <2>1 DEF LockMoves
  <2>3. CASE /\ chain[k][i].lock.by = "free" /\ ~Owns(t, k) /\ Owns(t, k)'
             /\ chain'[k][i].lock = [by |-> t, holder |-> IF k \in writes'[t] THEN ts'[t] ELSE 0]
    <3>1. \A u \in Thread : ~(Owns(u, k) /\ at[u][k] = i)
      BY <1>2, <1>3, <2>2, <2>3 DEF LockRight
    <3>2. LockRight(k, i)'
      <4>1. /\ chain'[k][i].lock.by = t
            /\ chain'[k][i].lock.holder = (IF k \in writes'[t] THEN ts'[t] ELSE 0)
        BY <2>3
      <4>2. \A u \in Thread \ {t} : ~(Owns(u, k)' /\ at'[u][k] = i)
        BY <1>1, <3>1
      <4>3. QED
        BY <1>2, <2>1, <2>3, <4>1, <4>2 DEF LockRight
    <3>3. ASSUME NEW j \in DOMAIN chain[k], j # i PROVE LockRight(k, j)'
      <4>1. chain'[k][j].lock = chain[k][j].lock /\ LockRight(k, j)
        BY <1>3, <2>2, <3>3
      <4>2. chain[k][j].lock.by # t /\ at'[t][k] # j
        BY <2>1, <2>3, <3>3, <4>1 DEF LockRight
      <4>3. QED
        BY <1>1, <4>1, <4>2 DEF LockRight
    <3>4. QED
      BY <1>1, <1>3, <2>1, <2>2, <3>2, <3>3
  <2>4. CASE at[t][k] = i /\ Owns(t, k) /\ ~Owns(t, k)' /\ chain'[k][i].lock = Free
    <3>1. chain[k][i].lock.by = t
      BY <1>3, <2>2, <2>4 DEF LockRight
    <3>2. LockRight(k, i)'
      <4>1. chain'[k][i].lock.by = "free" /\ chain'[k][i].lock.holder = 0
        BY <2>4 DEF Free
      <4>2. \A u \in Thread \ {t} : ~(Owns(u, k)' /\ at'[u][k] = i)
        BY <1>1, <1>3, <2>2, <3>1 DEF LockRight
      <4>3. QED
        BY <1>2, <2>4, <4>1, <4>2 DEF LockRight
    <3>3. ASSUME NEW j \in DOMAIN chain[k], j # i PROVE LockRight(k, j)'
      <4>1. chain'[k][j].lock = chain[k][j].lock /\ LockRight(k, j)
        BY <1>3, <2>2, <3>3
      <4>2. chain[k][j].lock.by # t
        BY <2>4, <3>3, <4>1 DEF LockRight
      <4>3. QED
        BY <1>1, <2>4, <4>1, <4>2 DEF LockRight
    <3>4. QED
      BY <1>1, <1>3, <2>1, <2>2, <2>4, <3>2, <3>3
  <2>5. QED
    BY <1>5, <2>1, <2>3, <2>4 DEF LockMoves
<1>6. CASE ListGoes(k)
  <2>1. \A u \in Thread : Books(u)'
    BY <1>1
  <2>2. \A u \in Thread : ~Owns(u, k)'
    BY <1>6, <2>1, OwnedUsedNext DEF ListGoes
  <2>3. DOMAIN chain'[k] = {}
    BY <1>6 DEF ListGoes
  <2>4. QED
    BY <2>2, <2>3
<1>7. QED
  BY <1>4, <1>5, <1>6

\* A step of t, by what it does to locks and references.
LEMMA StepInv ==
  ASSUME MvccAssumption, Inv, Types', NEW t \in Thread, Books(t)', Found(t)', build' = build,
         \A u \in Thread \ {t} : Same(u),
         \A k \in Key : LocksStay(t, k) \/ LockMoves(t, k) \/ ListGoes(k),
         \A k \in Key : RefMoves(t, k)
  PROVE  Inv'
<1>1. \A u \in Thread \ {t} :
        /\ Books(u)' /\ pc'[u] = pc[u] /\ CallKey(u)' = CallKey(u) /\ at'[u] = at[u]
        /\ \A k \in Key : Uses(u, k)' = Uses(u, k)
  BY SameThread DEF Inv, Same
<1>2. \A k \in Key : /\ \A i \in DOMAIN chain'[k] : LockRight(k, i)'
                     /\ \A u \in Thread : Owns(u, k)' => at'[u][k] \in DOMAIN chain'[k]
  BY LockStep
<1>3. ASSUME NEW u \in Thread \ {t} PROVE Found(u)'
  <2>1. Types /\ Books(u) /\ Found(u) /\ todo'[u] = todo[u] /\ pc'[u] = pc[u] /\ at'[u] = at[u]
        /\ CallKey(u)' = CallKey(u)
    BY <1>1 DEF Inv, Places, Same
  <2>2. ASSUME NEW k \in Key, Uses(u, k) PROVE \A i \in DOMAIN chain[k] : i \in DOMAIN chain'[k]
    BY <1>1, <2>2 DEF LocksStay, LockMoves, ListGoes
  <2>3. ASSUME pc[u] = "lock" PROVE at[u][CallKey(u)] \in DOMAIN chain'[CallKey(u)]
    <3>1. calls[u] # <<>> /\ CallKey(u) \in Elems(order[u])
      BY <2>1, <2>3 DEF Books, InCall
    <3>2. PICK k \in Key : k = CallKey(u)
      BY <2>1, <3>1, CallTypes
    <3>3. Uses(u, k)
      BY <2>3, <3>1, <3>2 DEF Uses
    <3>4. QED
      BY <2>1, <2>2, <2>3, <3>2, <3>3 DEF Found
  <2>4. ASSUME pc[u] \in {"close", "latest"}
        PROVE  at[u][Head(todo[u])] + 1 \in DOMAIN chain'[Head(todo[u])]
    <3>1. todo[u] # <<>> /\ todo[u] \in Seq(Key) /\ Elems(todo[u]) \subseteq Elems(order[u])
      BY <2>1, <2>4, ThreadTypes DEF Books, Looping
    <3>2. PICK k \in Key : k = Head(todo[u]) /\ k \in Elems(todo[u])
      BY <3>1, HeadTailElems
    <3>3. Uses(u, k)
      BY <2>4, <3>1, <3>2 DEF Uses
    <3>4. QED
      BY <2>1, <2>2, <2>4, <3>2, <3>3 DEF Found
  <2>5. QED
    BY <2>1, <2>3, <2>4 DEF Found
<1>4. UsedThere'
  <2>1. SUFFICES ASSUME NEW k \in Key, chain'[k] = <<>> PROVE Forgets /\ \A u \in Thread : ~Uses(u, k)'
    BY DEF UsedThere, Forgets
  <2>2. CASE ListGoes(k)
    BY <2>2 DEF ListGoes
  <2>3. CASE LocksStay(t, k) \/ LockMoves(t, k)
    <3>1. DOMAIN chain'[k] = {}
      BY <2>1
    <3>2. DOMAIN chain[k] = {}
      BY <2>3, <3>1 DEF LocksStay, LockMoves
    <3>3. chain[k] = <<>>
      BY <3>2, VersionTypes DEF Inv
    <3>4. Forgets /\ \A u \in Thread : ~Uses(u, k)
      BY <3>3 DEF Inv, UsedThere
    <3>5. ~Uses(t, k)'
      BY <2>1, <3>4 DEF RefMoves
    <3>6. QED
      BY <1>1, <3>4, <3>5
  <2>4. QED
    BY <2>2, <2>3
<1>5. Forgets' = Forgets /\ \A k \in Key : Forgets => refs'[k] = Cardinality(Users(k)')
  BY CountedStep DEF Forgets
<1>6. QED
  BY <1>1, <1>2, <1>3, <1>4, <1>5 DEF Inv, Places

\* A step of t that changes neither locks nor references.
LEMMA QuietInv ==
  ASSUME MvccAssumption, Inv, Types', NEW t \in Thread, Books(t)', Found(t)',
         \A u \in Thread \ {t} : Same(u),
         UNCHANGED <<build, chain, refs>>, at'[t] = at[t], ts'[t] = ts[t], writes'[t] = writes[t],
         \A k \in Key : Owns(t, k)' = Owns(t, k) /\ Uses(t, k)' = Uses(t, k)
  PROVE  Inv'
<1>1. \A k \in Key : LocksStay(t, k)
  BY DEF LocksStay
<1>2. \A k \in Key : RefMoves(t, k)
  BY DEF RefMoves
<1>3. QED
  BY <1>1, <1>2, StepInv

LEMMA InitInv == MvccAssumption /\ Init => Inv
<1> SUFFICES ASSUME MvccAssumption, Init PROVE Inv
  OBVIOUS
<1>1. NewVersion(0, 0, 0, FALSE) \in Version /\ NewVersion(0, 0, 0, FALSE).lock = Free
  BY DEF NewVersion, Version, Lock, Free, MvccAssumption
<1>2. chain \in [Key -> Seq(Version)] /\ \A k \in Key : \A i \in DOMAIN chain[k] : chain[k][i].lock = Free
  <2>1. PICK v \in Version : v = NewVersion(0, 0, 0, FALSE)
    BY <1>1
  <2>2. chain = [k \in Key |-> IF Forgets THEN <<>> ELSE <<v>>]
    BY <2>1 DEF Init
  <2>3. <<>> \in Seq(Version) /\ <<v>> \in Seq(Version) /\ DOMAIN <<v>> = {1} /\ <<v>>[1] = v
        /\ DOMAIN <<>> = {}
    OBVIOUS
  <2>4. v.lock = Free
    BY <1>1, <2>1
  <2>5. \A k \in Key : chain[k] = <<>> \/ chain[k] = <<v>>
    BY <2>2
  <2>6. chain \in [Key -> Seq(Version)]
    BY <2>2, <2>3, Zenon
  <2>7. ASSUME NEW k \in Key, NEW i \in DOMAIN chain[k] PROVE chain[k][i].lock = Free
    BY <2>3, <2>4, <2>5
  <2>8. QED
    BY <2>6, <2>7
<1>3. Types
  <2>1. at \in [Thread -> [Key -> Nat]] /\ latest \in [Key -> Latest] /\ counter \in Stamp
    BY DEF Init, Zero, Stamp, Latest
  <2>2. /\ db = [k \in Key |-> <<>>] /\ calls = [t \in Thread |-> <<>>]
        /\ order = [t \in Thread |-> <<>>] /\ todo = [t \in Thread |-> <<>>]
        /\ writes = [t \in Thread |-> {}] /\ reads = [t \in Thread |-> {}]
        /\ refs = [k \in Key |-> 0] /\ count = [t \in Thread |-> 0] /\ ts = [t \in Thread |-> 0]
        /\ pc = [t \in Thread |-> "idle"] /\ hist = {} /\ excused = {} /\ global_ts = 0
        /\ build \in Builds
    BY DEF Init
  <2>3. /\ db \in [Key -> Seq(Txn)] /\ calls \in [Thread -> Seq(Op)]
        /\ order \in [Thread -> Seq(Key)] /\ todo \in [Thread -> Seq(Key)]
    BY <2>2
  <2>4. /\ writes \in [Thread -> SUBSET Key] /\ reads \in [Thread -> SUBSET Read]
        /\ refs \in [Key -> Nat] /\ count \in [Thread -> Nat] /\ ts \in [Thread -> Nat]
        /\ pc \in [Thread -> Label]
    BY <2>2 DEF Label
  <2>5. QED
    BY <1>2, <2>1, <2>2, <2>3, <2>4 DEF Types
<1>4. \A t \in Thread : Books(t)
  BY DEF Init, Books, InCall, Looping, Elems, Distinct
<1>5. \A t \in Thread, k \in Key : ~Uses(t, k) /\ ~Owns(t, k)
  BY DEF Init, Uses, Owns, Running, Looping
<1>7. \A k \in Key : \A i \in DOMAIN chain[k] : LockRight(k, i)
  BY <1>2, <1>5 DEF LockRight, Free, MvccAssumption
<1>8. \A k \in Key : Users(k) = {} /\ refs[k] = 0
  BY <1>5 DEF Users, Init
<1>9. Cardinality({}) = 0
  BY FS_EmptySet
<1>10. \A k \in Key : chain[k] = <<>> => Forgets
  BY DEF Init
<1>11. \A t \in Thread : Places(t)
  BY <1>5 DEF Places, Found, Init
<1>12. QED
  BY <1>3, <1>4, <1>5, <1>7, <1>8, <1>9, <1>10, <1>11 DEF Inv, UsedThere

\* The walk of a lookup stops at the newest version that holds its timestamp.
LEMMA NewestReadable ==
  ASSUME Types, NEW t \in Thread, NEW k \in Key, Newest(Readable(t, k)) # 0
  PROVE  Newest(Readable(t, k)) \in Readable(t, k)
<1>1. PICK S : S = Readable(t, k)
  OBVIOUS
<1>2. S # {} /\ S \subseteq DOMAIN chain[k] /\ DOMAIN chain[k] = 1 .. Len(chain[k])
      /\ Len(chain[k]) \in Nat
  BY <1>1, VersionTypes DEF Newest, Readable
<1>3. \E i \in S : \A j \in S : j <= i
  <2>1. PICK n \in Nat : n = Len(chain[k])
    BY <1>2
  <2> DEFINE Above == {m \in Nat : m <= n => S \cap (n - m + 1 .. n) = {}}
  <2>2. SUFFICES ASSUME \A i \in S : \E j \in S : j > i
                 PROVE  FALSE
    BY <1>2, <2>1
  <2>3. Above = Nat
    <3>1. 0 \in Above
      BY <2>1
    <3>2. ASSUME NEW m \in Above PROVE m + 1 \in Above
      <4>1. SUFFICES ASSUME m + 1 <= n, NEW i \in S \cap (n - (m + 1) + 1 .. n)
                     PROVE  FALSE
        BY <2>1, <3>2
      <4>2. S \cap (n - m + 1 .. n) = {} /\ m \in Nat
        BY <2>1, <3>2, <4>1
      <4>3. i = n - m
        BY <1>2, <2>1, <4>1, <4>2
      <4>4. PICK j \in S : j > i
        BY <2>2
      <4>5. j \in n - m + 1 .. n
        BY <1>2, <2>1, <4>2, <4>3, <4>4
      <4>6. QED
        BY <4>2, <4>5
    <3>3. Above \in SUBSET Nat
      OBVIOUS
    <3> HIDE DEF Above
    <3>4. QED
      BY <3>1, <3>2, <3>3, InductiveSet
  <2>4. n \in Above
    BY <2>1, <2>3
  <2>5. S \cap (1 .. n) = {}
    BY <2>1, <2>4
  <2>6. QED
    BY <1>2, <2>1, <2>5
<1>4. QED
  BY <1>1, <1>2, <1>3 DEF Newest

\* The version a list begins with.
LEMMA FirstTypes ==
  ASSUME MvccAssumption, Types, NEW k \in Key
  PROVE  FirstVersion(k) \in Version /\ FirstVersion(k).lock = Free
<1>1. PICK s \in Stamp : s = IF build = "counter" THEN counter ELSE latest[k].stamp
  BY DEF Types, Latest
<1>2. FirstVersion(k) = NewVersion(s.wts, s.rts, latest[k].ver, TRUE)
  BY <1>1 DEF FirstVersion
<1>3. s.wts \in Nat /\ s.rts \in Nat /\ latest[k].ver \in Nat /\ Inf \in Nat
  BY <1>1 DEF Stamp, Types, Latest, MvccAssumption
<1>4. QED
  BY <1>2, <1>3 DEF NewVersion, Version, Lock, Free

LEMMA BeginInv ==
  ASSUME MvccAssumption, Inv, NEW t \in Thread, Begin(t)
  PROVE  Inv'
<1>1. Types /\ Books(t)
  BY DEF Inv
<1>2. PICK p \in Programs[t][count[t] + 1] : calls' = [calls EXCEPT ![t] = p]
  BY DEF Begin
<1>3. p \in Seq(Op)
  <2>1. Programs[t] \in Seq(SUBSET Seq(Op)) /\ count[t] + 1 \in 1 .. Len(Programs[t])
    BY <1>1 DEF MvccAssumption, Types, Begin
  <2>2. QED
    BY <1>2, <2>1
<1>4. /\ pc[t] = "idle" /\ pc' = [pc EXCEPT ![t] = "run"]
      /\ ts' = [ts EXCEPT ![t] = global_ts + 1]
      /\ order' = [order EXCEPT ![t] = <<>>] /\ writes' = [writes EXCEPT ![t] = {}]
      /\ UNCHANGED <<build, chain, refs, at, todo>>
  BY DEF Begin, Goto, tableVars
<1>5. Types'
  BY <1>1, <1>2, <1>3 DEF Types, Begin, Goto, tableVars, Label
<1>6. \A u \in Thread \ {t} : Same(u)
  BY <1>1, <1>2, <1>4 DEF Types, Same
<1>7. /\ pc'[t] = "run" /\ order'[t] = <<>> /\ writes'[t] = {} /\ todo'[t] = todo[t]
  BY <1>1, <1>4 DEF Types
<1>8. Books(t)' /\ Found(t)'
  BY <1>1, <1>4, <1>7 DEF Books, InCall, Looping, Distinct, Elems, Found
<1>9. \A k \in Key : /\ ~Owns(t, k) /\ Owns(t, k)' = Owns(t, k)
                     /\ Uses(t, k)' = Uses(t, k)
  BY <1>4, <1>7 DEF Owns, Uses, Running, Looping, Elems
<1>10. ASSUME NEW k \in Key PROVE LocksStay(t, k) /\ RefMoves(t, k)
  <2>1. chain'[k] = chain[k] /\ refs'[k] = refs[k]
    BY <1>4
  <2>2. ~Owns(t, k) /\ Owns(t, k)' = Owns(t, k) /\ Uses(t, k)' = Uses(t, k)
    BY <1>9
  <2>3. LocksStay(t, k)
    BY <2>1, <2>2 DEF LocksStay
  <2>4. RefMoves(t, k)
    BY <2>1, <2>2 DEF RefMoves
  <2>5. QED
    BY <2>3, <2>4
<1>11. QED
  BY <1>4, <1>5, <1>6, <1>8, <1>10, StepInv

\* A call that is over, or that finds the version to work on, or none.
LEMMA CallInv ==
  ASSUME MvccAssumption, Inv, NEW t \in Thread, OwnWrite(t) \/ Find(t) \/ Refuse(t) \/ Retry(t)
  PROVE  Inv'
<1>1. /\ Types /\ Books(t) /\ pc \in [Thread -> Label] /\ calls[t] # <<>>
      /\ CallKey(t) \in Key /\ Tail(calls[t]) \in Seq(Op)
  <2>1. Types /\ Books(t)
    BY DEF Inv
  <2>2. calls[t] # <<>>
    BY <2>1 DEF OwnWrite, Calling, Refuse, Find, Retry, Books, InCall
  <2>3. QED
    BY <2>1, <2>2, CallTypes DEF Types
<1>2. CASE OwnWrite(t)
  <2>1. /\ pc[t] = "run" /\ calls' = [calls EXCEPT ![t] = Tail(calls[t])]
        /\ UNCHANGED <<build, global_ts, tableVars, db, pc, count, ts, order, writes, at, reads,
                       todo, hist, excused>>
    BY <1>2 DEF OwnWrite, Calling, Return
  <2>2. Types'
    BY <1>1, <2>1 DEF Types, tableVars
  <2>3. \A u \in Thread \ {t} : Same(u)
    BY <1>1, <2>1 DEF Types, Same
  <2>4. Books(t)' /\ Found(t)'
    BY <1>1, <2>1 DEF Books, InCall, Looping, Found
  <2>5. \A k \in Key : Owns(t, k)' = Owns(t, k) /\ Uses(t, k)' = Uses(t, k)
    BY <2>1 DEF Owns, Uses, Running, Looping
  <2>6. QED
    BY <2>1, <2>2, <2>3, <2>4, <2>5, QuietInv DEF tableVars
<1>3. ASSUME pc[t] \in {"find", "lock"}, Give(t), at' = at,
             UNCHANGED <<build, global_ts, tableVars, db, txnVars, hist, excused>>
      PROVE  Inv'
  <2>1. /\ pc' = [pc EXCEPT ![t] = "abort"] /\ todo' = [todo EXCEPT ![t] = Held(t)]
        /\ UNCHANGED <<build, global_ts, tableVars, db, txnVars, hist, excused>>
    BY <1>3 DEF Give, Goto
  <2>2. Held(t) \in Seq(Key) /\ Distinct(Held(t)) /\ Elems(Held(t)) = writes[t]
    BY <1>1, HeldKeys, ThreadTypes DEF Books
  <2>3. Types'
    BY <1>1, <2>1, <2>2 DEF Types, tableVars, txnVars, Label
  <2>4. \A u \in Thread \ {t} : Same(u)
    BY <1>1, <2>1 DEF Types, Same, txnVars
  <2>5. pc'[t] = "abort" /\ todo'[t] = Held(t)
    BY <1>1, <2>1 DEF Types
  <2>6. Books(t)' /\ Found(t)'
    BY <1>1, <2>1, <2>2, <2>5 DEF Books, InCall, Looping, txnVars, Found
  <2>7. \A k \in Key : Owns(t, k)' = Owns(t, k) /\ Uses(t, k)' = Uses(t, k)
    BY <1>3, <2>1, <2>2, <2>5 DEF Owns, Uses, Running, Looping, txnVars
  <2>8. QED
    BY <2>1, <2>3, <2>4, <2>6, <2>7, QuietInv DEF tableVars, txnVars
<1>4. CASE Refuse(t)
  BY <1>3, <1>4 DEF Refuse, txnVars
<1>5. CASE Retry(t)
  <2>1. /\ pc[t] = "lock" /\ pc' = [pc EXCEPT ![t] = "find"]
        /\ UNCHANGED <<build, global_ts, tableVars, db, txnVars, todo, hist, excused>>
    BY <1>5 DEF Retry, Goto
  <2>2. Types'
    BY <1>1, <2>1 DEF Types, tableVars, txnVars, Label
  <2>3. \A u \in Thread \ {t} : Same(u)
    BY <1>1, <2>1 DEF Same, txnVars
  <2>4. pc'[t] = "find"
    BY <1>1, <2>1
  <2>5. Books(t)' /\ Found(t)'
    BY <1>1, <2>1, <2>4 DEF Books, InCall, Looping, txnVars, CallKey, Found
  <2>6. \A k \in Key : Owns(t, k)' = Owns(t, k) /\ Uses(t, k)' = Uses(t, k)
    BY <2>1, <2>4 DEF Owns, Uses, Running, Looping, txnVars
  <2>7. QED
    BY <2>1, <2>2, <2>3, <2>5, <2>6, QuietInv DEF tableVars, txnVars
<1>6. CASE Find(t)
  <2>1. PICK k \in Key : k = CallKey(t)
    BY <1>1
  <2>2. PICK i : i = IF Writing(t) THEN Len(chain[k]) ELSE Newest(Readable(t, k))
    OBVIOUS
  <2>3. CASE i = 0 \/ (Writing(t) /\ Passed(t, chain[k][i]))
    <3>1. Give(t) /\ UNCHANGED at
      BY <1>6, <2>1, <2>2, <2>3 DEF Find
    <3>2. pc[t] = "find" /\ UNCHANGED <<build, global_ts, tableVars, db, txnVars, hist, excused>>
      BY <1>6, <3>1 DEF Find, txnVars
    <3>3. QED
      BY <1>3, <3>1, <3>2
  <2>4. CASE ~(i = 0 \/ (Writing(t) /\ Passed(t, chain[k][i])))
    <3>1. /\ pc[t] = "find" /\ pc' = [pc EXCEPT ![t] = "lock"]
          /\ at' = [at EXCEPT ![t][k] = i]
          /\ UNCHANGED <<build, global_ts, tableVars, db, count, ts, calls, order, writes,
                         reads, todo, hist, excused>>
      BY <1>6, <2>1, <2>2, <2>4 DEF Find, Goto
    <3>2. i \in DOMAIN chain[k]
      <4>1. CASE Writing(t)
        <5>1. i = Len(chain[k]) /\ i # 0
          BY <2>2, <2>4, <4>1
        <5>2. QED
          BY <1>1, <5>1, VersionTypes
      <4>2. CASE ~Writing(t)
        <5>1. i = Newest(Readable(t, k)) /\ i # 0
          BY <2>2, <2>4, <4>2
        <5>2. QED
          BY <1>1, <5>1, NewestReadable DEF Readable
      <4>3. QED
        BY <4>1, <4>2
    <3>3. i \in Nat
      BY <1>1, <3>2, VersionTypes
    <3>4. at' \in [Thread -> [Key -> Nat]]
      BY <1>1, <3>1, <3>3 DEF Types
    <3>5. Types'
      BY <1>1, <3>1, <3>4 DEF Types, tableVars, Label
    <3>6. \A u \in Thread \ {t} : Same(u)
      BY <1>1, <3>1 DEF Same, Types
    <3>7. pc'[t] = "lock" /\ at'[t][k] = i /\ \A j \in Key : j # k => at'[t][j] = at[t][j]
      BY <1>1, <3>1 DEF Types
    <3>8. Books(t)'
      BY <1>1, <3>1, <3>7 DEF Books, InCall, Looping, CallKey
    <3>9. Found(t)'
      BY <2>1, <3>1, <3>2, <3>7 DEF Found, CallKey, tableVars
    <3>10. \A j \in Key : Owns(t, j)' = Owns(t, j) /\ Uses(t, j)' = Uses(t, j)
      BY <3>1, <3>7 DEF Owns, Uses, Running, Looping
    <3>11. ~Owns(t, k)
      BY <1>1, <2>1, <3>1 DEF Owns, Running, Looping, Books, InCall
    <3>12. \A j \in Key : LocksStay(t, j)
      BY <3>1, <3>7, <3>10, <3>11 DEF LocksStay, tableVars
    <3>13. \A j \in Key : RefMoves(t, j)
      BY <3>1, <3>10 DEF RefMoves, tableVars
    <3>14. QED
      BY <3>1, <3>5, <3>6, <3>8, <3>9, <3>12, <3>13, StepInv
  <2>5. QED
    BY <2>3, <2>4
<1>7. QED
  BY <1>2, <1>4, <1>5, <1>6

\* The end of a transaction begins, stores a value under LATEST, or is over but
\* for the references.
LEMMA EndInv ==
  ASSUME MvccAssumption, Inv, NEW t \in Thread,
         CommitBegin(t) \/ Abort(t) \/ InsertLatest(t) \/ Deinit(t)
  PROVE  Inv'
<1>1. Types /\ Books(t) /\ pc \in [Thread -> Label] /\ todo \in [Thread -> Seq(Key)]
  BY DEF Inv, Types
<1>2. CASE CommitBegin(t) \/ Abort(t)
  <2>1. /\ pc[t] = "run" /\ todo' = [todo EXCEPT ![t] = Held(t)]
        /\ pc' = [pc EXCEPT ![t] = "publish"] \/ pc' = [pc EXCEPT ![t] = "abort"]
        /\ UNCHANGED <<build, global_ts, tableVars, db, txnVars, excused>>
        /\ hist' \subseteq hist \cup {[id |-> Id(t), cts |-> ts[t], reads |-> reads[t]]}
    BY <1>2 DEF CommitBegin, Abort, Calling, Goto, Give
  <2>2. Held(t) \in Seq(Key) /\ Distinct(Held(t)) /\ Elems(Held(t)) = writes[t]
    BY <1>1, HeldKeys, ThreadTypes DEF Books
  <2>3. hist' \in SUBSET Commit
    BY <1>1, <2>1, ThreadTypes DEF Types, Commit
  <2>4. Types'
    BY <1>1, <2>1, <2>2, <2>3 DEF Types, tableVars, txnVars, Label
  <2>5. \A u \in Thread \ {t} : Same(u)
    BY <1>1, <2>1 DEF Same, txnVars
  <2>6. pc'[t] \in {"publish", "abort"} /\ todo'[t] = Held(t)
    BY <1>1, <2>1
  <2>7. Books(t)' /\ Found(t)'
    BY <1>1, <2>1, <2>2, <2>6 DEF Books, InCall, Looping, txnVars, Found
  <2>8. \A k \in Key : Owns(t, k)' = Owns(t, k) /\ Uses(t, k)' = Uses(t, k)
    BY <2>1, <2>2, <2>6 DEF Owns, Uses, Running, Looping, txnVars
  <2>9. QED
    BY <2>1, <2>4, <2>5, <2>7, <2>8, QuietInv DEF tableVars, txnVars
<1>3. CASE InsertLatest(t)
  <2>1. pc[t] = "latest" /\ todo[t] # <<>> /\ todo[t] \in Seq(Key)
    BY <1>1, <1>3, ThreadTypes DEF InsertLatest, Books
  <2>2. PICK k \in Key : k = Head(todo[t])
    BY <2>1
  <2>3. PICK v : v = chain[k][at[t][k] + 1].ver
    OBVIOUS
  <2>4. /\ pc' = [pc EXCEPT ![t] = "unlock"]
        /\ latest' = [latest EXCEPT ![k] = [ver |-> v, stamp |-> [wts |-> ts[t], rts |-> ts[t]]]]
        /\ excused' = excused \/ excused' = excused \cup {[key |-> k, ver |-> v]}
        /\ UNCHANGED <<build, global_ts, chain, refs, counter, db, txnVars, todo, hist>>
    BY <1>3, <2>2, <2>3 DEF InsertLatest, Goto
  <2>5. v \in Nat
    BY <1>1, <2>1, <2>2, <2>3, NextVersion DEF Version
  <2>6. /\ [ver |-> v, stamp |-> [wts |-> ts[t], rts |-> ts[t]]] \in Latest
        /\ [key |-> k, ver |-> v] \in Read
    BY <1>1, <2>5, ThreadTypes DEF Stamp, Latest, Read
  <2>7. latest' \in [Key -> Latest] /\ excused' \in SUBSET Read
    BY <1>1, <2>4, <2>6 DEF Types
  <2>8. Types'
    BY <1>1, <2>4, <2>7 DEF Types, txnVars, Label
  <2>9. \A u \in Thread \ {t} : Same(u)
    BY <1>1, <2>4 DEF Same, txnVars
  <2>10. pc'[t] = "unlock"
    BY <1>1, <2>4
  <2>11. Books(t)' /\ Found(t)'
    BY <1>1, <2>1, <2>4, <2>10 DEF Books, InCall, Looping, txnVars, Found
  <2>12. \A j \in Key : Owns(t, j)' = Owns(t, j) /\ Uses(t, j)' = Uses(t, j)
    BY <2>1, <2>4, <2>10 DEF Owns, Uses, Running, Looping, txnVars
  <2>13. QED
    BY <2>4, <2>8, <2>9, <2>11, <2>12, QuietInv DEF txnVars
<1>4. CASE Deinit(t)
  <2>1. /\ pc[t] \in {"publish", "abort"} /\ todo[t] = <<>> /\ pc' = [pc EXCEPT ![t] = "deinit"]
        /\ todo' = [todo EXCEPT ![t] = IF Forgets THEN order[t] ELSE <<>>]
        /\ UNCHANGED <<build, global_ts, tableVars, db, txnVars, hist, excused>>
    BY <1>4 DEF Deinit, Goto
  <2>2. order[t] \in Seq(Key) /\ <<>> \in Seq(Key) /\ Elems(<<>>) = {} /\ Distinct(<<>>)
    BY <1>1, ThreadTypes DEF Elems, Distinct
  <2>3. Types'
    BY <1>1, <2>1, <2>2 DEF Types, tableVars, txnVars, Label
  <2>4. \A u \in Thread \ {t} : Same(u)
    BY <1>1, <2>1 DEF Same, txnVars
  <2>5. /\ pc'[t] = "deinit" /\ order'[t] = order[t]
        /\ todo'[t] = IF Forgets THEN order[t] ELSE <<>>
    BY <1>1, <2>1 DEF txnVars
  <2>6. Books(t)' /\ Found(t)'
    BY <1>1, <2>1, <2>2, <2>5 DEF Books, InCall, Looping, txnVars, Found
  <2>7. Elems(todo[t]) = {}
    BY <2>1 DEF Elems
  <2>8. \A k \in Key : Owns(t, k)' = Owns(t, k) /\ (Forgets => Uses(t, k)' = Uses(t, k))
    BY <2>1, <2>2, <2>5, <2>7 DEF Owns, Uses, Running, Looping
  <2>9. \A k \in Key : ~Forgets => (Uses(t, k)' => Uses(t, k))
    BY <2>1, <2>2, <2>5 DEF Uses
  <2>10. chain' = chain /\ refs' = refs /\ at' = at /\ ts' = ts /\ writes' = writes
    BY <2>1 DEF tableVars, txnVars
  <2>11. \A k \in Key : RefMoves(t, k)
    <3>1. CASE Forgets
      BY <2>8, <2>10, <3>1 DEF RefMoves
    <3>2. CASE ~Forgets
      <4>1. SUFFICES ASSUME NEW k \in Key PROVE RefMoves(t, k)
        OBVIOUS
      <4>2. CASE Uses(t, k) /\ ~Uses(t, k)'
        BY <3>2, <4>2 DEF RefMoves
      <4>3. CASE Uses(t, k) /\ Uses(t, k)'
        BY <2>10, <4>3, UsesSame DEF RefMoves
      <4>4. CASE ~Uses(t, k)
        BY <2>9, <2>10, <3>2, <4>4, UsesSame DEF RefMoves
      <4>5. QED
        BY <4>2, <4>3, <4>4
    <3>3. QED
      BY <3>1, <3>2
  <2>12. \A k \in Key : LocksStay(t, k)
    BY <2>8, <2>10 DEF LocksStay
  <2>13. QED
    BY <2>1, <2>3, <2>4, <2>6, <2>11, <2>12, StepInv
<1>5. QED
  BY <1>2, <1>3, <1>4

\* A version is locked, to be read or replaced.
LEMMA TryLockInv ==
  ASSUME MvccAssumption, Inv, NEW t \in Thread, TryLock(t)
  PROVE  Inv'
<1>1. /\ Types /\ Books(t) /\ Found(t) /\ pc \in [Thread -> Label] /\ pc[t] = "lock"
      /\ calls[t] # <<>> /\ CallKey(t) \in Elems(order[t]) \ writes[t]
  BY DEF Inv, Places, Types, TryLock, Books, InCall
<1>2. PICK k \in Key : k = CallKey(t)
  BY <1>1, CallTypes
<1>3. PICK i \in DOMAIN chain[k] : i = at[t][k]
  BY <1>1, <1>2 DEF Found
<1>4. PICK l : l = [by |-> t, holder |-> IF Writing(t) THEN ts[t] ELSE 0]
  OBVIOUS
<1>5. PICK w : w = [chain[k][i] EXCEPT !.lock = l]
  OBVIOUS
<1>6. /\ chain[k][i].lock = Free
      /\ chain' = [chain EXCEPT ![k] = [chain[k] EXCEPT ![i] = w]]
      /\ writes' = IF Writing(t) THEN [writes EXCEPT ![t] = writes[t] \cup {k}] ELSE writes
      /\ UNCHANGED <<build, global_ts, refs, counter, latest, db, count, ts, order, at,
                     reads, todo, hist, excused>>
  BY <1>2, <1>3, <1>4, <1>5 DEF TryLock, The
<1>7. \/ /\ Writing(t) /\ calls' = [calls EXCEPT ![t] = Tail(calls[t])]
         /\ pc' = [pc EXCEPT ![t] = "run"]
      \/ ~Writing(t) /\ calls' = calls /\ pc' = [pc EXCEPT ![t] = "get"]
  BY DEF TryLock, Return, Goto
<1>8. w \in Version /\ w.lock = l
  <2>1. l \in Lock
    BY <1>1, <1>4, ThreadTypes DEF Lock
  <2>2. chain[k][i] \in Version
    BY <1>1, VersionTypes
  <2>3. QED
    BY <1>5, <2>1, <2>2 DEF Version
<1>9. /\ chain' \in [Key -> Seq(Version)]
      /\ \A j \in Key : DOMAIN chain'[j] = DOMAIN chain[j] /\ (j # k => chain'[j] = chain[j])
      /\ chain'[k][i] = w /\ \A j \in DOMAIN chain[k] : j # i => chain'[k][j] = chain[k][j]
  <2>1. chain \in [Key -> Seq(Version)]
    BY <1>1 DEF Types
  <2>2. QED
    BY <1>6, <1>8, <2>1, VersionChanged
<1>10. Tail(calls[t]) \in Seq(Op)
  BY <1>1, CallTypes
<1>11. Types'
  <2>1. writes' \in [Thread -> SUBSET Key]
    BY <1>1, <1>6 DEF Types
  <2>2. calls' \in [Thread -> Seq(Op)]
    BY <1>1, <1>7, <1>10 DEF Types
  <2>3. pc' \in [Thread -> Label]
    BY <1>1, <1>7 DEF Label
  <2>4. QED
    BY <1>1, <1>6, <1>9, <2>1, <2>2, <2>3 DEF Types
<1>12. \A u \in Thread \ {t} : Same(u)
  BY <1>1, <1>6, <1>7 DEF Same, Types
<1>13. /\ pc'[t] = IF Writing(t) THEN "run" ELSE "get"
       /\ writes'[t] = IF Writing(t) THEN writes[t] \cup {k} ELSE writes[t]
       /\ ~Writing(t) => calls'[t] = calls[t]
  BY <1>1, <1>6, <1>7 DEF Types
<1>14. Books(t)' /\ Found(t)'
  <2>1. CASE Writing(t)
    BY <1>1, <1>2, <1>6, <1>13, <2>1 DEF Books, InCall, Looping, Found
  <2>2. CASE ~Writing(t)
    BY <1>1, <1>2, <1>6, <1>13, <2>2 DEF Books, InCall, Looping, Found, CallKey, Writing
  <2>3. QED
    BY <2>1, <2>2
<1>15. \A j \in Key : /\ Uses(t, j)' = Uses(t, j) /\ (j # k => Owns(t, j)' = Owns(t, j))
                      /\ ~Owns(t, k) /\ Owns(t, k)'
  <2>1. CASE Writing(t)
    BY <1>1, <1>2, <1>6, <1>13, <2>1 DEF Uses, Owns, Running, Looping
  <2>2. CASE ~Writing(t)
    BY <1>1, <1>2, <1>6, <1>13, <2>2 DEF Uses, Owns, Running, Looping, CallKey
  <2>3. QED
    BY <2>1, <2>2
<1>16. LockMoves(t, k)
  <2>1. chain[k][i].lock.by = "free"
    BY <1>6 DEF Free
  <2>2. k \in writes'[t] <=> Writing(t)
    BY <1>1, <1>2, <1>13
  <2>3. chain'[k][i].lock = [by |-> t, holder |-> IF k \in writes'[t] THEN ts'[t] ELSE 0]
    BY <1>4, <1>6, <1>8, <1>9, <2>2
  <2>4. at'[t][k] = i
    BY <1>3, <1>6
  <2>5. QED
    BY <1>9, <1>15, <2>1, <2>3, <2>4 DEF LockMoves
<1>17. \A j \in Key : j # k => LocksStay(t, j)
  <2>1. SUFFICES ASSUME NEW j \in Key, j # k PROVE LocksStay(t, j)
    OBVIOUS
  <2>2. chain'[j] = chain[j] /\ Owns(t, j)' = Owns(t, j)
    BY <1>9, <1>15, <2>1
  <2>3. j \in writes'[t] <=> j \in writes[t]
    BY <1>13, <2>1
  <2>4. QED
    BY <1>6, <2>2, <2>3 DEF LocksStay
<1>18. \A j \in Key : RefMoves(t, j)
  BY <1>6, <1>15 DEF RefMoves
<1>19. QED
  BY <1>6, <1>11, <1>12, <1>14, <1>16, <1>17, <1>18, StepInv

\* A version is read and its lock given back.
LEMMA GetInv ==
  ASSUME MvccAssumption, Inv, NEW t \in Thread, Get(t)
  PROVE  Inv'
<1>1. /\ Types /\ Books(t) /\ pc \in [Thread -> Label] /\ pc[t] = "get"
      /\ calls[t] # <<>> /\ CallKey(t) \in Elems(order[t]) \ writes[t]
  BY DEF Inv, Types, Get, Books, InCall
<1>2. PICK k \in Key : k = CallKey(t)
  BY <1>1, CallTypes
<1>3. Owns(t, k)
  BY <1>1, <1>2 DEF Owns
<1>4. PICK i \in DOMAIN chain[k] : i = at[t][k]
  BY <1>3 DEF Inv, Places
<1>5. PICK v \in Version : v = chain[k][i] /\ v = The(t, k)
  BY <1>1, <1>4, VersionTypes DEF The
<1>6. PICK w : w = [[v EXCEPT !.rts = NewRts(t, v)] EXCEPT !.lock = Free]
  OBVIOUS
<1>7. NewRts(t, v) \in Nat
  BY <1>1, ThreadTypes DEF NewRts, Larger, Version
<1>8. w \in Version /\ w.lock = Free
  BY <1>5, <1>6, <1>7 DEF Version, Lock, Free
<1>9. PICK r \in Read, n \in Read :
        /\ reads' = [reads EXCEPT ![t] = reads[t] \cup {r}]
        /\ excused' = IF NewRts(t, v) < v.rts THEN excused \cup {n} ELSE excused
  <2>1. v.ver \in Nat /\ latest[k].ver \in Nat /\ Len(db[k]) \in Nat
    <3>1. v.ver \in Nat
      BY <1>5 DEF Version
    <3>2. latest[k] \in Latest /\ db[k] \in Seq(Txn)
      BY <1>1 DEF Types
    <3>3. QED
      BY <3>1, <3>2 DEF Latest
  <2>2. PICK r, n : /\ r = [key |-> k, ver |-> IF v.top THEN latest[k].ver ELSE v.ver]
                    /\ n = [key |-> k, ver |-> IF v.top THEN Len(db[k]) ELSE v.ver]
    OBVIOUS
  <2>3. r \in Read /\ n \in Read
    BY <2>1, <2>2 DEF Read
  <2>4. /\ reads' = [reads EXCEPT ![t] = reads[t] \cup {r}]
        /\ excused' = IF NewRts(t, v) < v.rts THEN excused \cup {n} ELSE excused
    BY <1>2, <1>5, <2>2 DEF Get
  <2>5. QED
    BY <2>3, <2>4
<1>10. chain' = [chain EXCEPT ![k] = [chain[k] EXCEPT ![i] = w]]
  <2>1. chain' = [chain EXCEPT ![k][i].rts = NewRts(t, v), ![k][i].lock = Free]
    BY <1>2, <1>4, <1>5 DEF Get
  <2>2. chain \in [Key -> Seq(Version)]
    BY <1>1 DEF Types
  <2>3. PICK a, b : a = NewRts(t, v) /\ b = Free
    OBVIOUS
  <2>4. chain' = [chain EXCEPT ![k][i].rts = a, ![k][i].lock = b]
    BY <2>1, <2>3
  <2>5. w = [[chain[k][i] EXCEPT !.rts = a] EXCEPT !.lock = b]
    BY <1>5, <1>6, <2>3
  <2>6. QED
    BY <2>2, <2>4, <2>5
<1>11. /\ calls' = [calls EXCEPT ![t] = Tail(calls[t])] /\ pc' = [pc EXCEPT ![t] = "run"]
       /\ UNCHANGED <<build, global_ts, refs, counter, latest, db, count, ts, order,
                      writes, at, todo, hist>>
  BY DEF Get, Return, Goto
<1>12. /\ chain' \in [Key -> Seq(Version)]
       /\ \A j \in Key : DOMAIN chain'[j] = DOMAIN chain[j] /\ (j # k => chain'[j] = chain[j])
       /\ chain'[k][i] = w /\ \A j \in DOMAIN chain[k] : j # i => chain'[k][j] = chain[k][j]
  <2>1. chain \in [Key -> Seq(Version)]
    BY <1>1 DEF Types
  <2>2. QED
    BY <1>8, <1>10, <2>1, VersionChanged
<1>13. Types'
  <2>1. Tail(calls[t]) \in Seq(Op)
    BY <1>1, CallTypes
  <2>2. /\ reads' \in [Thread -> SUBSET Read] /\ excused' \in SUBSET Read
        /\ calls' \in [Thread -> Seq(Op)] /\ pc' \in [Thread -> Label]
    BY <1>1, <1>9, <1>11, <2>1 DEF Types, Label
  <2>3. QED
    BY <1>1, <1>11, <1>12, <2>2 DEF Types
<1>14. \A u \in Thread \ {t} : Same(u)
  BY <1>1, <1>11 DEF Same, Types
<1>15. pc'[t] = "run"
  BY <1>1, <1>11
<1>16. Books(t)' /\ Found(t)'
  BY <1>1, <1>11, <1>15 DEF Books, InCall, Looping, Found
<1>17. \A j \in Key : /\ Uses(t, j)' = Uses(t, j) /\ (j # k => Owns(t, j)' = Owns(t, j))
                      /\ ~Owns(t, k)'
  BY <1>1, <1>2, <1>11, <1>15 DEF Uses, Owns, Running, Looping
<1>18. LockMoves(t, k)
  <2>1. at'[t][k] = i /\ at[t][k] = i
    BY <1>4, <1>11
  <2>2. QED
    BY <1>3, <1>8, <1>12, <1>17, <2>1 DEF LockMoves
<1>19. \A j \in Key : j # k => LocksStay(t, j)
  BY <1>11, <1>12, <1>17 DEF LocksStay
<1>20. \A j \in Key : RefMoves(t, j)
  BY <1>11, <1>17 DEF RefMoves
<1>21. QED
  BY <1>11, <1>13, <1>14, <1>16, <1>18, <1>19, <1>20, StepInv

\* A new version is stored.
LEMMA PublishInv ==
  ASSUME MvccAssumption, Inv, NEW t \in Thread, Publish(t)
  PROVE  Inv'
<1>1. /\ Types /\ Books(t) /\ pc \in [Thread -> Label] /\ pc[t] = "publish"
      /\ todo[t] # <<>> /\ todo[t] \in Seq(Key)
  BY ThreadTypes DEF Inv, Types, Publish
<1>2. PICK k \in Key : k = Head(todo[t]) /\ k \in Elems(todo[t])
  BY <1>1, HeadTailElems
<1>3. at[t][k] \in DOMAIN chain[k] /\ Owns(t, k)
  BY <1>1, <1>2 DEF Inv, Places, Owns, Looping
<1>4. PICK w : w = NewVersion(ts[t], ts[t], Len(db[k]) + 1, FALSE)
  OBVIOUS
<1>5. /\ db' = [db EXCEPT ![k] = Append(db[k], Id(t))]
      /\ chain' = [chain EXCEPT ![k] = Append(chain[k], w)]
      /\ pc' = [pc EXCEPT ![t] = "close"]
      /\ UNCHANGED <<build, global_ts, refs, counter, latest, txnVars, todo, hist, excused>>
  BY <1>2, <1>4 DEF Publish, Goto
<1>6. w \in Version /\ w.lock = Free
  <2>1. db[k] \in Seq(Txn) /\ ts[t] \in Nat /\ Inf \in Nat
    BY <1>1, ThreadTypes DEF Types, MvccAssumption
  <2>2. Len(db[k]) + 1 \in Nat
    BY <2>1
  <2>3. QED
    BY <1>4, <2>1, <2>2 DEF NewVersion, Version, Lock, Free
<1>7. /\ chain' \in [Key -> Seq(Version)] /\ DOMAIN chain'[k] = DOMAIN chain[k] \cup {Len(chain[k]) + 1}
      /\ \A j \in Key : j # k => chain'[j] = chain[j]
      /\ chain'[k][Len(chain[k]) + 1] = w /\ \A j \in DOMAIN chain[k] : chain'[k][j] = chain[k][j]
      /\ Len(chain'[k]) = Len(chain[k]) + 1
  <2>1. chain \in [Key -> Seq(Version)] /\ chain' = [chain EXCEPT ![k] = Append(chain[k], w)]
    BY <1>1, <1>5 DEF Types
  <2>2. QED
    BY <1>6, <2>1, VersionAdded
<1>8. db' \in [Key -> Seq(Txn)]
  <2>1. db[k] \in Seq(Txn) /\ Id(t) \in Txn
    BY <1>1, ThreadTypes DEF Types
  <2>2. Append(db[k], Id(t)) \in Seq(Txn)
    BY <2>1
  <2>3. QED
    BY <1>1, <1>5, <2>2 DEF Types
<1>9. Types'
  BY <1>1, <1>5, <1>7, <1>8 DEF Types, txnVars, Label
<1>10. \A u \in Thread \ {t} : Same(u)
  BY <1>1, <1>5 DEF Same, txnVars
<1>11. pc'[t] = "close" /\ todo'[t] = todo[t] /\ at'[t] = at[t]
  BY <1>1, <1>5 DEF txnVars
<1>12. Books(t)'
  BY <1>1, <1>5, <1>11 DEF Books, InCall, Looping, txnVars
<1>13. Found(t)'
  <2>1. at[t][k] + 1 \in DOMAIN chain'[k]
    BY <1>1, <1>3, <1>7, VersionTypes
  <2>2. QED
    BY <1>2, <1>11, <2>1 DEF Found
<1>14. \A j \in Key : Owns(t, j)' = Owns(t, j) /\ Uses(t, j)' = Uses(t, j)
  BY <1>1, <1>5, <1>11 DEF Owns, Uses, Running, Looping, txnVars
<1>15. \A j \in Key : LocksStay(t, j)
  <2>1. SUFFICES ASSUME NEW j \in Key PROVE LocksStay(t, j)
    OBVIOUS
  <2>2. /\ \A i \in DOMAIN chain[j] : i \in DOMAIN chain'[j] /\ chain'[j][i].lock = chain[j][i].lock
        /\ \A i \in DOMAIN chain'[j] : i \in DOMAIN chain[j] \/ chain'[j][i].lock = Free
    <3>1. CASE j = k
      BY <1>6, <1>7, <3>1
    <3>2. CASE j # k
      BY <1>7, <3>2
    <3>3. QED
      BY <3>1, <3>2
  <2>3. QED
    BY <1>5, <1>14, <2>2 DEF LocksStay, txnVars
<1>16. \A j \in Key : RefMoves(t, j)
  BY <1>5, <1>14 DEF RefMoves
<1>17. QED
  BY <1>5, <1>9, <1>10, <1>12, <1>13, <1>15, <1>16, StepInv

\* The previous version is closed.
LEMMA CloseInv ==
  ASSUME MvccAssumption, Inv, NEW t \in Thread, Close(t)
  PROVE  Inv'
<1>1. /\ Types /\ Books(t) /\ Found(t) /\ pc \in [Thread -> Label] /\ pc[t] = "close"
      /\ todo[t] # <<>> /\ todo[t] \in Seq(Key)
  BY ThreadTypes DEF Inv, Places, Types, Close, Books
<1>2. PICK k \in Key : k = Head(todo[t])
  BY <1>1
<1>3. PICK i \in DOMAIN chain[k] : i = at[t][k] /\ i + 1 \in DOMAIN chain[k]
  BY <1>1, <1>2, NextVersion
<1>4. PICK m : m = IF The(t, k).top THEN 0 ELSE ts[t]
  OBVIOUS
<1>5. PICK w : w = [chain[k][i] EXCEPT !.max = m]
  OBVIOUS
<1>6. /\ chain' = [chain EXCEPT ![k] = [chain[k] EXCEPT ![i] = w]]
      /\ pc' = [pc EXCEPT ![t] = IF Forgets THEN "latest" ELSE "unlock"]
      /\ UNCHANGED <<build, global_ts, refs, counter, latest, db, txnVars, todo, hist, excused>>
  BY <1>2, <1>3, <1>4, <1>5 DEF Close, Goto
<1>7. w \in Version /\ w.lock = chain[k][i].lock
  <2>1. m \in Nat
    BY <1>1, <1>4, ThreadTypes
  <2>2. chain[k][i] \in Version
    BY <1>1, VersionTypes
  <2>3. QED
    BY <1>5, <2>1, <2>2 DEF Version
<1>8. /\ chain' \in [Key -> Seq(Version)]
      /\ \A j \in Key : DOMAIN chain'[j] = DOMAIN chain[j] /\ (j # k => chain'[j] = chain[j])
      /\ chain'[k][i] = w /\ \A j \in DOMAIN chain[k] : j # i => chain'[k][j] = chain[k][j]
  <2>1. chain \in [Key -> Seq(Version)]
    BY <1>1 DEF Types
  <2>2. QED
    BY <1>6, <1>7, <2>1, VersionChanged
<1>9. Types'
  BY <1>1, <1>6, <1>8 DEF Types, txnVars, Label
<1>10. \A u \in Thread \ {t} : Same(u)
  BY <1>1, <1>6 DEF Same, txnVars
<1>11. pc'[t] = IF Forgets THEN "latest" ELSE "unlock"
  BY <1>1, <1>6
<1>12. Books(t)'
  BY <1>1, <1>6, <1>11 DEF Books, InCall, Looping, txnVars, Forgets
<1>13. Found(t)'
  BY <1>2, <1>3, <1>6, <1>8, <1>11 DEF Found, txnVars
<1>14. \A j \in Key : Owns(t, j)' = Owns(t, j) /\ Uses(t, j)' = Uses(t, j)
  BY <1>1, <1>6, <1>11 DEF Owns, Uses, Running, Looping, txnVars
<1>15. \A j \in Key : LocksStay(t, j)
  <2>1. SUFFICES ASSUME NEW j \in Key PROVE LocksStay(t, j)
    OBVIOUS
  <2>2. /\ \A n \in DOMAIN chain[j] : n \in DOMAIN chain'[j] /\ chain'[j][n].lock = chain[j][n].lock
        /\ \A n \in DOMAIN chain'[j] : n \in DOMAIN chain[j]
    <3>1. CASE j = k
      BY <1>7, <1>8, <3>1
    <3>2. CASE j # k
      BY <1>8, <3>2
    <3>3. QED
      BY <3>1, <3>2
  <2>3. QED
    BY <1>6, <1>14, <2>2 DEF LocksStay, txnVars
<1>16. \A j \in Key : RefMoves(t, j)
  BY <1>6, <1>14 DEF RefMoves
<1>17. QED
  BY <1>6, <1>9, <1>10, <1>12, <1>13, <1>15, <1>16, StepInv

\* The lock of a version that was written, or was to be, is given back.
LEMMA UnlockInv ==
  ASSUME MvccAssumption, Inv, NEW t \in Thread, Unlock(t)
  PROVE  Inv'
<1>1. /\ Types /\ Books(t) /\ pc \in [Thread -> Label] /\ pc[t] \in {"unlock", "abort"}
      /\ todo[t] # <<>> /\ todo[t] \in Seq(Key) /\ Distinct(todo[t])
      /\ Elems(todo[t]) \subseteq writes[t]
  BY ThreadTypes DEF Inv, Types, Unlock, Books, Looping
<1>2. PICK k \in Key : k = Head(todo[t])
  BY <1>1
<1>3. /\ Tail(todo[t]) \in Seq(Key) /\ Distinct(Tail(todo[t]))
      /\ Elems(todo[t]) = Elems(Tail(todo[t])) \cup {k} /\ k \notin Elems(Tail(todo[t]))
  BY <1>1, <1>2, HeadTailElems
<1>4. Owns(t, k) /\ k \in writes[t]
  BY <1>1, <1>3 DEF Owns, Looping
<1>5. PICK i \in DOMAIN chain[k] : i = at[t][k]
  BY <1>4 DEF Inv, Places
<1>6. chain[k][i].lock.by = t /\ The(t, k).lock.holder = ts[t]
  BY <1>4, <1>5 DEF Inv, LockRight, The
<1>7. PICK w : w = [chain[k][i] EXCEPT !.lock = Free]
  OBVIOUS
<1>8. /\ chain' = [chain EXCEPT ![k] = [chain[k] EXCEPT ![i] = w]]
      /\ todo' = [todo EXCEPT ![t] = Tail(todo[t])]
      /\ pc' = [pc EXCEPT ![t] = IF pc[t] = "unlock" THEN "publish" ELSE "abort"]
      /\ UNCHANGED <<build, global_ts, refs, counter, latest, db, txnVars, hist, excused>>
  BY <1>2, <1>5, <1>6, <1>7 DEF Unlock, Goto
<1>9. w \in Version /\ w.lock = Free
  <2>1. chain[k][i] \in Version
    BY <1>1, VersionTypes
  <2>2. QED
    BY <1>7, <2>1 DEF Version, Lock, Free
<1>10. /\ chain' \in [Key -> Seq(Version)]
       /\ \A j \in Key : DOMAIN chain'[j] = DOMAIN chain[j] /\ (j # k => chain'[j] = chain[j])
       /\ chain'[k][i] = w /\ \A j \in DOMAIN chain[k] : j # i => chain'[k][j] = chain[k][j]
  <2>1. chain \in [Key -> Seq(Version)]
    BY <1>1 DEF Types
  <2>2. QED
    BY <1>8, <1>9, <2>1, VersionChanged
<1>11. Types'
  BY <1>1, <1>3, <1>8, <1>10 DEF Types, txnVars, Label
<1>12. \A u \in Thread \ {t} : Same(u)
  BY <1>1, <1>8 DEF Same, Types, txnVars
<1>13. pc'[t] \in {"publish", "abort"} /\ todo'[t] = Tail(todo[t])
  BY <1>1, <1>8 DEF Types
<1>14. Books(t)' /\ Found(t)'
  BY <1>1, <1>3, <1>8, <1>13 DEF Books, InCall, Looping, txnVars, Found
<1>15. \A j \in Key : /\ j # k => Owns(t, j)' = Owns(t, j)
                      /\ ~Owns(t, k)' /\ Uses(t, j)' = Uses(t, j)
  BY <1>1, <1>3, <1>8, <1>13 DEF Owns, Uses, Running, Looping, txnVars
<1>16. LockMoves(t, k)
  <2>1. at'[t][k] = i
    BY <1>5, <1>8 DEF txnVars
  <2>2. QED
    BY <1>4, <1>5, <1>9, <1>10, <1>15, <2>1 DEF LockMoves
<1>17. \A j \in Key : j # k => LocksStay(t, j)
  BY <1>8, <1>10, <1>15 DEF LocksStay, txnVars
<1>18. \A j \in Key : RefMoves(t, j)
  BY <1>8, <1>15 DEF RefMoves
<1>19. QED
  BY <1>8, <1>11, <1>12, <1>14, <1>16, <1>17, <1>18, StepInv

\* The first use of a key takes a reference, and makes the list.
LEMMA RequestInv ==
  ASSUME MvccAssumption, Inv, NEW t \in Thread, Request(t)
  PROVE  Inv'
<1>1. /\ Types /\ Books(t) /\ pc \in [Thread -> Label] /\ UsedThere
      /\ pc[t] = "run" /\ calls[t] # <<>> /\ CallKey(t) \notin writes[t]
  BY DEF Inv, Types, Request, Calling
<1>2. PICK k \in Key : k = CallKey(t)
  BY <1>1, CallTypes
<1>3. CASE k \in Elems(order[t])
  <2>1. /\ pc' = [pc EXCEPT ![t] = "find"]
        /\ UNCHANGED <<build, global_ts, tableVars, db, txnVars, todo, hist, excused>>
    BY <1>2, <1>3 DEF Request, Goto, txnVars
  <2>2. Types'
    BY <1>1, <2>1 DEF Types, tableVars, txnVars, Label
  <2>3. \A u \in Thread \ {t} : Same(u)
    BY <1>1, <2>1 DEF Same, txnVars
  <2>4. pc'[t] = "find"
    BY <1>1, <2>1
  <2>5. Books(t)' /\ Found(t)'
    BY <1>1, <1>2, <1>3, <2>1, <2>4 DEF Books, InCall, Looping, txnVars, CallKey, Found
  <2>6. \A j \in Key : Owns(t, j)' = Owns(t, j) /\ Uses(t, j)' = Uses(t, j)
    BY <1>1, <2>1, <2>4 DEF Owns, Uses, Running, Looping, txnVars
  <2>7. QED
    BY <2>1, <2>2, <2>3, <2>5, <2>6, QuietInv DEF tableVars, txnVars
<1>4. CASE k \notin Elems(order[t])
  <2>1. /\ Pin(k) /\ order' = [order EXCEPT ![t] = Append(order[t], k)]
        /\ pc' = [pc EXCEPT ![t] = IF build = "cache" /\ chain[k] = <<>> THEN "load" ELSE "find"]
        /\ UNCHANGED <<build, global_ts, db, count, ts, calls, writes, at, reads, todo, hist, excused>>
    BY <1>2, <1>4 DEF Request, Goto
  <2>2. order[t] \in Seq(Key) /\ Distinct(order[t]) /\ Append(order[t], k) \in Seq(Key)
    BY <1>1, ThreadTypes DEF Books
  <2>3. /\ Elems(Append(order[t], k)) = Elems(order[t]) \cup {k}
        /\ Distinct(Append(order[t], k))
    BY <1>4, <2>2, AppendElems
  <2>4. /\ refs' \in [Key -> Nat] /\ UNCHANGED <<counter, latest>>
        /\ Forgets => refs'[k] = refs[k] + 1
        /\ \A j \in Key : j # k => refs'[j] = refs[j]
    BY <1>1, <2>1 DEF Pin, Types
  <2>5. /\ chain' \in [Key -> Seq(Version)] /\ chain'[k] # <<>>
        /\ \A j \in Key : j # k => chain'[j] = chain[j]
        /\ \/ chain'[k] = chain[k]
           \/ chain[k] = <<>> /\ \A i \in DOMAIN chain'[k] : chain'[k][i].lock = Free
    <3>1. CASE Forgets /\ chain[k] = <<>>
      <4>1. PICK w \in Version : w = FirstVersion(k) /\ w.lock = Free
        BY <1>1, FirstTypes
      <4>2. chain' = [chain EXCEPT ![k] = <<w>>]
        BY <2>1, <3>1, <4>1 DEF Pin
      <4>3. chain \in [Key -> Seq(Version)]
        BY <1>1 DEF Types
      <4>4. /\ chain' \in [Key -> Seq(Version)] /\ DOMAIN chain'[k] = {1} /\ chain'[k] # <<>>
            /\ chain'[k][1] = w /\ \A j \in Key : j # k => chain'[j] = chain[j]
        BY <4>2, <4>3, ListMade
      <4>5. QED
        BY <3>1, <4>1, <4>4
    <3>2. CASE ~(Forgets /\ chain[k] = <<>>)
      <4>1. chain' = chain /\ chain[k] # <<>>
        BY <1>1, <2>1, <3>2 DEF Pin, UsedThere
      <4>2. QED
        BY <1>1, <4>1 DEF Types
    <3>3. QED
      BY <3>1, <3>2
  <2>6. Types'
    BY <1>1, <2>1, <2>2, <2>4, <2>5 DEF Types, Label
  <2>7. \A u \in Thread \ {t} : Same(u)
    BY <1>1, <2>1 DEF Same, Types
  <2>8. pc'[t] \in {"load", "find"} /\ (pc'[t] = "load" => build = "cache")
        /\ order'[t] = Append(order[t], k)
    BY <1>1, <2>1 DEF Types
  <2>9. Books(t)' /\ Found(t)'
    BY <1>1, <1>2, <2>1, <2>3, <2>8 DEF Books, InCall, Looping, CallKey, Found
  <2>10. /\ \A j \in Key : /\ Owns(t, j)' = Owns(t, j)
                           /\ j # k => Uses(t, j)' = Uses(t, j)
         /\ Uses(t, k)' /\ ~Uses(t, k)
    BY <1>1, <1>4, <2>1, <2>3, <2>8 DEF Owns, Uses, Running, Looping
  <2>11. \A j \in Key : LocksStay(t, j)
    <3>1. SUFFICES ASSUME NEW j \in Key PROVE LocksStay(t, j)
      OBVIOUS
    <3>2. /\ \A i \in DOMAIN chain[j] : i \in DOMAIN chain'[j] /\ chain'[j][i].lock = chain[j][i].lock
          /\ \A i \in DOMAIN chain'[j] : i \in DOMAIN chain[j] \/ chain'[j][i].lock = Free
      <4>1. CASE j = k /\ chain[k] = <<>>
        BY <2>5, <4>1
      <4>2. CASE j # k \/ chain[k] # <<>>
        BY <2>5, <4>2
      <4>3. QED
        BY <4>1, <4>2
    <3>3. QED
      BY <2>1, <2>10, <3>2 DEF LocksStay
  <2>12. \A j \in Key : RefMoves(t, j)
    BY <2>4, <2>5, <2>10 DEF RefMoves
  <2>13. QED
    BY <2>1, <2>6, <2>7, <2>9, <2>11, <2>12, StepInv
<1>5. QED
  BY <1>3, <1>4

\* The clock takes a list that nobody refers to.
LEMMA CheckLoadInv ==
  ASSUME MvccAssumption, Inv, NEW t \in Thread, CheckLoad(t)
  PROVE  Inv'
<1>1. /\ Types /\ Books(t) /\ pc \in [Thread -> Label] /\ pc[t] = "load" /\ build = "cache"
      /\ Forgets
  BY DEF Inv, Types, CheckLoad, Books, Forgets
<1>2. /\ pc' = [pc EXCEPT ![t] = "find"]
      /\ UNCHANGED <<build, global_ts, db, txnVars, todo, hist, excused>>
      /\ UNCHANGED tableVars \/ \E k \in Key : Evict(k)
  BY DEF CheckLoad, Goto
<1>3. \A u \in Thread \ {t} : Same(u)
  BY <1>1, <1>2 DEF Same, txnVars
<1>4. pc'[t] = "find"
  BY <1>1, <1>2
<1>5. Books(t)' /\ Found(t)'
  BY <1>1, <1>2, <1>4 DEF Books, InCall, Looping, txnVars, CallKey, Found
<1>6. \A k \in Key : Owns(t, k)' = Owns(t, k) /\ Uses(t, k)' = Uses(t, k)
  BY <1>1, <1>2, <1>4 DEF Owns, Uses, Running, Looping, txnVars
<1>7. CASE UNCHANGED tableVars
  <2>1. Types'
    BY <1>1, <1>2, <1>7 DEF Types, tableVars, txnVars, Label
  <2>2. QED
    BY <1>2, <1>3, <1>5, <1>6, <1>7, <2>1, QuietInv DEF tableVars, txnVars
<1>8. CASE \E k \in Key : Evict(k)
  <2>1. PICK k \in Key : Evict(k)
    BY <1>8
  <2>2. PICK w \in Version : w = Last(chain[k])
    BY <1>1, <2>1, VersionTypes DEF Evict, Last
  <2>3. /\ chain[k] # <<>> /\ refs[k] = 0
        /\ latest' = [latest EXCEPT ![k].stamp = [wts |-> w.min, rts |-> w.rts]]
        /\ chain' = [chain EXCEPT ![k] = <<>>] /\ UNCHANGED <<refs, counter>>
    BY <2>1, <2>2 DEF Evict
  <2>4. /\ chain' \in [Key -> Seq(Version)] /\ chain'[k] = <<>>
        /\ \A j \in Key : j # k => chain'[j] = chain[j]
    BY <1>1, <2>3, ListDropped DEF Types
  <2>5. latest' \in [Key -> Latest]
    <3>1. [wts |-> w.min, rts |-> w.rts] \in Stamp
      BY <2>2 DEF Version, Stamp
    <3>2. QED
      BY <1>1, <2>3, <3>1 DEF Types, Latest
  <2>6. Types'
    BY <1>1, <1>2, <2>3, <2>4, <2>5 DEF Types, txnVars, Label
  <2>7. \A u \in Thread : ~Uses(u, k)
    BY <1>1, <2>3, UsedCounted
  <2>8. \A u \in Thread : ~Uses(u, k)'
    BY <1>2, <1>3, <1>6, <2>7, SameThread
  <2>9. ListGoes(k)
    BY <1>1, <2>4, <2>8 DEF ListGoes
  <2>10. \A j \in Key : j # k => LocksStay(t, j)
    BY <1>2, <1>6, <2>4 DEF LocksStay, txnVars
  <2>11. \A j \in Key : RefMoves(t, j)
    BY <1>6, <2>3 DEF RefMoves
  <2>12. QED
    BY <1>2, <1>3, <1>5, <2>6, <2>9, <2>10, <2>11, StepInv
<1>9. QED
  BY <1>2, <1>7, <1>8

\* A reference is given back, and the last one drops the list.
LEMMA RemoveInv ==
  ASSUME MvccAssumption, Inv, NEW t \in Thread, Remove(t)
  PROVE  Inv'
<1>1. /\ Types /\ Books(t) /\ pc \in [Thread -> Label] /\ pc[t] = "deinit"
      /\ todo[t] \in Seq(Key) /\ Distinct(todo[t]) /\ Elems(todo[t]) \subseteq Elems(order[t])
  BY ThreadTypes DEF Inv, Types, Remove, Books
<1>2. CASE todo[t] = <<>>
  <2>1. /\ pc' = [pc EXCEPT ![t] = "idle"]
        /\ UNCHANGED <<build, global_ts, tableVars, db, txnVars, todo, hist, excused>>
    BY <1>2 DEF Remove, Goto
  <2>2. Types'
    BY <1>1, <2>1 DEF Types, tableVars, txnVars, Label
  <2>3. \A u \in Thread \ {t} : Same(u)
    BY <1>1, <2>1 DEF Same, txnVars
  <2>4. pc'[t] = "idle"
    BY <1>1, <2>1
  <2>5. Books(t)' /\ Found(t)'
    BY <1>1, <2>1, <2>4 DEF Books, InCall, Looping, txnVars, Found
  <2>6. Elems(todo[t]) = {}
    BY <1>2 DEF Elems
  <2>7. \A j \in Key : Owns(t, j)' = Owns(t, j) /\ Uses(t, j)' = Uses(t, j)
    BY <1>1, <2>1, <2>4, <2>6 DEF Owns, Uses, Running, Looping, txnVars
  <2>8. QED
    BY <2>1, <2>2, <2>3, <2>5, <2>7, QuietInv DEF tableVars, txnVars
<1>3. CASE todo[t] # <<>>
  <2>1. PICK k \in Key : k = Head(todo[t])
    BY <1>1, <1>3
  <2>2. /\ Tail(todo[t]) \in Seq(Key) /\ Distinct(Tail(todo[t]))
        /\ Elems(todo[t]) = Elems(Tail(todo[t])) \cup {k} /\ k \notin Elems(Tail(todo[t]))
    BY <1>1, <1>3, <2>1, HeadTailElems
  <2>3. /\ Unpin(k) /\ todo' = [todo EXCEPT ![t] = Tail(todo[t])]
        /\ UNCHANGED <<pc, build, global_ts, db, txnVars, hist, excused>>
    BY <1>3, <2>1 DEF Remove
  <2>4. Uses(t, k)
    BY <1>1, <2>2 DEF Uses
  <2>5. chain[k] # <<>>
    BY <2>4 DEF Inv, UsedThere
  <2>6. /\ refs' \in [Key -> Nat] /\ UNCHANGED latest
        /\ Forgets => refs'[k] = refs[k] - 1
        /\ \A j \in Key : j # k => refs'[j] = refs[j]
    BY <1>1, <2>3, <2>4, UsedCounted DEF Unpin, Types
  <2>7. \A u \in Thread \ {t} : Same(u)
    BY <1>1, <2>3 DEF Same, txnVars, Types
  <2>8. pc'[t] = "deinit" /\ todo'[t] = Tail(todo[t]) /\ order'[t] = order[t]
    BY <1>1, <2>3 DEF Types, txnVars
  <2>9. Books(t)' /\ Found(t)'
    BY <1>1, <2>2, <2>3, <2>8 DEF Books, InCall, Looping, txnVars, Found
  <2>10. /\ \A j \in Key : /\ Owns(t, j)' = Owns(t, j)
                           /\ j # k => Uses(t, j)' = Uses(t, j)
         /\ ~Uses(t, k)'
    BY <1>1, <2>2, <2>3, <2>8 DEF Owns, Uses, Running, Looping, txnVars
  <2>11. \A j \in Key : RefMoves(t, j)
    BY <2>4, <2>6, <2>10 DEF RefMoves
  <2>12. CASE build = "counter" /\ refs[k] = 1
    <3>1. PICK w \in Version : w = Last(chain[k])
      BY <1>1, <2>5, VersionTypes DEF Last
    <3>2. /\ counter' = Merge(counter, [wts |-> w.min, rts |-> w.rts])
          /\ chain' = [chain EXCEPT ![k] = <<>>]
      BY <2>3, <2>12, <3>1 DEF Unpin
    <3>3. /\ chain' \in [Key -> Seq(Version)] /\ chain'[k] = <<>>
          /\ \A j \in Key : j # k => chain'[j] = chain[j]
      BY <1>1, <3>2, ListDropped DEF Types
    <3>4. counter' \in Stamp
      <4>1. w.min \in Nat /\ w.rts \in Nat /\ counter.wts \in Nat /\ counter.rts \in Nat
        BY <1>1, <3>1 DEF Version, Types, Stamp
      <4>2. QED
        BY <3>2, <4>1 DEF Merge, Larger, Stamp
    <3>5. Types'
      BY <1>1, <2>2, <2>3, <2>6, <3>3, <3>4 DEF Types, txnVars
    <3>6. \A u \in Thread : ~Uses(u, k)'
      <4>1. Forgets
        BY <2>12 DEF Forgets
      <4>2. Users(k) = {t}
        <5>1. t \in Users(k) /\ IsFiniteSet(Users(k)) /\ Cardinality(Users(k)) = 1
          BY <2>4, <2>12, <4>1, UsersFinite DEF Users, Inv
        <5>2. /\ IsFiniteSet(Users(k) \ {t})
              /\ Cardinality(Users(k) \ {t}) = Cardinality(Users(k)) - 1
          BY <5>1, FS_RemoveElement
        <5>3. Cardinality(Users(k) \ {t}) = 0
          BY <5>1, <5>2
        <5>4. Users(k) \ {t} = {}
          BY <5>2, <5>3, FS_EmptySet
        <5>5. QED
          BY <5>1, <5>4
      <4>3. \A u \in Thread \ {t} : ~Uses(u, k)
        BY <4>2 DEF Users
      <4>4. QED
        BY <2>3, <2>7, <2>10, <4>3, SameThread
    <3>7. ListGoes(k)
      BY <2>12, <3>3, <3>6 DEF ListGoes, Forgets
    <3>8. \A j \in Key : j # k => LocksStay(t, j)
      BY <2>3, <2>10, <3>3 DEF LocksStay, txnVars
    <3>9. QED
      BY <2>3, <2>7, <2>9, <2>11, <3>5, <3>7, <3>8, StepInv
  <2>13. CASE ~(build = "counter" /\ refs[k] = 1)
    <3>1. UNCHANGED <<chain, counter>>
      BY <2>3, <2>13 DEF Unpin
    <3>2. Types'
      BY <1>1, <2>2, <2>3, <2>6, <3>1 DEF Types, txnVars
    <3>3. \A j \in Key : LocksStay(t, j)
      BY <2>3, <2>10, <3>1 DEF LocksStay, txnVars
    <3>4. QED
      BY <2>3, <2>7, <2>9, <2>11, <3>2, <3>3, StepInv
  <2>14. QED
    BY <2>12, <2>13
<1>4. QED
  BY <1>2, <1>3

\* The invariant is inductive.
LEMMA NextInv == MvccAssumption /\ Inv /\ [Next]_vars => Inv'
<1> SUFFICES ASSUME MvccAssumption, Inv, [Next]_vars PROVE Inv'
  OBVIOUS
<1>1. CASE UNCHANGED vars
  <2>1. Types'
    BY <1>1 DEF vars, tableVars, txnVars, Inv, Types
  <2>2. \A t \in Thread : Same(t) /\ build' = build /\ chain' = chain /\ refs' = refs
    BY <1>1 DEF vars, tableVars, txnVars, Same
  <2>3. \A t \in Thread : /\ Books(t)'
                          /\ CallKey(t)' = CallKey(t)
                          /\ \A k \in Key : Owns(t, k)' = Owns(t, k) /\ Uses(t, k)' = Uses(t, k)
    BY <2>2, SameThread DEF Inv
  <2>4. \A k \in Key : Users(k)' = Users(k)
    BY <2>3 DEF Users
  <2>5. \A t \in Thread : Places(t)'
    BY <2>2, <2>3 DEF Inv, Places, Found, Same
  <2>6. ASSUME NEW k \in Key, NEW i \in DOMAIN chain'[k] PROVE LockRight(k, i)'
    <3>1. LockRight(k, i) /\ chain'[k] = chain[k]
      BY <1>1, <2>6 DEF Inv, vars, tableVars
    <3>2. writes' = writes /\ ts' = ts /\ at' = at
      BY <1>1 DEF vars, txnVars
    <3>3. QED
      BY <2>3, <3>1, <3>2 DEF LockRight
  <2>7. chain' = chain /\ refs' = refs /\ build' = build
    BY <1>1 DEF vars, tableVars
  <2>8. UsedThere' /\ (Forgets' => \A k \in Key : refs'[k] = Cardinality(Users(k)'))
    BY <2>3, <2>4, <2>7 DEF Inv, UsedThere, Forgets
  <2>9. QED
    BY <2>1, <2>3, <2>5, <2>6, <2>8 DEF Inv
<1>2. CASE \E t \in Thread : Step(t) \/ Abort(t)
  <2>1. PICK t \in Thread : Step(t) \/ Abort(t)
    BY <1>2
  <2>2. CASE Busy(t)
    BY <1>1, <2>2 DEF Busy
  <2>3. CASE ~Busy(t)
    BY <2>1, <2>3, BeginInv, CallInv, EndInv, TryLockInv, GetInv, PublishInv, CloseInv, UnlockInv,
       RequestInv, CheckLoadInv, RemoveInv DEF Step
  <2>4. QED
    BY <2>2, <2>3
<1>3. QED
  BY <1>1, <1>2 DEF Next, Done

\* Types, books, locks and references are right in every state.
THEOREM Invariance == MvccAssumption => (Spec => []Inv)
<1> SUFFICES ASSUME MvccAssumption PROVE Spec => []Inv
  OBVIOUS
<1>1. Init => Inv
  BY InitInv
<1>2. Inv /\ [Next]_vars => Inv'
  BY NextInv
<1>3. QED
  BY <1>1, <1>2, PTL DEF Spec

\* The lock of a version is held by a transaction that is writing the next one
\* or reading it, and by nobody who has ended (version_meta_unlock).
THEOREM VersionLocksOwned == MvccAssumption => (Spec => []LocksOwned)
<1> SUFFICES ASSUME MvccAssumption PROVE Spec => []LocksOwned
  OBVIOUS
<1>1. Inv => LocksOwned
  <2>1. SUFFICES ASSUME Inv, NEW k \in Key, NEW t \in Thread
                 PROVE  {i \in DOMAIN chain[k] : chain[k][i].lock.by = t}
                          = IF Owns(t, k) THEN {at[t][k]} ELSE {}
    BY DEF LocksOwned, Owns, Running, Looping
  <2>2. \A i \in DOMAIN chain[k] : LockRight(k, i)
    BY <2>1 DEF Inv
  <2>3. \A i \in DOMAIN chain[k] : chain[k][i].lock.by = t <=> Owns(t, k) /\ at[t][k] = i
    BY <2>2 DEF LockRight
  <2>4. Owns(t, k) => at[t][k] \in DOMAIN chain[k]
    BY <2>1 DEF Inv, Places
  <2>5. QED
    BY <2>3, <2>4
<1>2. QED
  BY <1>1, Invariance, PTL

\* A list is there while somebody uses it, and every reference to it belongs to
\* an rw_entry that will give it back.
THEOREM ReferencesOwned == MvccAssumption => (Spec => []PinsOwned)
<1> SUFFICES ASSUME MvccAssumption PROVE Spec => []PinsOwned
  OBVIOUS
<1>1. Inv => PinsOwned
  <2>1. SUFFICES ASSUME Inv, Forgets, NEW k \in Key
                 PROVE  refs[k] = Cardinality(Users(k)) /\ (refs[k] > 0 => chain[k] # <<>>)
    BY DEF PinsOwned, Users, Uses
  <2>2. refs[k] = Cardinality(Users(k))
    BY <2>1 DEF Inv
  <2>3. ASSUME chain[k] = <<>> PROVE refs[k] = 0
    <3>1. \A u \in Thread : ~Uses(u, k)
      BY <2>1, <2>3 DEF Inv, UsedThere
    <3>2. Users(k) = {}
      BY <3>1 DEF Users
    <3>3. QED
      BY <2>2, <3>2, FS_EmptySet
  <2>4. QED
    BY <2>2, <2>3
<1>2. QED
  BY <1>1, Invariance, PTL

-----------------------------------------------------------------------------
(* What a step does to the versions of a key and to the stamps kept of it.  *)

\* The other threads.
LEMMA OthersSame ==
  ASSUME Inv, NEW t \in Thread, Step(t) \/ Abort(t), NEW u \in Thread \ {t}
  PROVE  /\ Same(u) /\ build' = build /\ count'[u] = count[u] /\ reads'[u] = reads[u]
         /\ Id(u)' = Id(u)
<1>1. Types
  BY DEF Inv
<1>2. CASE Begin(t) \/ OwnWrite(t) \/ Request(t) \/ CheckLoad(t) \/ Find(t)
  BY <1>1, <1>2 DEF Begin, OwnWrite, Request, CheckLoad, Find, Types, Same, Goto, Give, Return,
     Id, txnVars
<1>3. CASE TryLock(t) \/ Busy(t) \/ Refuse(t) \/ Retry(t) \/ Get(t)
  BY <1>1, <1>3 DEF TryLock, Busy, Refuse, Retry, Get, Types, Same, Goto, Give, Return, Id,
     txnVars, vars
<1>4. CASE CommitBegin(t) \/ Publish(t) \/ Close(t) \/ InsertLatest(t)
  BY <1>1, <1>4 DEF CommitBegin, Publish, Close, InsertLatest, Types, Same, Goto, Id, txnVars
<1>5. CASE Unlock(t) \/ Deinit(t) \/ Remove(t) \/ Abort(t)
  BY <1>1, <1>5 DEF Unlock, Deinit, Remove, Abort, Types, Same, Goto, Give, Id, txnVars
<1>6. QED
  BY <1>2, <1>3, <1>4, <1>5 DEF Step

\* A version, but for its lock, and but for its read timestamp.
SameBounds(v, w) == w.min = v.min /\ w.top = v.top /\ w.ver = v.ver
Alike(v, w) == SameBounds(v, w) /\ w.max = v.max /\ w.rts = v.rts

SameLength(k) == Len(chain'[k]) = Len(chain[k]) /\ DOMAIN chain'[k] = DOMAIN chain[k]
AlikeBut(k, i) ==
  /\ SameLength(k)
  /\ \A j \in DOMAIN chain[k] : j # i => Alike(chain[k][j], chain'[k][j])

\* The timestamps of a list's last version.
LastStamp(k) == [wts |-> Last(chain[k]).min, rts |-> Last(chain[k]).rts]

\* What a step of t may do to the versions of k.
Stays(k) == AlikeBut(k, 0)
Reads(t, k) ==
  LET i == at[t][k] IN
    /\ Get(t) /\ k = CallKey(t) /\ i \in DOMAIN chain[k] /\ AlikeBut(k, i)
    /\ SameBounds(chain[k][i], chain'[k][i]) /\ chain'[k][i].max = chain[k][i].max
    /\ chain'[k][i].rts = NewRts(t, chain[k][i])
Adds(t, k) ==
  LET n == Len(chain[k]) + 1
      v == NewVersion(ts[t], ts[t], Len(db[k]) + 1, FALSE) IN
    /\ Publish(t) /\ k = Head(todo[t])
    /\ Len(chain'[k]) = n /\ DOMAIN chain'[k] = DOMAIN chain[k] \cup {n}
    /\ \A i \in DOMAIN chain[k] : chain'[k][i] = chain[k][i]
    /\ chain'[k][n] = v
Closes(t, k) ==
  LET i == at[t][k] IN
    /\ Close(t) /\ k = Head(todo[t]) /\ i \in DOMAIN chain[k] /\ i + 1 \in DOMAIN chain[k]
    /\ AlikeBut(k, i)
    /\ SameBounds(chain[k][i], chain'[k][i]) /\ chain'[k][i].rts = chain[k][i].rts
    /\ chain'[k][i].max = IF chain[k][i].top THEN 0 ELSE ts[t]
Makes(t, k) ==
  /\ Request(t) /\ k = CallKey(t) /\ Forgets
  /\ chain[k] = <<>> /\ chain'[k] = <<FirstVersion(k)>>
Drops(t, k) ==
  /\ Forgets /\ chain[k] # <<>> /\ chain'[k] = <<>>
  /\ \/ Remove(t) /\ build = "counter" /\ counter' = Merge(counter, LastStamp(k))
     \/ CheckLoad(t) /\ build = "cache" /\ latest'[k] = [latest[k] EXCEPT !.stamp = LastStamp(k)]

LEMMA KeyStep ==
  ASSUME MvccAssumption, Inv, NEW t \in Thread, Step(t) \/ Abort(t), NEW k \in Key
  PROVE  /\ Stays(k) \/ Reads(t, k) \/ Adds(t, k) \/ Closes(t, k) \/ Makes(t, k) \/ Drops(t, k)
         /\ Get(t) /\ k = CallKey(t) => Reads(t, k)
         /\ Publish(t) /\ k = Head(todo[t]) => Adds(t, k)
         /\ Close(t) /\ k = Head(todo[t]) => Closes(t, k)
<1>1. /\ Types /\ Books(t) /\ chain \in [Key -> Seq(Version)]
      /\ chain[k] \in Seq(Version) /\ DOMAIN chain[k] = 1 .. Len(chain[k]) /\ Len(chain[k]) \in Nat
      /\ \A i \in DOMAIN chain[k] : chain[k][i] \in Version
  BY VersionTypes DEF Inv, Types
<1>2. chain'[k] = chain[k] => Stays(k)
  BY DEF Stays, AlikeBut, SameLength, Alike, SameBounds
<1>3. ASSUME NEW i \in DOMAIN chain[k], NEW w, chain' = [chain EXCEPT ![k] = [chain[k] EXCEPT ![i] = w]]
      PROVE  SameLength(k) /\ chain'[k][i] = w
             /\ \A n \in DOMAIN chain[k] : n # i => chain'[k][n] = chain[k][n]
  <2>1. PICK c, d : c = chain[k] /\ d = [c EXCEPT ![i] = w]
    OBVIOUS
  <2>2. chain'[k] = d
    BY <1>1, <1>3, <2>1
  <2>3. i \in 1 .. Len(c) /\ c \in Seq(Version)
    BY <1>1, <2>1
  <2>4. Len(d) = Len(c) /\ DOMAIN d = DOMAIN c /\ d[i] = w
        /\ \A n \in DOMAIN c : n # i => d[n] = c[n]
    BY <2>1, <2>3
  <2>5. QED
    BY <2>1, <2>2, <2>4 DEF SameLength
<1> DEFINE Goal == Stays(k) \/ Reads(t, k) \/ Adds(t, k) \/ Closes(t, k) \/ Makes(t, k) \/ Drops(t, k)
<1>4. ASSUME Request(t) PROVE Goal
  <2>1. CASE CallKey(t) \in Elems(order[t])
    <3>1. chain' = chain
      BY <1>4, <2>1 DEF Request, tableVars
    <3>2. QED
      BY <1>2, <3>1
  <2>2. CASE CallKey(t) \notin Elems(order[t])
    <3>1. Pin(CallKey(t))
      BY <1>4, <2>2 DEF Request
    <3>2. CASE Forgets /\ chain[CallKey(t)] = <<>>
      <4>1. chain' = [chain EXCEPT ![CallKey(t)] = <<FirstVersion(CallKey(t))>>]
        BY <3>1, <3>2 DEF Pin
      <4>2. CASE k = CallKey(t)
        BY <1>1, <1>4, <3>2, <4>1, <4>2 DEF Makes
      <4>3. CASE k # CallKey(t)
        BY <1>1, <1>2, <4>1, <4>3
      <4>4. QED
        BY <4>2, <4>3
    <3>3. CASE ~(Forgets /\ chain[CallKey(t)] = <<>>)
      <4>1. chain' = chain
        BY <3>1, <3>3 DEF Pin
      <4>2. QED
        BY <1>2, <4>1
    <3>4. QED
      BY <3>2, <3>3
  <2>3. QED
    BY <2>1, <2>2
<1>5. ASSUME CheckLoad(t) PROVE Goal
  <2>1. CASE UNCHANGED tableVars
    BY <1>2, <2>1 DEF tableVars
  <2>2. CASE \E j \in Key : Evict(j)
    <3>1. PICK j \in Key : Evict(j)
      BY <2>2
    <3>2. /\ chain[j] # <<>> /\ chain' = [chain EXCEPT ![j] = <<>>]
          /\ latest' = [latest EXCEPT ![j].stamp = LastStamp(j)]
      BY <3>1 DEF Evict, LastStamp
    <3>3. build = "cache" /\ Forgets
      BY <1>1, <1>5 DEF CheckLoad, Books, Forgets
    <3>4. CASE k = j
      <4>1. chain'[k] = <<>>
        BY <1>1, <3>2, <3>4
      <4>2. latest'[k] = [latest[k] EXCEPT !.stamp = LastStamp(k)]
        <5>1. latest \in [Key -> Latest]
          BY <1>1 DEF Types
        <5>2. PICK s : s = LastStamp(j)
          OBVIOUS
        <5>3. QED
          BY <3>2, <3>4, <5>1, <5>2
      <4>3. QED
        BY <1>5, <3>2, <3>3, <3>4, <4>1, <4>2 DEF Drops
    <3>5. CASE k # j
      BY <1>1, <1>2, <3>2, <3>5
    <3>6. QED
      BY <3>4, <3>5
  <2>3. QED
    BY <1>5, <2>1, <2>2 DEF CheckLoad
<1>6. ASSUME Remove(t) PROVE Goal
  <2>1. CASE todo[t] = <<>> \/ ~(build = "counter" /\ refs[Head(todo[t])] = 1)
    <3>1. chain' = chain
      BY <1>6, <2>1 DEF Remove, Unpin, tableVars
    <3>2. QED
      BY <1>2, <3>1
  <2>2. CASE todo[t] # <<>> /\ build = "counter" /\ refs[Head(todo[t])] = 1
    <3>1. PICK j : j = Head(todo[t])
      OBVIOUS
    <3>2. j \in Key /\ Uses(t, j)
      <4>1. todo[t] \in Seq(Key) /\ pc[t] = "deinit"
        BY <1>1, <1>6, ThreadTypes DEF Remove
      <4>2. j \in Key /\ j \in Elems(todo[t])
        BY <2>2, <3>1, <4>1, HeadTailElems
      <4>3. QED
        BY <4>1, <4>2 DEF Uses
    <3>3. chain[j] # <<>> /\ Forgets
      BY <2>2, <3>2 DEF Inv, UsedThere, Forgets
    <3>4. /\ counter' = Merge(counter, LastStamp(j)) /\ chain' = [chain EXCEPT ![j] = <<>>]
      BY <1>6, <2>2, <3>1 DEF Remove, Unpin, LastStamp
    <3>5. CASE k = j
      BY <1>1, <1>6, <2>2, <3>3, <3>4, <3>5 DEF Drops
    <3>6. CASE k # j
      BY <1>1, <1>2, <3>4, <3>6
    <3>7. QED
      BY <3>5, <3>6
  <2>3. QED
    BY <2>1, <2>2
<1>7. ASSUME TryLock(t) PROVE Goal
  <2>1. CallKey(t) \in Key /\ at[t][CallKey(t)] \in DOMAIN chain[CallKey(t)]
    BY <1>1, <1>7, CallTypes DEF Inv, Places, Found, Books, InCall, TryLock
  <2>2. PICK j, i : j \in Key /\ i \in DOMAIN chain[j] /\ j = CallKey(t) /\ i = at[t][j]
    BY <2>1
  <2>3. PICK l : l = [by |-> t, holder |-> IF Writing(t) THEN ts[t] ELSE 0]
    OBVIOUS
  <2>4. PICK w : w = [chain[j][i] EXCEPT !.lock = l]
    OBVIOUS
  <2>5. chain' = [chain EXCEPT ![j] = [chain[j] EXCEPT ![i] = w]]
    BY <1>7, <2>2, <2>3, <2>4 DEF TryLock
  <2>6. chain[j][i] \in Version
    BY <1>1, <2>2, VersionTypes
  <2>7. Alike(chain[j][i], w)
    BY <2>4, <2>6 DEF Alike, SameBounds, Version
  <2>8. CASE k = j
    <3>0. i \in DOMAIN chain[k] /\ chain' = [chain EXCEPT ![k] = [chain[k] EXCEPT ![i] = w]]
      BY <2>2, <2>5, <2>8
    <3>1. SameLength(k) /\ chain'[k][i] = w
          /\ \A n \in DOMAIN chain[k] : n # i => chain'[k][n] = chain[k][n]
      BY <1>3, <3>0
    <3>2. \A n \in DOMAIN chain[k] : Alike(chain[k][n], chain'[k][n])
      BY <2>7, <2>8, <3>1 DEF Alike, SameBounds
    <3>3. QED
      BY <3>1, <3>2 DEF Stays, AlikeBut
  <2>9. CASE k # j
    BY <1>1, <1>2, <2>2, <2>5, <2>9
  <2>10. QED
    BY <2>8, <2>9
<1>8. ASSUME Get(t) PROVE IF k = CallKey(t) THEN Reads(t, k) ELSE Stays(k)
  <2>1. CallKey(t) \in Key /\ at[t][CallKey(t)] \in DOMAIN chain[CallKey(t)]
    <3>1. pc[t] = "get" /\ CallKey(t) \in Key
      BY <1>1, <1>8, CallTypes DEF Books, InCall, Get
    <3>2. Owns(t, CallKey(t))
      BY <3>1 DEF Owns
    <3>3. QED
      BY <3>1, <3>2 DEF Inv, Places
  <2>2. PICK j, i : j \in Key /\ i \in DOMAIN chain[j] /\ j = CallKey(t) /\ i = at[t][j]
    BY <2>1
  <2>3. PICK v \in Version : v = chain[j][i] /\ v = The(t, j)
    BY <1>1, <2>2, VersionTypes DEF The
  <2>4. PICK a, b : a = NewRts(t, v) /\ b = Free
    OBVIOUS
  <2>5. PICK w : w = [[v EXCEPT !.rts = a] EXCEPT !.lock = b]
    OBVIOUS
  <2>6. chain' = [chain EXCEPT ![j] = [chain[j] EXCEPT ![i] = w]]
    <3>1. chain' = [chain EXCEPT ![j][i].rts = a, ![j][i].lock = b]
      BY <1>8, <2>2, <2>3, <2>4 DEF Get
    <3>2. w = [[chain[j][i] EXCEPT !.rts = a] EXCEPT !.lock = b]
      BY <2>3, <2>5
    <3>3. QED
      BY <1>1, <3>1, <3>2
  <2>7. SameBounds(v, w) /\ w.max = v.max /\ w.rts = a
    BY <2>3, <2>5 DEF SameBounds, Version
  <2>8. CASE k = j
    <3>0. i \in DOMAIN chain[k] /\ chain' = [chain EXCEPT ![k] = [chain[k] EXCEPT ![i] = w]]
      BY <2>2, <2>6, <2>8
    <3>1. SameLength(k) /\ chain'[k][i] = w
          /\ \A n \in DOMAIN chain[k] : n # i => chain'[k][n] = chain[k][n]
      BY <1>3, <3>0
    <3>2. AlikeBut(k, i)
      BY <3>1 DEF AlikeBut, Alike, SameBounds
    <3>3. QED
      BY <1>8, <2>2, <2>3, <2>4, <2>7, <2>8, <3>1, <3>2 DEF Reads
  <2>9. CASE k # j
    BY <1>1, <1>2, <2>2, <2>6, <2>9
  <2>10. QED
    BY <2>8, <2>9
<1>9. ASSUME Publish(t) PROVE IF k = Head(todo[t]) THEN Adds(t, k) ELSE Stays(k)
  <2>1. PICK j \in Key : j = Head(todo[t])
    BY <1>1, <1>9, ThreadTypes DEF Publish
  <2>2. PICK w : w = NewVersion(ts[t], ts[t], Len(db[j]) + 1, FALSE)
    OBVIOUS
  <2>3. chain' = [chain EXCEPT ![j] = Append(chain[j], w)]
    BY <1>9, <2>1, <2>2 DEF Publish
  <2>4. CASE k = j
    <3>1. PICK c : c = chain[k] /\ c \in Seq(Version)
      BY <1>1
    <3>2. chain'[k] = Append(c, w)
      BY <1>1, <2>3, <2>4, <3>1
    <3>3. PICK d : d = Append(c, w)
      OBVIOUS
    <3>4. Len(d) = Len(c) + 1 /\ DOMAIN d = DOMAIN c \cup {Len(c) + 1} /\ d[Len(c) + 1] = w
          /\ \A i \in DOMAIN c : d[i] = c[i]
      BY <3>1, <3>3
    <3>5. QED
      BY <1>9, <2>1, <2>2, <2>4, <3>1, <3>2, <3>3, <3>4 DEF Adds
  <2>5. CASE k # j
    BY <1>1, <1>2, <2>1, <2>3, <2>5
  <2>6. QED
    BY <2>4, <2>5
<1>10. ASSUME Close(t) PROVE IF k = Head(todo[t]) THEN Closes(t, k) ELSE Stays(k)
  <2>1. PICK j, i :
          j \in Key /\ i \in DOMAIN chain[j] /\ j = Head(todo[t]) /\ i = at[t][j] /\ i + 1 \in DOMAIN chain[j]
    BY <1>10, NextVersion DEF Close
  <2>2. PICK m : m = IF chain[j][i].top THEN 0 ELSE ts[t]
    OBVIOUS
  <2>3. PICK w : w = [chain[j][i] EXCEPT !.max = m]
    OBVIOUS
  <2>4. chain' = [chain EXCEPT ![j] = [chain[j] EXCEPT ![i] = w]]
    BY <1>10, <2>1, <2>2, <2>3 DEF Close, The
  <2>5. chain[j][i] \in Version
    BY <1>1, <2>1, VersionTypes
  <2>6. SameBounds(chain[j][i], w) /\ w.rts = chain[j][i].rts /\ w.max = m
    BY <2>3, <2>5 DEF SameBounds, Version
  <2>7. CASE k = j
    <3>0. i \in DOMAIN chain[k] /\ chain' = [chain EXCEPT ![k] = [chain[k] EXCEPT ![i] = w]]
      BY <2>1, <2>4, <2>7
    <3>1. SameLength(k) /\ chain'[k][i] = w
          /\ \A n \in DOMAIN chain[k] : n # i => chain'[k][n] = chain[k][n]
      BY <1>3, <3>0
    <3>2. AlikeBut(k, i)
      BY <3>1 DEF AlikeBut, Alike, SameBounds
    <3>3. QED
      BY <1>10, <2>1, <2>2, <2>6, <2>7, <3>1, <3>2 DEF Closes
  <2>8. CASE k # j
    BY <1>1, <1>2, <2>1, <2>4, <2>8
  <2>9. QED
    BY <2>7, <2>8
<1>11. ASSUME Unlock(t) PROVE Goal
  <2>1. /\ pc[t] \in {"unlock", "abort"} /\ todo[t] # <<>> /\ todo[t] \in Seq(Key)
    BY <1>1, <1>11, ThreadTypes DEF Unlock, Books
  <2>2. PICK j \in Key : j = Head(todo[t]) /\ j \in Elems(todo[t])
    BY <2>1, HeadTailElems
  <2>3. Owns(t, j)
    BY <2>1, <2>2 DEF Owns, Looping
  <2>4. PICK i \in DOMAIN chain[j] : i = at[t][j]
    BY <2>3 DEF Inv, Places
  <2>5. PICK w : w = [chain[j][i] EXCEPT !.lock = Free]
    OBVIOUS
  <2>6. chain' = chain \/ chain' = [chain EXCEPT ![j] = [chain[j] EXCEPT ![i] = w]]
    BY <1>11, <2>2, <2>4, <2>5 DEF Unlock
  <2>7. chain[j][i] \in Version
    BY <1>1, VersionTypes
  <2>8. Alike(chain[j][i], w)
    BY <2>5, <2>7 DEF Alike, SameBounds, Version
  <2>9. CASE k = j /\ chain' # chain
    <3>0. i \in DOMAIN chain[k] /\ chain' = [chain EXCEPT ![k] = [chain[k] EXCEPT ![i] = w]]
      BY <2>4, <2>6, <2>9
    <3>1. SameLength(k) /\ chain'[k][i] = w
          /\ \A n \in DOMAIN chain[k] : n # i => chain'[k][n] = chain[k][n]
      BY <1>3, <3>0
    <3>2. \A n \in DOMAIN chain[k] : Alike(chain[k][n], chain'[k][n])
      BY <2>8, <2>9, <3>1 DEF Alike, SameBounds
    <3>3. QED
      BY <3>1, <3>2 DEF Stays, AlikeBut
  <2>10. CASE k # j \/ chain' = chain
    BY <1>1, <1>2, <2>6, <2>10
  <2>11. QED
    BY <2>9, <2>10
<1>12. ASSUME Begin(t) \/ OwnWrite(t) \/ Find(t) \/ Busy(t) \/ Refuse(t) \/ Retry(t)
                \/ CommitBegin(t) \/ InsertLatest(t) \/ Deinit(t) \/ Abort(t)
       PROVE  Goal
  <2>1. chain' = chain
    BY <1>12 DEF Begin, OwnWrite, Find, Busy, Refuse, Retry, CommitBegin, InsertLatest, Deinit,
       Abort, tableVars, vars
  <2>2. QED
    BY <1>2, <2>1
<1>13. QED
  BY <1>4, <1>5, <1>6, <1>7, <1>8, <1>9, <1>10, <1>11, <1>12 DEF Step

\* What it does to the stamps of the sketch and of the LATEST tuples.
LEMMA StampStep ==
  ASSUME MvccAssumption, Inv, NEW t \in Thread, Step(t) \/ Abort(t)
  PROVE  /\ \/ counter' = counter
            \/ \E j \in Key : Drops(t, j) /\ counter' = Merge(counter, LastStamp(j))
         /\ \A k \in Key :
              \/ latest'[k] = latest[k]
              \/ /\ InsertLatest(t) /\ k = Head(todo[t])
                 /\ latest'[k] = [ver |-> chain[k][at[t][k] + 1].ver,
                                  stamp |-> [wts |-> ts[t], rts |-> ts[t]]]
              \/ /\ Drops(t, k) /\ build = "cache"
                 /\ latest'[k] = [latest[k] EXCEPT !.stamp = LastStamp(k)]
<1>1. Types /\ Books(t) /\ latest \in [Key -> Latest] /\ chain \in [Key -> Seq(Version)]
  BY DEF Inv, Types
<1>2. CASE Remove(t)
  <2>1. latest' = latest
    BY <1>2 DEF Remove, Unpin, tableVars
  <2>2. CASE counter' # counter
    <3>1. /\ todo[t] # <<>> /\ build = "counter" /\ Unpin(Head(todo[t]))
          /\ refs[Head(todo[t])] = 1
      BY <1>2, <2>2 DEF Remove, Unpin, tableVars
    <3>2. PICK j : j = Head(todo[t])
      OBVIOUS
    <3>3. j \in Key /\ Uses(t, j)
      <4>1. todo[t] \in Seq(Key) /\ pc[t] = "deinit"
        BY <1>1, <1>2, ThreadTypes DEF Remove
      <4>2. j \in Key /\ j \in Elems(todo[t])
        BY <3>1, <3>2, <4>1, HeadTailElems
      <4>3. QED
        BY <4>1, <4>2 DEF Uses
    <3>4. chain[j] # <<>> /\ Forgets
      BY <3>1, <3>3 DEF Inv, UsedThere, Forgets
    <3>5. /\ counter' = Merge(counter, LastStamp(j)) /\ chain' = [chain EXCEPT ![j] = <<>>]
      BY <3>1, <3>2 DEF Unpin, LastStamp
    <3>6. Drops(t, j)
      BY <1>1, <1>2, <3>1, <3>3, <3>4, <3>5 DEF Drops
    <3>7. QED
      BY <2>1, <3>3, <3>5, <3>6
  <2>3. QED
    BY <2>1, <2>2
<1>3. CASE CheckLoad(t)
  <2>1. CASE UNCHANGED tableVars
    BY <2>1 DEF tableVars
  <2>2. CASE \E j \in Key : Evict(j)
    <3>1. PICK j \in Key : Evict(j)
      BY <2>2
    <3>2. PICK s : s = LastStamp(j)
      OBVIOUS
    <3>3. /\ chain[j] # <<>> /\ chain' = [chain EXCEPT ![j] = <<>>] /\ counter' = counter
          /\ latest' = [latest EXCEPT ![j].stamp = s]
      BY <3>1, <3>2 DEF Evict, LastStamp
    <3>4. build = "cache" /\ Forgets
      BY <1>1, <1>3 DEF CheckLoad, Books, Forgets
    <3>5. /\ \A k \in Key : k # j => latest'[k] = latest[k]
          /\ latest'[j] = [latest[j] EXCEPT !.stamp = s] /\ chain'[j] = <<>>
      BY <1>1, <3>3
    <3>6. Drops(t, j)
      BY <1>3, <3>2, <3>3, <3>4, <3>5 DEF Drops
    <3>7. QED
      BY <3>2, <3>3, <3>4, <3>5, <3>6
  <2>3. QED
    BY <1>3, <2>1, <2>2 DEF CheckLoad
<1>4. CASE InsertLatest(t)
  <2>1. PICK j, s : /\ j = Head(todo[t])
                    /\ s = [ver |-> chain[j][at[t][j] + 1].ver,
                            stamp |-> [wts |-> ts[t], rts |-> ts[t]]]
    OBVIOUS
  <2>2. latest' = [latest EXCEPT ![j] = s] /\ counter' = counter
    BY <1>4, <2>1 DEF InsertLatest
  <2>3. \A k \in Key : latest'[k] = latest[k] \/ (k = j /\ latest'[k] = s)
    BY <1>1, <2>2
  <2>4. QED
    BY <1>4, <2>1, <2>2, <2>3
<1>5. CASE ~(Remove(t) \/ CheckLoad(t) \/ InsertLatest(t))
  <2>1. counter' = counter /\ latest' = latest
    BY <1>5 DEF Step, Begin, OwnWrite, Request, Pin, Find, TryLock, Busy, Refuse, Retry, Get,
       CommitBegin, Publish, Close, Unlock, Deinit, Abort, vars, tableVars
  <2>2. QED
    BY <2>1
<1>6. QED
  BY <1>2, <1>3, <1>4, <1>5

\* The timestamps a key is known by.
LEMMA VisibleTypes ==
  ASSUME Types, NEW k \in Key
  PROVE  /\ Visible(k) \in Stamp /\ Visible(k).wts \in Nat /\ Visible(k).rts \in Nat
         /\ chain[k] # <<>> => /\ Visible(k) = LastStamp(k)
                               /\ Visible(k).wts = chain[k][Len(chain[k])].min
                               /\ Visible(k).rts = chain[k][Len(chain[k])].rts
<1>1. latest[k] \in Latest /\ counter \in Stamp
  BY DEF Types
<1>2. latest[k].stamp \in Stamp
  BY <1>1 DEF Latest
<1>3. CASE chain[k] # <<>>
  <2>1. /\ Len(chain[k]) \in DOMAIN chain[k] /\ chain[k][Len(chain[k])].min \in Nat
        /\ chain[k][Len(chain[k])].rts \in Nat
    BY <1>3, VersionTypes
  <2>2. Visible(k) = LastStamp(k)
    BY <1>3 DEF Visible, LastStamp
  <2>3. LastStamp(k) = [wts |-> chain[k][Len(chain[k])].min, rts |-> chain[k][Len(chain[k])].rts]
    BY DEF LastStamp, Last
  <2>4. QED
    BY <2>1, <2>2, <2>3 DEF Stamp
<1>4. CASE chain[k] = <<>>
  BY <1>1, <1>2, <1>4 DEF Visible, Stamp
<1>5. QED
  BY <1>3, <1>4

\* A key's timestamps are not lost on the way through the sketch or the LATEST
\* tuple; a lookup moves the read timestamp, and a new version both.
LEMMA VisibleStep ==
  ASSUME MvccAssumption, Inv, Inv', NEW t \in Thread, Step(t) \/ Abort(t), NEW k \in Key
  PROVE  \/ /\ Visible(k).wts <= Visible(k)'.wts /\ Visible(k).rts <= Visible(k)'.rts
            /\ chain[k] # <<>> /\ chain'[k] # <<>> => Visible(k)' = Visible(k)
         \/ /\ Reads(t, k) /\ at[t][k] = Len(chain[k]) /\ Visible(k)'.wts = Visible(k).wts
            /\ Visible(k)'.rts = NewRts(t, chain[k][at[t][k]])
         \/ Adds(t, k) /\ Visible(k)'.wts = ts[t] /\ Visible(k)'.rts = ts[t]
<1>1. /\ Types /\ Types' /\ Visible(k) \in Stamp /\ Visible(k).wts \in Nat /\ Visible(k).rts \in Nat
      /\ Len(chain[k]) \in Nat /\ Len(chain'[k]) \in Nat /\ DOMAIN chain[k] = 1 .. Len(chain[k])
      /\ chain[k] = <<>> <=> Len(chain[k]) = 0
      /\ chain'[k] = <<>> <=> Len(chain'[k]) = 0
      /\ counter \in Stamp /\ counter.wts \in Nat /\ counter.rts \in Nat
  <2>1. Types /\ Types'
    BY DEF Inv
  <2>2. chain[k] \in Seq(Version) /\ chain'[k] \in Seq(Version) /\ counter \in Stamp
    BY <2>1 DEF Types
  <2>3. Len(chain[k]) \in Nat /\ Len(chain'[k]) \in Nat /\ DOMAIN chain[k] = 1 .. Len(chain[k])
        /\ (chain[k] = <<>> <=> Len(chain[k]) = 0) /\ (chain'[k] = <<>> <=> Len(chain'[k]) = 0)
    BY <2>2
  <2>4. QED
    BY <2>1, <2>2, <2>3, VisibleTypes DEF Stamp
<1>2. chain'[k] # <<>> => /\ Visible(k)'.wts = chain'[k][Len(chain'[k])].min
                          /\ Visible(k)'.rts = chain'[k][Len(chain'[k])].rts
                          /\ Visible(k)' = [wts |-> Visible(k)'.wts, rts |-> Visible(k)'.rts]
  BY DEF Visible, Last
<1>3. chain[k] # <<>> => /\ Visible(k).wts = chain[k][Len(chain[k])].min
                         /\ Visible(k).rts = chain[k][Len(chain[k])].rts
                         /\ Visible(k) = [wts |-> Visible(k).wts, rts |-> Visible(k).rts]
  BY DEF Visible, Last
<1>4. build' = build
  BY DEF Step, Begin, OwnWrite, Request, CheckLoad, Find, TryLock, Busy, Refuse, Retry, Get,
     CommitBegin, Publish, Close, InsertLatest, Unlock, Deinit, Remove, Abort, vars
<1>5. ASSUME NEW s \in Stamp
      PROVE  /\ Merge(counter, s).wts >= counter.wts /\ Merge(counter, s).rts >= counter.rts
             /\ Merge(counter, s).wts >= s.wts /\ Merge(counter, s).rts >= s.rts
  BY <1>1 DEF Merge, Larger, Stamp
<1>6. \A j \in Key : chain[j] # <<>> => LastStamp(j) \in Stamp
  BY <1>1, VisibleTypes
<1>7. CASE (Stays(k) \/ Closes(t, k) \/ Makes(t, k)) /\ chain[k] = <<>>
  <2>1. latest'[k] = latest[k]
    <3>1. ~Drops(t, k)
      BY <1>7 DEF Drops
    <3>2. ~(InsertLatest(t) /\ k = Head(todo[t]))
      <4>1. at[t][k] \in DOMAIN chain[k] => FALSE
        BY <1>1, <1>7
      <4>2. InsertLatest(t) /\ k = Head(todo[t]) => at[t][k] \in DOMAIN chain[k]
        BY NextVersion DEF InsertLatest
      <4>3. QED
        BY <4>1, <4>2
    <3>3. QED
      BY <3>1, <3>2, StampStep
  <2>2. counter'.wts >= counter.wts /\ counter'.rts >= counter.rts
    <3>1. CASE counter' = counter
      BY <1>1, <3>1
    <3>2. CASE counter' # counter
      <4>1. PICK j \in Key : Drops(t, j) /\ counter' = Merge(counter, LastStamp(j))
        BY <3>2, StampStep
      <4>2. LastStamp(j) \in Stamp
        BY <1>6, <4>1 DEF Drops
      <4>3. QED
        BY <1>5, <4>1, <4>2
    <3>3. QED
      BY <3>1, <3>2
  <2>3. Visible(k) = IF build = "counter" THEN counter ELSE latest[k].stamp
    BY <1>7 DEF Visible
  <2>4. CASE Stays(k) \/ Closes(t, k)
    <3>1. chain'[k] = <<>>
      BY <1>1, <1>7, <2>4 DEF Stays, Closes, AlikeBut, SameLength
    <3>2. Visible(k)' = IF build = "counter" THEN counter' ELSE latest'[k].stamp
      BY <1>4, <3>1 DEF Visible
    <3>3. CASE build = "counter"
      BY <1>7, <2>2, <2>3, <3>2, <3>3
    <3>4. CASE build # "counter"
      BY <1>1, <1>7, <2>1, <2>3, <3>2, <3>4
    <3>5. QED
      BY <3>3, <3>4
  <2>5. CASE Makes(t, k)
    <3>1. PICK s \in Stamp : s = Visible(k) /\ s = IF build = "counter" THEN counter ELSE latest[k].stamp
      BY <1>1, <2>3
    <3>2. PICK v : v = FirstVersion(k) /\ v.min = s.wts /\ v.rts = s.rts
      <4>1. FirstVersion(k) = NewVersion(s.wts, s.rts, latest[k].ver, TRUE)
        BY <3>1 DEF FirstVersion
      <4>2. PICK v : v = NewVersion(s.wts, s.rts, latest[k].ver, TRUE)
        OBVIOUS
      <4>3. v.min = s.wts /\ v.rts = s.rts
        BY <4>2 DEF NewVersion
      <4>4. QED
        BY <4>1, <4>2, <4>3
    <3>3. chain'[k] = <<v>>
      BY <2>5, <3>2 DEF Makes
    <3>4. Len(chain'[k]) = 1 /\ chain'[k][1] = v /\ chain'[k] # <<>>
      BY <3>3
    <3>5. Visible(k)'.wts = s.wts /\ Visible(k)'.rts = s.rts
      BY <1>2, <3>2, <3>4
    <3>6. QED
      BY <1>1, <1>7, <3>1, <3>5
  <2>6. QED
    BY <1>7, <2>4, <2>5
<1>8. CASE chain[k] # <<>> /\ (Stays(k) \/ Closes(t, k) \/ Reads(t, k))
  <2>1. /\ Len(chain'[k]) = Len(chain[k]) /\ chain'[k] # <<>> /\ Len(chain[k]) \in DOMAIN chain[k]
        /\ Len(chain[k]) # 0
    BY <1>1, <1>8 DEF Stays, Closes, Reads, AlikeBut, SameLength
  <2>2. PICK n : n = Len(chain[k])
    OBVIOUS
  <2>3. chain'[k][n].min = chain[k][n].min
    BY <1>8, <2>1, <2>2 DEF Stays, Closes, Reads, AlikeBut, Alike, SameBounds
  <2>4. CASE Reads(t, k) /\ at[t][k] = n
    <3>1. chain'[k][n].rts = NewRts(t, chain[k][n])
      BY <2>4 DEF Reads
    <3>2. QED
      BY <1>2, <1>3, <1>8, <2>1, <2>2, <2>3, <2>4, <3>1
  <2>5. CASE ~(Reads(t, k) /\ at[t][k] = n)
    <3>1. chain'[k][n].rts = chain[k][n].rts
      BY <1>8, <2>1, <2>2, <2>5 DEF Stays, Closes, Reads, AlikeBut, Alike
    <3>2. Visible(k)'.wts = Visible(k).wts /\ Visible(k)'.rts = Visible(k).rts
      BY <1>2, <1>3, <1>8, <2>1, <2>2, <2>3, <3>1
    <3>3. Visible(k)' = Visible(k)
      BY <1>2, <1>3, <1>8, <2>1, <3>2
    <3>4. QED
      BY <1>1, <3>2, <3>3
  <2>6. QED
    BY <2>4, <2>5
<1>9. CASE Adds(t, k)
  <2>1. /\ Len(chain'[k]) = Len(chain[k]) + 1 /\ chain'[k] # <<>>
        /\ chain'[k][Len(chain[k]) + 1] = NewVersion(ts[t], ts[t], Len(db[k]) + 1, FALSE)
    BY <1>1, <1>9 DEF Adds
  <2>2. QED
    BY <1>2, <1>9, <2>1 DEF NewVersion
<1>10. CASE Drops(t, k)
  <2>1. PICK s \in Stamp : s = LastStamp(k) /\ s = Visible(k)
    BY <1>1, <1>10, VisibleTypes DEF Drops
  <2>2. CASE build = "counter"
    <3>1. Visible(k)' = Merge(counter, s)
      BY <1>4, <1>10, <2>1, <2>2 DEF Drops, Visible
    <3>2. QED
      BY <1>5, <1>10, <2>1, <3>1 DEF Drops
  <2>3. CASE build # "counter"
    <3>1. latest'[k] = [latest[k] EXCEPT !.stamp = s] /\ latest[k] \in Latest
      BY <1>1, <1>10, <2>1, <2>3 DEF Drops, Types
    <3>2. latest'[k].stamp = s
      BY <3>1 DEF Latest
    <3>3. Visible(k)' = s
      BY <1>4, <1>10, <2>3, <3>2 DEF Drops, Visible
    <3>4. QED
      BY <1>1, <1>10, <2>1, <3>3 DEF Drops
  <2>4. QED
    BY <2>2, <2>3
<1>11. CASE Reads(t, k) /\ chain[k] = <<>>
  BY <1>1, <1>11 DEF Reads
<1>12. QED
  BY <1>7, <1>8, <1>9, <1>10, <1>11, KeyStep DEF Makes

-----------------------------------------------------------------------------
(* Timestamps, and how versions divide time between them.                   *)

\* The types of what has committed.
LEMMA HistTypes ==
  ASSUME Types, NEW h \in hist
  PROVE  /\ h.cts \in Nat /\ h.id \in Txn /\ h.id[1] \in Thread /\ h.id[2] \in Nat
         /\ \A r \in h.reads : r.key \in Key /\ r.ver \in Nat
  BY DEF Types, Commit, Read, Txn

\* What a step adds to the history.
LEMMA HistoryStep ==
  ASSUME NEW t \in Thread, Step(t) \/ Abort(t)
  PROVE  /\ hist \subseteq hist' /\ (hist' # hist => CommitBegin(t))
         /\ db' = db \/ Publish(t)
  BY DEF Step, Begin, OwnWrite, Request, CheckLoad, Find, TryLock, Busy, Refuse, Retry, Get,
     CommitBegin, Publish, Close, InsertLatest, Unlock, Deinit, Remove, Abort, vars

\* Timestamps tell transactions apart after a step as they did before.
LEMMA TimesStep ==
  ASSUME MvccAssumption, Inv, TimesApart, NEW t \in Thread, Step(t) \/ Abort(t)
  PROVE  TimesApart'
<1>1. /\ Types /\ pc \in [Thread -> Label] /\ ts \in [Thread -> Nat] /\ count \in [Thread -> Nat]
      /\ global_ts \in Nat
  BY DEF Inv, Types
<1>2. \A h \in hist : h.cts \in Nat /\ h.id[1] \in Thread /\ h.id[2] \in Nat
  BY <1>1, HistTypes
<1>3. CASE Begin(t)
  <2>1. /\ global_ts' = global_ts + 1 /\ hist' = hist
        /\ \A u \in Thread : u # t => ts'[u] = ts[u] /\ count'[u] = count[u] /\ pc'[u] = pc[u]
        /\ ts'[t] = global_ts + 1 /\ count'[t] = count[t] + 1
    BY <1>1, <1>3 DEF Begin, Goto
  <2>2. \A u \in Thread : u # t => Id(u)' = Id(u) /\ Running(u)' = Running(u)
    BY <2>1 DEF Id, Running
  <2>3. Id(t)' = <<t, count[t] + 1>>
    BY <2>1 DEF Id
  <2>4. \A u \in Thread : ts'[u] <= global_ts' /\ (pc'[u] # "idle" => ts'[u] > 0)
    BY <1>1, <2>1 DEF TimesApart
  <2>5. \A u, v \in Thread : ts'[u] = ts'[v] => u = v \/ ts'[u] = 0
    BY <1>1, <2>1 DEF TimesApart
  <2>6. ASSUME NEW h \in hist
        PROVE  /\ 0 < h.cts /\ h.cts <= global_ts' /\ h.id[2] <= count'[h.id[1]]
               /\ \A u \in Thread : h.cts = ts'[u] => h.id = Id(u)'
               /\ \A u \in Thread : h.id = Id(u)' => h.cts = ts'[u] /\ ~Running(u)'
    <3>1. h.cts <= global_ts /\ 0 < h.cts /\ h.id[2] <= count[h.id[1]]
      BY DEF TimesApart
    <3>2. h.cts # ts'[t]
      BY <1>1, <1>2, <2>1, <3>1
    <3>3. h.id # Id(t)'
      BY <1>1, <1>2, <2>3, <3>1
    <3>4. h.cts <= global_ts' /\ h.id[2] <= count'[h.id[1]]
      BY <1>1, <1>2, <2>1, <3>1
    <3>5. \A u \in Thread : u # t => /\ h.cts = ts'[u] => h.id = Id(u)'
                                     /\ h.id = Id(u)' => h.cts = ts'[u] /\ ~Running(u)'
      BY <2>1, <2>2 DEF TimesApart
    <3>6. QED
      BY <3>1, <3>2, <3>3, <3>4, <3>5
  <2>7. QED
    BY <2>1, <2>4, <2>5, <2>6 DEF TimesApart
<1>4. CASE ~Begin(t)
  <2>1. UNCHANGED <<ts, count, global_ts>>
    BY <1>4 DEF Step, OwnWrite, Request, CheckLoad, Find, TryLock, Busy, Refuse, Retry, Get,
       CommitBegin, Publish, Close, InsertLatest, Unlock, Deinit, Remove, Abort, Give, vars, txnVars
  <2>2. \A u \in Thread : Running(u)' => Running(u)
    <3>1. Running(t)' => Running(t)
      BY <1>1, <1>4 DEF Step, OwnWrite, Request, CheckLoad, Find, TryLock, Busy, Refuse, Retry, Get,
       CommitBegin, Publish, Close, InsertLatest, Unlock, Deinit, Remove, Abort, Give, vars, Running, Goto, Calling
    <3>2. QED
      BY <3>1, OthersSame DEF Same, Running
  <2>3. pc'[t] # "idle" => pc[t] # "idle"
    BY <1>1, <1>4 DEF Step, OwnWrite, Request, CheckLoad, Find, TryLock, Busy, Refuse, Retry, Get,
       CommitBegin, Publish, Close, InsertLatest, Unlock, Deinit, Remove, Abort, Give, vars, Goto, Calling
  <2>4. \A u \in Thread : pc'[u] # "idle" => pc[u] # "idle"
    BY <2>3, OthersSame DEF Same
  <2>5. CASE ~CommitBegin(t)
    BY <2>1, <2>2, <2>4, <2>5, HistoryStep DEF TimesApart, Id
  <2>6. CASE CommitBegin(t)
    <3>1. PICK n : n = [id |-> Id(t), cts |-> ts[t], reads |-> reads[t]]
      OBVIOUS
    <3>2. /\ hist' = hist \cup {n} /\ n.id = Id(t) /\ n.cts = ts[t] /\ Running(t) /\ ~Running(t)'
          /\ pc[t] # "idle"
      BY <1>1, <2>6, <3>1 DEF CommitBegin, Running, Goto
    <3>3. /\ 0 < n.cts /\ n.cts <= global_ts
          /\ n.id[2] <= count[n.id[1]]
          /\ \A u \in Thread : n.cts = ts[u] => u = t
          /\ \A u \in Thread : n.id = Id(u) => u = t
      BY <1>1, <3>2 DEF TimesApart, Id
    <3>4. \A h \in hist : h.id # n.id /\ h.cts # n.cts
      BY <3>2 DEF TimesApart
    <3>5. \A u \in Thread : Id(u)' = Id(u)
      BY <2>1 DEF Id
    <3>6. ASSUME NEW h \in hist'
          PROVE  /\ 0 < h.cts /\ h.cts <= global_ts /\ h.id[2] <= count[h.id[1]]
                 /\ \A u \in Thread : h.cts = ts[u] => h.id = Id(u)
                 /\ \A u \in Thread : h.id = Id(u) => h.cts = ts[u] /\ ~Running(u)'
      <4>1. CASE h \in hist
        BY <2>2, <4>1 DEF TimesApart
      <4>2. CASE h = n
        BY <3>2, <3>3, <4>2
      <4>3. QED
        BY <3>2, <4>1, <4>2
    <3>7. \A g, h \in hist' : g.id = h.id \/ g.cts = h.cts => g = h
      BY <3>2, <3>4 DEF TimesApart
    <3>8. QED
      BY <2>1, <2>4, <3>5, <3>6, <3>7 DEF TimesApart
  <2>7. QED
    BY <2>5, <2>6
<1>5. QED
  BY <1>3, <1>4

\* A timestamp that is stored is one that was given out.
LEMMA PastStep ==
  ASSUME MvccAssumption, TimeInv, Inv', TimesApart', NEW t \in Thread, Step(t) \/ Abort(t)
  PROVE  Past' /\ global_ts <= global_ts'
<1>1. /\ Inv /\ Types /\ Types' /\ Books(t) /\ Stands(t) /\ Past /\ TimesApart
      /\ global_ts \in Nat /\ global_ts' \in Nat /\ counter \in Stamp /\ counter' \in Stamp
      /\ ts[t] \in Nat /\ ts[t] <= global_ts
  BY ThreadTypes DEF TimeInv, Inv, Types, TimesApart
<1>2. global_ts <= global_ts'
  <2>1. global_ts' = global_ts \/ global_ts' = global_ts + 1
    BY DEF Step, Begin, OwnWrite, Request, CheckLoad, Find, TryLock, Busy, Refuse, Retry, Get,
       CommitBegin, Publish, Close, InsertLatest, Unlock, Deinit, Remove, Abort, vars
  <2>2. QED
    BY <1>1, <2>1
<1>3. \A s \in Stamp : Stamped(s) => Stamped(s)'
  BY <1>1, <1>2 DEF Stamped, Stamp
<1>4. ASSUME NEW k \in Key, chain[k] # <<>>
      PROVE  LastStamp(k) \in Stamp /\ Stamped(LastStamp(k))
  <2>1. /\ Visible(k) \in Stamp /\ Visible(k) = LastStamp(k)
        /\ Visible(k).wts = chain[k][Len(chain[k])].min
        /\ Visible(k).rts = chain[k][Len(chain[k])].rts
        /\ Len(chain[k]) \in DOMAIN chain[k]
    BY <1>1, <1>4, VisibleTypes, VersionTypes
  <2>2. QED
    BY <1>1, <2>1 DEF Past, Stamped
<1>5. Stamped(counter)'
  <2>1. CASE counter' = counter
    BY <1>1, <1>3, <2>1 DEF Past, Stamped
  <2>2. CASE counter' # counter
    <3>1. PICK j \in Key : Drops(t, j) /\ counter' = Merge(counter, LastStamp(j))
      BY <1>1, <2>2, StampStep
    <3>2. PICK s \in Stamp : s = LastStamp(j) /\ Stamped(s)
      BY <1>4, <3>1 DEF Drops
    <3>3. /\ counter'.wts = Larger(counter.wts, s.wts) /\ counter'.rts = Larger(counter.rts, s.rts)
      BY <3>1, <3>2 DEF Merge
    <3>4. /\ counter.wts \in Nat /\ counter.rts \in Nat /\ s.wts \in Nat /\ s.rts \in Nat
          /\ counter.wts <= counter.rts /\ counter.rts <= global_ts
          /\ s.wts <= s.rts /\ s.rts <= global_ts
      BY <1>1, <3>2 DEF Past, Stamped, Stamp
    <3>5. counter'.wts <= counter'.rts /\ counter'.rts <= global_ts
      BY <3>3, <3>4 DEF Larger
    <3>6. counter'.rts \in Nat
      BY <3>3, <3>4 DEF Larger
    <3>7. counter'.rts <= global_ts'
      BY <1>1, <1>2, <3>5, <3>6
    <3>8. QED
      BY <3>5, <3>7 DEF Stamped
  <2>3. QED
    BY <2>1, <2>2
<1>6. ASSUME NEW k \in Key PROVE Stamped(latest[k].stamp)'
  <2>1. latest[k].stamp \in Stamp /\ Stamped(latest[k].stamp) /\ latest[k] \in Latest
    BY <1>1 DEF Past, Types, Latest
  <2>2. CASE latest'[k] = latest[k]
    BY <1>3, <2>1, <2>2 DEF Stamped
  <2>3. CASE latest'[k] = [ver |-> chain[k][at[t][k] + 1].ver, stamp |-> [wts |-> ts[t], rts |-> ts[t]]]
    <3>1. latest'[k].stamp.wts = ts[t] /\ latest'[k].stamp.rts = ts[t]
      BY <2>3
    <3>2. ts[t] <= global_ts'
      BY <1>1, <1>2
    <3>3. QED
      BY <1>1, <3>1, <3>2 DEF Stamped
  <2>4. CASE Drops(t, k) /\ latest'[k] = [latest[k] EXCEPT !.stamp = LastStamp(k)]
    <3>1. PICK s \in Stamp : s = LastStamp(k) /\ Stamped(s)
      BY <1>4, <2>4 DEF Drops
    <3>2. latest'[k].stamp = s
      BY <2>1, <2>4, <3>1 DEF Latest
    <3>3. QED
      BY <1>3, <3>1, <3>2 DEF Stamped
  <2>5. QED
    BY <1>1, <2>2, <2>3, <2>4, StampStep
<1>7. ASSUME NEW k \in Key, NEW i \in DOMAIN chain'[k]
      PROVE  chain'[k][i].min <= chain'[k][i].rts /\ chain'[k][i].rts <= global_ts'
  <2>1. ASSUME i \in DOMAIN chain[k], SameBounds(chain[k][i], chain'[k][i]),
               chain'[k][i].rts = chain[k][i].rts
        PROVE  chain'[k][i].min <= chain'[k][i].rts /\ chain'[k][i].rts <= global_ts'
    <3>1. /\ chain[k][i].min \in Nat /\ chain[k][i].rts \in Nat
          /\ chain[k][i].min <= chain[k][i].rts /\ chain[k][i].rts <= global_ts
      BY <1>1, <2>1, VersionTypes DEF Past
    <3>2. chain[k][i].rts <= global_ts'
      BY <1>1, <1>2, <3>1
    <3>3. QED
      BY <2>1, <3>1, <3>2 DEF SameBounds
  <2>2. CASE Stays(k) \/ Closes(t, k)
    BY <1>7, <2>1, <2>2 DEF Stays, Closes, AlikeBut, SameLength, Alike
  <2>3. CASE Reads(t, k)
    <3>1. CASE i # at[t][k]
      BY <1>7, <2>1, <2>3, <3>1 DEF Reads, AlikeBut, SameLength, Alike
    <3>2. CASE i = at[t][k]
      <4>1. i \in DOMAIN chain[k] /\ chain'[k][i].min = chain[k][i].min
            /\ chain'[k][i].rts = NewRts(t, chain[k][i])
        BY <2>3, <3>2 DEF Reads, SameBounds
      <4>2. chain[k][i].min <= ts[t]
        <5>1. pc[t] = "get" /\ k = CallKey(t) /\ ~Writing(t)
          BY <1>1, <2>3 DEF Reads, Get, Books
        <5>2. The(t, CallKey(t)).min <= ts[t]
          BY <1>1, <5>1 DEF Stands
        <5>3. QED
          BY <3>2, <5>1, <5>2 DEF The
      <4>3. /\ chain[k][i].min \in Nat /\ chain[k][i].rts \in Nat
            /\ chain[k][i].min <= chain[k][i].rts /\ chain[k][i].rts <= global_ts
        BY <1>1, <4>1, VersionTypes DEF Past
      <4>4. NewRts(t, chain[k][i]) = ts[t] \/ NewRts(t, chain[k][i]) = chain[k][i].rts
        BY DEF NewRts, Larger
      <4>5. QED
        BY <1>1, <1>2, <4>1, <4>2, <4>3, <4>4
    <3>3. QED
      BY <3>1, <3>2
  <2>4. CASE Adds(t, k)
    <3>1. CASE i \in DOMAIN chain[k]
      BY <2>1, <2>4, <3>1 DEF Adds, SameBounds
    <3>2. CASE i \notin DOMAIN chain[k]
      <4>1. chain'[k][i] = NewVersion(ts[t], ts[t], Len(db[k]) + 1, FALSE)
        BY <1>7, <2>4, <3>2 DEF Adds
      <4>2. chain'[k][i].min = ts[t] /\ chain'[k][i].rts = ts[t]
        BY <4>1 DEF NewVersion
      <4>3. QED
        BY <1>1, <1>2, <4>2
    <3>3. QED
      BY <3>1, <3>2
  <2>5. CASE Makes(t, k)
    <3>1. PICK s \in Stamp : s = (IF build = "counter" THEN counter ELSE latest[k].stamp) /\ Stamped(s)
      <4>1. latest[k].stamp \in Stamp /\ Stamped(latest[k].stamp) /\ Stamped(counter)
        BY <1>1 DEF Past, Types, Latest
      <4>2. QED
        BY <1>1, <4>1
    <3>2. PICK v : v = NewVersion(s.wts, s.rts, latest[k].ver, TRUE)
      OBVIOUS
    <3>3. v.min = s.wts /\ v.rts = s.rts
      BY <3>2 DEF NewVersion
    <3>4. chain'[k] = <<v>>
      BY <2>5, <3>1, <3>2 DEF Makes, FirstVersion
    <3>5. chain'[k][i] = v
      BY <1>7, <3>4
    <3>6. s.wts <= s.rts /\ s.rts <= global_ts'
      BY <1>1, <1>2, <3>1 DEF Stamped, Stamp
    <3>7. QED
      BY <3>3, <3>5, <3>6
  <2>6. CASE Drops(t, k)
    BY <1>7, <2>6 DEF Drops
  <2>7. QED
    BY <1>1, <2>2, <2>3, <2>4, <2>5, <2>6, KeyStep
<1>8. QED
  BY <1>2, <1>5, <1>6, <1>7 DEF Past

\* The timestamp of a transaction that runs is nowhere yet.
LEMMA FreshStep ==
  ASSUME MvccAssumption, TimeInv, Inv', NEW t \in Thread, Step(t) \/ Abort(t), NEW u \in Thread
  PROVE  Fresh(u)'
<1>1. /\ Inv /\ Types /\ Types' /\ Past /\ TimesApart /\ Fresh(u)
      /\ global_ts \in Nat /\ counter \in Stamp /\ \A v \in Thread : ts[v] \in Nat
  BY ThreadTypes DEF TimeInv, Inv, Types
<1>2. SUFFICES ASSUME Running(u)' PROVE Fresh(u)'
  BY DEF Fresh
<1>3. CASE Begin(t) /\ u = t
  <2>1. ts'[u] = global_ts + 1 /\ UNCHANGED <<chain, counter, latest>>
    BY <1>1, <1>3 DEF Begin, tableVars, Types
  <2>2. counter.wts <= global_ts /\ counter.wts \in Nat
    BY <1>1 DEF Past, Stamped, Stamp
  <2>3. ASSUME NEW k \in Key
        PROVE  /\ latest[k].stamp.wts \in Nat /\ latest[k].stamp.wts <= global_ts
    <3>1. latest[k].stamp \in Stamp /\ Stamped(latest[k].stamp)
      BY <1>1 DEF Past, Types, Latest
    <3>2. QED
      BY <1>1, <3>1 DEF Stamped, Stamp
  <2>4. ASSUME NEW k \in Key, NEW i \in DOMAIN chain[k]
        PROVE  chain[k][i].min \in Nat /\ chain[k][i].min <= global_ts
    <3>1. chain[k][i].min \in Nat /\ chain[k][i].rts \in Nat
      BY <1>1, VersionTypes
    <3>2. QED
      BY <1>1, <3>1 DEF Past
  <2>5. \A n \in Nat : n <= global_ts => n # global_ts + 1
    BY <1>1
  <2>6. QED
    BY <2>1, <2>2, <2>3, <2>4, <2>5 DEF Fresh
<1>4. CASE ~(Begin(t) /\ u = t)
  <2>1. Running(u) /\ ts'[u] = ts[u] /\ ts[u] > 0
    <3>1. CASE u # t
      BY <1>1, <1>2, <3>1, OthersSame DEF Same, Running, TimesApart
    <3>2. CASE u = t
      <4>1. ts'[t] = ts[t]
        BY <1>4, <3>2 DEF Step, OwnWrite, Request, CheckLoad, Find, TryLock, Busy, Refuse, Retry, Get,
           CommitBegin, Publish, Close, InsertLatest, Unlock, Deinit, Remove, Abort, Give, vars, txnVars
      <4>2. Running(t)
        BY <1>1, <1>2, <1>4, <3>2 DEF Step, OwnWrite, Request, CheckLoad, Find, TryLock, Busy, Refuse,
           Retry, Get, CommitBegin, Publish, Close, InsertLatest, Unlock, Deinit, Remove, Abort, Give,
           vars, Running, Goto, Calling, Types
      <4>3. QED
        BY <1>1, <3>2, <4>1, <4>2 DEF TimesApart, Running
    <3>3. QED
      BY <3>1, <3>2
  <2>2. /\ counter.wts # ts[u]
        /\ \A k \in Key : /\ latest[k].stamp.wts # ts[u]
                          /\ \A i \in DOMAIN chain[k] : chain[k][i].min # ts[u]
    BY <1>1, <2>1 DEF Fresh
  <2>3. Publish(t) \/ InsertLatest(t) => ts[t] # ts[u]
    <3>1. Publish(t) \/ InsertLatest(t) => t # u
      BY <2>1 DEF Publish, InsertLatest, Running
    <3>2. QED
      BY <1>1, <2>1, <3>1 DEF TimesApart
  <2>4. ASSUME NEW k \in Key, chain[k] # <<>>
        PROVE  LastStamp(k).wts # ts[u]
    BY <1>1, <2>2, <2>4, VisibleTypes, VersionTypes
  <2>5. counter'.wts # ts[u]
    <3>1. CASE counter' = counter
      BY <2>2, <3>1
    <3>2. CASE counter' # counter
      <4>1. PICK j \in Key : Drops(t, j) /\ counter' = Merge(counter, LastStamp(j))
        BY <1>1, <3>2, StampStep
      <4>2. counter'.wts = counter.wts \/ counter'.wts = LastStamp(j).wts
        BY <4>1 DEF Merge, Larger
      <4>3. LastStamp(j).wts # ts[u]
        BY <2>4, <4>1 DEF Drops
      <4>4. QED
        BY <2>2, <4>2, <4>3
    <3>3. QED
      BY <3>1, <3>2
  <2>6. ASSUME NEW k \in Key PROVE latest'[k].stamp.wts # ts[u]
    <3>1. CASE latest'[k] = latest[k]
      BY <2>2, <3>1
    <3>2. CASE InsertLatest(t) /\ latest'[k] = [ver |-> chain[k][at[t][k] + 1].ver,
                                                stamp |-> [wts |-> ts[t], rts |-> ts[t]]]
      BY <2>3, <3>2
    <3>3. CASE Drops(t, k) /\ latest'[k] = [latest[k] EXCEPT !.stamp = LastStamp(k)]
      <4>1. latest[k] \in Latest
        BY <1>1 DEF Types
      <4>2. latest'[k].stamp = LastStamp(k)
        BY <3>3, <4>1 DEF Latest
      <4>3. QED
        BY <2>4, <3>3, <4>2 DEF Drops
    <3>4. QED
      BY <1>1, <3>1, <3>2, <3>3, StampStep
  <2>7. ASSUME NEW k \in Key, NEW i \in DOMAIN chain'[k] PROVE chain'[k][i].min # ts[u]
    <3>1. CASE Stays(k) \/ Closes(t, k) \/ Reads(t, k)
      <4>1. i \in DOMAIN chain[k] /\ SameBounds(chain[k][i], chain'[k][i])
        BY <2>7, <3>1 DEF Stays, Closes, Reads, AlikeBut, SameLength, Alike
      <4>2. QED
        BY <2>2, <4>1 DEF SameBounds
    <3>2. CASE Adds(t, k)
      <4>1. CASE i \in DOMAIN chain[k]
        BY <2>2, <3>2, <4>1 DEF Adds
      <4>2. CASE i \notin DOMAIN chain[k]
        <5>1. chain'[k][i] = NewVersion(ts[t], ts[t], Len(db[k]) + 1, FALSE)
          BY <2>7, <3>2, <4>2 DEF Adds
        <5>2. QED
          BY <2>3, <3>2, <5>1 DEF NewVersion, Adds
      <4>3. QED
        BY <4>1, <4>2
    <3>3. CASE Makes(t, k)
      <4>1. chain'[k][i] = FirstVersion(k)
        BY <2>7, <3>3 DEF Makes
      <4>2. PICK s : s = (IF build = "counter" THEN counter ELSE latest[k].stamp)
        OBVIOUS
      <4>3. FirstVersion(k) = NewVersion(s.wts, s.rts, latest[k].ver, TRUE)
        BY <4>2 DEF FirstVersion
      <4>4. chain'[k][i].min = s.wts
        BY <4>1, <4>3 DEF NewVersion
      <4>5. QED
        BY <2>2, <4>2, <4>4
    <3>4. CASE Drops(t, k)
      BY <2>7, <3>4 DEF Drops
    <3>5. QED
      BY <1>1, <3>1, <3>2, <3>3, <3>4, KeyStep
  <2>8. QED
    BY <2>1, <2>5, <2>6, <2>7 DEF Fresh
<1>5. QED
  BY <1>3, <1>4

\* What is to be stored is locked.
LEMMA UnstoredOwned ==
  ASSUME Inv, NEW t \in Thread, NEW k, k \in Unstored(t)
  PROVE  /\ k \in Key /\ Owns(t, k) /\ at[t][k] \in DOMAIN chain[k] /\ chain[k] # <<>>
         /\ chain[k][at[t][k]].lock.by = t /\ pc[t] # "idle"
<1>1. Types /\ Books(t) /\ todo[t] \in Seq(Key) /\ writes[t] \subseteq Key
  BY ThreadTypes DEF Inv
<1>2. Elems(todo[t]) \subseteq Key
  BY <1>1 DEF Elems
<1>3. todo[t] # <<>> => Elems(Tail(todo[t])) \subseteq Elems(todo[t])
  BY <1>1, HeadTailElems
<1>4. k \in Key /\ Owns(t, k) /\ pc[t] # "idle"
  BY <1>1, <1>2, <1>3 DEF Unstored, Owns, Running, Looping, Books
<1>5. at[t][k] \in DOMAIN chain[k]
  BY <1>4 DEF Inv, Places
<1>6. chain[k] # <<>>
  BY <1>4, <1>5
<1>7. chain[k][at[t][k]].lock.by = t
  BY <1>4, <1>5 DEF Inv, LockRight
<1>8. QED
  BY <1>4, <1>5, <1>6, <1>7

\* Two threads do not own the same version.
LEMMA OwnersApart ==
  ASSUME Inv, NEW t \in Thread, NEW u \in Thread, NEW k \in Key, Owns(t, k), Owns(u, k),
         at[t][k] = at[u][k]
  PROVE  t = u
<1>1. at[t][k] \in DOMAIN chain[k]
  BY DEF Inv, Places
<1>2. chain[k][at[t][k]].lock.by = t /\ chain[k][at[t][k]].lock.by = u
  BY <1>1 DEF Inv, LockRight
<1>3. QED
  BY <1>2

\* A transaction has to store what it had to store before, but for the version
\* it stores in the step, and what it has just locked to write.
LEMMA UnstoredStep ==
  ASSUME MvccAssumption, Inv, NEW t \in Thread, Step(t) \/ Abort(t), NEW k, k \in Unstored(t)'
  PROVE  /\ k \in Key
         /\ \/ /\ k \in Unstored(t) /\ ~Adds(t, k) /\ at'[t][k] = at[t][k] /\ ts'[t] = ts[t]
               /\ count'[t] = count[t]
            \/ /\ TryLock(t) /\ Writing(t) /\ k = CallKey(t) /\ k \notin Unstored(t)
               /\ at'[t] = at[t] /\ ts'[t] = ts[t] /\ count'[t] = count[t]
<1>1. /\ Types /\ Books(t) /\ pc \in [Thread -> Label] /\ todo[t] \in Seq(Key)
      /\ writes[t] \subseteq Key /\ todo \in [Thread -> Seq(Key)] /\ writes \in [Thread -> SUBSET Key]
  BY ThreadTypes DEF Inv, Types
<1>2. SUFFICES \/ /\ k \in Unstored(t) /\ ~Adds(t, k) /\ at'[t][k] = at[t][k] /\ ts'[t] = ts[t]
                  /\ count'[t] = count[t]
               \/ /\ TryLock(t) /\ Writing(t) /\ k = CallKey(t) /\ k \notin Unstored(t) /\ k \in Key
                  /\ at'[t] = at[t] /\ ts'[t] = ts[t] /\ count'[t] = count[t]
  BY UnstoredOwned
<1>3. CASE Begin(t) \/ Refuse(t) \/ Abort(t) \/ Deinit(t) \/ Remove(t)
  <2>1. pc'[t] \in {"abort", "deinit", "idle"} \/ (pc'[t] = "run" /\ writes'[t] = {})
    BY <1>1, <1>3 DEF Begin, Refuse, Abort, Give, Deinit, Remove, Goto
  <2>2. Unstored(t)' = {}
    BY <2>1 DEF Unstored, Running
  <2>3. QED
    BY <2>2
<1>4. CASE OwnWrite(t) \/ Request(t) \/ CheckLoad(t) \/ Retry(t) \/ Get(t) \/ Busy(t)
  <2>1. /\ Running(t) /\ Running(t)' /\ ~Publish(t)
        /\ UNCHANGED <<writes, at, ts, count>>
    BY <1>1, <1>4 DEF OwnWrite, Request, CheckLoad, Retry, Get, Busy, Goto, Running, Calling, vars,
       txnVars, Publish
  <2>2. k \in Unstored(t)
    <3>1. Unstored(t)' = writes[t]
      BY <2>1 DEF Unstored, Running
    <3>2. QED
      BY <2>1, <3>1 DEF Unstored, Running
  <2>3. QED
    BY <2>1, <2>2 DEF Adds
<1>5. CASE Find(t)
  <2>1. CASE pc'[t] = "abort"
    BY <2>1 DEF Unstored, Running
  <2>2. CASE pc'[t] # "abort"
    <3>1. PICK j, i : j = CallKey(t) /\ i = IF Writing(t) THEN Len(chain[j]) ELSE Newest(Readable(t, j))
      OBVIOUS
    <3>2. /\ at' = [at EXCEPT ![t][j] = i] /\ UNCHANGED <<writes, ts, count>>
          /\ pc' = [pc EXCEPT ![t] = "lock"] /\ pc[t] = "find"
      BY <1>1, <1>5, <2>2, <3>1 DEF Find, Give, Goto
    <3>3. Running(t) /\ Running(t)'
      BY <1>1, <3>2 DEF Running
    <3>4. k \in Unstored(t) /\ k \in writes[t]
      BY <3>2, <3>3 DEF Unstored
    <3>5. j \notin writes[t]
      BY <1>1, <3>1, <3>2 DEF Books, InCall
    <3>6. at'[t][k] = at[t][k]
      BY <1>1, <3>2, <3>4, <3>5 DEF Types
    <3>7. QED
      BY <3>2, <3>4, <3>6 DEF Adds, Publish
  <2>3. QED
    BY <2>1, <2>2
<1>6. CASE TryLock(t)
  <2>1. /\ Running(t) /\ Running(t)' /\ UNCHANGED <<at, ts, count>> /\ ~Publish(t)
        /\ CallKey(t) \in Key /\ CallKey(t) \notin writes[t]
    BY <1>1, <1>6, CallTypes DEF TryLock, Goto, Running, Publish, Books, InCall
  <2>2. writes'[t] = IF Writing(t) THEN writes[t] \cup {CallKey(t)} ELSE writes[t]
    BY <1>1, <1>6 DEF TryLock
  <2>3. k \in writes'[t] /\ Unstored(t) = writes[t]
    <3>1. Unstored(t)' = writes'[t]
      BY <2>1 DEF Unstored, Running
    <3>2. QED
      BY <2>1, <3>1 DEF Unstored, Running
  <2>4. CASE k \in writes[t]
    BY <2>1, <2>3, <2>4 DEF Adds
  <2>5. CASE k \notin writes[t]
    BY <1>6, <2>1, <2>2, <2>3, <2>5
  <2>6. QED
    BY <2>4, <2>5
<1>7. CASE CommitBegin(t)
  <2>1. /\ pc[t] = "run" /\ pc'[t] = "publish" /\ todo'[t] = Held(t)
        /\ UNCHANGED <<writes, at, ts, count>>
    BY <1>1, <1>7 DEF CommitBegin, Goto, txnVars
  <2>2. Elems(Held(t)) = writes[t]
    BY <1>1, HeldKeys, ThreadTypes DEF Books
  <2>3. k \in writes[t] /\ Unstored(t) = writes[t]
    BY <2>1, <2>2 DEF Unstored, Running
  <2>4. QED
    BY <2>1, <2>3 DEF Adds, Publish
<1>8. CASE Publish(t)
  <2>1. /\ pc[t] = "publish" /\ pc'[t] = "close" /\ todo'[t] = todo[t] /\ todo[t] # <<>>
        /\ UNCHANGED <<writes, at, ts, count>>
    BY <1>1, <1>8 DEF Publish, Goto, txnVars
  <2>2. /\ Elems(Tail(todo[t])) \subseteq Elems(todo[t])
        /\ Head(todo[t]) \notin Elems(Tail(todo[t]))
    BY <1>1, <2>1, HeadTailElems DEF Books
  <2>3. k \in Elems(Tail(todo[t])) /\ Unstored(t) = Elems(todo[t])
    BY <2>1 DEF Unstored, Running
  <2>4. QED
    BY <2>1, <2>2, <2>3 DEF Adds
<1>9. CASE Close(t) \/ InsertLatest(t)
  <2>1. /\ pc[t] \in {"close", "latest"} /\ pc'[t] \in {"latest", "unlock"} /\ todo'[t] = todo[t]
        /\ UNCHANGED <<writes, at, ts, count>>
    BY <1>1, <1>9 DEF Close, InsertLatest, Goto, txnVars
  <2>2. k \in Unstored(t)
    BY <2>1 DEF Unstored, Running
  <2>3. QED
    BY <2>1, <2>2 DEF Adds, Publish
<1>10. CASE Unlock(t)
  <2>1. /\ (pc[t] = "unlock" /\ pc'[t] = "publish") \/ (pc[t] = "abort" /\ pc'[t] = "abort")
        /\ todo'[t] = Tail(todo[t]) /\ UNCHANGED <<writes, at, ts, count>>
    BY <1>1, <1>10 DEF Unlock, Goto, txnVars
  <2>2. k \in Unstored(t) /\ pc[t] = "unlock"
    BY <2>1 DEF Unstored, Running
  <2>3. QED
    BY <2>1, <2>2 DEF Adds, Publish
<1>11. QED
  BY <1>3, <1>4, <1>5, <1>6, <1>7, <1>8, <1>9, <1>10 DEF Step

\* A writer locks the last version of a key, which is older than itself; a
\* reader locks one that holds its timestamp.
LEMMA LockFits ==
  ASSUME MvccAssumption, TimeInv, global_ts < Inf, NEW t \in Thread, TryLock(t),
         NEW k, k = CallKey(t), NEW i, i = at[t][k]
  PROVE  /\ k \in Key /\ i \in DOMAIN chain[k]
         /\ Writing(t) => i = Len(chain[k]) /\ Visible(k).wts < ts[t] /\ Visible(k).rts <= ts[t]
         /\ ~Writing(t) => ts[t] < chain[k][i].max
<1>1. /\ Inv /\ Types /\ Books(t) /\ Past /\ TimesApart /\ Fresh(t) /\ pc[t] = "lock"
      /\ global_ts \in Nat /\ ts[t] \in Nat /\ Inf \in Nat /\ 0 < ts[t] /\ ts[t] <= global_ts
  BY ThreadTypes DEF TimeInv, Inv, Types, TryLock, MvccAssumption, TimesApart
<1>2. k \in Key /\ i \in DOMAIN chain[k]
  BY <1>1, CallTypes DEF Inv, Places, Found, Books, InCall
<1>3. /\ Len(chain[k]) \in Nat /\ DOMAIN chain[k] = 1 .. Len(chain[k]) /\ chain[k] # <<>>
      /\ \A j \in DOMAIN chain[k] : /\ chain[k][j].min \in Nat /\ chain[k][j].max \in Nat
                                    /\ chain[k][j].rts \in Nat
  BY <1>1, <1>2, VersionTypes
<1>4. PICK v : v = chain[k][i]
  OBVIOUS
<1>5. /\ ~(Writing(t) /\ Passed(t, v)) /\ ~Outdated(t, v) /\ v.lock = Free
  BY <1>4 DEF TryLock, The, Refused
<1>6. Divided(k)
  BY <1>2 DEF TimeInv
<1>7. v.min # ts[t] /\ v.min <= v.rts
  BY <1>1, <1>2, <1>4 DEF Fresh, Running, Past
<1>8. CASE i = Len(chain[k])
  <2>1. v.max = Inf
    BY <1>3, <1>4, <1>6, <1>8 DEF Divided, Last
  <2>2. Visible(k).wts = v.min /\ Visible(k).rts = v.rts
    BY <1>1, <1>2, <1>3, <1>4, <1>8, VisibleTypes
  <2>3. ts[t] < v.max
    BY <1>1, <2>1
  <2>4. ASSUME Writing(t) PROVE v.min < ts[t] /\ v.rts <= ts[t]
    <3>1. v.rts <= ts[t]
      BY <1>1, <1>2, <1>3, <1>4, <1>5, <2>4 DEF Passed
    <3>2. QED
      BY <1>1, <1>2, <1>3, <1>4, <1>7, <3>1
  <2>5. QED
    BY <1>2, <1>4, <1>8, <2>2, <2>3, <2>4
<1>9. CASE i # Len(chain[k])
  <2>1. i \in 1 .. Len(chain[k]) - 1 /\ i + 1 \in DOMAIN chain[k]
    BY <1>2, <1>3, <1>9
  <2>2. PICK n : n = chain[k][i + 1]
    OBVIOUS
  <2>3. n.min \in Nat /\ n.min <= global_ts /\ n.min # ts[t]
    <3>1. n.min \in Nat /\ n.rts \in Nat /\ n.min <= n.rts /\ n.rts <= global_ts
      BY <1>1, <1>2, <1>3, <2>1, <2>2 DEF Past
    <3>2. n.min # ts[t]
      BY <1>1, <1>2, <2>1, <2>2 DEF Fresh, Running
    <3>3. QED
      BY <1>1, <3>1, <3>2
  <2>4. ~\E u \in Thread : pc[u] = "close" /\ Head(todo[u]) = k /\ at[u][k] = i
    <3>1. SUFFICES ASSUME NEW u \in Thread, pc[u] = "close", Head(todo[u]) = k, at[u][k] = i
                   PROVE  FALSE
      OBVIOUS
    <3>2. Owns(u, k)
      BY <1>1, <3>1, NextVersion
    <3>3. v.lock.by = u
      BY <1>1, <1>2, <1>4, <3>1, <3>2 DEF Inv, LockRight
    <3>4. QED
      BY <1>5, <3>3 DEF Free, MvccAssumption
  <2>5. v.max = (IF v.top THEN 0 ELSE n.min)
    BY <1>4, <1>6, <2>1, <2>2, <2>4 DEF Divided
  <2>6. v.max \in Nat /\ v.max # Inf /\ v.max # ts[t]
    BY <1>1, <2>3, <2>5
  <2>7. v.max > ts[t]
    BY <1>1, <1>5, <2>6 DEF Outdated
  <2>8. ~Writing(t)
    BY <1>5, <2>6, <2>7 DEF Passed
  <2>9. QED
    BY <1>1, <1>2, <1>4, <2>6, <2>7, <2>8
<1>10. QED
  BY <1>8, <1>9

\* A step leaves the versions of a key dividing time.
LEMMA DividedStep ==
  ASSUME MvccAssumption, TimeInv, Inv', NEW t \in Thread, Step(t) \/ Abort(t), NEW k \in Key
  PROVE  Divided(k)'
<1>1. /\ Inv /\ Types /\ Types' /\ Books(t) /\ Stands(t) /\ Divided(k)
      /\ Len(chain[k]) \in Nat /\ DOMAIN chain[k] = 1 .. Len(chain[k])
      /\ chain[k] = <<>> <=> Len(chain[k]) = 0
      /\ Len(chain'[k]) \in Nat /\ DOMAIN chain'[k] = 1 .. Len(chain'[k])
      /\ chain'[k] = <<>> <=> Len(chain'[k]) = 0
  <2>1. Inv /\ Types /\ Types' /\ Books(t) /\ Stands(t) /\ Divided(k)
    BY DEF TimeInv, Inv
  <2>2. chain[k] \in Seq(Version) /\ chain'[k] \in Seq(Version)
    BY <2>1 DEF Types
  <2>3. QED
    BY <2>1, <2>2
<1> DEFINE Closing(u, i, n) == pc[u] = "close" /\ Head(todo[u]) = k /\ at[u][k] = i /\ ts[u] = n.min
           Parted(i, v, n) == /\ v.min < n.min
                              /\ \/ v.max = (IF v.top THEN 0 ELSE n.min)
                                 \/ v.max = Inf /\ \E u \in Thread : Closing(u, i, n)
           PartedNext(i, v, n) ==
             /\ v.min < n.min
             /\ \/ v.max = (IF v.top THEN 0 ELSE n.min)
                \/ v.max = Inf /\ \E u \in Thread :
                     pc'[u] = "close" /\ Head(todo'[u]) = k /\ at'[u][k] = i /\ ts'[u] = n.min
<1>2. pc[t] = "close" => Close(t)
  BY DEF Step, Begin, OwnWrite, Request, CheckLoad, Find, TryLock, Busy, Refuse, Retry, Get,
     CommitBegin, Publish, InsertLatest, Unlock, Deinit, Remove, Abort, Calling
<1>3. ASSUME NEW i \in 1 .. Len(chain[k]) - 1, ~(Closes(t, k) /\ at[t][k] = i),
             SameBounds(chain[k][i], chain'[k][i]), chain'[k][i].max = chain[k][i].max,
             SameBounds(chain[k][i + 1], chain'[k][i + 1])
      PROVE  PartedNext(i, chain'[k][i], chain'[k][i + 1])
  <2>1. PICK v, n, w, m : v = chain[k][i] /\ n = chain[k][i + 1] /\ w = chain'[k][i] /\ m = chain'[k][i + 1]
    OBVIOUS
  <2>2. Parted(i, v, n)
    BY <1>1, <1>3, <2>1 DEF Divided
  <2>3. w.min = v.min /\ w.top = v.top /\ w.max = v.max /\ m.min = n.min
    BY <1>3, <2>1 DEF SameBounds
  <2>4. ASSUME NEW u \in Thread, Closing(u, i, n)
        PROVE  pc'[u] = "close" /\ Head(todo'[u]) = k /\ at'[u][k] = i /\ ts'[u] = m.min
    <3>1. u # t
      BY <1>2, <1>3, <2>4, KeyStep, <1>1
    <3>2. QED
      BY <1>1, <2>3, <2>4, <3>1, OthersSame DEF Same
  <2>5. PartedNext(i, w, m)
    BY <2>2, <2>3, <2>4
  <2>6. QED
    BY <2>1, <2>5
<1>4. ASSUME \A i \in 1 .. Len(chain'[k]) - 1 : PartedNext(i, chain'[k][i], chain'[k][i + 1]),
             chain'[k] # <<>> => chain'[k][Len(chain'[k])].max = Inf
      PROVE  Divided(k)'
  BY <1>4 DEF Divided, Last
<1>5. chain[k] # <<>> => chain[k][Len(chain[k])].max = Inf
  BY <1>1 DEF Divided, Last
<1>6. CASE (Stays(k) \/ Reads(t, k)) /\ ~Closes(t, k)
  <2>1. /\ SameLength(k)
        /\ \A i \in DOMAIN chain[k] : /\ SameBounds(chain[k][i], chain'[k][i])
                                      /\ chain'[k][i].max = chain[k][i].max
    <3>1. SameLength(k)
      BY <1>6 DEF Stays, Reads, AlikeBut
    <3>2. ASSUME NEW i \in DOMAIN chain[k]
          PROVE  SameBounds(chain[k][i], chain'[k][i]) /\ chain'[k][i].max = chain[k][i].max
      BY <1>1, <1>6 DEF Stays, Reads, AlikeBut, Alike
    <3>3. QED
      BY <3>1, <3>2
  <2>2. Len(chain'[k]) = Len(chain[k])
    BY <2>1 DEF SameLength
  <2>3. ASSUME NEW i \in 1 .. Len(chain[k]) - 1
        PROVE  PartedNext(i, chain'[k][i], chain'[k][i + 1])
    <3>1. i \in DOMAIN chain[k] /\ i + 1 \in DOMAIN chain[k]
      BY <1>1
    <3>2. QED
      BY <1>3, <1>6, <2>1, <3>1
  <2>4. chain[k] # <<>> => Len(chain[k]) \in DOMAIN chain[k]
    BY <1>1
  <2>5. QED
    BY <1>1, <1>4, <1>5, <2>1, <2>2, <2>3, <2>4
<1>7. CASE Adds(t, k)
  <2>1. PICK l, w : l = Len(chain[k]) /\ w = NewVersion(ts[t], ts[t], Len(db[k]) + 1, FALSE)
    OBVIOUS
  <2>2. /\ Publish(t) /\ k = Head(todo[t]) /\ Len(chain'[k]) = l + 1
        /\ \A i \in DOMAIN chain[k] : chain'[k][i] = chain[k][i]
        /\ chain'[k][l + 1] = w /\ w.min = ts[t] /\ w.max = Inf
    BY <1>7, <2>1 DEF Adds, NewVersion
  <2>3. pc[t] = "publish" /\ todo[t] # <<>> /\ todo[t] \in Seq(Key) /\ pc \in [Thread -> Label]
    BY <1>1, <2>2, ThreadTypes DEF Publish, Types
  <2>4. k \in Unstored(t)
    BY <2>2, <2>3, HeadTailElems DEF Unstored, Running
  <2>5. at[t][k] = l /\ Visible(k).wts < ts[t] /\ chain[k] # <<>>
    BY <1>1, <2>1, <2>4, UnstoredOwned DEF Stands
  <2>6. l \in DOMAIN chain[k] /\ chain[k][l].min < ts[t] /\ chain[k][l].max = Inf
    BY <1>1, <1>5, <2>1, <2>5, VisibleTypes
  <2>7. pc'[t] = "close" /\ Head(todo'[t]) = k /\ at'[t][k] = l /\ ts'[t] = ts[t]
    BY <2>2, <2>3, <2>5 DEF Publish, Goto, txnVars
  <2>8. PartedNext(l, chain'[k][l], chain'[k][l + 1])
    BY <2>2, <2>6, <2>7
  <2>9. ASSUME NEW i \in 1 .. l - 1
        PROVE  PartedNext(i, chain'[k][i], chain'[k][i + 1])
    <3>1. i \in DOMAIN chain[k] /\ i + 1 \in DOMAIN chain[k] /\ i \in 1 .. Len(chain[k]) - 1
      BY <1>1, <2>1
    <3>2. ~Closes(t, k)
      BY <2>3 DEF Closes, Close
    <3>3. QED
      BY <1>3, <2>2, <3>1, <3>2 DEF SameBounds
  <2>10. \A i \in 1 .. Len(chain'[k]) - 1 : i = l \/ i \in 1 .. l - 1
    BY <1>1, <2>1, <2>2
  <2>11. chain'[k][Len(chain'[k])].max = Inf
    BY <2>2
  <2>12. QED
    BY <1>4, <2>8, <2>9, <2>10, <2>11
<1>8. CASE Closes(t, k)
  <2>1. PICK a : a = at[t][k]
    OBVIOUS
  <2>2. /\ Close(t) /\ k = Head(todo[t]) /\ a \in DOMAIN chain[k] /\ a + 1 \in DOMAIN chain[k]
        /\ SameLength(k) /\ \A i \in DOMAIN chain[k] : SameBounds(chain[k][i], chain'[k][i])
        /\ \A i \in DOMAIN chain[k] : i # a => chain'[k][i].max = chain[k][i].max
        /\ chain'[k][a].max = IF chain[k][a].top THEN 0 ELSE ts[t]
    BY <1>8, <2>1 DEF Closes, AlikeBut, Alike
  <2>3. Len(chain'[k]) = Len(chain[k])
    BY <2>2 DEF SameLength
  <2>4. chain[k][a + 1].min = ts[t]
    BY <1>1, <2>1, <2>2 DEF Stands, Close
  <2>5. PartedNext(a, chain'[k][a], chain'[k][a + 1])
    <3>1. a \in 1 .. Len(chain[k]) - 1
      BY <1>1, <2>2
    <3>2. chain[k][a].min < chain[k][a + 1].min
      BY <1>1, <3>1 DEF Divided
    <3>3. /\ chain'[k][a].min = chain[k][a].min /\ chain'[k][a].top = chain[k][a].top
          /\ chain'[k][a + 1].min = chain[k][a + 1].min
      BY <2>2 DEF SameBounds
    <3>4. QED
      BY <2>2, <2>4, <3>2, <3>3
  <2>6. ASSUME NEW i \in 1 .. Len(chain[k]) - 1, i # a
        PROVE  PartedNext(i, chain'[k][i], chain'[k][i + 1])
    <3>1. i \in DOMAIN chain[k] /\ i + 1 \in DOMAIN chain[k]
      BY <1>1
    <3>2. QED
      BY <1>3, <2>1, <2>2, <2>6, <3>1
  <2>7. Len(chain[k]) \in DOMAIN chain[k] /\ Len(chain[k]) # a /\ chain[k] # <<>>
    BY <1>1, <2>2
  <2>8. chain'[k][Len(chain'[k])].max = Inf
    BY <1>5, <2>2, <2>3, <2>7
  <2>9. QED
    BY <1>4, <2>3, <2>5, <2>6, <2>8
<1>9. CASE Makes(t, k)
  <2>1. PICK v : v = FirstVersion(k)
    OBVIOUS
  <2>2. v.max = Inf
    BY <2>1 DEF FirstVersion, NewVersion
  <2>3. chain'[k] = <<v>>
    BY <1>9, <2>1 DEF Makes
  <2>4. Len(chain'[k]) = 1 /\ chain'[k][1] = v
    BY <2>3
  <2>5. QED
    BY <1>4, <2>2, <2>4
<1>10. CASE Drops(t, k)
  <2>1. chain'[k] = <<>> /\ Len(chain'[k]) = 0
    BY <1>1, <1>10 DEF Drops
  <2>2. QED
    BY <1>4, <2>1
<1>11. QED
  BY <1>1, <1>6, <1>7, <1>8, <1>9, <1>10, KeyStep

\* A version stays where it is while its list does, and only the one that its
\* owner closes ends earlier.
LEMMA BoundsStay ==
  ASSUME MvccAssumption, Inv, Inv', NEW t \in Thread, Step(t) \/ Abort(t), NEW k \in Key,
         NEW i \in DOMAIN chain[k], chain'[k] # <<>>
  PROVE  /\ i \in DOMAIN chain'[k] /\ SameBounds(chain[k][i], chain'[k][i])
         /\ chain'[k][i].max = chain[k][i].max \/ (Closes(t, k) /\ i = at[t][k])
<1>1. /\ Types /\ DOMAIN chain[k] = 1 .. Len(chain[k]) /\ Len(chain[k]) \in Nat
      /\ chain[k] = <<>> <=> Len(chain[k]) = 0
  <2>1. Types /\ chain[k] \in Seq(Version)
    BY DEF Inv, Types
  <2>2. QED
    BY <2>1
<1>2. chain[k] # <<>>
  BY <1>1
<1>3. CASE Stays(k)
  <2>1. i # 0
    BY <1>1
  <2>2. QED
    BY <1>3, <2>1 DEF Stays, AlikeBut, SameLength, Alike
<1>4. CASE Reads(t, k)
  BY <1>4 DEF Reads, AlikeBut, SameLength, Alike
<1>5. CASE Adds(t, k)
  BY <1>5 DEF Adds, SameBounds
<1>6. CASE Closes(t, k)
  BY <1>6 DEF Closes, AlikeBut, SameLength, Alike
<1>7. QED
  BY <1>2, <1>3, <1>4, <1>5, <1>6, KeyStep DEF Makes, Drops

\* A list in use grows only when its owner adds a version.
LEMMA LengthStays ==
  ASSUME MvccAssumption, Inv, Inv', NEW t \in Thread, Step(t) \/ Abort(t), NEW k \in Key,
         chain[k] # <<>>, chain'[k] # <<>>, ~Adds(t, k)
  PROVE  Len(chain'[k]) = Len(chain[k]) /\ Visible(k)'.wts = Visible(k).wts
<1>1. Stays(k) \/ Reads(t, k) \/ Closes(t, k)
  BY KeyStep DEF Makes, Drops
<1>2. Len(chain'[k]) = Len(chain[k])
  BY <1>1 DEF Stays, Reads, Closes, AlikeBut, SameLength
<1>3. Visible(k)'.wts = Visible(k).wts
  BY VisibleStep
<1>4. QED
  BY <1>2, <1>3

\* What is to be stored after a step is locked, too.
LEMMA UnstoredOwnedNext ==
  ASSUME Inv', NEW t \in Thread, NEW k, k \in Unstored(t)'
  PROVE  k \in Key /\ Owns(t, k)' /\ at'[t][k] \in DOMAIN chain'[k] /\ chain'[k] # <<>>
<1>1. /\ Types' /\ Books(t)' /\ todo'[t] \in Seq(Key) /\ writes'[t] \subseteq Key
  BY DEF Inv, Types
<1>2. Elems(todo'[t]) \subseteq Key
  BY <1>1 DEF Elems
<1>3. todo'[t] # <<>> => Elems(Tail(todo'[t])) \subseteq Elems(todo'[t])
  BY <1>1, HeadTailElems
<1>4. k \in Key /\ Owns(t, k)'
  BY <1>1, <1>2, <1>3 DEF Unstored, Owns, Running, Looping, Books
<1>5. at'[t][k] \in DOMAIN chain'[k]
  BY <1>4 DEF Inv, Places
<1>6. QED
  BY <1>4, <1>5

\* What a writer has to store goes after the last version, which is older.
LEMMA WriterStands ==
  ASSUME MvccAssumption, TimeInv, Inv', global_ts < Inf, NEW t \in Thread, Step(t) \/ Abort(t),
         NEW u \in Thread, NEW k, k \in Unstored(u)'
  PROVE  at'[u][k] = Len(chain'[k]) /\ Visible(k)'.wts < ts'[u]
<1>1. /\ Inv /\ Stands(u) /\ k \in Key /\ chain'[k] # <<>>
  BY UnstoredOwnedNext DEF TimeInv
<1>2. ASSUME at[u][k] = Len(chain[k]), Visible(k).wts < ts[u], chain[k] # <<>>,
             at'[u][k] = at[u][k], ts'[u] = ts[u], ~Adds(t, k)
      PROVE  at'[u][k] = Len(chain'[k]) /\ Visible(k)'.wts < ts'[u]
  BY <1>1, <1>2, LengthStays
<1>3. CASE u # t
  <2>1. k \in Unstored(u) /\ at'[u] = at[u] /\ ts'[u] = ts[u]
    BY <1>1, <1>3, OthersSame, SameThread DEF Same
  <2>2. at[u][k] = Len(chain[k]) /\ Visible(k).wts < ts[u] /\ Owns(u, k) /\ chain[k] # <<>>
    BY <1>1, <2>1, UnstoredOwned DEF Stands
  <2>3. ~Adds(t, k)
    <3>1. SUFFICES ASSUME Adds(t, k) PROVE FALSE
      OBVIOUS
    <3>2. Publish(t) /\ k = Head(todo[t]) /\ pc[t] = "publish" /\ todo[t] # <<>>
      BY <3>1 DEF Adds, Publish
    <3>3. todo[t] \in Seq(Key)
      BY <1>1, ThreadTypes DEF Inv
    <3>4. k \in Unstored(t)
      BY <3>2, <3>3, HeadTailElems DEF Unstored, Running
    <3>5. Owns(t, k) /\ at[t][k] = Len(chain[k])
      BY <1>1, <3>4, UnstoredOwned DEF TimeInv, Stands
    <3>6. QED
      BY <1>1, <1>3, <2>2, <3>5, OwnersApart
  <2>4. QED
    BY <1>2, <2>1, <2>2, <2>3
<1>4. CASE u = t
  <2>1. CASE k \in Unstored(t) /\ ~Adds(t, k) /\ at'[t][k] = at[t][k] /\ ts'[t] = ts[t]
    <3>1. at[u][k] = Len(chain[k]) /\ Visible(k).wts < ts[u] /\ chain[k] # <<>>
      BY <1>1, <1>4, <2>1, UnstoredOwned DEF Stands
    <3>2. QED
      BY <1>2, <1>4, <2>1, <3>1
  <2>2. CASE TryLock(t) /\ Writing(t) /\ k = CallKey(t) /\ at'[t] = at[t] /\ ts'[t] = ts[t]
    <3>1. at[t][k] = Len(chain[k]) /\ Visible(k).wts < ts[t] /\ at[t][k] \in DOMAIN chain[k]
      BY <2>2, LockFits
    <3>2. chain[k] # <<>>
      BY <3>1
    <3>3. ~Adds(t, k)
      BY <2>2 DEF TryLock, Adds, Publish
    <3>4. QED
      BY <1>2, <1>4, <2>2, <3>1, <3>2, <3>3
  <2>3. QED
    BY <1>1, <1>4, <2>1, <2>2, UnstoredStep
<1>5. QED
  BY <1>3, <1>4

\* A version that is to be closed has the next one after it.
LEMMA CloserStands ==
  ASSUME MvccAssumption, TimeInv, Inv', NEW t \in Thread, Step(t) \/ Abort(t),
         NEW u \in Thread, pc'[u] \in {"close", "latest"}, NEW k, k = Head(todo'[u])
  PROVE  at'[u][k] + 1 \in DOMAIN chain'[k] /\ chain'[k][at'[u][k] + 1].min = ts'[u]
<1>1. /\ Inv /\ Types /\ Stands(u) /\ Books(u)'
  BY DEF TimeInv, Inv
<1>2. at'[u][k] + 1 \in DOMAIN chain'[k]
  BY DEF Inv, Places, Found
<1>3. ASSUME pc[u] \in {"close", "latest"}, todo'[u] = todo[u], at'[u] = at[u], ts'[u] = ts[u]
      PROVE  chain'[k][at'[u][k] + 1].min = ts'[u]
  <2>1. k \in Key /\ at[u][k] + 1 \in DOMAIN chain[k] /\ chain[k][at[u][k] + 1].min = ts[u]
    BY <1>1, <1>3, NextVersion DEF Stands
  <2>2. PICK i \in DOMAIN chain[k] : i = at[u][k] + 1
    BY <2>1
  <2>3. i \in DOMAIN chain'[k] /\ chain[k][i].min = ts[u]
    BY <1>2, <1>3, <2>1, <2>2
  <2>4. chain'[k] # <<>>
    BY <2>3
  <2>5. SameBounds(chain[k][i], chain'[k][i])
    BY <1>1, <2>1, <2>4, BoundsStay
  <2>6. QED
    BY <1>3, <2>2, <2>3, <2>5 DEF SameBounds
<1>4. CASE u # t
  BY <1>1, <1>2, <1>3, <1>4, OthersSame DEF Same
<1>5. CASE u = t /\ Publish(t)
  <2>1. /\ pc[t] = "publish" /\ todo[t] # <<>> /\ k = Head(todo[t])
        /\ UNCHANGED <<at, ts>> /\ todo[t] \in Seq(Key)
    BY <1>1, <1>5, ThreadTypes DEF Publish, txnVars
  <2>2. k \in Unstored(t) /\ k \in Key
    BY <2>1, HeadTailElems DEF Unstored, Running
  <2>3. at[t][k] = Len(chain[k])
    BY <1>1, <1>5, <2>2 DEF Stands
  <2>4. Adds(t, k)
    BY <1>1, <1>5, <2>1, <2>2, KeyStep
  <2>5. PICK v : v = NewVersion(ts[t], ts[t], Len(db[k]) + 1, FALSE)
    OBVIOUS
  <2>6. chain'[k][Len(chain[k]) + 1] = v /\ v.min = ts[t]
    BY <2>4, <2>5 DEF Adds, NewVersion
  <2>7. QED
    BY <1>2, <1>5, <2>1, <2>3, <2>6
<1>6. CASE u = t /\ ~Publish(t)
  <2>1. Close(t) \/ InsertLatest(t)
    BY <1>1, <1>6 DEF Step, Begin, OwnWrite, Request, CheckLoad, Find, TryLock, Busy, Refuse, Retry,
       Get, CommitBegin, Unlock, Deinit, Remove, Abort, Calling, Goto, Give, Types, vars
  <2>2. /\ pc[t] \in {"close", "latest"} /\ UNCHANGED <<todo, at, ts>>
    BY <2>1 DEF Close, InsertLatest, txnVars
  <2>3. QED
    BY <1>2, <1>3, <1>6, <2>2
<1>7. QED
  BY <1>2, <1>3, <1>4, <1>5, <1>6

\* A reader looks at a version that holds its timestamp.
LEMMA ReaderStands ==
  ASSUME MvccAssumption, TimeInv, Inv', global_ts < Inf, NEW t \in Thread, Step(t) \/ Abort(t),
         NEW u \in Thread, pc'[u] \in {"lock", "get"}
  PROVE  /\ ~Writing(u)' => The(u, CallKey(u))'.min <= ts'[u]
         /\ pc'[u] = "get" => ts'[u] < The(u, CallKey(u))'.max
<1>1. /\ Inv /\ Types /\ Types' /\ Stands(u) /\ Books(u) /\ Books(u)' /\ calls'[u] # <<>>
  BY DEF TimeInv, Inv, Books, InCall
<1>2. PICK k : k = CallKey(u)'
  OBVIOUS
<1>3. k \in Key
  <2>1. calls'[u] \in Seq(Op)
    BY <1>1 DEF Types
  <2>2. Head(calls'[u]) \in Op
    BY <1>1, <2>1
  <2>3. QED
    BY <1>2, <2>2 DEF CallKey, Op
<1>4. at'[u][k] \in DOMAIN chain'[k]
  <2>1. CASE pc'[u] = "lock"
    BY <1>2, <2>1 DEF Inv, Places, Found
  <2>2. CASE pc'[u] = "get"
    BY <1>2, <1>3, <2>2 DEF Inv, Places, Owns
  <2>3. QED
    BY <2>1, <2>2
<1>5. The(u, CallKey(u))' = chain'[k][at'[u][k]] /\ chain'[k] # <<>>
  BY <1>2, <1>4 DEF The
<1>6. ASSUME pc[u] \in {"lock", "get"}, calls'[u] = calls[u], at'[u] = at[u], ts'[u] = ts[u]
      PROVE  /\ k = CallKey(u) /\ at[u][k] \in DOMAIN chain[k] /\ at'[u][k] = at[u][k]
             /\ Writing(u)' = Writing(u)
             /\ ~Writing(u)' => The(u, CallKey(u))'.min <= ts'[u]
             /\ \/ The(u, CallKey(u))'.max = chain[k][at[u][k]].max
                \/ Closes(t, k) /\ at[u][k] = at[t][k]
  <2>1. k = CallKey(u) /\ Writing(u)' = Writing(u)
    BY <1>2, <1>6 DEF CallKey, Writing
  <2>2. at[u][k] \in DOMAIN chain[k]
    <3>1. CASE pc[u] = "lock"
      BY <1>1, <2>1, <3>1 DEF Inv, Places, Found
    <3>2. CASE pc[u] = "get"
      BY <1>1, <1>3, <2>1, <3>2 DEF Inv, Places, Owns
    <3>3. QED
      BY <1>6, <3>1, <3>2
  <2>3. PICK i \in DOMAIN chain[k] : i = at[u][k]
    BY <2>2
  <2>4. /\ SameBounds(chain[k][i], chain'[k][i])
        /\ chain'[k][i].max = chain[k][i].max \/ (Closes(t, k) /\ i = at[t][k])
    BY <1>1, <1>3, <1>5, BoundsStay
  <2>5. ~Writing(u) => chain[k][i].min <= ts[u]
    BY <1>1, <1>6, <2>1, <2>3 DEF Stands, The
  <2>6. QED
    BY <1>5, <1>6, <2>1, <2>2, <2>3, <2>4, <2>5 DEF SameBounds
<1>7. CASE u # t
  <2>1. pc[u] = pc'[u] /\ calls'[u] = calls[u] /\ at'[u] = at[u] /\ ts'[u] = ts[u]
    BY <1>1, <1>7, OthersSame DEF Same
  <2>2. ASSUME pc[u] = "get" PROVE ts'[u] < The(u, CallKey(u))'.max
    <3>1. k = CallKey(u) /\ Owns(u, k)
      BY <1>6, <2>1, <2>2 DEF Owns
    <3>2. ts[u] < chain[k][at[u][k]].max
      BY <1>1, <2>2, <3>1 DEF Stands, The
    <3>3. ~(Closes(t, k) /\ at[u][k] = at[t][k])
      <4>1. SUFFICES ASSUME Closes(t, k), at[u][k] = at[t][k] PROVE FALSE
        OBVIOUS
      <4>2. Owns(t, k)
        BY <1>1, <4>1, NextVersion DEF Closes, Close
      <4>3. QED
        BY <1>1, <1>3, <1>7, <3>1, <4>1, <4>2, OwnersApart
    <3>4. QED
      BY <1>6, <2>1, <3>2, <3>3
  <2>3. QED
    BY <1>6, <2>1, <2>2
<1>8. CASE u = t /\ Find(t)
  <2>1. PICK i : i = IF Writing(t) THEN Len(chain[k]) ELSE Newest(Readable(t, k))
    OBVIOUS
  <2>2. UNCHANGED <<calls, ts, chain, pc>> \/ UNCHANGED <<calls, ts, chain>>
    BY <1>8 DEF Find, txnVars, tableVars
  <2>3. k = CallKey(t) /\ Writing(t)' = Writing(t)
    BY <1>2, <1>8, <2>2 DEF CallKey, Writing
  <2>4. /\ i # 0 /\ at' = [at EXCEPT ![t][k] = i] /\ pc'[t] = "lock"
    <3>1. pc[t] = "find" /\ pc \in [Thread -> Label]
      BY <1>1, <1>8 DEF Find, Types
    <3>2. QED
      BY <1>8, <2>1, <2>3, <3>1 DEF Find, Give, Goto
  <2>5. at'[t][k] = i
    BY <1>1, <1>3, <2>4 DEF Types
  <2>6. ~Writing(t) => i \in Readable(t, k)
    BY <1>1, <1>3, <2>1, <2>4, NewestReadable
  <2>7. ~Writing(t) => chain[k][i].min <= ts[t]
    BY <2>6 DEF Readable
  <2>8. QED
    BY <1>5, <1>8, <2>2, <2>3, <2>4, <2>5, <2>7
<1>9. CASE u = t /\ ~Find(t)
  <2>1. TryLock(t) \/ Busy(t)
    BY <1>1, <1>9 DEF Step, Begin, OwnWrite, Request, CheckLoad, Refuse, Retry,
       Get, CommitBegin, Publish, Close, InsertLatest, Unlock, Deinit, Remove, Abort, Calling, Goto, Give, Types
  <2>2. CASE Busy(t)
    <3>1. UNCHANGED <<pc, calls, at, ts>> /\ pc[t] = "lock"
      BY <2>2 DEF Busy, vars, txnVars
    <3>2. QED
      BY <1>6, <1>9, <3>1
  <2>3. CASE TryLock(t)
    <3>1. ~Writing(t) /\ UNCHANGED <<calls, at, ts>> /\ pc[t] = "lock"
      BY <1>1, <1>9, <2>3 DEF TryLock, Goto, Types
    <3>2. k = CallKey(t)
      BY <1>6, <1>9, <3>1
    <3>3. ts[t] < chain[k][at[t][k]].max
      BY <2>3, <3>1, <3>2, LockFits
    <3>4. ~Closes(t, k)
      BY <3>1 DEF Closes, Close
    <3>5. QED
      BY <1>6, <1>9, <3>1, <3>3, <3>4
  <2>4. QED
    BY <2>1, <2>2, <2>3
<1>10. QED
  BY <1>7, <1>8, <1>9

\* A step leaves threads standing where they should.
LEMMA StandsStep ==
  ASSUME MvccAssumption, TimeInv, Inv', global_ts < Inf, NEW t \in Thread, Step(t) \/ Abort(t),
         NEW u \in Thread
  PROVE  Stands(u)'
<1>1. ASSUME pc'[u] \in {"close", "latest"}
      PROVE  /\ at'[u][Head(todo'[u])] + 1 \in DOMAIN chain'[Head(todo'[u])]
             /\ chain'[Head(todo'[u])][at'[u][Head(todo'[u])] + 1].min = ts'[u]
  BY <1>1, CloserStands
<1>2. \A k \in Unstored(u)' : at'[u][k] = Len(chain'[k]) /\ Visible(k)'.wts < ts'[u]
  BY WriterStands
<1>3. /\ pc'[u] \in {"lock", "get"} /\ ~Writing(u)' => The(u, CallKey(u))'.min <= ts'[u]
      /\ pc'[u] = "get" => ts'[u] < The(u, CallKey(u))'.max
  BY ReaderStands
<1>4. QED
  BY <1>1, <1>2, <1>3 DEF Stands

\* It holds at the start, when every list has one version or none.
LEMMA InitTime == MvccAssumption /\ Init => TimeInv
<1> SUFFICES ASSUME MvccAssumption, Init PROVE TimeInv
  OBVIOUS
<1>1. Inv
  BY InitInv
<1>2. /\ global_ts = 0 /\ hist = {} /\ counter = Zero
      /\ \A t \in Thread : pc[t] = "idle" /\ ts[t] = 0
      /\ \A k \in Key : latest[k].stamp = Zero
  BY DEF Init
<1>3. PICK v : v = NewVersion(0, 0, 0, FALSE)
  OBVIOUS
<1>4. v.min = 0 /\ v.max = Inf /\ v.rts = 0
  BY <1>3 DEF NewVersion
<1>5. \A k \in Key : chain[k] = <<>> \/ chain[k] = <<v>>
  BY <1>3 DEF Init
<1>6. \A k \in Key : \A i \in DOMAIN chain[k] : chain[k][i] = v
  BY <1>5
<1>7. TimesApart
  BY <1>2 DEF TimesApart
<1>8. Past
  BY <1>2, <1>4, <1>6 DEF Past, Stamped, Zero
<1>9. ASSUME NEW k \in Key PROVE Divided(k)
  <2>1. ASSUME NEW c, c = <<>> \/ c = <<v>>
        PROVE  \A i \in 1 .. Len(c) - 1 : FALSE
    <3>1. CASE c = <<>>
      BY <3>1
    <3>2. CASE c = <<v>>
      BY <3>2
    <3>3. QED
      BY <2>1, <3>1, <3>2
  <2>2. chain[k] # <<>> => Last(chain[k]) = v
    <3>1. CASE chain[k] = <<v>>
      BY <3>1 DEF Last
    <3>2. QED
      BY <1>5, <3>1
  <2>3. QED
    BY <1>4, <1>5, <2>1, <2>2 DEF Divided
<1>10. ASSUME NEW t \in Thread PROVE Fresh(t) /\ Stands(t)
  BY <1>2 DEF Fresh, Stands, Running, Unstored
<1>11. QED
  BY <1>1, <1>7, <1>8, <1>9, <1>10 DEF TimeInv

\* And every step preserves it, as long as the clock has not run out.
LEMMA NextTime == MvccAssumption /\ TimeInv /\ global_ts < Inf /\ [Next]_vars => TimeInv'
<1> SUFFICES ASSUME MvccAssumption, TimeInv, global_ts < Inf, [Next]_vars PROVE TimeInv'
  OBVIOUS
<1>1. Inv'
  BY NextInv DEF TimeInv
<1>2. CASE UNCHANGED vars
  <2>1. /\ build' = build /\ global_ts' = global_ts /\ chain' = chain /\ counter' = counter
        /\ latest' = latest /\ pc' = pc /\ count' = count /\ ts' = ts /\ calls' = calls
        /\ writes' = writes /\ at' = at /\ todo' = todo /\ hist' = hist
    BY <1>2 DEF vars, tableVars, txnVars
  <2>2. TimesApart' /\ Past'
    BY <2>1 DEF TimeInv, TimesApart, Past, Stamped, Id, Running
  <2>3. ASSUME NEW k \in Key PROVE Divided(k)' /\ Visible(k)' = Visible(k)
    <3>1. Divided(k)
      BY DEF TimeInv
    <3>2. QED
      BY <2>1, <3>1 DEF Divided, Visible
  <2>4. ASSUME NEW t \in Thread PROVE Fresh(t)' /\ Stands(t)'
    <3>1. Fresh(t) /\ Stands(t)
      BY DEF TimeInv
    <3>2. Fresh(t)'
      BY <2>1, <3>1 DEF Fresh, Running
    <3>3. Unstored(t)' = Unstored(t) /\ Writing(t)' = Writing(t) /\ CallKey(t)' = CallKey(t)
      BY <2>1 DEF Unstored, Running, Writing, CallKey
    <3>4. \A k \in Unstored(t) : k \in Key
      BY UnstoredOwned DEF TimeInv
    <3>5. The(t, CallKey(t))' = The(t, CallKey(t))
      BY <2>1, <3>3 DEF The
    <3>6. Stands(t)'
      BY <2>1, <2>3, <3>1, <3>3, <3>4, <3>5 DEF Stands
    <3>7. QED
      BY <3>2, <3>6
  <2>5. QED
    BY <1>1, <2>2, <2>3, <2>4 DEF TimeInv
<1>3. CASE \E t \in Thread : Step(t) \/ Abort(t)
  <2>1. PICK t \in Thread : Step(t) \/ Abort(t)
    BY <1>3
  <2>2. TimesApart'
    BY <2>1, TimesStep DEF TimeInv
  <2>3. Past'
    BY <1>1, <2>1, <2>2, PastStep
  <2>4. \A k \in Key : Divided(k)'
    BY <1>1, <2>1, DividedStep
  <2>5. \A u \in Thread : Fresh(u)'
    BY <1>1, <2>1, FreshStep
  <2>6. \A u \in Thread : Stands(u)'
    BY <1>1, <2>1, StandsStep
  <2>7. QED
    BY <1>1, <2>2, <2>3, <2>4, <2>5, <2>6 DEF TimeInv
<1>4. QED
  BY <1>2, <1>3 DEF Next, Done

\* The versions of a key divide time between them as long as timestamps stay
\* below MVCC_TIMESTAMP_INF, the largest value of their type (version_meta_unlock
\* and list_node_init, which set wts_max and wts_min).
THEOREM VersionsDivideTime ==
  MvccAssumption => (Spec /\ [](global_ts < Inf) => []VersionsPartitionTime)
<1> SUFFICES ASSUME MvccAssumption
             PROVE  Spec /\ [](global_ts < Inf) => []VersionsPartitionTime
  OBVIOUS
<1>1. Init => TimeInv
  BY InitTime
<1>2. TimeInv /\ global_ts < Inf /\ [Next]_vars => TimeInv'
  BY NextTime
<1>3. TimeInv => VersionsPartitionTime
  BY DEF TimeInv, Divided, VersionsPartitionTime
<1>4. QED
  BY <1>1, <1>2, <1>3, PTL DEF Spec

-----------------------------------------------------------------------------
(* The order of the timestamps as a serial order.                           *)

\* What a step adds to a key: the version of a transaction that has it locked
\* and had yet to store it.
LEMMA VersionsStep ==
  ASSUME MvccAssumption, Inv, NEW t \in Thread, Step(t) \/ Abort(t), NEW k \in Key
  PROVE  /\ db[k] \in Seq(Txn) /\ Len(db[k]) \in Nat /\ DOMAIN db[k] = 1 .. Len(db[k])
         /\ \/ db'[k] = db[k] /\ ~Adds(t, k)
            \/ /\ Publish(t) /\ hist' = hist /\ k = Head(todo[t]) /\ k \in Unstored(t)
               /\ Adds(t, k)
               /\ Len(db'[k]) = Len(db[k]) + 1 /\ DOMAIN db'[k] = 1 .. Len(db[k]) + 1
               /\ \A j \in 1 .. Len(db[k]) : db'[k][j] = db[k][j]
               /\ db'[k][Len(db[k]) + 1] = Id(t)
<1>1. Types /\ db \in [Key -> Seq(Txn)]
  BY DEF Inv, Types
<1>2. db[k] \in Seq(Txn) /\ Len(db[k]) \in Nat /\ DOMAIN db[k] = 1 .. Len(db[k])
  BY <1>1
<1>3. CASE Publish(t)
  <2>1. /\ todo[t] \in Seq(Key) /\ todo[t] # <<>> /\ pc[t] = "publish" /\ hist' = hist
        /\ db' = [db EXCEPT ![Head(todo[t])] = Append(@, Id(t))]
    BY <1>1, <1>3, ThreadTypes DEF Publish
  <2>2. Head(todo[t]) \in Unstored(t)
    BY <2>1, HeadTailElems DEF Unstored, Running
  <2>3. CASE k # Head(todo[t])
    BY <1>1, <1>2, <2>1, <2>3 DEF Adds
  <2>4. CASE k = Head(todo[t])
    <3>1. db'[k] = Append(db[k], Id(t))
      BY <1>1, <2>1, <2>4
    <3>2. Adds(t, k)
      BY <1>3, <2>4, KeyStep
    <3>3. Id(t) \in Txn
      BY <1>1, ThreadTypes
    <3>4. PICK s, x : s = db[k] /\ x = Id(t)
      OBVIOUS
    <3>5. s \in Seq(Txn) /\ x \in Txn /\ db'[k] = Append(s, x)
      BY <1>2, <3>1, <3>3, <3>4
    <3>6. /\ Len(db'[k]) = Len(s) + 1 /\ DOMAIN db'[k] = 1 .. Len(s) + 1
          /\ \A j \in 1 .. Len(s) : db'[k][j] = s[j]
          /\ db'[k][Len(s) + 1] = x
      BY <3>5
    <3>7. QED
      BY <1>2, <1>3, <2>1, <2>2, <2>4, <3>2, <3>4, <3>6
  <2>5. QED
    BY <2>3, <2>4
<1>4. CASE ~Publish(t)
  BY <1>2, <1>4, HistoryStep DEF Adds
<1>5. QED
  BY <1>3, <1>4

\* What is excused stays so.
LEMMA ExcusedStep ==
  ASSUME NEW t \in Thread, Step(t) \/ Abort(t)
  PROVE  excused \subseteq excused'
  BY DEF Step, Begin, OwnWrite, Request, CheckLoad, Find, TryLock, Busy, Refuse, Retry, Get,
     CommitBegin, Publish, Close, InsertLatest, Unlock, Deinit, Remove, Abort, vars

\* The write timestamp of a key only moves on.
LEMMA WtsStep ==
  ASSUME MvccAssumption, TimeInv, Inv', NEW t \in Thread, Step(t) \/ Abort(t), NEW k \in Key
  PROVE  /\ Visible(k).wts \in Nat /\ Visible(k).rts \in Nat
         /\ Visible(k)'.wts \in Nat /\ Visible(k)'.rts \in Nat
         /\ Visible(k).wts <= Visible(k)'.wts
         /\ Adds(t, k) => /\ Visible(k)'.wts = ts[t] /\ Visible(k)'.rts = ts[t]
                          /\ Visible(k).wts < ts[t]
<1>1. Inv /\ Types /\ Types'
  BY DEF TimeInv, Inv
<1>2. Visible(k).wts \in Nat /\ Visible(k).rts \in Nat
  BY <1>1, VisibleTypes
<1>3. Visible(k)'.wts \in Nat /\ Visible(k)'.rts \in Nat
  <2>1. CASE chain'[k] # <<>>
    <3>1. chain'[k] \in Seq(Version)
      BY <1>1 DEF Types
    <3>2. chain'[k][Len(chain'[k])] \in Version
      BY <2>1, <3>1
    <3>3. PICK v \in Version : v = chain'[k][Len(chain'[k])]
      BY <3>2
    <3>4. Visible(k)' = [wts |-> v.min, rts |-> v.rts]
      BY <2>1, <3>3 DEF Visible, Last
    <3>5. QED
      BY <3>4 DEF Version
  <2>2. CASE chain'[k] = <<>>
    <3>1. latest'[k].stamp \in Stamp /\ counter' \in Stamp
      BY <1>1 DEF Types, Latest
    <3>2. Visible(k)' \in Stamp
      BY <2>2, <3>1 DEF Visible
    <3>3. QED
      BY <3>2 DEF Stamp
  <2>3. QED
    BY <2>1, <2>2
<1>4. ASSUME Adds(t, k)
      PROVE  /\ Visible(k)'.wts = ts[t] /\ Visible(k)'.rts = ts[t] /\ Visible(k).wts < ts[t]
             /\ ts[t] \in Nat
  <2>1. PICK v, n : v = NewVersion(ts[t], ts[t], Len(db[k]) + 1, FALSE) /\ n = Len(chain[k]) + 1
    OBVIOUS
  <2>2. /\ chain'[k][n] = v /\ Len(chain'[k]) = n /\ n \in DOMAIN chain'[k]
        /\ v.min = ts[t] /\ v.rts = ts[t]
    BY <1>4, <2>1 DEF Adds, NewVersion
  <2>3. chain'[k] # <<>>
    BY <2>2
  <2>4. Visible(k)' = [wts |-> ts[t], rts |-> ts[t]]
    BY <2>2, <2>3 DEF Visible, Last
  <2>5. k \in Unstored(t)
    BY <1>1, <1>4, VersionsStep
  <2>6. Visible(k).wts < ts[t] /\ ts[t] \in Nat
    BY <1>1, <2>5, ThreadTypes DEF TimeInv, Stands
  <2>7. QED
    BY <2>4, <2>6
<1>5. Visible(k).wts <= Visible(k)'.wts
  <2>1. CASE Adds(t, k)
    BY <1>2, <1>4, <2>1
  <2>2. CASE ~Adds(t, k)
    BY <1>1, <1>2, <1>3, <2>2, VisibleStep
  <2>3. QED
    BY <2>1, <2>2
<1>6. QED
  BY <1>2, <1>3, <1>4, <1>5

\* Who stores its writes has committed, still.
LEMMA CommittedStep ==
  ASSUME Inv, NEW t \in Thread, Step(t) \/ Abort(t), NEW u \in Thread, Committed(u)
  PROVE  Committed(u)'
<1>1. Types /\ hist \subseteq hist'
  BY HistoryStep DEF Inv
<1>2. CASE u # t
  <2>1. pc'[u] = pc[u] /\ Id(u)' = Id(u) /\ ts'[u] = ts[u]
    BY <1>2, OthersSame DEF Same
  <2>2. QED
    BY <1>1, <2>1 DEF Committed
<1>3. CASE u = t
  <2>1. SUFFICES ASSUME pc'[t] \in {"publish", "close", "latest", "unlock"}
                 PROVE  \E h \in hist' : h.id = Id(t)' /\ h.cts = ts'[t]
    BY <1>3 DEF Committed
  <2>2. /\ UNCHANGED <<ts, count>>
        /\ CommitBegin(t) \/ pc[t] \in {"publish", "close", "latest", "unlock"}
    BY <1>1, <2>1 DEF Types, Step, Begin, OwnWrite, Request, CheckLoad, Find, TryLock, Busy, Refuse,
       Retry, Get, CommitBegin, Publish, Close, InsertLatest, Unlock, Deinit, Remove, Abort, Give,
       vars, txnVars, Goto
  <2>3. Id(t)' = Id(t)
    BY <2>2 DEF Id
  <2>4. CASE CommitBegin(t)
    <3>1. [id |-> Id(t), cts |-> ts[t], reads |-> reads[t]] \in hist'
      BY <2>4 DEF CommitBegin
    <3>2. QED
      BY <2>2, <2>3, <3>1
  <2>5. CASE pc[t] \in {"publish", "close", "latest", "unlock"}
    BY <1>1, <1>3, <2>2, <2>3, <2>5 DEF Committed
  <2>6. QED
    BY <2>2, <2>4, <2>5
<1>4. QED
  BY <1>2, <1>3

\* The writer of a version that was there has its commit in the history that
\* was there.
LEMMA OldCommit ==
  ASSUME VersionsOrdered, TimesApart', hist \subseteq hist', NEW k \in Key,
         NEW i \in DOMAIN db[k], NEW h \in hist', h.id = db[k][i]
  PROVE  h \in hist
<1>1. PICK g \in hist : g.id = db[k][i]
  BY DEF VersionsOrdered
<1>2. QED
  BY <1>1 DEF TimesApart

\* The versions of a key stay in the order of their timestamps.
LEMMA OrderedStep ==
  ASSUME MvccAssumption, SerialInv, Inv', TimesApart', NEW t \in Thread, Step(t) \/ Abort(t)
  PROVE  VersionsOrdered'
<1>1. Inv /\ Types /\ TimeInv /\ hist \subseteq hist' /\ VersionsOrdered /\ TimesApart
  BY HistoryStep DEF SerialInv, TimeInv, Inv
<1>2. SUFFICES ASSUME NEW k \in Key
               PROVE /\ \A i \in DOMAIN db'[k] : \E h \in hist' : h.id = db'[k][i]
                     /\ \A i \in DOMAIN db'[k] : \A h \in hist' :
                          h.id = db'[k][i] => h.cts <= Visible(k)'.wts
                     /\ \A i, j \in DOMAIN db'[k] : \A g, h \in hist' :
                          i < j /\ g.id = db'[k][i] /\ h.id = db'[k][j] => g.cts < h.cts
  BY DEF VersionsOrdered
<1>3. /\ Len(db[k]) \in Nat /\ DOMAIN db[k] = 1 .. Len(db[k])
  BY <1>1, VersionsStep
<1>4. /\ Visible(k).wts <= Visible(k)'.wts /\ Visible(k).wts \in Nat /\ Visible(k)'.wts \in Nat
      /\ Adds(t, k) => Visible(k)'.wts = ts[t] /\ Visible(k).wts < ts[t]
  BY <1>1, WtsStep
<1>6. ASSUME NEW i \in DOMAIN db[k]
      PROVE  /\ \E h \in hist' : h.id = db[k][i]
             /\ \A h \in hist' : h.id = db[k][i] =>
                  /\ h \in hist /\ h.cts \in Nat /\ h.cts <= Visible(k).wts
                  /\ h.cts <= Visible(k)'.wts
  <2>1. \E h \in hist : h.id = db[k][i]
    BY <1>1 DEF VersionsOrdered
  <2>2. ASSUME NEW h \in hist', h.id = db[k][i]
        PROVE  h \in hist /\ h.cts \in Nat /\ h.cts <= Visible(k).wts /\ h.cts <= Visible(k)'.wts
    <3>1. h \in hist
      BY <1>1, <2>2, OldCommit
    <3>2. h.cts <= Visible(k).wts /\ h.cts \in Nat
      BY <1>1, <2>2, <3>1, HistTypes DEF VersionsOrdered
    <3>3. QED
      BY <1>4, <3>1, <3>2
  <2>3. QED
    BY <1>1, <2>1, <2>2
<1>7. \A i, j \in DOMAIN db[k] : \A g, h \in hist' :
        i < j /\ g.id = db[k][i] /\ h.id = db[k][j] => g.cts < h.cts
  BY <1>1, <1>6 DEF VersionsOrdered
<1>8. CASE db'[k] = db[k]
  BY <1>6, <1>7, <1>8
<1>9. CASE db'[k] # db[k]
  <2>1. /\ Publish(t) /\ hist' = hist /\ k \in Unstored(t) /\ Adds(t, k)
        /\ DOMAIN db'[k] = 1 .. Len(db[k]) + 1
        /\ \A j \in 1 .. Len(db[k]) : db'[k][j] = db[k][j]
        /\ db'[k][Len(db[k]) + 1] = Id(t)
    BY <1>1, <1>9, VersionsStep
  <2>2. \A i \in 1 .. Len(db[k]) + 1 : i \in 1 .. Len(db[k]) \/ i = Len(db[k]) + 1
    BY <1>3
  <2>3. \E h \in hist : h.id = Id(t)
    BY <2>1 DEF SerialInv, Committed, Publish
  <2>4. \A h \in hist : h.id = Id(t) => h.cts = ts[t]
    BY <1>1 DEF TimesApart
  <2>5. /\ Visible(k)'.wts = ts[t] /\ ts[t] \in Nat
        /\ \A i \in DOMAIN db[k] : \A h \in hist : h.id = db[k][i] => h.cts < ts[t]
    <3>1. Visible(k)'.wts = ts[t] /\ Visible(k).wts < ts[t] /\ ts[t] \in Nat
      BY <1>1, <1>4, <2>1, ThreadTypes
    <3>2. ASSUME NEW i \in DOMAIN db[k], NEW h \in hist, h.id = db[k][i] PROVE h.cts < ts[t]
      <4>1. h.cts \in Nat /\ h.cts <= Visible(k).wts
        BY <1>1, <1>6, <3>2
      <4>2. QED
        BY <1>4, <3>1, <4>1
    <3>3. QED
      BY <3>1, <3>2
  <2>6. \A i \in DOMAIN db'[k] : \E h \in hist' : h.id = db'[k][i]
    BY <1>3, <1>6, <2>1, <2>2, <2>3
  <2>7. ASSUME NEW i \in DOMAIN db'[k], NEW h \in hist', h.id = db'[k][i]
        PROVE  h.cts <= Visible(k)'.wts
    <3>1. CASE i \in 1 .. Len(db[k])
      BY <1>3, <1>6, <2>1, <2>7, <3>1
    <3>2. CASE i = Len(db[k]) + 1
      <4>1. h.cts = ts[t]
        BY <2>1, <2>4, <2>7, <3>2
      <4>2. QED
        BY <2>5, <4>1
    <3>3. QED
      BY <2>1, <2>2, <2>7, <3>1, <3>2
  <2>8. ASSUME NEW i \in DOMAIN db'[k], NEW j \in DOMAIN db'[k], NEW g \in hist', NEW h \in hist',
               i < j, g.id = db'[k][i], h.id = db'[k][j]
        PROVE  g.cts < h.cts
    <3>1. i \in 1 .. Len(db[k])
      BY <1>3, <2>1, <2>8
    <3>2. g.id = db[k][i] /\ g \in hist /\ h \in hist
      BY <2>1, <2>8, <3>1
    <3>3. CASE j \in 1 .. Len(db[k])
      <4>1. h.id = db[k][j]
        BY <2>1, <2>8, <3>3
      <4>2. QED
        BY <1>3, <1>7, <2>1, <2>8, <3>1, <3>2, <3>3, <4>1
    <3>4. CASE j = Len(db[k]) + 1
      <4>1. h.cts = ts[t]
        BY <2>1, <2>4, <2>8, <3>2, <3>4
      <4>2. QED
        BY <1>3, <2>5, <3>1, <3>2, <4>1
    <3>5. QED
      BY <2>1, <2>2, <3>3, <3>4
  <2>9. QED
    BY <2>6, <2>7, <2>8
<1>10. QED
  BY <1>8, <1>9

\* The versions of a list are the last of the key's.
LEMMA TrueVersions ==
  ASSUME NEW k, Len(db[k]) \in Nat, Len(chain[k]) \in Nat, NEW i \in 1 .. Len(chain[k])
  PROVE  /\ TrueVer(k, i) \in Int /\ TrueVer(k, i) <= Len(db[k])
         /\ TrueVer(k, i) = Len(db[k]) <=> i = Len(chain[k])
         /\ Len(chain[k]) <= Len(db[k]) + 1 => TrueVer(k, i) \in 0 .. Len(db[k])
         /\ TrueVer(k, i + 1) = TrueVer(k, i) + 1
<1>1. PICK a, b : a = Len(db[k]) /\ b = Len(chain[k])
  OBVIOUS
<1>2. /\ a \in Nat /\ b \in Nat /\ i \in 1 .. b
      /\ TrueVer(k, i) = a - b + i /\ TrueVer(k, i + 1) = a - b + (i + 1)
  BY <1>1 DEF TrueVer
<1>3. PICK v : v = TrueVer(k, i)
  OBVIOUS
<1>4. /\ v \in Int /\ v <= a /\ (v = a <=> i = b) /\ (b <= a + 1 => v \in 0 .. a)
      /\ TrueVer(k, i + 1) = v + 1
  BY <1>2, <1>3
<1>5. QED
  BY <1>1, <1>3, <1>4

\* What is found of a list tells the versions of its key.
LEMMA ListsStep ==
  ASSUME MvccAssumption, SerialInv, Inv', TimesApart', NEW t \in Thread, Step(t) \/ Abort(t)
  PROVE  ListsRight'
<1>1. Inv /\ Types /\ TimeInv /\ hist \subseteq hist' /\ VersionsOrdered /\ TimesApart /\ ListsRight
  BY HistoryStep DEF SerialInv, TimeInv, Inv
<1> DEFINE Right(k, i, v, p) ==
             /\ v.top => i = 1 /\ Forgets
             /\ ~v.top => v.ver = p
             /\ p > 0 => \A h \in hist' : h.id = db'[k][p] => h.cts <= v.min /\ (i > 1 => h.cts = v.min)
<1>2. SUFFICES ASSUME NEW k \in Key
               PROVE /\ Len(chain'[k]) <= Len(db'[k]) + 1
                     /\ \A i \in DOMAIN chain'[k] : Right(k, i, chain'[k][i], TrueVer(k, i)')
  <2>1. build' = build
    BY DEF Step, Begin, OwnWrite, Request, CheckLoad, Find, TryLock, Busy, Refuse, Retry, Get,
       CommitBegin, Publish, Close, InsertLatest, Unlock, Deinit, Remove, Abort, vars
  <2>2. Forgets' = Forgets
    BY <2>1 DEF Forgets
  <2>3. QED
    BY <1>2, <2>2 DEF ListsRight
<1>3. /\ Len(db[k]) \in Nat /\ DOMAIN db[k] = 1 .. Len(db[k])
      /\ Len(chain[k]) \in Nat /\ DOMAIN chain[k] = 1 .. Len(chain[k])
      /\ chain[k] = <<>> <=> Len(chain[k]) = 0
  <2>1. chain[k] \in Seq(Version) /\ Len(db[k]) \in Nat /\ DOMAIN db[k] = 1 .. Len(db[k])
    BY <1>1, VersionsStep DEF Types
  <2>2. QED
    BY <2>1
<1>4. \A i \in DOMAIN chain[k] : TrueVer(k, i) \in Int /\ TrueVer(k, i) <= Len(db[k])
  BY <1>3, TrueVersions
<1>5. /\ Len(chain[k]) <= Len(db[k]) + 1
      /\ \A i \in DOMAIN chain[k] :
           /\ chain[k][i].top => i = 1 /\ Forgets
           /\ ~chain[k][i].top => chain[k][i].ver = TrueVer(k, i)
           /\ TrueVer(k, i) > 0 => \A h \in hist : h.id = db[k][TrueVer(k, i)] =>
                h.cts <= chain[k][i].min /\ (i > 1 => h.cts = chain[k][i].min)
  BY <1>1 DEF ListsRight
<1>6. ASSUME NEW i \in DOMAIN chain[k], NEW w, SameBounds(chain[k][i], w), TrueVer(k, i) \in Int,
             TrueVer(k, i) <= Len(db[k]),
             \A j \in 1 .. Len(db[k]) : db'[k][j] = db[k][j]
      PROVE  Right(k, i, w, TrueVer(k, i))
  <2>1. PICK v, p : v = chain[k][i] /\ p = TrueVer(k, i)
    OBVIOUS
  <2>2. v.top = w.top /\ v.ver = w.ver /\ v.min = w.min
    BY <1>6, <2>1 DEF SameBounds
  <2>3. ASSUME p > 0, NEW h \in hist', h.id = db'[k][p]
        PROVE  h.cts <= v.min /\ (i > 1 => h.cts = v.min)
    <3>1. p \in DOMAIN db[k] /\ db'[k][p] = db[k][p]
      BY <1>3, <1>6, <2>1, <2>3
    <3>2. h \in hist /\ h.id = db[k][p]
      BY <1>1, <2>3, <3>1, OldCommit
    <3>3. QED
      BY <1>5, <2>1, <2>3, <3>2
  <2>4. (v.top => i = 1 /\ Forgets) /\ (~v.top => v.ver = p)
    BY <1>5, <2>1
  <2>5. QED
    BY <2>1, <2>2, <2>3, <2>4
<1>7. CASE (Stays(k) \/ Reads(t, k) \/ Closes(t, k)) /\ ~Adds(t, k)
  <2>1. /\ Len(chain'[k]) = Len(chain[k]) /\ DOMAIN chain'[k] = DOMAIN chain[k]
        /\ \A i \in DOMAIN chain[k] : SameBounds(chain[k][i], chain'[k][i])
    BY <1>3, <1>7 DEF Stays, Reads, Closes, AlikeBut, SameLength, Alike
  <2>2. db'[k] = db[k]
    BY <1>1, <1>7, VersionsStep
  <2>3. ASSUME NEW i \in DOMAIN chain[k] PROVE Right(k, i, chain'[k][i], TrueVer(k, i)')
    <3>1. TrueVer(k, i)' = TrueVer(k, i)
      BY <2>1, <2>2 DEF TrueVer
    <3>2. Right(k, i, chain'[k][i], TrueVer(k, i))
      BY <1>4, <1>6, <2>1, <2>2
    <3>3. QED
      BY <3>1, <3>2
  <2>4. QED
    BY <1>3, <1>5, <2>1, <2>2, <2>3
<1>8. CASE Adds(t, k)
  <2>1. /\ hist' = hist /\ Len(db'[k]) = Len(db[k]) + 1 /\ db'[k][Len(db[k]) + 1] = Id(t)
        /\ \A j \in 1 .. Len(db[k]) : db'[k][j] = db[k][j]
    BY <1>1, <1>8, VersionsStep
  <2>2. PICK n, v : n = Len(chain[k]) + 1 /\ v = NewVersion(ts[t], ts[t], Len(db[k]) + 1, FALSE)
    OBVIOUS
  <2>3. /\ Len(chain'[k]) = n /\ DOMAIN chain'[k] = DOMAIN chain[k] \cup {n} /\ chain'[k][n] = v
        /\ \A i \in DOMAIN chain[k] : chain'[k][i] = chain[k][i]
        /\ v.min = ts[t] /\ v.ver = Len(db[k]) + 1 /\ v.top = FALSE
    BY <1>8, <2>2 DEF Adds, NewVersion
  <2>4. ASSUME NEW i \in DOMAIN chain[k] PROVE Right(k, i, chain'[k][i], TrueVer(k, i)')
    <3>1. TrueVer(k, i)' = TrueVer(k, i)
      <4>1. PICK a, b : a = Len(db[k]) /\ b = Len(chain[k])
        OBVIOUS
      <4>2. /\ a \in Nat /\ b \in Nat /\ i \in 1 .. b
            /\ TrueVer(k, i) = a - b + i /\ TrueVer(k, i)' = (a + 1) - (b + 1) + i
        BY <1>3, <2>1, <2>2, <2>3, <4>1 DEF TrueVer
      <4>3. QED
        BY <4>2
    <3>2. Right(k, i, chain'[k][i], TrueVer(k, i))
      BY <1>4, <1>6, <2>1, <2>3 DEF SameBounds
    <3>3. QED
      BY <3>1, <3>2
  <2>5. TrueVer(k, n)' = Len(db[k]) + 1
    <3>1. PICK a : a = Len(db[k])
      OBVIOUS
    <3>2. n \in Nat /\ a \in Nat /\ TrueVer(k, n)' = (a + 1) - n + n
      BY <1>3, <2>1, <2>2, <2>3, <3>1 DEF TrueVer
    <3>3. QED
      BY <3>1, <3>2
  <2>6. \A h \in hist : h.id = Id(t) => h.cts = ts[t]
    BY <1>1 DEF TimesApart
  <2>7. ts[t] \in Nat
    BY <1>1, ThreadTypes
  <2>8. Right(k, n, v, Len(db[k]) + 1)
    BY <2>1, <2>3, <2>6, <2>7
  <2>9. QED
    <3>1. Len(chain'[k]) <= Len(db'[k]) + 1
      BY <1>3, <1>5, <2>1, <2>2, <2>3
    <3>2. \A i \in DOMAIN chain'[k] : i \in DOMAIN chain[k] \/ i = n
      BY <2>3
    <3>3. Right(k, n, chain'[k][n], TrueVer(k, n)')
      BY <2>3, <2>5, <2>8
    <3>4. QED
      BY <2>4, <3>1, <3>2, <3>3
<1>9. CASE Makes(t, k)
  <2>1. db'[k] = db[k]
    <3>1. ~Publish(t)
      BY <1>9 DEF Makes, Request, Publish, Calling
    <3>2. QED
      BY <3>1, HistoryStep
  <2>2. PICK v : v = FirstVersion(k)
    OBVIOUS
  <2>3. chain'[k] = <<v>> /\ Forgets /\ chain[k] = <<>>
    BY <1>9, <2>2 DEF Makes
  <2>4. Len(chain'[k]) = 1 /\ DOMAIN chain'[k] = {1} /\ chain'[k][1] = v
    BY <2>3
  <2>5. v.top /\ v.min = Visible(k).wts
    <3>1. PICK s : s = IF build = "counter" THEN counter ELSE latest[k].stamp
      OBVIOUS
    <3>2. v = NewVersion(s.wts, s.rts, latest[k].ver, TRUE)
      BY <2>2, <3>1 DEF FirstVersion
    <3>3. Visible(k) = s
      BY <2>3, <3>1 DEF Visible
    <3>4. QED
      BY <3>2, <3>3 DEF NewVersion
  <2>6. TrueVer(k, 1)' = Len(db[k])
    BY <1>3, <2>1, <2>4 DEF TrueVer
  <2>7. ASSUME Len(db[k]) > 0, NEW h \in hist', h.id = db[k][Len(db[k])]
        PROVE  h.cts <= v.min
    <3>1. Len(db[k]) \in DOMAIN db[k]
      BY <1>3, <2>7
    <3>2. h \in hist
      BY <1>1, <2>7, <3>1, OldCommit
    <3>3. QED
      BY <1>1, <2>5, <2>7, <3>1, <3>2 DEF VersionsOrdered
  <2>8. Right(k, 1, v, Len(db[k]))
    BY <2>1, <2>3, <2>5, <2>7
  <2>9. QED
    BY <1>3, <2>1, <2>4, <2>6, <2>8
<1>10. CASE Drops(t, k)
  <2>1. chain'[k] = <<>>
    BY <1>10 DEF Drops
  <2>2. Len(chain'[k]) = 0 /\ DOMAIN chain'[k] = {}
    BY <2>1
  <2>3. Len(db'[k]) \in Nat
    BY <1>1, <1>3, VersionsStep
  <2>4. QED
    BY <2>2, <2>3
<1>11. QED
  BY <1>1, <1>7, <1>8, <1>9, <1>10, KeyStep

\* What is under LATEST is right, or will be, or is excused.
LEMMA LatestStep ==
  ASSUME MvccAssumption, SerialInv, Inv', NEW t \in Thread, Step(t) \/ Abort(t)
  PROVE  LatestRight'
<1>1. Inv /\ Types /\ TimeInv /\ ListsRight /\ LatestRight /\ excused \subseteq excused'
  BY ExcusedStep DEF SerialInv, TimeInv, Inv
<1>2. build' = build
  BY DEF Step, Begin, OwnWrite, Request, CheckLoad, Find, TryLock, Busy, Refuse, Retry, Get,
     CommitBegin, Publish, Close, InsertLatest, Unlock, Deinit, Remove, Abort, vars
<1>3. SUFFICES ASSUME Forgets, NEW k \in Key
               PROVE  \/ latest'[k].ver = Len(db'[k])
                      \/ [key |-> k, ver |-> latest'[k].ver] \in excused'
                      \/ \E u \in Thread : pc'[u] \in {"close", "latest"} /\ Head(todo'[u]) = k
  <2>1. Forgets' = Forgets
    BY <1>2 DEF Forgets
  <2>2. QED
    BY <1>3, <2>1 DEF LatestRight, Storing
<1>4. \/ latest[k].ver = Len(db[k])
      \/ [key |-> k, ver |-> latest[k].ver] \in excused
      \/ \E u \in Thread : pc[u] \in {"close", "latest"} /\ Head(todo[u]) = k
  BY <1>1, <1>3 DEF LatestRight, Storing
<1>5. ASSUME NEW u \in Thread \ {t}, pc[u] \in {"close", "latest"}, Head(todo[u]) = k
      PROVE  \E w \in Thread : pc'[w] \in {"close", "latest"} /\ Head(todo'[w]) = k
  <2>1. pc'[u] = pc[u] /\ todo'[u] = todo[u]
    BY <1>1, <1>5, OthersSame DEF Same
  <2>2. QED
    BY <1>5, <2>1
<1>6. CASE Publish(t) /\ k = Head(todo[t])
  <2>1. pc'[t] = "close" /\ todo' = todo
    BY <1>1, <1>6 DEF Publish, Goto, Types
  <2>2. QED
    BY <1>6, <2>1
<1>7. CASE InsertLatest(t) /\ k = Head(todo[t])
  <2>1. PICK w : w = chain[k][at[t][k] + 1].ver
    OBVIOUS
  <2>2. /\ latest' = [latest EXCEPT ![k] = [ver |-> w, stamp |-> [wts |-> ts[t], rts |-> ts[t]]]]
        /\ excused' = IF w < Len(db[k]) /\ ~Storing(Thread \ {t}, k)
                      THEN excused \cup {[key |-> k, ver |-> w]} ELSE excused
        /\ db' = db /\ pc[t] = "latest"
    BY <1>7, <2>1 DEF InsertLatest
  <2>3. latest'[k].ver = w
    BY <1>1, <2>2 DEF Types
  <2>4. w <= Len(db[k]) /\ w \in Nat /\ Len(db[k]) \in Nat
    <3>1. PICK i : i = at[t][k]
      OBVIOUS
    <3>2. /\ i \in DOMAIN chain[k] /\ i + 1 \in DOMAIN chain[k] /\ DOMAIN chain[k] = 1 .. Len(chain[k])
          /\ Len(chain[k]) \in Nat /\ Len(db[k]) \in Nat
      BY <1>1, <1>7, <2>2, <3>1, NextVersion, VersionTypes, VersionsStep
    <3>3. i + 1 # 1
      BY <3>2
    <3>4. ~chain[k][i + 1].top
      BY <1>1, <3>2, <3>3 DEF ListsRight
    <3>5. w = TrueVer(k, i + 1) /\ w \in Nat
      BY <1>1, <2>1, <3>1, <3>2, <3>4, VersionTypes DEF ListsRight
    <3>6. QED
      BY <3>2, <3>5, TrueVersions
  <2>5. CASE w < Len(db[k]) /\ Storing(Thread \ {t}, k)
    BY <1>5, <2>5 DEF Storing
  <2>6. CASE ~(w < Len(db[k]) /\ Storing(Thread \ {t}, k))
    BY <2>2, <2>3, <2>4, <2>6
  <2>7. QED
    BY <2>5, <2>6
<1>8. CASE ~(Publish(t) /\ k = Head(todo[t])) /\ ~(InsertLatest(t) /\ k = Head(todo[t]))
  <2>1. db'[k] = db[k]
    BY <1>1, <1>8, VersionsStep
  <2>2. latest'[k].ver = latest[k].ver
    <3>1. CASE latest'[k] = latest[k]
      BY <3>1
    <3>2. CASE latest'[k] = [latest[k] EXCEPT !.stamp = LastStamp(k)]
      <4>1. PICK s, m : s = LastStamp(k) /\ m = latest[k]
        OBVIOUS
      <4>2. m \in Latest
        BY <1>1, <4>1 DEF Types
      <4>3. latest'[k] = [m EXCEPT !.stamp = s]
        BY <3>2, <4>1
      <4>4. QED
        BY <4>1, <4>2, <4>3 DEF Latest
    <3>3. QED
      BY <1>1, <1>8, <3>1, <3>2, StampStep
  <2>3. ASSUME pc[t] \in {"close", "latest"}, Head(todo[t]) = k
        PROVE  pc'[t] \in {"close", "latest"} /\ Head(todo'[t]) = k
    <3>1. Close(t) \/ Busy(t)
      BY <1>8, <2>3 DEF Step, Begin, OwnWrite, Request, CheckLoad, Find, TryLock, Refuse, Retry, Get,
         CommitBegin, Publish, InsertLatest, Unlock, Deinit, Remove, Abort, Calling
    <3>2. CASE Close(t)
      BY <1>1, <1>3, <2>3, <3>2 DEF Close, Goto, Types
    <3>3. CASE Busy(t)
      BY <2>3, <3>3 DEF Busy, vars
    <3>4. QED
      BY <3>1, <3>2, <3>3
  <2>4. CASE latest[k].ver = Len(db[k])
    BY <2>1, <2>2, <2>4
  <2>5. CASE [key |-> k, ver |-> latest[k].ver] \in excused
    BY <1>1, <2>2, <2>5
  <2>6. CASE \E u \in Thread : pc[u] \in {"close", "latest"} /\ Head(todo[u]) = k
    BY <1>5, <2>3, <2>6
  <2>7. QED
    BY <1>4, <2>4, <2>5, <2>6
<1>9. QED
  BY <1>6, <1>7, <1>8

\* What holds at c holds after a step, unless a writer comes that is not later
\* than c.
LEMMA HoldsStep ==
  ASSUME MvccAssumption, SerialInv, Inv', TimesApart', NEW t \in Thread, Step(t) \/ Abort(t),
         NEW k \in Key, NEW v \in Nat, NEW c \in Nat, NEW x, Holds(k, v, c, x),
         TryLock(t) /\ Writing(t) /\ k = CallKey(t) /\ Id(t) # x => c < ts[t]
  PROVE  Holds(k, v, c, x)'
<1>1. /\ Inv /\ Types /\ hist \subseteq hist' /\ VersionsOrdered /\ TimesApart
      /\ Len(db[k]) \in Nat /\ DOMAIN db[k] = 1 .. Len(db[k])
  BY HistoryStep, VersionsStep DEF SerialInv, TimeInv, Inv
<1>2. \/ Len(db'[k]) = Len(db[k]) /\ db'[k] = db[k]
      \/ /\ Publish(t) /\ hist' = hist /\ k \in Unstored(t)
         /\ Len(db'[k]) = Len(db[k]) + 1 /\ db'[k][Len(db[k]) + 1] = Id(t)
         /\ \A j \in 1 .. Len(db[k]) : db'[k][j] = db[k][j]
  BY <1>1, VersionsStep
<1>3. v \in 0 .. Len(db[k]) /\ v \in 0 .. Len(db'[k])
  BY <1>1, <1>2 DEF Holds
<1>4. \A j \in 1 .. Len(db[k]) : db'[k][j] = db[k][j]
  BY <1>2
<1>5. \A j \in 1 .. Len(db[k]) : \A h \in hist' : h.id = db[k][j] => h \in hist
  BY <1>1, OldCommit
<1>6. ASSUME NEW h \in hist', v > 0, h.id = db'[k][v] PROVE h.cts <= c
  <2>1. v \in 1 .. Len(db[k])
    BY <1>1, <1>3, <1>6
  <2>2. h.id = db[k][v] /\ h \in hist
    BY <1>4, <1>5, <1>6, <2>1
  <2>3. QED
    BY <1>6, <2>2 DEF Holds
<1>7. ASSUME NEW j \in v + 1 .. Len(db'[k]), NEW h \in hist', h.id = db'[k][j], h.id # x
      PROVE  c < h.cts
  <2>1. CASE j \in 1 .. Len(db[k])
    <3>1. h.id = db[k][j] /\ h \in hist /\ j \in v + 1 .. Len(db[k])
      BY <1>1, <1>4, <1>5, <1>7, <2>1
    <3>2. QED
      BY <1>7, <3>1 DEF Holds
  <2>2. CASE j \notin 1 .. Len(db[k])
    <3>1. /\ hist' = hist /\ k \in Unstored(t) /\ j = Len(db[k]) + 1
          /\ db'[k][j] = Id(t)
      BY <1>1, <1>2, <1>7, <2>2
    <3>2. h.id = Id(t) /\ h.cts = ts[t]
      BY <1>1, <1>7, <3>1 DEF TimesApart
    <3>3. QED
      BY <1>7, <3>1, <3>2 DEF Holds
  <2>3. QED
    BY <2>1, <2>2
<1>8. ASSUME NEW u \in Thread, k \in Unstored(u)', Id(u)' # x PROVE c < ts'[u]
  <2>1. CASE u # t
    <3>1. Id(u)' = Id(u) /\ ts'[u] = ts[u] /\ Unstored(u)' = Unstored(u)
      BY <1>1, <2>1, OthersSame, SameThread DEF Same
    <3>2. QED
      BY <1>8, <3>1 DEF Holds
  <2>2. CASE u = t
    <3>1. /\ k \in Unstored(t) \/ (TryLock(t) /\ Writing(t) /\ k = CallKey(t))
          /\ ts'[t] = ts[t] /\ count'[t] = count[t]
      BY <1>1, <1>8, <2>2, UnstoredStep
    <3>2. Id(t)' = Id(t)
      BY <3>1 DEF Id
    <3>3. QED
      BY <1>8, <2>2, <3>1, <3>2 DEF Holds
  <2>3. QED
    BY <2>1, <2>2
<1>9. QED
  BY <1>3, <1>6, <1>7, <1>8 DEF Holds

\* What a transaction has read at c holds and is remembered after a step, or it
\* is excused.
LEMMA KeptAfter ==
  ASSUME MvccAssumption, SerialInv, Inv', TimesApart', global_ts < Inf,
         NEW t \in Thread, Step(t) \/ Abort(t),
         NEW r \in Read, NEW c \in Nat, NEW x, Kept(r, c, x),
         \A h \in hist : h.id = x => h.cts = c,
         Running(t) /\ c = ts[t] => Id(t) = x
  PROVE  Kept(r, c, x)'
<1>1. /\ Inv /\ Types /\ TimeInv /\ excused \subseteq excused' /\ VersionsOrdered /\ ListsRight
  BY ExcusedStep DEF SerialInv, TimeInv, Inv
<1>2. PICK k \in Key, v \in Nat : k = r.key /\ v = r.ver /\ r = [key |-> k, ver |-> v]
  BY DEF Read
<1>3. SUFFICES ASSUME r \notin excused, r \notin excused'
               PROVE  Holds(k, v, c, x)' /\ (v = Len(db'[k]) => c <= Visible(k)'.rts)
  BY <1>1, <1>2 DEF Kept
<1>4. Holds(k, v, c, x) /\ (v = Len(db[k]) => c <= Visible(k).rts) /\ v \in 0 .. Len(db[k])
  BY <1>2, <1>3 DEF Kept, Holds
<1>5. /\ Len(db[k]) \in Nat /\ DOMAIN db[k] = 1 .. Len(db[k])
      /\ Visible(k).wts \in Nat /\ Visible(k).rts \in Nat /\ Visible(k)'.rts \in Nat
  BY <1>1, VersionsStep, WtsStep
<1>6. ASSUME TryLock(t), Writing(t), k = CallKey(t), Id(t) # x PROVE c < ts[t]
  <2>1. Visible(k).wts < ts[t] /\ Visible(k).rts <= ts[t]
    BY <1>1, <1>6, LockFits
  <2>2. ts[t] \in Nat /\ c # ts[t]
    BY <1>1, <1>6, ThreadTypes DEF TryLock, Running
  <2>3. CASE v = Len(db[k])
    BY <1>4, <1>5, <2>1, <2>2, <2>3
  <2>4. CASE v # Len(db[k])
    <3>1. Len(db[k]) \in DOMAIN db[k] /\ Len(db[k]) \in v + 1 .. Len(db[k])
      BY <1>4, <1>5, <2>4
    <3>2. PICK h \in hist : h.id = db[k][Len(db[k])]
      BY <1>1, <3>1 DEF VersionsOrdered
    <3>3. h.cts <= Visible(k).wts /\ h.cts \in Nat
      BY <1>1, <3>1, <3>2, HistTypes DEF VersionsOrdered
    <3>4. c <= h.cts
      BY <1>4, <3>1, <3>2, <3>3 DEF Holds
    <3>5. QED
      BY <1>5, <2>1, <2>2, <3>3, <3>4
  <2>5. QED
    BY <2>3, <2>4
<1>7. Holds(k, v, c, x)'
  BY <1>4, <1>6, HoldsStep
<1>8. ASSUME v = Len(db'[k]) PROVE c <= Visible(k)'.rts
  <2>1. db'[k] = db[k] /\ ~Adds(t, k)
    BY <1>1, <1>4, <1>5, <1>8, VersionsStep
  <2>2. v = Len(db[k]) /\ c <= Visible(k).rts
    BY <1>4, <1>8, <2>1
  <2>3. CASE Visible(k).rts <= Visible(k)'.rts
    BY <1>5, <2>2, <2>3
  <2>4. CASE /\ Reads(t, k) /\ at[t][k] = Len(chain[k])
             /\ Visible(k)'.rts = NewRts(t, chain[k][at[t][k]])
    <3>1. PICK i, w : i = at[t][k] /\ w = chain[k][i]
      OBVIOUS
    <3>2. /\ Get(t) /\ k = CallKey(t) /\ i \in DOMAIN chain[k] /\ i = Len(chain[k])
          /\ w.rts \in Nat /\ w.top \in BOOLEAN /\ ts[t] \in Nat /\ Len(chain[k]) \in Nat
      BY <1>1, <2>4, <3>1, VersionTypes, ThreadTypes DEF Reads
    <3>3. w.rts = Visible(k).rts
      <4>1. chain[k] # <<>>
        BY <3>2
      <4>2. QED
        BY <1>1, <3>1, <3>2, <4>1, VisibleTypes
    <3>4. CASE NewRts(t, w) < w.rts
      <4>1. [key |-> k, ver |-> IF w.top THEN Len(db[k]) ELSE w.ver] \in excused'
        BY <3>1, <3>2, <3>4 DEF Get, The
      <4>2. ~w.top => w.ver = Len(db[k])
        <5>1. TrueVer(k, i) = Len(db[k]) /\ (~w.top => w.ver = TrueVer(k, i))
          <6>1. DOMAIN chain[k] = 1 .. Len(chain[k])
            BY <1>1, VersionTypes
          <6>2. QED
            BY <1>1, <1>5, <3>1, <3>2, <6>1, TrueVersions DEF ListsRight
        <5>2. QED
          BY <5>1
      <4>3. QED
        BY <1>2, <1>3, <2>2, <4>1, <4>2
    <3>5. CASE ~(NewRts(t, w) < w.rts)
      <4>1. NewRts(t, w) \in Nat
        BY <3>2 DEF NewRts, Larger
      <4>2. Visible(k)'.rts = NewRts(t, w)
        BY <2>4, <3>1
      <4>3. QED
        BY <2>2, <3>2, <3>3, <3>5, <4>1, <4>2
    <3>6. QED
      BY <3>4, <3>5
  <2>5. QED
    BY <1>1, <2>1, <2>3, <2>4, VisibleStep
<1>9. QED
  BY <1>7, <1>8

\* The version a lookup is about to read is the one at its timestamp.
LEMMA ReaderFinds ==
  ASSUME MvccAssumption, SerialInv, NEW t \in Thread, pc[t] = "get",
         NEW k, k = CallKey(t), NEW i, i = at[t][k], NEW v, v = TrueVer(k, i)
  PROVE  /\ k \in Key /\ i \in DOMAIN chain[k] /\ v \in Nat /\ Holds(k, v, ts[t], Id(t))
         /\ v = Len(db[k]) => i = Len(chain[k])
         /\ chain[k][i].top => v = Len(db[k]) /\ Len(chain[k]) = 1
<1>1. /\ Inv /\ Types /\ TimeInv /\ Books(t) /\ Stands(t) /\ VersionsOrdered /\ ListsRight
      /\ TimesApart
  BY DEF SerialInv, TimeInv, Inv
<1>2. k \in Key /\ ~Writing(t) /\ Owns(t, k)
  BY <1>1, CallTypes DEF Books, InCall, Owns
<1>3. /\ i \in DOMAIN chain[k] /\ Len(chain[k]) \in Nat /\ DOMAIN chain[k] = 1 .. Len(chain[k])
      /\ Len(db[k]) \in Nat /\ DOMAIN db[k] = 1 .. Len(db[k]) /\ ts[t] \in Nat
      /\ \A j \in DOMAIN chain[k] : chain[k][j].min \in Nat /\ chain[k][j].max \in Nat
                                    /\ chain[k][j].top \in BOOLEAN
  <2>1. i \in DOMAIN chain[k]
    BY <1>1, <1>2 DEF Inv, Places
  <2>2. db[k] \in Seq(Txn)
    BY <1>1, <1>2 DEF Types
  <2>3. Len(db[k]) \in Nat /\ DOMAIN db[k] = 1 .. Len(db[k])
    BY <2>2
  <2>4. QED
    BY <1>1, <1>2, <2>1, <2>3, VersionTypes, ThreadTypes
<1>4. /\ v \in 0 .. Len(db[k]) /\ (v = Len(db[k]) <=> i = Len(chain[k]))
      /\ TrueVer(k, i + 1) = v + 1
  BY <1>1, <1>2, <1>3, TrueVersions DEF ListsRight
<1>5. chain[k][i].min <= ts[t] /\ ts[t] < chain[k][i].max
  BY <1>1, <1>2 DEF Stands, The
<1>6. ASSUME NEW h \in hist, v > 0, h.id = db[k][v] PROVE h.cts <= ts[t]
  <2>1. h.cts <= chain[k][i].min /\ h.cts \in Nat
    BY <1>1, <1>2, <1>3, <1>6, HistTypes DEF ListsRight
  <2>2. QED
    BY <1>3, <1>5, <2>1
<1>7. CASE i # Len(chain[k])
  <2>1. /\ i \in 1 .. Len(chain[k]) - 1 /\ i + 1 \in DOMAIN chain[k] /\ i + 1 > 1
        /\ v \in Nat /\ v + 1 \in DOMAIN db[k] /\ v + 1 > 0
    <3>1. PICK a, b : a = Len(db[k]) /\ b = Len(chain[k])
      OBVIOUS
    <3>2. a \in Nat /\ b \in Nat /\ i \in 1 .. b /\ i # b /\ v \in 0 .. a /\ v # a
      BY <1>3, <1>4, <1>7, <3>1
    <3>3. i \in 1 .. b - 1 /\ i + 1 \in 1 .. b /\ i + 1 > 1 /\ v \in Nat /\ v + 1 \in 1 .. a /\ v + 1 > 0
      BY <3>2
    <3>4. QED
      BY <1>3, <3>1, <3>3
  <2>2. ~\E u \in Thread : pc[u] = "close" /\ Head(todo[u]) = k /\ at[u][k] = i
    <3>1. SUFFICES ASSUME NEW u \in Thread, pc[u] = "close", Head(todo[u]) = k, at[u][k] = i
                   PROVE  FALSE
      OBVIOUS
    <3>2. Owns(u, k)
      BY <1>1, <3>1, NextVersion
    <3>3. u = t
      BY <1>1, <1>2, <3>1, <3>2, OwnersApart
    <3>4. QED
      BY <3>1, <3>3
  <2>3. chain[k][i].max = (IF chain[k][i].top THEN 0 ELSE chain[k][i + 1].min)
    <3>1. Divided(k)
      BY <1>1, <1>2 DEF TimeInv
    <3>2. \/ chain[k][i].max = (IF chain[k][i].top THEN 0 ELSE chain[k][i + 1].min)
          \/ \E u \in Thread : pc[u] = "close" /\ Head(todo[u]) = k /\ at[u][k] = i
      BY <2>1, <3>1 DEF Divided
    <3>3. QED
      BY <2>2, <3>2
  <2>4. ~chain[k][i].top /\ ts[t] < chain[k][i + 1].min
    BY <1>3, <1>5, <2>3
  <2>5. PICK g \in hist : g.id = db[k][v + 1]
    BY <1>1, <1>2, <2>1 DEF VersionsOrdered
  <2>6. g.cts = chain[k][i + 1].min /\ g.cts \in Nat /\ g.cts <= Visible(k).wts /\ ts[t] < g.cts
    <3>1. TrueVer(k, i + 1) = v + 1
      BY <1>4
    <3>2. g.cts = chain[k][i + 1].min
      BY <1>1, <1>2, <2>1, <2>5, <3>1 DEF ListsRight
    <3>3. g.cts \in Nat /\ g.cts <= Visible(k).wts
      BY <1>1, <1>2, <2>1, <2>5, HistTypes DEF VersionsOrdered
    <3>4. QED
      BY <2>4, <3>2, <3>3
  <2>7. ASSUME NEW j \in v + 1 .. Len(db[k]), NEW h \in hist, h.id = db[k][j] PROVE ts[t] < h.cts
    <3>1. j \in DOMAIN db[k] /\ (j = v + 1 \/ v + 1 < j) /\ h.cts \in Nat
      <4>1. h.cts \in Nat
        BY <1>1, HistTypes
      <4>2. PICK a : a = Len(db[k])
        OBVIOUS
      <4>3. j \in v + 1 .. a /\ v \in Nat /\ a \in Nat
        BY <1>3, <2>1, <2>7, <4>2
      <4>4. j \in 1 .. a /\ (j = v + 1 \/ v + 1 < j)
        BY <4>3
      <4>5. QED
        BY <1>3, <4>1, <4>2, <4>4
    <3>2. CASE j = v + 1
      BY <1>1, <2>5, <2>6, <2>7, <3>2 DEF TimesApart
    <3>3. CASE v + 1 < j
      <4>1. g.cts < h.cts
        BY <1>1, <1>2, <2>1, <2>5, <2>7, <3>1, <3>3 DEF VersionsOrdered
      <4>2. QED
        BY <1>3, <2>6, <3>1, <4>1
    <3>4. QED
      BY <3>1, <3>2, <3>3
  <2>8. ASSUME NEW u \in Thread, k \in Unstored(u) PROVE ts[t] < ts[u]
    <3>1. Visible(k).wts < ts[u] /\ ts[u] \in Nat /\ Visible(k).wts \in Nat
      BY <1>1, <1>2, <2>8, ThreadTypes, VisibleTypes DEF TimeInv, Stands
    <3>2. QED
      BY <1>3, <2>6, <3>1
  <2>9. v # Len(db[k])
    BY <1>3, <2>1
  <2>10. Holds(k, v, ts[t], Id(t))
    BY <1>4, <1>6, <2>7, <2>8 DEF Holds
  <2>11. QED
    BY <1>2, <1>3, <1>4, <2>4, <2>9, <2>10
<1>8. CASE i = Len(chain[k])
  <2>1. v = Len(db[k]) /\ v + 1 .. Len(db[k]) = {}
    BY <1>3, <1>4, <1>8
  <2>2. ASSUME NEW u \in Thread, k \in Unstored(u), Id(u) # Id(t) PROVE FALSE
    <3>1. at[u][k] = i /\ Owns(u, k)
      BY <1>1, <1>8, <2>2, UnstoredOwned DEF TimeInv, Stands
    <3>2. u = t
      BY <1>1, <1>2, <3>1, OwnersApart
    <3>3. QED
      BY <2>2, <3>2
  <2>3. Holds(k, v, ts[t], Id(t))
    BY <1>4, <1>6, <2>1, <2>2 DEF Holds
  <2>4. chain[k][i].top => Len(chain[k]) = 1
    BY <1>1, <1>2, <1>3, <1>8 DEF ListsRight
  <2>5. QED
    BY <1>2, <1>3, <1>4, <1>8, <2>1, <2>3, <2>4
<1>9. QED
  BY <1>7, <1>8

\* What a lookup delivers is that version, or is excused.
LEMMA GetKept ==
  ASSUME MvccAssumption, SerialInv, Inv', TimesApart', NEW t \in Thread, Get(t),
         NEW r \in reads'[t] \ reads[t]
  PROVE  Kept(r, ts[t], Id(t))'
<1>1. /\ Inv /\ Types /\ TimeInv /\ ListsRight /\ LatestRight /\ pc[t] = "get" /\ Step(t)
      /\ excused \subseteq excused' /\ UNCHANGED <<ts, count, db>>
  BY ExcusedStep DEF SerialInv, TimeInv, Inv, Get, Step
<1>2. PICK k, i, c, x : k = CallKey(t) /\ i = at[t][k] /\ c = ts[t] /\ x = Id(t)
  OBVIOUS
<1>3. PICK v, w : v = TrueVer(k, i) /\ w = chain[k][i]
  OBVIOUS
<1>4. /\ k \in Key /\ i \in DOMAIN chain[k] /\ v \in Nat /\ Holds(k, v, c, x) /\ c \in Nat
      /\ v = Len(db[k]) => i = Len(chain[k])
      /\ w.top => v = Len(db[k]) /\ Len(chain[k]) = 1
  BY <1>1, <1>2, <1>3, ReaderFinds, ThreadTypes
<1>5. r = [key |-> k, ver |-> IF w.top THEN latest[k].ver ELSE w.ver]
  BY <1>1, <1>2, <1>3 DEF Get, The, Types
<1>6. r \in excused' \/ r.ver = v
  <2>1. CASE ~w.top
    BY <1>1, <1>3, <1>4, <1>5, <2>1 DEF ListsRight
  <2>2. CASE w.top
    <3>1. ~Storing(Thread, k)
      <4>1. SUFFICES ASSUME NEW u \in Thread, pc[u] \in {"close", "latest"}, Head(todo[u]) = k
                     PROVE  FALSE
        BY DEF Storing
      <4>2. PICK j : j = at[u][k]
        OBVIOUS
      <4>3. j \in DOMAIN chain[k] /\ j + 1 \in DOMAIN chain[k]
        BY <1>1, <4>1, <4>2, NextVersion
      <4>4. DOMAIN chain[k] = 1 .. 1
        BY <1>1, <1>4, <2>2, VersionTypes
      <4>5. QED
        BY <4>3, <4>4
    <3>2. Forgets
      BY <1>1, <1>3, <1>4, <2>2 DEF ListsRight
    <3>3. latest[k].ver = Len(db[k]) \/ [key |-> k, ver |-> latest[k].ver] \in excused
      BY <1>1, <1>4, <3>1, <3>2 DEF LatestRight
    <3>4. QED
      BY <1>1, <1>4, <1>5, <2>2, <3>3
  <2>3. QED
    BY <2>1, <2>2
<1>7. Holds(k, v, c, x)'
  <2>1. ~TryLock(t)
    BY <1>1 DEF TryLock
  <2>2. QED
    BY <1>1, <1>4, <2>1, HoldsStep
<1>8. ASSUME v = Len(db[k]) PROVE c <= Visible(k)'.rts
  <2>1. Reads(t, k)
    BY <1>1, <1>2, <1>4, KeyStep
  <2>2. /\ chain'[k][i].rts = NewRts(t, w) /\ Len(chain'[k]) = i /\ i \in DOMAIN chain'[k]
    BY <1>2, <1>3, <1>4, <1>8, <2>1 DEF Reads, AlikeBut, SameLength
  <2>3. chain'[k] # <<>>
    BY <2>2
  <2>4. Visible(k)'.rts = NewRts(t, w)
    BY <2>2, <2>3 DEF Visible, Last
  <2>5. w.rts \in Nat
    BY <1>1, <1>3, <1>4, VersionTypes
  <2>6. QED
    BY <1>2, <1>4, <2>4, <2>5 DEF NewRts, Larger
<1>9. Kept(r, c, x)'
  <2>1. r.key = k
    BY <1>5
  <2>2. QED
    BY <1>1, <1>6, <1>7, <1>8, <2>1 DEF Kept
<1>10. ts'[t] = c /\ Id(t)' = x
  BY <1>1, <1>2 DEF Id
<1>11. QED
  BY <1>9, <1>10

\* What a running transaction has read is kept.
LEMMA ReadsHoldStep ==
  ASSUME MvccAssumption, SerialInv, Inv', TimesApart', global_ts < Inf,
         NEW t \in Thread, Step(t) \/ Abort(t), NEW u \in Thread
  PROVE  ReadsHold(u)'
<1>1. Inv /\ Types /\ TimesApart
  BY DEF SerialInv, TimeInv, Inv
<1>2. ASSUME NEW r \in reads[u], Running(u), ts'[u] = ts[u], Id(u)' = Id(u)
      PROVE  Kept(r, ts[u], Id(u))'
  <2>1. r \in Read /\ Kept(r, ts[u], Id(u)) /\ ts[u] \in Nat
    BY <1>1, <1>2, ThreadTypes DEF SerialInv, ReadsHold
  <2>2. PICK c \in Nat, x \in Txn : c = ts[u] /\ x = Id(u)
    BY <1>1, <2>1, ThreadTypes
  <2>3. \A h \in hist : h.id = x => h.cts = c
    BY <1>1, <2>2 DEF TimesApart
  <2>4. ASSUME Running(t), c = ts[t] PROVE Id(t) = x
    <3>1. ts[t] > 0 /\ ts[t] = ts[u] /\ ts[t] \in Nat
      BY <1>1, <2>2, <2>4, ThreadTypes DEF TimesApart, Running
    <3>2. t = u
      BY <1>1, <3>1 DEF TimesApart
    <3>3. QED
      BY <2>2, <3>2
  <2>5. Kept(r, c, x)'
    BY <2>1, <2>2, <2>3, <2>4, KeptAfter
  <2>6. ts'[u] = c /\ Id(u)' = x
    BY <1>2, <2>2
  <2>7. QED
    BY <2>5, <2>6
<1>3. SUFFICES ASSUME Running(u)', NEW r \in reads'[u] PROVE Kept(r, ts[u], Id(u))'
  BY DEF ReadsHold
<1>4. CASE u # t
  <2>1. /\ reads'[u] = reads[u] /\ Same(u) /\ ts'[u] = ts[u] /\ Id(u)' = Id(u) /\ pc'[u] = pc[u]
    BY <1>1, <1>4, OthersSame DEF Same
  <2>2. Running(u)
    BY <1>3, <2>1 DEF Running
  <2>3. QED
    BY <1>2, <1>3, <2>1, <2>2
<1>5. CASE u = t /\ Begin(t)
  <2>1. reads'[t] = {}
    BY <1>1, <1>5 DEF Begin, Types
  <2>2. QED
    BY <1>3, <1>5, <2>1
<1>6. CASE u = t /\ ~Begin(t)
  <2>1. UNCHANGED <<ts, count>> /\ (Running(t)' => Running(t))
    BY <1>1, <1>6 DEF Step, OwnWrite, Request, CheckLoad, Find, TryLock, Busy, Refuse, Retry, Get,
       CommitBegin, Publish, Close, InsertLatest, Unlock, Deinit, Remove, Abort, vars, txnVars,
       Running, Goto, Give, Calling, Types
  <2>2. Id(t)' = Id(t)
    BY <2>1 DEF Id
  <2>3. CASE r \in reads[t]
    BY <1>2, <1>3, <1>6, <2>1, <2>2, <2>3
  <2>4. CASE r \notin reads[t]
    <3>1. Get(t)
      BY <1>3, <1>6, <2>4 DEF Step, OwnWrite, Request, CheckLoad, Find, TryLock, Busy, Refuse, Retry,
         CommitBegin, Publish, Close, InsertLatest, Unlock, Deinit, Remove, Abort, vars, txnVars
    <3>2. QED
      BY <1>3, <1>6, <2>4, <3>1, GetKept
  <2>5. QED
    BY <2>3, <2>4
<1>7. QED
  BY <1>4, <1>5, <1>6

\* What a committed transaction has read is kept.
LEMMA KeptStep ==
  ASSUME MvccAssumption, SerialInv, Inv', TimesApart', global_ts < Inf,
         NEW t \in Thread, Step(t) \/ Abort(t)
  PROVE  ReadsKept'
<1>1. Inv /\ Types /\ TimesApart /\ hist \subseteq hist' /\ (hist' # hist => CommitBegin(t))
  BY HistoryStep DEF SerialInv, TimeInv, Inv
<1>2. ASSUME NEW h \in hist, NEW r \in h.reads PROVE Kept(r, h.cts, h.id)'
  <2>1. r \in Read /\ h.cts \in Nat /\ Kept(r, h.cts, h.id)
    BY <1>1 DEF Types, Commit, SerialInv, ReadsKept
  <2>2. \A g \in hist : g.id = h.id => g.cts = h.cts
    BY <1>1 DEF TimesApart
  <2>3. Running(t) /\ h.cts = ts[t] => Id(t) = h.id
    BY <1>1 DEF TimesApart
  <2>4. PICK c, x : c \in Nat /\ c = h.cts /\ x = h.id
    BY <2>1
  <2>5. Kept(r, c, x)'
    BY <2>1, <2>2, <2>3, <2>4, KeptAfter
  <2>6. QED
    BY <2>4, <2>5
<1>3. CASE hist' = hist
  BY <1>2, <1>3 DEF ReadsKept
<1>4. CASE CommitBegin(t)
  <2>1. PICK n : n = [id |-> Id(t), cts |-> ts[t], reads |-> reads[t]]
    OBVIOUS
  <2>2. hist' = hist \cup {n} /\ UNCHANGED <<ts, count, reads>> /\ Running(t)
    BY <1>4, <2>1 DEF CommitBegin, Running, txnVars
  <2>3. ASSUME NEW r \in n.reads PROVE Kept(r, n.cts, n.id)'
    <3>1. r \in reads[t] /\ r \in Read /\ ts[t] \in Nat /\ n.cts = ts[t] /\ n.id = Id(t)
      BY <1>1, <2>1, <2>3, ThreadTypes
    <3>2. Kept(r, ts[t], Id(t))
      BY <2>2, <3>1 DEF SerialInv, ReadsHold
    <3>3. PICK c, x : c \in Nat /\ c = n.cts /\ x = n.id
      BY <3>1
    <3>4. \A h \in hist : h.id = x => h.cts = c
      BY <1>1, <3>1, <3>3 DEF TimesApart
    <3>5. Kept(r, c, x)'
      BY <3>1, <3>2, <3>3, <3>4, KeptAfter
    <3>6. QED
      BY <3>3, <3>5
  <2>4. QED
    BY <1>2, <2>2, <2>3 DEF ReadsKept
<1>5. QED
  BY <1>1, <1>3, <1>4

LEMMA InitSerial == MvccAssumption /\ Init => SerialInv
<1> SUFFICES ASSUME MvccAssumption, Init PROVE SerialInv
  OBVIOUS
<1>1. TimeInv
  BY InitTime
<1>2. VersionsOrdered /\ ReadsKept /\ LatestRight
  BY DEF Init, VersionsOrdered, ReadsKept, LatestRight
<1>3. ASSUME NEW t \in Thread PROVE Committed(t) /\ ReadsHold(t)
  BY DEF Init, Committed, ReadsHold, Running
<1>4. ListsRight
  <2>1. SUFFICES ASSUME NEW k \in Key
                 PROVE  /\ Len(chain[k]) <= Len(db[k]) + 1
                        /\ \A i \in DOMAIN chain[k] :
                             /\ chain[k][i].top => i = 1 /\ Forgets
                             /\ ~chain[k][i].top => chain[k][i].ver = TrueVer(k, i)
                             /\ ~(TrueVer(k, i) > 0)
    BY DEF ListsRight
  <2>2. Len(db[k]) = 0
    BY DEF Init
  <2>3. CASE Forgets
    <3>1. chain[k] = <<>>
      BY <2>3 DEF Init
    <3>2. Len(chain[k]) = 0 /\ DOMAIN chain[k] = {}
      BY <3>1
    <3>3. QED
      BY <2>2, <3>2
  <2>4. CASE ~Forgets
    <3>1. PICK v : v = NewVersion(0, 0, 0, FALSE)
      OBVIOUS
    <3>2. chain[k] = <<v>> /\ v.top = FALSE /\ v.ver = 0
      BY <2>4, <3>1 DEF Init, NewVersion
    <3>3. Len(chain[k]) = 1 /\ DOMAIN chain[k] = {1} /\ chain[k][1] = v
      BY <3>2
    <3>4. TrueVer(k, 1) = 0
      BY <2>2, <3>3 DEF TrueVer
    <3>5. QED
      BY <2>2, <3>2, <3>3, <3>4
  <2>5. QED
    BY <2>3, <2>4
<1>5. QED
  BY <1>1, <1>2, <1>3, <1>4 DEF SerialInv

\* The invariant of the serial order is inductive.
LEMMA NextSerial ==
  MvccAssumption /\ SerialInv /\ global_ts < Inf /\ [Next]_vars => SerialInv'
<1> SUFFICES ASSUME MvccAssumption, SerialInv, global_ts < Inf, [Next]_vars PROVE SerialInv'
  OBVIOUS
<1>1. TimeInv' /\ Inv' /\ TimesApart' /\ TimeInv /\ Inv /\ Types
  <2>1. TimeInv /\ Inv /\ Types
    BY DEF SerialInv, TimeInv, Inv
  <2>2. TimeInv'
    BY <2>1, NextTime
  <2>3. QED
    BY <2>1, <2>2 DEF TimeInv
<1>2. CASE UNCHANGED vars
  <2>1. UNCHANGED <<build, global_ts, chain, refs, counter, latest, db, pc, count, ts, calls,
                    order, writes, at, todo, reads, hist, excused>>
    BY <1>2 DEF vars, tableVars, txnVars
  <2>2. \A k \in Key : Visible(k)' = Visible(k)
    BY <2>1 DEF Visible
  <2>3. \A u \in Thread : /\ Id(u)' = Id(u) /\ Running(u)' = Running(u)
                          /\ Unstored(u)' = Unstored(u)
    BY <2>1 DEF Id, Running, Unstored
  <2>4. VersionsOrdered'
    BY <2>1, <2>2 DEF VersionsOrdered, SerialInv
  <2>5. ListsRight' /\ LatestRight'
    BY <2>1 DEF ListsRight, LatestRight, SerialInv, TrueVer, Forgets, Storing
  <2>6. \A u \in Thread : Committed(u)'
    BY <2>1, <2>3 DEF SerialInv, Committed
  <2>7. ASSUME NEW r \in Read, NEW c, NEW x, Kept(r, c, x) PROVE Kept(r, c, x)'
    <3>1. PICK k, v : k \in Key /\ k = r.key /\ v = r.ver
      BY DEF Read
    <3>2. Holds(k, v, c, x) => Holds(k, v, c, x)'
      BY <2>1, <2>3 DEF Holds
    <3>3. QED
      BY <2>1, <2>2, <2>7, <3>1, <3>2 DEF Kept
  <2>8. ASSUME NEW u \in Thread PROVE ReadsHold(u)'
    <3>1. SUFFICES ASSUME Running(u), NEW r \in reads[u] PROVE Kept(r, ts[u], Id(u))'
      BY <2>1, <2>3 DEF ReadsHold
    <3>2. r \in Read /\ Kept(r, ts[u], Id(u))
      BY <1>1, <3>1, ThreadTypes DEF SerialInv, ReadsHold
    <3>3. PICK c, x : c = ts[u] /\ x = Id(u)
      OBVIOUS
    <3>4. Kept(r, c, x)'
      BY <2>7, <3>2, <3>3
    <3>5. QED
      BY <2>1, <2>3, <3>3, <3>4
  <2>9. ReadsKept'
    <3>1. ASSUME NEW h \in hist, NEW r \in h.reads PROVE Kept(r, h.cts, h.id)'
      <4>1. r \in Read /\ Kept(r, h.cts, h.id)
        BY <1>1 DEF Types, Commit, SerialInv, ReadsKept
      <4>2. QED
        BY <2>7, <4>1
    <3>2. QED
      BY <2>1, <3>1 DEF ReadsKept
  <2>10. QED
    BY <1>1, <2>4, <2>5, <2>6, <2>8, <2>9 DEF SerialInv
<1>3. CASE \E t \in Thread : Step(t) \/ Abort(t)
  <2>1. PICK t \in Thread : Step(t) \/ Abort(t)
    BY <1>3
  <2>2. VersionsOrdered' /\ ListsRight' /\ LatestRight' /\ ReadsKept'
    BY <1>1, <2>1, OrderedStep, ListsStep, LatestStep, KeptStep
  <2>3. ASSUME NEW u \in Thread PROVE Committed(u)' /\ ReadsHold(u)'
    BY <1>1, <2>1, CommittedStep, ReadsHoldStep DEF SerialInv
  <2>4. QED
    BY <1>1, <2>2, <2>3 DEF SerialInv
<1>4. QED
  BY <1>2, <1>3 DEF Next, Done

\* The transactions are serializable in the order of the timestamps they took
\* when they began: the versions of a key are in that order, and a lookup of a
\* committed transaction delivered the one before its own timestamp, which
\* nobody wrote behind later - unless the read timestamp that would have kept
\* a writer away was taken back, or an older version became the latest.
THEOREM SerialCommits ==
  MvccAssumption => (Spec /\ [](global_ts < Inf) => []SerialByTimestamp)
<1> SUFFICES ASSUME MvccAssumption
             PROVE  Spec /\ [](global_ts < Inf) => []SerialByTimestamp
  OBVIOUS
<1>1. Init => SerialInv
  BY InitSerial
<1>2. SerialInv /\ global_ts < Inf /\ [Next]_vars => SerialInv'
  BY NextSerial
<1>3. ASSUME SerialInv PROVE SerialByTimestamp
  <2>1. /\ Types /\ VersionsOrdered /\ TimesApart /\ ReadsKept
        /\ \A k \in Key : Len(db[k]) \in Nat /\ DOMAIN db[k] = 1 .. Len(db[k])
    BY <1>3 DEF SerialInv, TimeInv, Inv, Types
  <2>2. ASSUME NEW h \in hist PROVE Iso!TsOf(h.id) = h.cts
    <3>1. PICK g : g = CHOOSE f \in hist : f.id = h.id
      OBVIOUS
    <3>2. g \in hist /\ g.id = h.id
      BY <3>1
    <3>3. g = h
      BY <2>1, <3>2 DEF TimesApart
    <3>4. QED
      BY <3>1, <3>3 DEF Iso!TsOf
  <2>3. ASSUME NEW k \in Key, NEW i \in DOMAIN db[k]
        PROVE  \E h \in hist : h.id = db[k][i] /\ Iso!TsOf(db[k][i]) = h.cts
    <3>1. PICK h \in hist : h.id = db[k][i]
      BY <2>1 DEF VersionsOrdered
    <3>2. QED
      BY <2>2, <3>1
  <2>4. Iso!InCommitOrder
    BY <2>1, <2>3 DEF VersionsOrdered, Iso!InCommitOrder
  <2>5. ASSUME NEW h \in hist, NEW r \in h.reads, r \notin excused PROVE Iso!ValidAt(h, r)
    <3>1. r.key \in Key /\ r.ver \in Nat /\ h.cts \in Nat /\ Holds(r.key, r.ver, h.cts, h.id)
      BY <2>1, <2>5, HistTypes DEF ReadsKept, Kept
    <3>2. Len(db[r.key]) \in Nat /\ DOMAIN db[r.key] = 1 .. Len(db[r.key])
      BY <2>1, <3>1
    <3>3. ASSUME r.ver > 0 PROVE Iso!TsOf(db[r.key][r.ver]) <= h.cts
      <4>1. r.ver \in DOMAIN db[r.key]
        BY <3>1, <3>2, <3>3 DEF Holds
      <4>2. QED
        BY <2>3, <3>1, <3>3, <4>1 DEF Holds
    <3>4. ASSUME NEW j \in DOMAIN db[r.key], j > r.ver, db[r.key][j] # h.id
          PROVE  Iso!TsOf(db[r.key][j]) > h.cts
      <4>1. PICK g \in hist : g.id = db[r.key][j] /\ Iso!TsOf(db[r.key][j]) = g.cts
        BY <2>3, <3>1
      <4>2. j \in r.ver + 1 .. Len(db[r.key]) /\ g.cts \in Nat
        BY <2>1, <3>1, <3>2, <3>4, HistTypes
      <4>3. h.cts < g.cts
        BY <3>1, <3>4, <4>1, <4>2 DEF Holds
      <4>4. QED
        BY <3>1, <4>1, <4>2, <4>3
    <3>5. QED
      BY <3>3, <3>4 DEF Iso!ValidAt
  <2>6. QED
    BY <2>4, <2>5 DEF SerialByTimestamp
<1>4. QED
  BY <1>1, <1>2, <1>3, PTL DEF Spec

\* Where timestamps are stored with their versions and merged, no read timestamp
\* is taken back and there is no LATEST tuple.
NothingExcused == build = "disk" => excused = {}

LEMMA NextExcused == Inv /\ NothingExcused /\ [Next]_vars => NothingExcused'
<1> SUFFICES ASSUME Inv, NothingExcused, [Next]_vars PROVE NothingExcused'
  OBVIOUS
<1>1. Types
  BY DEF Inv
<1>2. SUFFICES ASSUME build' = "disk" PROVE excused' = {}
  BY DEF NothingExcused
<1>3. CASE UNCHANGED vars
  BY <1>2, <1>3 DEF vars, NothingExcused
<1>4. ASSUME NEW t \in Thread, Step(t) \/ Abort(t) PROVE excused' = {}
  <2>1. build = "disk" /\ excused = {}
    BY <1>2, <1>4 DEF NothingExcused, Step, Begin, OwnWrite, Request, CheckLoad, Find, TryLock, Busy,
       Refuse, Retry, Get, CommitBegin, Publish, Close, InsertLatest, Unlock, Deinit, Remove, Abort,
       vars
  <2>2. CASE Get(t)
    <3>1. PICK k, v : k = CallKey(t) /\ v = The(t, k)
      OBVIOUS
    <3>2. v.rts \in Nat /\ ts[t] \in Nat
      <4>1. k \in Key /\ Owns(t, k)
        BY <1>1, <2>2, <3>1, CallTypes DEF Get, Inv, Books, InCall, Owns
      <4>2. at[t][k] \in DOMAIN chain[k]
        BY <4>1 DEF Inv, Places
      <4>3. QED
        BY <1>1, <3>1, <4>1, <4>2, VersionTypes, ThreadTypes DEF The
    <3>3. ~(NewRts(t, v) < v.rts)
      BY <2>1, <3>2 DEF NewRts, Larger
    <3>4. excused' = excused
      BY <2>2, <3>1, <3>3 DEF Get
    <3>5. QED
      BY <2>1, <3>4
  <2>3. CASE InsertLatest(t)
    BY <2>1, <2>3 DEF InsertLatest, Inv, Books, Forgets
  <2>4. CASE ~Get(t) /\ ~InsertLatest(t)
    BY <1>4, <2>1, <2>4 DEF Step, Begin, OwnWrite, Request, CheckLoad, Find, TryLock, Busy, Refuse,
       Retry, CommitBegin, Publish, Close, Unlock, Deinit, Remove, Abort, vars
  <2>5. QED
    BY <2>2, <2>3, <2>4
<1>5. QED
  BY <1>3, <1>4 DEF Next, Done

\* In the disk build the transactions are serializable in timestamp order
\* without exception: merge_mvcc_tuple keeps the larger read timestamp, so that
\* no older reader lets a writer in behind a later one.
THEOREM DiskSerial ==
  MvccAssumption =>
    (Spec /\ [](global_ts < Inf) =>
       [](build = "disk" => /\ Iso!InCommitOrder
                            /\ \A h \in hist : \A r \in h.reads : Iso!ValidAt(h, r)))
<1> SUFFICES ASSUME MvccAssumption
             PROVE  Spec /\ [](global_ts < Inf) =>
                      [](build = "disk" => /\ Iso!InCommitOrder
                                           /\ \A h \in hist : \A r \in h.reads : Iso!ValidAt(h, r))
  OBVIOUS
<1>1. Spec => []Inv
  BY Invariance
<1>2. Init => NothingExcused
  BY DEF Init, NothingExcused
<1>3. Inv /\ NothingExcused /\ [Next]_vars => NothingExcused'
  BY NextExcused
<1>4. Spec /\ [](global_ts < Inf) => []SerialByTimestamp
  BY SerialCommits
<1>5. SerialByTimestamp /\ NothingExcused =>
        (build = "disk" => /\ Iso!InCommitOrder
                           /\ \A h \in hist : \A r \in h.reads : Iso!ValidAt(h, r))
  BY DEF SerialByTimestamp, NothingExcused
<1>6. QED
  BY <1>1, <1>2, <1>3, <1>4, <1>5, PTL DEF Spec

=============================================================================
