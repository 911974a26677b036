----------------------- MODULE TwoPhaseLockingProofs -----------------------
(***************************************************************************)
(* Proofs about TwoPhaseLocking, for any threads, keys, programs and       *)
(* policies.  The lock entries refine shared-exclusive locks; this needs   *)
(* the types only.  That the loops of commit and abort release what was    *)
(* granted, and that no entry is freed under a user, are inductive         *)
(* together with the types: a reference count is a number only because no  *)
(* entry is given back twice.                                              *)
(* At the end: the batch lock of platform.c, BatchRwLock, implements the   *)
(* same abstract lock.                                                     *)
(***************************************************************************)
EXTENDS TwoPhaseLocking, TLAPS, FiniteSetTheorems

\* The inductive invariant.
Inv == TypeOK /\ LocksReleasable /\ EntriesCounted

-----------------------------------------------------------------------------
(* Sequences without repetition, and their elements.                       *)

\* A new element at the end.
LEMMA AppendElems ==
  ASSUME NEW S, NEW s \in Seq(S), NEW x \in S
  PROVE  /\ Elems(Append(s, x)) = Elems(s) \cup {x}
         /\ Distinct(s) /\ x \notin Elems(s) => Distinct(Append(s, x))
<1>1. Len(Append(s, x)) = Len(s) + 1 /\ Append(s, x)[Len(s) + 1] = x
  OBVIOUS
<1>2. \A i \in DOMAIN s : Append(s, x)[i] = s[i]
  OBVIOUS
<1>3. DOMAIN Append(s, x) = DOMAIN s \cup {Len(s) + 1}
  OBVIOUS
<1>4. QED
  BY <1>1, <1>2, <1>3 DEF Elems, Distinct

\* The first element and the others.
LEMMA HeadTailElems ==
  ASSUME NEW S, NEW s \in Seq(S), s # <<>>
  PROVE  /\ Head(s) \in S /\ Tail(s) \in Seq(S)
         /\ Elems(s) = Elems(Tail(s)) \cup {Head(s)}
         /\ Distinct(s) => Distinct(Tail(s)) /\ Head(s) \notin Elems(Tail(s))
<1>1. /\ Head(s) \in S /\ Tail(s) \in Seq(S) /\ Head(s) = s[1]
      /\ Len(s) \in Nat /\ Len(s) >= 1
  OBVIOUS
<1>2. DOMAIN Tail(s) = 1 .. Len(s) - 1 /\ \A i \in DOMAIN Tail(s) : Tail(s)[i] = s[i + 1]
  OBVIOUS
<1>3. \A i \in 1 .. Len(s) - 1 : i + 1 \in DOMAIN s
  BY <1>1
<1>4. \A i \in DOMAIN s : i = 1 \/ (i - 1 \in 1 .. Len(s) - 1 /\ s[i] = Tail(s)[i - 1])
  BY <1>1, <1>2
<1>5. Elems(s) = Elems(Tail(s)) \cup {Head(s)}
  <2>1. ASSUME NEW i \in DOMAIN s
        PROVE  s[i] \in Elems(Tail(s)) \cup {Head(s)}
    BY <1>1, <1>2, <1>4 DEF Elems
  <2>2. ASSUME NEW i \in DOMAIN Tail(s)
        PROVE  Tail(s)[i] \in Elems(s)
    BY <1>2, <1>3 DEF Elems
  <2>3. Head(s) \in Elems(s)
    BY <1>1 DEF Elems
  <2>4. QED
    BY <2>1, <2>2, <2>3 DEF Elems
<1>6. ASSUME Distinct(s)
      PROVE  Distinct(Tail(s)) /\ Head(s) \notin Elems(Tail(s))
  <2>1. \A i, j \in 1 .. Len(s) - 1 : s[i + 1] = s[j + 1] => i = j
    BY <1>3, <1>6 DEF Distinct
  <2>2. \A i \in 1 .. Len(s) - 1 : s[i + 1] # s[1]
    BY <1>1, <1>3, <1>6 DEF Distinct
  <2>3. QED
    BY <1>1, <1>2, <2>1, <2>2 DEF Distinct, Elems
<1>7. QED
  BY <1>1, <1>5, <1>6

\* The elements of a sequence are in its range.
LEMMA ElemsType ==
  ASSUME NEW S, NEW s \in Seq(S)
  PROVE  Elems(s) \subseteq S
BY DEF Elems

-----------------------------------------------------------------------------
(* The refinement.                                                         *)

\* A call that has still to be made is of a key.
LEMMA CallKeyType ==
  ASSUME TypeOK, NEW t \in Thread, calls[t] # <<>>
  PROVE  /\ CallKey(t) \in Key /\ Asked(t) \in {"read", "write"}
         /\ Tail(calls[t]) \in Seq(Op)
<1>1. calls[t] \in Seq(Op)
  BY DEF TypeOK
<1>2. Head(calls[t]) \in Op /\ Tail(calls[t]) \in Seq(Op)
  BY <1>1, HeadTailElems
<1>3. QED
  BY <1>2 DEF CallKey, Asked, Op

\* What a lock entry grants, the abstract locks allow.
LEMMA GrantAllowed ==
  ASSUME TypeOK, NEW t \in Thread, Grant(t), calls[t] # <<>>
  PROVE  Abs!Next \/ UNCHANGED owners
<1> DEFINE k == CallKey(t)
<1>1. k \in Key
  BY CallKeyType
<1>2. /\ Compatible(t, k)
      /\ owners' = [owners EXCEPT ![k][t] = Taken(t, k)]
  BY DEF Grant
<1>3. Asked(t) \in {"read", "write"}
  BY DEF Asked
<1>4. CASE owners[k][t] = "write" \/ (owners[k][t] = "read" /\ Asked(t) = "read")
  BY <1>1, <1>2, <1>4 DEF Taken, TypeOK
<1>5. CASE owners[k][t] = "free" /\ Asked(t) = "read"
  BY <1>1, <1>2, <1>5
     DEF Taken, Compatible, Rivals, Abs!Next, Abs!Share, Abs!Others, Abs!Free
<1>6. CASE owners[k][t] # "write" /\ Asked(t) = "write"
  BY <1>1, <1>2, <1>6
     DEF Taken, Compatible, Rivals, Abs!Next, Abs!Exclude, Abs!Others, Abs!Free
<1>7. QED
  BY <1>1, <1>3, <1>4, <1>5, <1>6 DEF TypeOK

\* Every step of the program is a step of the abstract locks, or none.
LEMMA StepImplements ==
  ASSUME Inv, [Next]_vars
  PROVE  [Abs!Next]_owners
<1>1. ASSUME NEW t \in Thread, Grant(t)
      PROVE  Abs!Next \/ UNCHANGED owners
  BY <1>1, GrantAllowed DEF Inv, LocksReleasable, Bookkeeping, Grant
<1>2. ASSUME NEW t \in Thread, Unlock(t)
      PROVE  Abs!Next \/ UNCHANGED owners
  <2>1. Head(todo[t]) \in Key
    BY <1>2, HeadTailElems DEF Inv, LocksReleasable, Bookkeeping, TypeOK, Unlock, Ending
  <2>2. QED
    BY <1>2, <2>1 DEF Unlock, ReleaseType, Abs!Next, Abs!Give
<1>3. CASE UNCHANGED vars
  BY <1>3 DEF vars, lockVars
<1>4. CASE Next
  BY <1>1, <1>2, <1>3, <1>4
     DEF Next, Finished, Step, Begin, Abort, OwnWrite, Request, Refuse, Wait,
         TimedOut, LookupRead, CommitBegin, Install, Remove, lockVars
<1>5. QED
  BY <1>3, <1>4

-----------------------------------------------------------------------------
(* The invariant.                                                          *)

\* Nothing of thread u changes, or it is woken.
Same(u) ==
  /\ pc'[u] = pc[u] \/ (pc[u] = "wait" /\ pc'[u] = "lock")
  /\ calls'[u] = calls[u] /\ order'[u] = order[u] /\ writes'[u] = writes[u]
  /\ todo'[u] = todo[u] /\ ending'[u] = ending[u]

\* Such a thread uses the entries it used and owns what it owned.
LEMMA SameThread ==
  ASSUME NEW u \in Thread, Same(u), Bookkeeping(u), LocksMatch(u),
         \A k \in Key : owners'[k][u] = owners[k][u]
  PROVE  /\ Entries(u)' = Entries(u)
         /\ Bookkeeping(u)' /\ LocksMatch(u)'
<1>1. /\ Entries(u)' = Entries(u) /\ Ending(u)' = Ending(u) /\ CallKey(u)' = CallKey(u)
      /\ Undecided(u)' = Undecided(u)
  BY DEF Same, Entries, Ending, Active, Undecided, CallKey
<1>2. Bookkeeping(u)'
  BY <1>1 DEF Same, Bookkeeping, Distinct
<1>3. Held(u)' = Held(u)
  BY <1>1 DEF Same, Held
<1>4. \A k \in Key : ReleaseType(u, k)' = ReleaseType(u, k)
  BY DEF Same, ReleaseType
<1>5. LocksMatch(u)'
  BY <1>1, <1>3, <1>4 DEF Same, LocksMatch
<1>6. QED
  BY <1>1, <1>2, <1>5

\* A step that leaves the other threads alone has to be looked at for its own
\* thread, and for the counts of the entries it takes or gives back.
LEMMA OwnStep ==
  ASSUME Inv, TypeOK', NEW t \in Thread, Bookkeeping(t)', LocksMatch(t)',
         \A u \in Thread \ {t} : Same(u) /\ \A k \in Key : owners'[k][u] = owners[k][u],
         \A k \in Key : \/ refs'[k] = refs[k] /\ (k \in Entries(t)' => k \in Entries(t))
                        \/ refs'[k] = refs[k] + 1
                        \/ refs'[k] = refs[k] - 1 /\ k \in Entries(t) /\ k \notin Entries(t)'
  PROVE  Inv'
<1>1. \A u \in Thread \ {t} :
        Entries(u)' = Entries(u) /\ Bookkeeping(u)' /\ LocksMatch(u)'
  BY SameThread DEF Inv, LocksReleasable
<1>2. ASSUME NEW k \in Key
      PROVE  (refs[k] >= Cardinality(Users(k)))'
  <2>1. Users(k)' \subseteq Users(k) \cup {t} /\ Users(k) \ {t} = Users(k)' \ {t}
    BY <1>1 DEF Users
  <2>2. /\ IsFiniteSet(Users(k)) /\ IsFiniteSet(Users(k)') /\ IsFiniteSet(Users(k) \ {t})
        /\ Cardinality(Users(k)) \in Nat /\ Cardinality(Users(k)') \in Nat
        /\ Cardinality(Users(k) \ {t}) \in Nat
    <3>1. Users(k) \subseteq Thread /\ Users(k)' \subseteq Thread
      BY DEF Users
    <3>2. QED
      BY <3>1, TwoPhaseAssumption, FS_Subset, FS_CardinalityType
  <2>3. /\ Cardinality(Users(k)) = Cardinality(Users(k) \ {t}) + (IF t \in Users(k) THEN 1 ELSE 0)
        /\ Cardinality(Users(k)') = Cardinality(Users(k) \ {t}) + (IF t \in Users(k)' THEN 1 ELSE 0)
    <3>1. \A S : IsFiniteSet(S) =>
            Cardinality(S) = Cardinality(S \ {t}) + (IF t \in S THEN 1 ELSE 0)
      <4>1. ASSUME NEW S, IsFiniteSet(S)
            PROVE  Cardinality(S) = Cardinality(S \ {t}) + (IF t \in S THEN 1 ELSE 0)
        <5>1. CASE t \in S
          <6>1. Cardinality(S \ {t}) = Cardinality(S) - 1 /\ Cardinality(S) \in Nat
            BY <4>1, <5>1, FS_RemoveElement, FS_CardinalityType
          <6>2. QED
            BY <5>1, <6>1
        <5>2. CASE t \notin S
          <6>1. Cardinality(S \ {t}) = Cardinality(S) /\ Cardinality(S) \in Nat
            BY <4>1, <5>2, FS_RemoveElement, FS_CardinalityType
          <6>2. QED
            BY <5>2, <6>1
        <5>3. QED
          BY <5>1, <5>2
      <4>2. QED
        BY <4>1
    <3>2. QED
      BY <2>1, <2>2, <3>1
  <2>4. refs[k] \in Nat /\ refs[k] >= Cardinality(Users(k)) /\ refs'[k] \in Nat
    BY DEF Inv, TypeOK, EntriesCounted
  <2>5. (t \in Users(k) <=> k \in Entries(t)) /\ (t \in Users(k)' <=> k \in Entries(t)')
    BY DEF Users
  <2>6. QED
    BY <2>2, <2>3, <2>4, <2>5
<1>3. QED
  BY <1>1, <1>2 DEF Inv, LocksReleasable, EntriesCounted

\* The first entry of a loop that has one left.
LEMMA LoopHead ==
  ASSUME Inv, NEW t \in Thread, Ending(t)
  PROVE  /\ todo[t] # <<>> /\ Head(todo[t]) \in Key /\ Tail(todo[t]) \in Seq(Key)
         /\ Elems(todo[t]) = Elems(Tail(todo[t])) \cup {Head(todo[t])}
         /\ Distinct(Tail(todo[t])) /\ Head(todo[t]) \notin Elems(Tail(todo[t]))
<1>1. todo[t] \in Seq(Key) /\ todo[t] # <<>> /\ Distinct(todo[t])
  BY DEF Inv, TypeOK, LocksReleasable, Bookkeeping
<1>2. QED
  BY <1>1, HeadTailElems

\* A key that a transaction uses has a reference.
LEMMA UsedCounted ==
  ASSUME Inv, NEW t \in Thread, NEW k \in Key, k \in Entries(t)
  PROVE  refs[k] - 1 \in Nat
<1>1. t \in Users(k) /\ Users(k) \subseteq Thread
  BY DEF Users
<1>2. IsFiniteSet(Users(k))
  BY <1>1, TwoPhaseAssumption, FS_Subset
<1>3. Cardinality(Users(k)) \in Nat /\ Cardinality(Users(k)) # 0
  BY <1>1, <1>2, FS_CardinalityType, FS_EmptySet
<1>4. QED
  BY <1>3 DEF Inv, EntriesCounted, TypeOK

\* What the head of a loop leaves behind.
LEMMA LoopBooks ==
  ASSUME Inv, NEW t \in Thread, NEW s \in Seq(Key), NEW e \in {"commit", "abort"},
         Distinct(s), Loop(t, s, e), order'[t] = order[t]
  PROVE  /\ todo' \in [Thread -> Seq(Key)] /\ ending' \in [Thread -> {"commit", "abort"}]
         /\ pc' \in [Thread -> Label]
         /\ todo'[t] = s /\ ending'[t] = e
         /\ Entries(t)' = Elems(s)
         /\ Bookkeeping(t)'
         /\ pc'[t] \in {"idle", "install", "unlock"}
<1>1. /\ todo'[t] = s /\ ending'[t] = e
      /\ pc'[t] = IF s = <<>> THEN "idle"
                  ELSE IF e = "commit" /\ Head(s) \in writes[t] THEN "install"
                  ELSE "unlock"
      /\ todo' \in [Thread -> Seq(Key)] /\ ending' \in [Thread -> {"commit", "abort"}]
      /\ pc' \in [Thread -> Label]
  BY DEF Loop, Goto, Inv, TypeOK, Label
<1>2. Distinct(order[t]) /\ Distinct(order[t])' /\ Distinct(todo[t])'
  BY <1>1 DEF Inv, LocksReleasable, Bookkeeping, Distinct
<1>3. s = <<>> => Elems(s) = {}
  BY DEF Elems
<1>4. QED
  BY <1>1, <1>2, <1>3 DEF Bookkeeping, Entries, Ending, Active

\* The initial states.
LEMMA InitInv == Init => Inv
<1> SUFFICES ASSUME Init PROVE Inv
  OBVIOUS
<1>1. TypeOK
  BY DEF Init, TypeOK, Label
<1>2. ASSUME NEW t \in Thread
      PROVE  Entries(t) = {} /\ Bookkeeping(t) /\ LocksMatch(t)
  <2>1. Entries(t) = {} /\ Held(t) = {} /\ Bookkeeping(t)
    BY DEF Init, Entries, Held, Ending, Active, Bookkeeping, Distinct
  <2>2. QED
    BY <2>1 DEF Init, LocksMatch
<1>3. ASSUME NEW k \in Key
      PROVE  refs[k] >= Cardinality(Users(k))
  <2>1. Users(k) = {}
    BY <1>2 DEF Users
  <2>2. Cardinality(Users(k)) = 0
    BY <2>1, FS_EmptySet
  <2>3. QED
    BY <2>2 DEF Init
<1>4. QED
  BY <1>1, <1>2, <1>3 DEF Inv, LocksReleasable, EntriesCounted

\* Begin takes no lock and no entry.
LEMMA BeginStep ==
  ASSUME Inv, NEW t \in Thread, Begin(t)
  PROVE  Inv'
<1>1. TypeOK'
  <2>1. count[t] + 1 \in 1 .. Len(Programs[t])
    BY DEF Begin, Inv, TypeOK, TwoPhaseAssumption
  <2>2. Programs[t] \in Seq(SUBSET Seq(Op))
    BY TwoPhaseAssumption
  <2>3. Programs[t][count[t] + 1] \subseteq Seq(Op)
    BY <2>1, <2>2
  <2>4. QED
    BY <2>3 DEF Begin, Goto, Inv, TypeOK, Label, lockVars
<1>2. /\ pc[t] = "idle" /\ pc'[t] = "run" /\ order'[t] = <<>> /\ todo'[t] = todo[t]
  BY DEF Begin, Active, Goto, Inv, TypeOK
<1>3. Elems(<<>>) = {} /\ Distinct(<<>>)
  BY DEF Elems, Distinct
<1>4. Entries(t)' = {} /\ Held(t)' = {} /\ Entries(t) = {}
  BY <1>2, <1>3 DEF Entries, Held, Ending, Active, Undecided
<1>5. Bookkeeping(t)'
  BY <1>2, <1>3 DEF Bookkeeping, Inv, LocksReleasable, Ending, Distinct
<1>6. LocksMatch(t)'
  BY <1>2, <1>4 DEF LocksMatch, Inv, LocksReleasable, Begin, lockVars
<1>7. \A u \in Thread \ {t} : Same(u)
  BY DEF Begin, Goto, Same, Inv, TypeOK
<1>8. QED
  BY <1>1, <1>4, <1>5, <1>6, <1>7, OwnStep DEF Begin, lockVars

\* A call on an own write takes nothing.
LEMMA OwnWriteStep ==
  ASSUME Inv, NEW t \in Thread, OwnWrite(t)
  PROVE  Inv'
<1>1. TypeOK'
  BY CallKeyType DEF OwnWrite, Calling, Return, Inv, TypeOK, lockVars
<1>2. /\ Entries(t)' = Entries(t) /\ Undecided(t)' = {} /\ Undecided(t) = {}
      /\ Held(t)' = Held(t)
  BY DEF OwnWrite, Calling, Entries, Held, Ending, Active, Undecided
<1>3. Bookkeeping(t)'
  BY DEF OwnWrite, Calling, Bookkeeping, Inv, LocksReleasable, Ending, Distinct
<1>4. LocksMatch(t)'
  BY <1>2 DEF OwnWrite, LocksMatch, Inv, LocksReleasable, lockVars, ReleaseType
<1>5. \A u \in Thread \ {t} : Same(u)
  BY DEF OwnWrite, Return, Same, Inv, TypeOK
<1>6. QED
  BY <1>1, <1>2, <1>3, <1>4, <1>5, OwnStep DEF OwnWrite, lockVars

\* A request takes the entry, and no lock yet.
LEMMA RequestStep ==
  ASSUME Inv, NEW t \in Thread, Request(t)
  PROVE  Inv'
<1> DEFINE k == CallKey(t)
<1>1. k \in Key /\ k \notin writes[t] /\ order[t] \in Seq(Key) /\ pc[t] = "run" /\ calls[t] # <<>>
  BY CallKeyType DEF Request, Calling, Inv, TypeOK
<1>2. /\ Elems(order'[t]) = Elems(order[t]) \cup {k} /\ order'[t] \in Seq(Key)
      /\ Distinct(order[t])' /\ pc'[t] = "lock"
  <2>1. Distinct(order[t])
    BY DEF Inv, LocksReleasable, Bookkeeping
  <2>2. CASE k \in Elems(order[t])
    BY <1>1, <2>1, <2>2 DEF Request, Goto, Inv, TypeOK, Distinct
  <2>3. CASE k \notin Elems(order[t])
    <3>1. order'[t] = Append(order[t], k) /\ pc'[t] = "lock"
      BY <2>3 DEF Request, Goto, Inv, TypeOK
    <3>2. Distinct(order'[t]) /\ Elems(order'[t]) = Elems(order[t]) \cup {k}
      BY <1>1, <2>1, <2>3, <3>1, AppendElems
    <3>3. QED
      BY <1>1, <3>1, <3>2 DEF Distinct
  <2>4. QED
    BY <2>2, <2>3
<1>3. TypeOK'
  <2>1. \/ refs' = refs /\ order' = order
        \/ /\ refs' = [refs EXCEPT ![k] = @ + 1]
           /\ order' = [order EXCEPT ![t] = Append(@, k)]
    BY DEF Request
  <2>2. Append(order[t], k) \in Seq(Key)
    BY <1>1
  <2>3. order' \in [Thread -> Seq(Key)] /\ refs' \in [Key -> Nat]
    <3>1. order \in [Thread -> Seq(Key)] /\ refs \in [Key -> Nat]
      BY DEF Inv, TypeOK
    <3> HIDE DEF k
    <3>2. CASE refs' = refs /\ order' = order
      BY <3>1, <3>2
    <3>3. CASE /\ refs' = [refs EXCEPT ![k] = @ + 1]
               /\ order' = [order EXCEPT ![t] = Append(@, k)]
      BY <1>1, <2>2, <3>1, <3>3
    <3>4. QED
      BY <2>1, <3>2, <3>3
  <2>4. QED
    BY <2>3 DEF Request, Goto, Inv, TypeOK, Label
<1>4. /\ Entries(t) = Elems(order[t]) /\ Entries(t)' = Elems(order[t]) \cup {k}
      /\ Held(t) = Entries(t) /\ Held(t)' = Entries(t) \ {k}
  BY <1>1, <1>2 DEF Request, Entries, Held, Ending, Active, Undecided, CallKey
<1>5. Bookkeeping(t)'
  BY <1>1, <1>2 DEF Request, Bookkeeping, Inv, LocksReleasable, Ending, Distinct, CallKey
<1>6. LocksMatch(t)'
  BY <1>1, <1>2, <1>4 DEF Request, LocksMatch, Inv, LocksReleasable, ReleaseType
<1>7. \A u \in Thread \ {t} : Same(u)
  BY DEF Request, Goto, Same, Inv, TypeOK
<1>8. \A j \in Key : \/ refs'[j] = refs[j] /\ (j \in Entries(t)' => j \in Entries(t))
                     \/ refs'[j] = refs[j] + 1
  BY <1>1, <1>4 DEF Request, Inv, TypeOK
<1>9. QED
  BY <1>3, <1>5, <1>6, <1>7, <1>8, OwnStep DEF Request

\* A grant gives what the end of the transaction will release.
LEMMA GrantStep ==
  ASSUME Inv, NEW t \in Thread, Grant(t)
  PROVE  Inv'
<1> DEFINE k == CallKey(t)
<1>1. /\ pc[t] = "lock" /\ calls[t] # <<>>
      /\ k \in Key /\ k \in Elems(order[t]) /\ k \notin writes[t]
      /\ Asked(t) \in {"read", "write"} /\ Tail(calls[t]) \in Seq(Op)
  BY CallKeyType DEF Grant, Inv, LocksReleasable, Bookkeeping
<1>2. /\ owners' = [owners EXCEPT ![k][t] = Taken(t, k)]
      /\ order' = order /\ todo' = todo /\ ending' = ending /\ refs' = refs
  BY DEF Grant
<1>3. Entries(t) = Elems(order[t]) /\ Held(t) = Elems(order[t]) \ {k}
  BY <1>1 DEF Entries, Ending, Active, Held, Undecided
<1>4. owners[k][t] \in {"free", "read"}
  BY <1>1 DEF Inv, LocksReleasable, LocksMatch, ReleaseType
<1>5. Taken(t, k) = Asked(t)
  BY <1>4 DEF Taken
<1>6. /\ TypeOK'
      /\ pc'[t] \in {"read", "run"} /\ (pc'[t] = "read" => calls' = calls)
      /\ writes'[t] = IF Asked(t) = "write" THEN writes[t] \cup {k} ELSE writes[t]
      /\ \A u \in Thread \ {t} : Same(u)
  <2>1. owners' \in [Key -> [Thread -> {"free", "read", "write"}]]
    BY <1>1, <1>2, <1>5 DEF Inv, TypeOK
  <2>2. CASE Asked(t) = "read"
    <3>1. pc' = [pc EXCEPT ![t] = "read"] /\ calls' = calls /\ writes' = writes
      BY <2>2 DEF Grant, Goto
    <3>2. QED
      BY <1>1, <1>2, <2>1, <2>2, <3>1 DEF Grant, Same, Inv, TypeOK, Label
  <2>3. CASE Asked(t) = "write"
    <3>1. /\ pc' = [pc EXCEPT ![t] = "run"]
          /\ calls' = [calls EXCEPT ![t] = Tail(@)]
          /\ writes' = [writes EXCEPT ![t] = @ \cup {k}]
      BY <2>3 DEF Grant, Goto, Return
    <3>2. /\ writes' \in [Thread -> SUBSET Key]
          /\ calls' \in [Thread -> Seq(Op)]
          /\ pc' \in [Thread -> Label]
      BY <1>1, <3>1 DEF Inv, TypeOK, Label
    <3>3. TypeOK'
      BY <1>2, <2>1, <3>2 DEF Grant, Inv, TypeOK
    <3>4. /\ pc'[t] = "run" /\ writes'[t] = writes[t] \cup {k}
          /\ \A u \in Thread \ {t} : Same(u)
      BY <1>2, <3>1 DEF Same, Inv, TypeOK
    <3>5. QED
      BY <2>3, <3>3, <3>4
  <2>4. QED
    BY <1>1, <2>2, <2>3
<1>7. Entries(t)' = Elems(order[t]) /\ Held(t)' = Elems(order[t])
  BY <1>2, <1>6 DEF Entries, Ending, Active, Held, Undecided
<1>8. Bookkeeping(t)'
  BY <1>1, <1>2, <1>6 DEF Bookkeeping, Inv, LocksReleasable, Ending, Distinct
<1>9. ASSUME NEW j \in Key
      PROVE  /\ owners'[j][t] = IF j = k THEN Asked(t) ELSE owners[j][t]
             /\ ReleaseType(t, j)' = IF j = k THEN Asked(t) ELSE ReleaseType(t, j)
  <2>1. owners'[j][t] = IF j = k THEN Asked(t) ELSE owners[j][t]
    BY <1>1, <1>2, <1>5 DEF Inv, TypeOK
  <2>2. ReleaseType(t, j)' = IF j = k THEN Asked(t) ELSE ReleaseType(t, j)
    BY <1>1, <1>6 DEF ReleaseType
  <2>3. QED
    BY <2>1, <2>2
<1>10. LocksMatch(t)'
  BY <1>1, <1>3, <1>6, <1>7, <1>9 DEF LocksMatch, Inv, LocksReleasable
<1>11. \A u \in Thread \ {t} : \A j \in Key : owners'[j][u] = owners[j][u]
  BY <1>1, <1>2 DEF Inv, TypeOK
<1>12. QED
  BY <1>2, <1>3, <1>6, <1>7, <1>8, <1>10, <1>11, OwnStep

\* A step of control alone: no lock, no entry, no message.
LEMMA ControlStep ==
  ASSUME Inv, TypeOK', NEW t \in Thread, Bookkeeping(t)',
         Entries(t)' = Entries(t), Held(t)' \subseteq Held(t),
         pc[t] # "remove", pc'[t] # "remove",
         \A u \in Thread \ {t} : Same(u),
         writes'[t] = writes[t], owners' = owners, refs' = refs
  PROVE  Inv'
<1>1. LocksMatch(t)'
  BY DEF LocksMatch, Inv, LocksReleasable, ReleaseType
<1>2. QED
  BY <1>1, OwnStep

\* Waiting and the end of waiting.
LEMMA WaitStep ==
  ASSUME Inv, NEW t \in Thread, Wait(t) \/ TimedOut(t)
  PROVE  Inv'
<1>1. /\ pc[t] \in {"lock", "wait"} /\ pc'[t] \in {"lock", "wait"}
      /\ calls' = calls /\ order' = order /\ writes' = writes /\ todo' = todo
      /\ ending' = ending /\ owners' = owners /\ refs' = refs
  BY DEF Wait, TimedOut, Goto, Inv, TypeOK, lockVars, txnVars
<1>2. TypeOK'
  BY DEF Wait, TimedOut, Goto, Inv, TypeOK, Label, lockVars, txnVars
<1>3. Entries(t)' = Entries(t) /\ Held(t)' = Held(t)
  BY <1>1 DEF Entries, Ending, Active, Held, Undecided, CallKey
<1>4. Bookkeeping(t)'
  BY <1>1 DEF Bookkeeping, Inv, LocksReleasable, Ending, Distinct, CallKey
<1>5. \A u \in Thread \ {t} : Same(u)
  BY <1>1 DEF Wait, TimedOut, Goto, Same, Inv, TypeOK
<1>6. QED
  BY <1>1, <1>2, <1>3, <1>4, <1>5, ControlStep

\* A lookup reads.
LEMMA LookupReadStep ==
  ASSUME Inv, NEW t \in Thread, LookupRead(t)
  PROVE  Inv'
<1>1. /\ pc[t] = "read" /\ pc'[t] = "run" /\ calls[t] # <<>>
      /\ CallKey(t) \in Key /\ Tail(calls[t]) \in Seq(Op)
      /\ order' = order /\ writes' = writes /\ todo' = todo
      /\ ending' = ending /\ owners' = owners /\ refs' = refs
  BY CallKeyType DEF LookupRead, Goto, Inv, TypeOK, lockVars, LocksReleasable, Bookkeeping
<1>2. TypeOK'
  <2>1. [key |-> CallKey(t), ver |-> Len(db[CallKey(t)])] \in Read
    BY <1>1 DEF Inv, TypeOK, Read
  <2>2. QED
    BY <1>1, <2>1 DEF LookupRead, Return, Goto, Inv, TypeOK, Label, lockVars
<1>3. Entries(t)' = Entries(t) /\ Held(t)' = Held(t)
  BY <1>1 DEF Entries, Ending, Active, Held, Undecided
<1>4. Bookkeeping(t)'
  BY <1>1 DEF Bookkeeping, Inv, LocksReleasable, Ending, Distinct
<1>5. \A u \in Thread \ {t} : Same(u)
  BY <1>1 DEF LookupRead, Return, Goto, Same, Inv, TypeOK
<1>6. QED
  BY <1>1, <1>2, <1>3, <1>4, <1>5, ControlStep

\* The loops of commit and abort begin.
LEMMA LoopStep ==
  ASSUME Inv, NEW t \in Thread, Refuse(t) \/ CommitBegin(t) \/ Abort(t)
  PROVE  Inv'
<1> PICK e \in {"commit", "abort"} :
      /\ Loop(t, order[t], e)
      /\ pc[t] = "lock" \/ (pc[t] = "run" /\ (e = "commit" => calls[t] = <<>>))
      /\ pc[t] = "lock" => e = "abort"
  BY DEF Refuse, CommitBegin, Abort
<1>1. /\ calls' = calls /\ order' = order /\ writes' = writes
      /\ owners' = owners /\ refs' = refs
  BY DEF Refuse, CommitBegin, Abort, lockVars, txnVars
<1>2. order[t] \in Seq(Key) /\ Distinct(order[t]) /\ (pc[t] = "lock" => calls[t] # <<>>)
  BY DEF Inv, TypeOK, LocksReleasable, Bookkeeping
<1>3. /\ todo' \in [Thread -> Seq(Key)] /\ ending' \in [Thread -> {"commit", "abort"}]
      /\ pc' \in [Thread -> Label]
      /\ todo'[t] = order[t] /\ ending'[t] = e
      /\ Entries(t)' = Elems(order[t])
      /\ Bookkeeping(t)'
      /\ pc'[t] \in {"idle", "install", "unlock"}
  BY <1>1, <1>2, LoopBooks
<1>4. TypeOK'
  <2>1. [id |-> Id(t), cts |-> ts[t], reads |-> reads[t]] \in Commit
    BY DEF Inv, TypeOK, Commit, Id, Txn
  <2>2. QED
    BY <1>3, <2>1 DEF Refuse, CommitBegin, Abort, Inv, TypeOK, lockVars, txnVars
<1>5. Entries(t) = Elems(order[t]) /\ Held(t) = Elems(order[t]) \ Undecided(t)
  BY DEF Entries, Ending, Active, Held
<1>6. Held(t)' \subseteq Held(t)
  BY <1>1, <1>2, <1>3, <1>5 DEF Held, Undecided, Ending, CallKey, Entries, Active
<1>7. \A u \in Thread \ {t} : Same(u)
  BY <1>1 DEF Loop, Goto, Same, Inv, TypeOK
<1>8. QED
  BY <1>1, <1>3, <1>4, <1>5, <1>6, <1>7, ControlStep

\* A value is stored.
LEMMA InstallStep ==
  ASSUME Inv, NEW t \in Thread, Install(t)
  PROVE  Inv'
<1>1. /\ pc[t] = "install" /\ pc'[t] = "unlock"
      /\ calls' = calls /\ order' = order /\ writes' = writes /\ todo' = todo
      /\ ending' = ending /\ owners' = owners /\ refs' = refs
  BY DEF Install, Goto, Inv, TypeOK, lockVars, txnVars
<1>2. TypeOK'
  <2>1. Head(todo[t]) \in Key /\ Id(t) \in Txn
    BY <1>1, LoopHead DEF Ending, Id, Txn, Inv, TypeOK
  <2>2. Append(db[Head(todo[t])], Id(t)) \in Seq(Txn)
    BY <2>1 DEF Inv, TypeOK
  <2>3. QED
    BY <2>1, <2>2 DEF Install, Goto, Inv, TypeOK, Label, lockVars, txnVars
<1>3. Entries(t)' = Entries(t) /\ Held(t)' = Held(t)
  BY <1>1 DEF Entries, Ending, Active, Held, Undecided, CallKey
<1>4. Bookkeeping(t)'
  BY <1>1 DEF Bookkeeping, Inv, LocksReleasable, Ending, Distinct, CallKey
<1>5. \A u \in Thread \ {t} : Same(u)
  BY <1>1 DEF Install, Goto, Same, Inv, TypeOK
<1>6. QED
  BY <1>1, <1>2, <1>3, <1>4, <1>5, ControlStep

\* A request that was refused holds nothing to release: a lock that is not of
\* the type an entry is released with is not held at all.
LEMMA RefusedFree ==
  ASSUME Inv, NEW t \in Thread, NEW k \in Key, owners[k][t] # ReleaseType(t, k)
  PROVE  owners[k][t] = "free"
BY DEF Inv, LocksReleasable, LocksMatch

\* A lock is given back, and those who wait for it are woken.
LEMMA UnlockStep ==
  ASSUME Inv, NEW t \in Thread, Unlock(t)
  PROVE  Inv'
<1> DEFINE k == Head(todo[t])
<1>1. /\ pc[t] = "unlock" /\ refs' = refs /\ txnVars' = txnVars
      /\ order' = order /\ calls' = calls /\ writes' = writes
      /\ Ending(t)
  BY DEF Unlock, Ending, txnVars
<1>2. /\ todo[t] # <<>> /\ k \in Key /\ Tail(todo[t]) \in Seq(Key)
      /\ Elems(todo[t]) = Elems(Tail(todo[t])) \cup {k}
      /\ Distinct(Tail(todo[t])) /\ k \notin Elems(Tail(todo[t]))
  BY <1>1, LoopHead
<1>3. Entries(t) = Elems(todo[t]) /\ Held(t) = Elems(todo[t]) \ Undecided(t)
  BY <1>1 DEF Entries, Held
<1>4. CASE owners[k][t] = ReleaseType(t, k)
  <2>1. /\ owners' = [owners EXCEPT ![k][t] = "free"]
        /\ pc' = [u \in Thread |-> IF u = t THEN "remove"
                                ELSE IF u \in Woken(k) THEN "lock" ELSE pc[u]]
        /\ todo' = todo /\ ending' = ending
    BY <1>4 DEF Unlock
  <2>2. pc'[t] = "remove" /\ Ending(t)'
    <3>1. pc'[t] = "remove"
      BY <2>1
    <3>2. QED
      BY <3>1 DEF Ending
  <2>3. \A u \in Thread \ {t} : Same(u)
    BY <1>1, <2>1 DEF Same, Woken
  <2>4. TypeOK'
    <3>1. pc' \in [Thread -> Label]
      BY <2>1 DEF Inv, TypeOK, Label
    <3>2. owners' \in [Key -> [Thread -> {"free", "read", "write"}]]
      BY <1>2, <2>1 DEF Inv, TypeOK
    <3>3. QED
      BY <2>1, <3>1, <3>2 DEF Unlock, Inv, TypeOK, txnVars
  <2>5. Entries(t)' = Entries(t) /\ Held(t)' \subseteq Held(t) \ {k}
    BY <1>1, <1>2, <1>3, <2>1, <2>2 DEF Entries, Held, Undecided, Ending, CallKey
  <2>6. Bookkeeping(t)'
    BY <1>1, <1>2, <2>1, <2>2 DEF Bookkeeping, Inv, LocksReleasable, Distinct
  <2>7. /\ owners'[k][t] = "free"
        /\ \A j \in Key \ {k} : owners'[j][t] = owners[j][t]
        /\ \A j \in Key : \A u \in Thread \ {t} : owners'[j][u] = owners[j][u]
    BY <1>2, <2>1 DEF Inv, TypeOK
  <2>8. LocksMatch(t)'
    BY <1>1, <2>1, <2>5, <2>7 DEF LocksMatch, Inv, LocksReleasable, ReleaseType
  <2>9. QED
    BY <1>1, <2>3, <2>4, <2>5, <2>6, <2>7, <2>8, OwnStep
<1>5. CASE owners[k][t] # ReleaseType(t, k)
  <2>1. Loop(t, Tail(todo[t]), ending[t]) /\ owners' = owners
    BY <1>5 DEF Unlock
  <2>2. owners[k][t] = "free"
    BY <1>2, <1>5, RefusedFree
  <2>3. ending[t] \in {"commit", "abort"}
    BY DEF Inv, TypeOK
  <2>4. /\ todo' \in [Thread -> Seq(Key)] /\ ending' \in [Thread -> {"commit", "abort"}]
        /\ pc' \in [Thread -> Label]
        /\ todo'[t] = Tail(todo[t]) /\ ending'[t] = ending[t]
        /\ Entries(t)' = Elems(Tail(todo[t]))
        /\ Bookkeeping(t)'
        /\ pc'[t] \in {"idle", "install", "unlock"}
    BY <1>1, <1>2, <2>1, <2>3, LoopBooks
  <2>5. TypeOK'
    BY <2>1, <2>4 DEF Unlock, Inv, TypeOK, txnVars
  <2>6. Held(t)' \subseteq Held(t)
    BY <1>1, <1>2, <1>3, <2>4 DEF Held, Undecided, Ending, CallKey, Entries, Active
  <2>7. LocksMatch(t)'
    BY <1>1, <1>2, <1>3, <2>1, <2>2, <2>4, <2>6 DEF LocksMatch, Inv, LocksReleasable, ReleaseType
  <2>8. \A u \in Thread \ {t} : Same(u)
    BY <1>1, <2>1 DEF Loop, Goto, Same, Inv, TypeOK
  <2>9. \A j \in Key : j \in Entries(t)' => j \in Entries(t)
    BY <1>2, <1>3, <2>4
  <2>10. QED
    BY <1>1, <2>1, <2>4, <2>5, <2>7, <2>8, <2>9, OwnStep
<1>6. QED
  BY <1>4, <1>5

\* An entry is given back to the lock table.
LEMMA RemoveStep ==
  ASSUME Inv, NEW t \in Thread, Remove(t)
  PROVE  Inv'
<1> DEFINE k == Head(todo[t])
<1>1. /\ pc[t] = "remove" /\ Ending(t) /\ Loop(t, Tail(todo[t]), ending[t])
      /\ refs' = [refs EXCEPT ![k] = @ - 1] /\ owners' = owners
      /\ order' = order /\ calls' = calls /\ writes' = writes
  BY DEF Remove, Ending, txnVars
<1>2. /\ todo[t] # <<>> /\ k \in Key /\ Tail(todo[t]) \in Seq(Key)
      /\ Elems(todo[t]) = Elems(Tail(todo[t])) \cup {k}
      /\ Distinct(Tail(todo[t])) /\ k \notin Elems(Tail(todo[t]))
  BY <1>1, LoopHead
<1>3. /\ Entries(t) = Elems(todo[t]) /\ Held(t) = Elems(Tail(todo[t])) \ Undecided(t)
      /\ owners[k][t] = "free"
  BY <1>1, <1>2 DEF Entries, Held, Inv, LocksReleasable, LocksMatch
<1>4. ending[t] \in {"commit", "abort"}
  BY DEF Inv, TypeOK
<1>5. /\ todo' \in [Thread -> Seq(Key)] /\ ending' \in [Thread -> {"commit", "abort"}]
      /\ pc' \in [Thread -> Label]
      /\ todo'[t] = Tail(todo[t]) /\ ending'[t] = ending[t]
      /\ Entries(t)' = Elems(Tail(todo[t]))
      /\ Bookkeeping(t)'
      /\ pc'[t] \in {"idle", "install", "unlock"}
  BY <1>1, <1>2, <1>4, LoopBooks
<1>6. TypeOK'
  <2>1. refs[k] - 1 \in Nat
    BY <1>2, <1>3, UsedCounted
  <2>2. refs' \in [Key -> Nat]
    BY <1>1, <1>2, <2>1 DEF Inv, TypeOK
  <2>3. QED
    BY <1>5, <2>2 DEF Remove, Inv, TypeOK, txnVars
<1>7. Held(t)' \subseteq Held(t)
  BY <1>1, <1>2, <1>3, <1>5 DEF Held, Undecided, Ending, CallKey, Entries, Active
<1>8. LocksMatch(t)'
  BY <1>1, <1>2, <1>3, <1>5, <1>7 DEF LocksMatch, Inv, LocksReleasable, ReleaseType
<1>9. \A u \in Thread \ {t} : Same(u)
  BY <1>1 DEF Loop, Goto, Same, Inv, TypeOK
<1>10. \A j \in Key : \/ refs'[j] = refs[j] /\ (j \in Entries(t)' => j \in Entries(t))
                      \/ refs'[j] = refs[j] - 1 /\ j \in Entries(t) /\ j \notin Entries(t)'
  BY <1>1, <1>2, <1>3, <1>5 DEF Inv, TypeOK
<1>11. QED
  BY <1>1, <1>5, <1>6, <1>8, <1>9, <1>10, OwnStep

\* Every step preserves the invariant.
LEMMA NextInv == Inv /\ [Next]_vars => Inv'
<1> SUFFICES ASSUME Inv, [Next]_vars PROVE Inv'
  OBVIOUS
<1>1. CASE UNCHANGED vars
  <2>1. TypeOK'
    BY <1>1 DEF Inv, TypeOK, vars, lockVars, txnVars
  <2>2. \A u \in Thread : Same(u) /\ \A k \in Key : owners'[k][u] = owners[k][u]
    BY <1>1 DEF vars, lockVars, txnVars, Same
  <2>3. \A u \in Thread : Entries(u)' = Entries(u) /\ Bookkeeping(u)' /\ LocksMatch(u)'
    BY <2>2, SameThread DEF Inv, LocksReleasable
  <2>4. \A k \in Key : Users(k)' = Users(k)
    BY <2>3 DEF Users
  <2>5. EntriesCounted'
    BY <1>1, <2>4 DEF Inv, EntriesCounted, vars, lockVars
  <2>6. QED
    BY <2>1, <2>3, <2>5 DEF Inv, LocksReleasable
<1>2. ASSUME NEW t \in Thread, Step(t)
      PROVE  Inv'
  BY <1>2, OwnWriteStep, RequestStep, GrantStep, LoopStep, WaitStep,
     LookupReadStep, InstallStep, UnlockStep, RemoveStep DEF Step
<1>3. ASSUME NEW t \in Thread, Begin(t) \/ Abort(t)
      PROVE  Inv'
  BY <1>3, BeginStep, LoopStep
<1>4. QED
  BY <1>1, <1>2, <1>3 DEF Next, Finished

\* The invariant holds throughout.
THEOREM Invariance == Spec => []Inv
<1>1. QED
  BY InitInv, NextInv, TwoPhaseAssumption, PTL DEF Spec

\* Every variable keeps its type; a reference count does not go below zero.
THEOREM TypeCorrectness == Spec => []TypeOK
<1>1. Inv => TypeOK
  BY DEF Inv
<1>2. QED
  BY <1>1, Invariance, PTL

\* The loops of commit and abort release exactly what the transaction was
\* granted, whatever the policy, and a lock never outlives its transaction.
THEOREM ReleaseCorrectness == Spec => []LocksReleasable
<1>1. Inv => LocksReleasable
  BY DEF Inv
<1>2. QED
  BY <1>1, Invariance, PTL

\* No lock entry is freed while a transaction points to it.
THEOREM EntriesSafe == Spec => []EntriesCounted
<1>1. Inv => EntriesCounted
  BY DEF Inv
<1>2. QED
  BY <1>1, Invariance, PTL

\* Under each of the three policies the lock entries are shared-exclusive locks:
\* the program implements SharedExclusive.
THEOREM Refinement == Spec => LocksImplement
<1>1. Init => Abs!Init
  BY DEF Init, Abs!Init
<1>2. Inv /\ [Next]_vars => [Abs!Next]_owners
  BY StepImplements
<1>3. QED
  BY <1>1, <1>2, Invariance, PTL DEF Spec, LocksImplement, Abs!Spec

\* The assertion at the head of every _lock: a write lock has one owner.
THEOREM WriterAlone == Spec => []Abs!Exclusion
<1>1. Init => Abs!Exclusion
  BY DEF Init, Abs!Exclusion
<1>2. Inv /\ Abs!Exclusion /\ [Abs!Next]_owners => Abs!Exclusion'
  <2> SUFFICES ASSUME Inv, Abs!Exclusion, Abs!Next PROVE Abs!Exclusion'
    BY DEF Abs!Exclusion
  <2> PICK k \in Key, o \in Thread : Abs!Share(k, o) \/ Abs!Exclude(k, o) \/ Abs!Give(k, o)
    BY DEF Abs!Next
  <2>1. owners \in [Key -> [Thread -> {"free", "read", "write"}]]
    BY DEF Inv, TypeOK
  <2>2. CASE Abs!Share(k, o)
    BY <2>1, <2>2 DEF Abs!Exclusion, Abs!Share, Abs!Others, Abs!Free
  <2>3. CASE Abs!Exclude(k, o)
    <3>1. /\ owners' = [owners EXCEPT ![k][o] = "write"]
          /\ \A p \in Thread \ {o} : owners[k][p] = "free"
      BY <2>3 DEF Abs!Exclude, Abs!Others, Abs!Free
    <3>2. QED
      BY <2>1, <3>1 DEF Abs!Exclusion
  <2>4. CASE Abs!Give(k, o)
    BY <2>1, <2>4 DEF Abs!Exclusion, Abs!Give
  <2>5. QED
    BY <2>2, <2>3, <2>4
<1>3. Inv /\ Abs!Exclusion /\ [Next]_vars => Abs!Exclusion'
  BY <1>2, StepImplements
<1>4. QED
  BY <1>1, <1>3, Invariance, PTL DEF Spec

\* Whoever owns a lock is running, or not through with its end.
LEMMA OwnersActive ==
  ASSUME Inv, NEW t \in Thread, NEW k \in Key, owners[k][t] # "free"
  PROVE  Active(t)
<1>1. k \in Entries(t)
  BY DEF Inv, LocksReleasable, LocksMatch
<1>2. QED
  BY <1>1 DEF Entries, Ending, Active

\* A step of a policy that lets transactions wait spares the oldest.
LEMMA SparesOldest ==
  ASSUME Inv, Next, policy # "no_wait",
         NEW t \in Thread, Oldest(t), ~wounded[t]
  PROVE  ~wounded'[t] /\ ~Refuse(t)
<1>1. /\ wounded \in [Thread -> BOOLEAN] /\ ts \in [Thread -> Nat] /\ policy \in Policies
      /\ Active(t) /\ \A u \in Thread : Active(u) => ts[t] <= ts[u]
  BY DEF Inv, TypeOK, Oldest
<1>2. ~Refuse(t)
  <2>1. ASSUME Refuse(t) PROVE FALSE
    <3>1. pc[t] = "lock" /\ Dies(t, CallKey(t)) /\ CallKey(t) \in Key
      BY <2>1, CallKeyType DEF Refuse, Inv, LocksReleasable, Bookkeeping
    <3>2. policy \in {"wait_die", "wound_wait"}
      BY <1>1, TwoPhaseAssumption
    <3>3. Older(t, CallKey(t)) # {}
      BY <3>1, <3>2 DEF Dies
    <3>4. PICK u \in Thread : owners[CallKey(t)][u] # "free" /\ ts[u] < ts[t]
      BY <3>3 DEF Older, Rivals
    <3>5. ts[t] <= ts[u]
      BY <1>1, <3>1, <3>4, OwnersActive
    <3>6. QED
      BY <1>1, <3>4, <3>5
  <2>2. QED
    BY <2>1
<1>3. CASE \E u \in Thread : Wait(u)
  <2>1. PICK u \in Thread : Wait(u)
    BY <1>3
  <2>2. Active(u) /\ ts[t] <= ts[u]
    BY <1>1, <2>1 DEF Wait, Active
  <2>3. t \notin Younger(u, CallKey(u))
    BY <1>1, <2>2 DEF Younger
  <2>4. QED
    BY <1>2, <2>1, <2>3 DEF Wait
<1>4. CASE \E u \in Thread : Begin(u)
  BY <1>1, <1>2, <1>4 DEF Begin
<1>5. CASE ~\E u \in Thread : Wait(u) \/ Begin(u)
  <2>1. wounded' = wounded
    BY <1>5 DEF Next, Finished, vars, txnVars, Step, OwnWrite, Request, Grant, Refuse, TimedOut,
       LookupRead, CommitBegin, Install, Unlock, Remove, Abort
  <2>2. QED
    BY <1>2, <2>1
<1>6. QED
  BY <1>3, <1>4, <1>5

\* No policy that lets transactions wait aborts the oldest of those running, or
\* wounds it, for any number of threads and keys.
THEOREM OldestSpared == Spec => OldestSurvives
<1>1. Inv /\ [Next]_vars =>
        [policy # "no_wait" => \A t \in Thread :
           Oldest(t) /\ ~wounded[t] => ~wounded'[t] /\ ~Refuse(t)]_vars
  BY SparesOldest, TwoPhaseAssumption
<1>2. QED
  BY <1>1, Invariance, TwoPhaseAssumption, PTL DEF Spec, OldestSurvives

-----------------------------------------------------------------------------
(***************************************************************************)
(* Two-phase locking is serializable: TwoPhaseLocking's property, for any  *)
(* threads, keys, programs and policies.                                   *)
(*                                                                         *)
(* The serial order is the order in which transactions begin to commit.    *)
(* What they are still to write counts as written from there on: no other  *)
(* transaction can read or write such a key before it is stored.  So what  *)
(* a commit adds to the conflicts leads to the new transaction and never   *)
(* from it: whatever it has read is still current, under locks it has not  *)
(* given back.                                                             *)
(***************************************************************************)

\* The keys a committing transaction has still to write.
Unwritten(t) ==
  IF ~Ending(t) \/ ending[t] = "abort" THEN {}
  ELSE writes[t] \cap Elems(IF pc[t] = "install" THEN todo[t] ELSE Tail(todo[t]))

\* The versions of a key, with the one that is still to be written.
Writer(k) == CHOOSE u \in Thread : k \in Unwritten(u)
Versions ==
  [k \in Key |-> IF \E u \in Thread : k \in Unwritten(u)
                 THEN Append(db[k], Id(Writer(k))) ELSE db[k]]

\* A direct conflict of a with b when the versions are d, and its absence in
\* cycles: Isolation's definitions, as operators of d.
Edge(d, a, b) ==
  \/ \E k \in Key : \E i, j \in DOMAIN d[k] :
       i < j /\ d[k][i] = a.id /\ d[k][j] = b.id
  \/ \E r \in b.reads : \E i \in DOMAIN d[r.key] : i <= r.ver /\ d[r.key][i] = a.id
  \/ \E r \in a.reads : \E j \in DOMAIN d[r.key] : j > r.ver /\ d[r.key][j] = b.id

NoCycle(d, H) ==
  ~\E S \in SUBSET H : S # {} /\ \A a \in S : \E b \in S \ {a} : Edge(d, a, b)

\* A transaction from which no conflict leads on closes no cycle.
LEMMA AddLast ==
  ASSUME NEW d, NEW e, NEW H, NEW n, NoCycle(d, H),
         \A a, b \in H : Edge(e, a, b) => Edge(d, a, b),
         \A b \in H : b # n => ~Edge(e, n, b)
  PROVE  NoCycle(e, H \cup {n})
<1> SUFFICES ASSUME NEW S \in SUBSET (H \cup {n}), S # {},
                    \A a \in S : \E b \in S \ {a} : Edge(e, a, b)
             PROVE  FALSE
  BY DEF NoCycle
<1>1. n \notin S
  <2>1. ASSUME n \in S PROVE FALSE
    <3>1. PICK b \in S \ {n} : Edge(e, n, b)
      BY <2>1
    <3>2. b \in H
      BY <3>1
    <3>3. QED
      BY <3>1, <3>2
  <2>2. QED
    BY <2>1
<1>2. S \in SUBSET H
  BY <1>1
<1>3. \A a \in S : \E b \in S \ {a} : Edge(d, a, b)
  BY <1>2
<1>4. QED
  BY <1>2, <1>3 DEF NoCycle

\* The property is about the versions that have been stored.
LEMMA SerializableIs == Serializable <=> NoCycle(db, hist)
BY DEF Serializable, Iso!Acyclic, Iso!Conflict, NoCycle, Edge

-----------------------------------------------------------------------------
(* The invariant.                                                          *)

\* The transaction can still be refused.
Running(t) == pc[t] \in {"run", "lock", "wait", "read"}

\* What is written has a value to write, and who reads has the lock.
AtWork(t) ==
  /\ pc[t] = "install" => ending[t] = "commit" /\ Head(todo[t]) \in writes[t]
  /\ pc[t] = "read" => owners[CallKey(t)][t] # "free"

\* Transactions are counted, and a running one has not committed.
Fresh == \A h \in hist : /\ h.id[2] <= count[h.id[1]]
                         /\ h.id[2] = count[h.id[1]] => ~Running(h.id[1])

\* What is written was committed, and what was read had been stored.
Known       == \A k \in Key : \A i \in DOMAIN Versions[k] : \E h \in hist : h.id = Versions[k][i]
ReadsStored == \A h \in hist : \A r \in h.reads : r.ver <= Len(db[r.key])

\* What a running transaction has read is current, and locked.
ReadsCurrent(t) ==
  Running(t) => \A r \in reads[t] : /\ r.ver = Len(Versions[r.key])
                                    /\ owners[r.key][t] # "free"

SerialInv ==
  /\ Inv /\ Abs!Exclusion
  /\ \A t \in Thread : AtWork(t) /\ ReadsCurrent(t)
  /\ Fresh /\ Known /\ ReadsStored
  /\ NoCycle(Versions, hist)

\* A key that is still to be written is locked for it.
LEMMA UnwrittenOwned ==
  ASSUME Inv, NEW u \in Thread, NEW k \in Key, k \in Unwritten(u)
  PROVE  owners[k][u] = "write"
<1>1. /\ Ending(u) /\ ending[u] # "abort" /\ k \in writes[u]
      /\ k \in Elems(IF pc[u] = "install" THEN todo[u] ELSE Tail(todo[u]))
  BY DEF Unwritten
<1>2. Elems(todo[u]) = Elems(Tail(todo[u])) \cup {Head(todo[u])}
  BY <1>1, LoopHead
<1>3. CASE pc[u] = "unlock"
  BY <1>1, <1>2, <1>3 DEF Inv, LocksReleasable, LocksMatch, Held, Entries, Undecided, ReleaseType
<1>4. CASE pc[u] = "install"
  BY <1>1, <1>4 DEF Inv, LocksReleasable, LocksMatch, Held, Entries, Undecided, ReleaseType
<1>5. CASE pc[u] = "remove"
  BY <1>1, <1>5 DEF Inv, LocksReleasable, LocksMatch, Held, Entries, Undecided, ReleaseType
<1>6. QED
  BY <1>1, <1>3, <1>4, <1>5 DEF Ending

\* A key has at most one version to come, its writer's.
VersionsAre ==
  \A k \in Key :
    /\ \A u \in Thread : k \in Unwritten(u) => Versions[k] = Append(db[k], Id(u))
    /\ (\A u \in Thread : k \notin Unwritten(u)) => Versions[k] = db[k]

LEMMA VersionsOf == Inv /\ Abs!Exclusion => VersionsAre
<1> SUFFICES ASSUME Inv, Abs!Exclusion PROVE VersionsAre
  OBVIOUS
<1>1. ASSUME NEW k \in Key, NEW u \in Thread, k \in Unwritten(u)
      PROVE  Versions[k] = Append(db[k], Id(u))
  <2>1. \A v \in Thread : k \in Unwritten(v) => v = u
    <3>1. ASSUME NEW v \in Thread, k \in Unwritten(v), v # u PROVE FALSE
      <4>1. owners[k][u] = "write" /\ owners[k][v] = "write"
        BY <1>1, <3>1, UnwrittenOwned
      <4>2. QED
        BY <3>1, <4>1 DEF Abs!Exclusion
    <3>2. QED
      BY <3>1
  <2>2. Writer(k) = u
    BY <1>1, <2>1 DEF Writer
  <2>3. QED
    BY <1>1, <2>2 DEF Versions
<1>2. ASSUME NEW k \in Key, \A u \in Thread : k \notin Unwritten(u)
      PROVE  Versions[k] = db[k]
  BY <1>2 DEF Versions
<1>3. QED
  BY <1>1, <1>2 DEF VersionsAre

\* What a step of thread t leaves of the others.
LEMMA OthersStay ==
  ASSUME Inv, NEW t \in Thread, Step(t) \/ Begin(t) \/ Abort(t),
         NEW u \in Thread \ {t}
  PROVE  /\ Same(u)
         /\ count'[u] = count[u] /\ reads'[u] = reads[u]
         /\ \A k \in Key : owners'[k][u] = owners[k][u]
<1>1. CASE Unlock(t)
  <2>1. Head(todo[t]) \in Key
    BY <1>1, LoopHead DEF Unlock, Ending
  <2>2. Same(u)
    BY <1>1, <2>1 DEF Unlock, Loop, Goto, txnVars, Same, Woken, Inv, TypeOK
  <2>3. \A k \in Key : owners'[k][u] = owners[k][u]
    <3>1. owners' = [owners EXCEPT ![Head(todo[t])][t] = "free"] \/ owners' = owners
      BY <1>1 DEF Unlock
    <3>2. owners \in [Key -> [Thread -> {"free", "read", "write"}]]
      BY DEF Inv, TypeOK
    <3>3. QED
      BY <2>1, <3>1, <3>2
  <2>4. QED
    BY <1>1, <2>2, <2>3 DEF Unlock, txnVars
<1>2. CASE Grant(t)
  <2>1. calls[t] # <<>>
    BY <1>2 DEF Grant, Inv, LocksReleasable, Bookkeeping
  <2>2. CallKey(t) \in Key
    BY <2>1, CallKeyType DEF Inv
  <2>3. \A k \in Key : owners'[k][u] = owners[k][u]
    BY <1>2, <2>2 DEF Grant, Inv, TypeOK
  <2>4. QED
    BY <1>2, <2>3 DEF Grant, Return, Goto, Same, Inv, TypeOK
<1>3. CASE Begin(t) \/ Abort(t) \/ Refuse(t) \/ CommitBegin(t) \/ Install(t) \/ Remove(t)
  BY <1>3 DEF Begin, Abort, Refuse, CommitBegin, Install, Remove, Loop, Goto,
              lockVars, txnVars, Same, Inv, TypeOK
<1>4. CASE OwnWrite(t) \/ Request(t) \/ Wait(t) \/ TimedOut(t) \/ LookupRead(t)
  BY <1>4 DEF OwnWrite, Request, Wait, TimedOut, LookupRead, Return, Goto,
              lockVars, txnVars, Same, Inv, TypeOK
<1>5. QED
  BY <1>1, <1>2, <1>3, <1>4 DEF Step

\* Such a thread has as much left to write.
LEMMA SameUnwritten ==
  ASSUME NEW u \in Thread, Same(u)
  PROVE  /\ Unwritten(u)' = Unwritten(u)
         /\ Running(u)' <=> Running(u)
         /\ CallKey(u)' = CallKey(u)
BY DEF Same, Unwritten, Ending, Running, CallKey, Elems

\* A loop has to write what its entries have values for, if it commits.
LEMMA LoopUnwritten ==
  ASSUME NEW t \in Thread, NEW s \in Seq(Key), NEW e \in {"commit", "abort"},
         Inv, Loop(t, s, e), writes'[t] = writes[t]
  PROVE  /\ Unwritten(t)' = IF e = "abort" THEN {} ELSE writes[t] \cap Elems(s)
         /\ pc'[t] = "install" => ending'[t] = "commit" /\ Head(todo'[t]) \in writes'[t]
         /\ pc'[t] \in {"idle", "install", "unlock"}
<1>1. /\ todo'[t] = s /\ ending'[t] = e
      /\ pc'[t] = IF s = <<>> THEN "idle"
                  ELSE IF e = "commit" /\ Head(s) \in writes[t] THEN "install"
                  ELSE "unlock"
  BY DEF Loop, Goto, Inv, TypeOK
<1>2. CASE s = <<>>
  <2>1. Elems(s) = {}
    BY <1>2 DEF Elems
  <2>2. QED
    BY <1>1, <1>2, <2>1 DEF Unwritten, Ending
<1>3. CASE s # <<>>
  <2>1. Elems(s) = Elems(Tail(s)) \cup {Head(s)}
    BY <1>3, HeadTailElems
  <2>2. Elems(todo[t])' = Elems(s) /\ Elems(Tail(todo[t]))' = Elems(Tail(s))
    BY <1>1 DEF Elems
  <2>3. QED
    BY <1>1, <1>3, <2>1, <2>2 DEF Unwritten, Ending
<1>4. QED
  BY <1>2, <1>3

\* Every step but the beginning of a commit leaves the versions as they are: an
\* Install stores what has been counted already.
LEMMA VersionsStay ==
  ASSUME SerialInv, Inv', Abs!Exclusion', NEW t \in Thread,
         Step(t) \/ Begin(t) \/ Abort(t), ~CommitBegin(t)
  PROVE  Versions' = Versions
<1>1. VersionsAre /\ VersionsAre'
  BY VersionsOf, PTL DEF SerialInv
<1>2. \A u \in Thread \ {t} : Unwritten(u)' = Unwritten(u) /\ Id(u)' = Id(u)
  BY OthersStay, SameUnwritten DEF SerialInv, Id
<1>3. CASE ~Install(t)
  <2>1. db' = db
    BY <1>3 DEF Step, Begin, Abort, OwnWrite, Request, Grant, Refuse, Wait, TimedOut,
                LookupRead, CommitBegin, Unlock, Remove
  <2>2. /\ Unwritten(t)' = Unwritten(t)
        /\ Unwritten(t) # {} => Id(t)' = Id(t)
    <3>1. CASE Begin(t) \/ OwnWrite(t) \/ Request(t) \/ Grant(t) \/ Wait(t)
               \/ TimedOut(t) \/ LookupRead(t)
      <4>1. ~Ending(t) /\ ~Ending(t)'
        BY <3>1 DEF Begin, OwnWrite, Request, Grant, Wait, TimedOut, LookupRead, Calling,
                    Active, Goto, Ending, SerialInv, Inv, TypeOK
      <4>2. QED
        BY <4>1 DEF Unwritten
    <3>2. CASE Refuse(t) \/ Abort(t)
      <4>1. Loop(t, order[t], "abort") /\ writes' = writes /\ ~Ending(t) /\ order[t] \in Seq(Key)
        BY <3>2 DEF Refuse, Abort, txnVars, Ending, SerialInv, Inv, TypeOK
      <4>2. Unwritten(t)' = {}
        BY <4>1, LoopUnwritten DEF SerialInv
      <4>3. QED
        BY <4>1, <4>2 DEF Unwritten
    <3>3. CASE Unlock(t) \/ Remove(t)
      <4>1. /\ Ending(t) /\ pc[t] # "install" /\ writes' = writes /\ count' = count
            /\ Tail(todo[t]) \in Seq(Key) /\ ending[t] \in {"commit", "abort"}
        BY <3>3, LoopHead DEF Unlock, Remove, txnVars, Ending, SerialInv, Inv, TypeOK
      <4>2. CASE Loop(t, Tail(todo[t]), ending[t])
        <5>1. Unwritten(t)' = IF ending[t] = "abort" THEN {}
                              ELSE writes[t] \cap Elems(Tail(todo[t]))
          BY <4>1, <4>2, LoopUnwritten DEF SerialInv
        <5>2. QED
          BY <4>1, <5>1 DEF Unwritten, Id
      <4>3. CASE pc'[t] = "remove" /\ todo' = todo /\ ending' = ending
        BY <4>1, <4>3 DEF Unwritten, Ending, Elems, Id
      <4>4. QED
        BY <3>3, <4>2, <4>3 DEF Unlock, Remove, SerialInv, Inv, TypeOK
    <3>4. QED
      BY <1>3, <3>1, <3>2, <3>3 DEF Step
  <2>3. ASSUME NEW k \in Key PROVE Versions'[k] = Versions[k]
    <3>1. CASE \E u \in Thread : k \in Unwritten(u)
      <4>1. PICK u \in Thread : k \in Unwritten(u)
        BY <3>1
      <4>2. k \in Unwritten(u)' /\ Id(u)' = Id(u)
        BY <1>2, <2>2, <4>1
      <4>3. Versions[k] = Append(db[k], Id(u))
        BY <1>1, <4>1 DEF VersionsAre
      <4>4. Versions'[k] = Append(db'[k], Id(u)')
        BY <1>1, <4>2 DEF VersionsAre
      <4>5. QED
        BY <2>1, <4>2, <4>3, <4>4
    <3>2. CASE \A u \in Thread : k \notin Unwritten(u)
      <4>1. \A u \in Thread : k \notin Unwritten(u)'
        BY <1>2, <2>2, <3>2
      <4>2. Versions[k] = db[k]
        BY <1>1, <3>2 DEF VersionsAre
      <4>3. Versions'[k] = db'[k]
        BY <1>1, <4>1 DEF VersionsAre
      <4>4. QED
        BY <2>1, <4>2, <4>3
    <3>3. QED
      BY <3>1, <3>2
  <2>4. QED
    BY <2>3 DEF Versions
<1>4. CASE Install(t)
  <2> DEFINE k == Head(todo[t])
  <2>1. /\ pc[t] = "install" /\ pc'[t] = "unlock" /\ Ending(t) /\ Ending(t)'
        /\ db' = [db EXCEPT ![k] = Append(@, Id(t))]
        /\ writes' = writes /\ todo' = todo /\ ending' = ending /\ count' = count
        /\ ending[t] = "commit" /\ k \in writes[t]
    BY <1>4 DEF Install, Goto, txnVars, Ending, SerialInv, AtWork, Inv, TypeOK
  <2>2. /\ k \in Key /\ k \notin Elems(Tail(todo[t]))
        /\ Elems(todo[t]) = Elems(Tail(todo[t])) \cup {k}
    BY <2>1, LoopHead DEF SerialInv
  <2>3. Unwritten(t) = writes[t] \cap Elems(todo[t])
    BY <2>1 DEF Unwritten
  <2>4. Unwritten(t)' = writes[t] \cap Elems(Tail(todo[t]))
    BY <2>1 DEF Unwritten, Elems
  <2>5. k \in Unwritten(t) /\ Unwritten(t)' = Unwritten(t) \ {k} /\ Id(t)' = Id(t)
    BY <2>1, <2>2, <2>3, <2>4 DEF Id
  <2>6. \A u \in Thread : k \notin Unwritten(u)'
    <3>1. ASSUME NEW u \in Thread \ {t}, k \in Unwritten(u) PROVE FALSE
      <4>1. owners[k][u] = "write" /\ owners[k][t] = "write"
        BY <2>2, <2>5, <3>1, UnwrittenOwned DEF SerialInv
      <4>2. QED
        BY <2>2, <4>1 DEF SerialInv, Abs!Exclusion
    <3>2. QED
      BY <1>2, <2>5, <3>1
  <2>7. db'[k] = Append(db[k], Id(t)) /\ \A j \in Key \ {k} : db'[j] = db[j]
    BY <2>1, <2>2 DEF SerialInv, Inv, TypeOK
  <2> HIDE DEF k
  <2>8. Versions'[k] = Versions[k]
    <3>1. Versions[k] = Append(db[k], Id(t))
      BY <1>1, <2>2, <2>5 DEF VersionsAre
    <3>2. Versions'[k] = db'[k]
      BY <1>1, <2>2, <2>6 DEF VersionsAre
    <3>3. QED
      BY <2>7, <3>1, <3>2
  <2>9. ASSUME NEW j \in Key \ {k} PROVE Versions'[j] = Versions[j]
    <3>1. CASE \E u \in Thread : j \in Unwritten(u)
      <4>1. PICK u \in Thread : j \in Unwritten(u)
        BY <3>1
      <4>2. j \in Unwritten(u)' /\ Id(u)' = Id(u)
        BY <1>2, <2>5, <4>1
      <4>3. Versions[j] = Append(db[j], Id(u))
        BY <1>1, <4>1 DEF VersionsAre
      <4>4. Versions'[j] = Append(db'[j], Id(u)')
        BY <1>1, <4>2 DEF VersionsAre
      <4>5. db'[j] = db[j]
        BY <2>7
      <4>6. QED
        BY <4>2, <4>3, <4>4, <4>5
    <3>2. CASE \A u \in Thread : j \notin Unwritten(u)
      <4>1. \A u \in Thread : j \notin Unwritten(u)'
        BY <1>2, <2>5, <3>2
      <4>2. Versions[j] = db[j]
        BY <1>1, <3>2 DEF VersionsAre
      <4>3. Versions'[j] = db'[j]
        BY <1>1, <4>1 DEF VersionsAre
      <4>4. db'[j] = db[j]
        BY <2>7
      <4>5. QED
        BY <4>2, <4>3, <4>4
    <3>3. QED
      BY <3>1, <3>2
  <2>10. QED
    BY <2>8, <2>9 DEF Versions
<1>5. QED
  BY <1>3, <1>4

-----------------------------------------------------------------------------
(* The steps.                                                              *)

\* The initial states.
LEMMA InitSerial == Init => SerialInv
<1> SUFFICES ASSUME Init PROVE SerialInv
  OBVIOUS
<1>1. Inv /\ Abs!Exclusion
  BY InitInv DEF Init, Abs!Exclusion
<1>2. \A t \in Thread : AtWork(t) /\ ReadsCurrent(t) /\ Unwritten(t) = {}
  BY DEF Init, AtWork, ReadsCurrent, Running, Unwritten, Ending
<1>3. \A k \in Key : Versions[k] = <<>>
  BY <1>2 DEF Versions, Init
<1>4. Fresh /\ Known /\ ReadsStored
  BY <1>3 DEF Init, Fresh, Known, ReadsStored
<1>5. NoCycle(Versions, hist)
  BY DEF Init, NoCycle
<1>6. QED
  BY <1>1, <1>2, <1>4, <1>5 DEF SerialInv

\* What has been stored, and what a transaction has read of it.
LEMMA Stored ==
  ASSUME SerialInv
  PROVE  /\ \A k \in Key : db[k] \in Seq(Txn) /\ Versions[k] \in Seq(Txn)
         /\ \A k \in Key : Len(db[k]) <= Len(Versions[k])
         /\ \A k \in Key : \A i \in DOMAIN db[k] :
              i \in DOMAIN Versions[k] /\ Versions[k][i] = db[k][i]
         /\ \A h \in hist : /\ h.id \in Txn
                            /\ \A r \in h.reads : r.key \in Key /\ r.ver \in Nat
<1>1. VersionsAre
  BY VersionsOf DEF SerialInv
<1>2. ASSUME NEW k \in Key
      PROVE  /\ db[k] \in Seq(Txn) /\ Versions[k] \in Seq(Txn)
             /\ Len(db[k]) <= Len(Versions[k])
             /\ \A i \in DOMAIN db[k] : i \in DOMAIN Versions[k] /\ Versions[k][i] = db[k][i]
  <2>1. db[k] \in Seq(Txn)
    BY DEF SerialInv, Inv, TypeOK
  <2>2. CASE \E u \in Thread : k \in Unwritten(u)
    <3>1. PICK u \in Thread : Versions[k] = Append(db[k], Id(u))
      BY <1>1, <2>2 DEF VersionsAre
    <3>2. Id(u) \in Txn
      BY DEF Id, Txn, SerialInv, Inv, TypeOK
    <3>3. QED
      BY <2>1, <3>1, <3>2
  <2>3. CASE \A u \in Thread : k \notin Unwritten(u)
    BY <1>1, <2>1, <2>3 DEF VersionsAre
  <2>4. QED
    BY <2>2, <2>3
<1>3. ASSUME NEW h \in hist
      PROVE  h.id \in Txn /\ \A r \in h.reads : r.key \in Key /\ r.ver \in Nat
  BY DEF SerialInv, Inv, TypeOK, Commit, Read
<1>4. QED
  BY <1>2, <1>3

\* A commit begins: its writes are the last versions of their keys, and what it
\* read is current.
LEMMA CommitSerial ==
  ASSUME SerialInv, Inv', Abs!Exclusion', NEW t \in Thread, CommitBegin(t)
  PROVE  /\ Known' /\ NoCycle(Versions, hist)'
         /\ \A u \in Thread \ {t} : ReadsCurrent(u)'
<1> DEFINE n == [id |-> Id(t), cts |-> ts[t], reads |-> reads[t]]
           W == writes[t] \cap Elems(order[t])
<1>1. /\ pc[t] = "run" /\ Loop(t, order[t], "commit") /\ order[t] \in Seq(Key)
      /\ hist' = hist \cup {n} /\ db' = db /\ owners' = owners /\ count' = count
      /\ writes' = writes /\ reads' = reads
  BY DEF CommitBegin, lockVars, txnVars, SerialInv, Inv, TypeOK
<1>2. Unwritten(t)' = W /\ Unwritten(t) = {}
  BY <1>1, LoopUnwritten DEF SerialInv, Unwritten, Ending
<1>3. \A u \in Thread \ {t} : Same(u) /\ Unwritten(u)' = Unwritten(u) /\ Id(u)' = Id(u)
  BY OthersStay, SameUnwritten DEF SerialInv, Id, Step
<1>4. VersionsAre /\ VersionsAre'
  BY VersionsOf, PTL DEF SerialInv
<1>5. ASSUME NEW k \in W PROVE owners[k][t] = "write"
  BY <1>1 DEF SerialInv, Inv, LocksReleasable, LocksMatch, Held, Entries, Undecided,
              Ending, Active, ReleaseType, TypeOK
<1>6. W \subseteq Key
  BY DEF SerialInv, Inv, TypeOK
<1> HIDE DEF W
<1>7. ASSUME NEW k \in Key \ W PROVE Versions'[k] = Versions[k]
  <2>1. CASE \E u \in Thread : k \in Unwritten(u)
    <3>1. PICK u \in Thread : k \in Unwritten(u)
      BY <2>1
    <3>2. k \in Unwritten(u)' /\ Id(u)' = Id(u)
      BY <1>2, <1>3, <3>1
    <3>3. Versions[k] = Append(db[k], Id(u))
      BY <1>4, <3>1 DEF VersionsAre
    <3>4. Versions'[k] = Append(db'[k], Id(u)')
      BY <1>4, <3>2 DEF VersionsAre
    <3>5. QED
      BY <1>1, <3>2, <3>3, <3>4
  <2>2. CASE \A u \in Thread : k \notin Unwritten(u)
    <3>1. \A u \in Thread : k \notin Unwritten(u)'
      BY <1>2, <1>3, <1>7, <2>2
    <3>2. Versions[k] = db[k]
      BY <1>4, <2>2 DEF VersionsAre
    <3>3. Versions'[k] = db'[k]
      BY <1>4, <3>1 DEF VersionsAre
    <3>4. QED
      BY <1>1, <3>2, <3>3
  <2>3. QED
    BY <2>1, <2>2
<1>8. ASSUME NEW k \in W PROVE Versions'[k] = Append(Versions[k], Id(t))
  <2>1. \A u \in Thread : k \notin Unwritten(u)
    <3>1. ASSUME NEW u \in Thread \ {t}, k \in Unwritten(u) PROVE FALSE
      <4>1. owners[k][u] = "write" /\ owners[k][t] = "write"
        BY <1>5, <1>6, <3>1, UnwrittenOwned DEF SerialInv
      <4>2. QED
        BY <1>6, <4>1 DEF SerialInv, Abs!Exclusion
    <3>2. QED
      BY <1>2, <3>1
  <2>2. Versions[k] = db[k]
    BY <1>4, <1>6, <2>1 DEF VersionsAre
  <2>3. Versions'[k] = Append(db[k], Id(t))
    BY <1>1, <1>2, <1>4, <1>6 DEF VersionsAre, Id
  <2>4. QED
    BY <2>2, <2>3
<1>9. /\ \A k \in Key : Versions[k] \in Seq(Txn) /\ Len(Versions[k]) \in Nat
      /\ \A k \in Key : Len(db[k]) <= Len(Versions[k]) /\ Len(db[k]) \in Nat
      /\ \A h \in hist : \A r \in h.reads : r.key \in Key /\ r.ver \in Nat
  BY Stored
<1>10. \A h \in hist : h.id # Id(t)
  BY <1>1 DEF SerialInv, Fresh, Running, Id
\* The indices of the new versions.
<1>11. ASSUME NEW k \in Key
       PROVE  \A i \in DOMAIN Versions'[k] :
                \/ i \in DOMAIN Versions[k] /\ Versions'[k][i] = Versions[k][i]
                \/ i = Len(Versions[k]) + 1 /\ Versions'[k][i] = Id(t)
  <2>1. CASE k \in W
    BY <1>8, <1>9, <2>1
  <2>2. CASE k \notin W
    BY <1>7, <2>2
  <2>3. QED
    BY <2>1, <2>2
<1>12. Known'
  <2>1. ASSUME NEW k \in Key, NEW i \in DOMAIN Versions'[k]
        PROVE  \E h \in hist' : h.id = Versions'[k][i]
    <3>1. n \in hist' /\ n.id = Id(t)
      BY <1>1
    <3>2. i \in DOMAIN Versions[k] => \E h \in hist : h.id = Versions[k][i]
      BY DEF SerialInv, Known
    <3>3. hist \subseteq hist'
      BY <1>1
    <3>4. QED
      BY <1>11, <3>1, <3>2, <3>3
  <2>2. QED
    BY <2>1 DEF Known
<1>13. ASSUME NEW u \in Thread \ {t} PROVE ReadsCurrent(u)'
  <2>1. SUFFICES ASSUME Running(u), NEW r \in reads[u]
                 PROVE  r.ver = Len(Versions'[r.key]) /\ owners[r.key][u] # "free"
    BY <1>1, <1>3, SameUnwritten DEF ReadsCurrent
  <2>2. r.key \in Key /\ r.ver = Len(Versions[r.key]) /\ owners[r.key][u] # "free"
    <3>1. r \in Read
      BY DEF SerialInv, Inv, TypeOK
    <3>2. ReadsCurrent(u)
      BY DEF SerialInv
    <3>3. QED
      BY <2>1, <3>1, <3>2 DEF ReadsCurrent, Read
  <2>3. r.key \notin W
    BY <1>5, <2>2 DEF SerialInv, Abs!Exclusion
  <2>4. QED
    BY <1>7, <2>2, <2>3
<1>14. ASSUME NEW a \in hist, NEW b \in hist, Edge(Versions', a, b)
       PROVE  Edge(Versions, a, b)
  <2>1. ASSUME NEW k \in Key, NEW i \in DOMAIN Versions'[k], NEW h \in hist,
               Versions'[k][i] = h.id
        PROVE  i \in DOMAIN Versions[k] /\ Versions[k][i] = h.id
    BY <1>10, <1>11, <2>1
  <2>2. ASSUME NEW k \in Key, NEW i \in DOMAIN Versions'[k], NEW j \in DOMAIN Versions'[k],
               i < j, Versions'[k][i] = a.id, Versions'[k][j] = b.id
        PROVE  Edge(Versions, a, b)
    BY <2>1, <2>2 DEF Edge
  <2>3. ASSUME NEW r \in b.reads, NEW i \in DOMAIN Versions'[r.key],
               i <= r.ver, Versions'[r.key][i] = a.id
        PROVE  Edge(Versions, a, b)
    BY <1>9, <2>1, <2>3 DEF Edge
  <2>4. ASSUME NEW r \in a.reads, NEW j \in DOMAIN Versions'[r.key],
               j > r.ver, Versions'[r.key][j] = b.id
        PROVE  Edge(Versions, a, b)
    BY <1>9, <2>1, <2>4 DEF Edge
  <2>5. QED
    BY <1>14, <2>2, <2>3, <2>4 DEF Edge
<1>15. ASSUME NEW b \in hist, Edge(Versions', n, b)
       PROVE  FALSE
  <2>1. n.id = Id(t) /\ n.reads = reads[t]
    OBVIOUS
  <2>2. ASSUME NEW k \in Key, NEW i \in DOMAIN Versions'[k], Versions'[k][i] = Id(t)
        PROVE  i = Len(Versions[k]) + 1
    <3>1. i \in DOMAIN Versions[k] => \E h \in hist : h.id = Versions[k][i]
      BY DEF SerialInv, Known
    <3>2. QED
      BY <1>10, <1>11, <2>2, <3>1
  <2>3. ASSUME NEW k \in Key, NEW j \in DOMAIN Versions'[k], Versions'[k][j] = b.id
        PROVE  j \in DOMAIN Versions[k]
    BY <1>10, <1>11, <2>3
  <2> HIDE DEF n
  <2>4. ASSUME NEW k \in Key, NEW i \in DOMAIN Versions'[k], NEW j \in DOMAIN Versions'[k],
               i < j, Versions'[k][i] = Id(t), Versions'[k][j] = b.id
        PROVE  FALSE
    BY <1>9, <2>2, <2>3, <2>4
  <2>5. ASSUME NEW r \in b.reads, NEW i \in DOMAIN Versions'[r.key],
               i <= r.ver, Versions'[r.key][i] = Id(t)
        PROVE  FALSE
    <3>1. r.key \in Key /\ r.ver \in Nat /\ r.ver <= Len(db[r.key])
      BY <1>9 DEF SerialInv, ReadsStored
    <3>2. i = Len(Versions[r.key]) + 1
      BY <2>2, <2>5, <3>1
    <3>3. QED
      BY <1>9, <2>5, <3>1, <3>2
  <2>6. ASSUME NEW r \in reads[t], NEW j \in DOMAIN Versions'[r.key],
               j > r.ver, Versions'[r.key][j] = b.id
        PROVE  FALSE
    <3>1. r.key \in Key /\ r.ver = Len(Versions[r.key])
      BY <1>1 DEF SerialInv, ReadsCurrent, Running, Inv, TypeOK, Read
    <3>2. j \in DOMAIN Versions[r.key]
      BY <2>3, <2>6, <3>1
    <3>3. QED
      BY <1>9, <2>6, <3>1, <3>2
  <2>7. QED
    BY <1>15, <2>1, <2>4, <2>5, <2>6 DEF Edge
<1> HIDE DEF n
<1>16. NoCycle(Versions', hist \cup {n})
  BY <1>14, <1>15, AddLast DEF SerialInv
<1>17. QED
  BY <1>1, <1>12, <1>13, <1>16 DEF NoCycle, Edge

\* A key that a running transaction has locked has no version to come.
LEMMA LockedStored ==
  ASSUME SerialInv, NEW t \in Thread, Running(t), NEW k \in Key,
         owners[k][t] # "free"
  PROVE  Versions[k] = db[k]
<1>1. Unwritten(t) = {}
  BY DEF Running, Unwritten, Ending
<1>2. ASSUME NEW u \in Thread, k \in Unwritten(u) PROVE FALSE
  <2>1. owners[k][u] = "write" /\ u # t
    BY <1>1, <1>2, UnwrittenOwned DEF SerialInv
  <2>2. QED
    BY <2>1 DEF SerialInv, Abs!Exclusion
<1>3. VersionsAre
  BY VersionsOf DEF SerialInv
<1>4. QED
  BY <1>2, <1>3 DEF VersionsAre

\* The threads that a step leaves alone.
LEMMA OthersSerial ==
  ASSUME SerialInv, NEW t \in Thread, Step(t) \/ Begin(t) \/ Abort(t),
         NEW u \in Thread \ {t}
  PROVE  AtWork(u)' /\ (Versions' = Versions => ReadsCurrent(u)')
<1>1. /\ Same(u) /\ reads'[u] = reads[u] /\ (Running(u)' <=> Running(u))
      /\ \A k \in Key : owners'[k][u] = owners[k][u]
      /\ CallKey(u)' = CallKey(u) /\ AtWork(u) /\ ReadsCurrent(u)
  BY OthersStay, SameUnwritten DEF SerialInv
<1>2. pc[u] = "read" => CallKey(u) \in Key
  BY CallKeyType DEF SerialInv, Inv, LocksReleasable, Bookkeeping
<1>3. AtWork(u)'
  BY <1>1, <1>2 DEF AtWork, Same
<1>4. \A r \in reads[u] : r.key \in Key
  BY DEF SerialInv, Inv, TypeOK, Read
<1>5. QED
  BY <1>1, <1>3, <1>4 DEF ReadsCurrent

\* The thread that takes the step.
LEMMA OwnSerial ==
  ASSUME SerialInv, NEW t \in Thread, Step(t) \/ Begin(t) \/ Abort(t)
  PROVE  AtWork(t)' /\ (Versions' = Versions \/ CommitBegin(t) => ReadsCurrent(t)')
<1>1. pc \in [Thread -> Label] /\ order[t] \in Seq(Key) /\ AtWork(t) /\ ReadsCurrent(t)
  BY DEF SerialInv, Inv, TypeOK
<1>2. ASSUME NEW s \in Seq(Key), NEW e \in {"commit", "abort"}, Loop(t, s, e), writes' = writes
      PROVE  AtWork(t)' /\ ReadsCurrent(t)'
  BY <1>2, LoopUnwritten DEF SerialInv, AtWork, ReadsCurrent, Running
<1>3. CASE Refuse(t) \/ Abort(t) \/ CommitBegin(t)
  <2>1. writes' = writes /\ \E e \in {"commit", "abort"} : Loop(t, order[t], e)
    BY <1>3 DEF Refuse, Abort, CommitBegin, txnVars
  <2>2. QED
    BY <1>1, <1>2, <2>1
<1>4. CASE Unlock(t) \/ Remove(t)
  <2>1. /\ writes' = writes /\ Tail(todo[t]) \in Seq(Key) /\ ending[t] \in {"commit", "abort"}
        /\ Loop(t, Tail(todo[t]), ending[t]) \/ pc'[t] = "remove"
    BY <1>4, LoopHead DEF Unlock, Remove, txnVars, Ending, SerialInv, Inv, TypeOK
  <2>2. CASE Loop(t, Tail(todo[t]), ending[t])
    BY <1>2, <2>1, <2>2
  <2>3. CASE pc'[t] = "remove"
    BY <2>3 DEF AtWork, ReadsCurrent, Running
  <2>4. QED
    BY <2>1, <2>2, <2>3
<1>5. CASE Install(t)
  BY <1>1, <1>5 DEF Install, Goto, AtWork, ReadsCurrent, Running
<1>6. CASE Begin(t)
  <2>1. pc'[t] = "run" /\ reads'[t] = {}
    BY <1>1, <1>6 DEF Begin, Goto, SerialInv, Inv, TypeOK
  <2>2. QED
    BY <2>1 DEF AtWork, ReadsCurrent
<1>7. CASE OwnWrite(t) \/ Request(t) \/ Wait(t) \/ TimedOut(t)
  <2>1. Running(t) /\ pc'[t] \in {"run", "lock", "wait"} /\ reads' = reads /\ owners' = owners
    BY <1>1, <1>7 DEF OwnWrite, Request, Wait, TimedOut, Calling, Goto, lockVars, txnVars, Running
  <2>2. ~CommitBegin(t)
    BY <1>1, <1>7, <2>1 DEF CommitBegin, OwnWrite, Request, Wait, TimedOut, Calling, Goto
  <2>3. QED
    BY <1>1, <2>1, <2>2 DEF AtWork, ReadsCurrent
<1>8. CASE Grant(t)
  <2> DEFINE k == CallKey(t)
  <2>1. k \in Key /\ Asked(t) \in {"read", "write"} /\ owners \in [Key -> [Thread -> {"free", "read", "write"}]]
    BY <1>8, CallKeyType DEF Grant, SerialInv, Inv, LocksReleasable, Bookkeeping, TypeOK
  <2>2. /\ owners' = [owners EXCEPT ![k][t] = Taken(t, k)]
        /\ \/ pc'[t] = "read" /\ calls' = calls
           \/ pc'[t] = "run"
        /\ pc[t] = "lock" /\ reads' = reads
    BY <1>1, <1>8 DEF Grant, Goto
  <2>3. Taken(t, k) # "free"
    BY <2>1 DEF Taken
  <2> HIDE DEF k
  <2>4. owners'[k][t] # "free" /\ \A j \in Key : owners[j][t] # "free" => owners'[j][t] # "free"
    BY <2>1, <2>2, <2>3
  <2>5. AtWork(t)'
    BY <2>2, <2>4 DEF AtWork, CallKey, k
  <2>6. \A r \in reads[t] : r.key \in Key
    BY DEF SerialInv, Inv, TypeOK, Read
  <2>7. ~CommitBegin(t)
    BY <2>2 DEF CommitBegin
  <2>8. QED
    BY <1>1, <2>2, <2>4, <2>5, <2>6, <2>7 DEF ReadsCurrent, Running
<1>9. CASE LookupRead(t)
  <2> DEFINE k == CallKey(t)
  <2>1. /\ pc[t] = "read" /\ pc'[t] = "run" /\ owners' = owners /\ db' = db
        /\ reads'[t] = reads[t] \cup {[key |-> k, ver |-> Len(db[k])]}
    BY <1>1, <1>9 DEF LookupRead, Goto, lockVars, SerialInv, Inv, TypeOK
  <2>2. k \in Key /\ owners[k][t] # "free"
    BY <1>1, <2>1, CallKeyType DEF SerialInv, Inv, LocksReleasable, Bookkeeping, AtWork
  <2>3. Versions[k] = db[k]
    BY <2>1, <2>2, LockedStored DEF Running
  <2>4. ~CommitBegin(t)
    BY <2>1 DEF CommitBegin
  <2>5. QED
    BY <1>1, <2>1, <2>2, <2>3, <2>4 DEF AtWork, ReadsCurrent, Running
<1>10. QED
  BY <1>3, <1>4, <1>5, <1>6, <1>7, <1>8, <1>9 DEF Step

\* Only the beginning of a commit adds to what has committed.
LEMMA CountsSerial ==
  ASSUME SerialInv, NEW t \in Thread, Step(t) \/ Begin(t) \/ Abort(t)
  PROVE  Fresh' /\ ReadsStored'
<1>1. \A u \in Thread \ {t} : Same(u) /\ count'[u] = count[u] /\ (Running(u)' <=> Running(u))
  BY OthersStay, SameUnwritten DEF SerialInv
<1>2. /\ count \in [Thread -> Nat] /\ pc \in [Thread -> Label]
      /\ \A k \in Key : db[k] \in Seq(Txn) /\ Len(db[k]) \in Nat
      /\ \A h \in hist : h.id \in Txn /\ \A r \in h.reads : r.key \in Key /\ r.ver \in Nat
  BY Stored, SMTT(30) DEF SerialInv, Inv, TypeOK
<1>3. \A h \in hist : h.id[1] \in Thread /\ h.id[2] \in Nat
  BY <1>2 DEF Txn
<1>4. \/ count'[t] = count[t] /\ (Running(t)' => Running(t))
      \/ count'[t] = count[t] + 1
  <2>1. CASE Begin(t)
    BY <1>2, <2>1 DEF Begin
  <2>2. CASE Install(t) \/ Unlock(t) \/ Remove(t)
    BY <1>2, <2>2, LoopHead DEF Install, Unlock, Remove, Loop, Goto, Running, txnVars
  <2>3. CASE Abort(t) \/ (Step(t) /\ ~(Install(t) \/ Unlock(t) \/ Remove(t)))
    BY <2>3 DEF Abort, Step, OwnWrite, Request, Grant, Refuse, Wait, TimedOut, LookupRead,
                CommitBegin, Calling, Running, txnVars
  <2>4. QED
    BY <2>1, <2>2, <2>3
<1>5. \A k \in Key : Len(db'[k]) >= Len(db[k])
  <2>1. CASE Install(t)
    <3>1. Head(todo[t]) \in Key
      BY <2>1, LoopHead DEF Install, Ending, SerialInv
    <3>2. db' = [db EXCEPT ![Head(todo[t])] = Append(@, Id(t))] /\ DOMAIN db = Key
      BY <2>1 DEF Install, SerialInv, Inv, TypeOK
    <3>3. QED
      BY <1>2, <3>1, <3>2
  <2>2. CASE ~Install(t)
    BY <1>2, <2>2 DEF Step, Begin, Abort, OwnWrite, Request, Grant, Refuse, Wait, TimedOut,
                      LookupRead, CommitBegin, Unlock, Remove
  <2>3. QED
    BY <2>1, <2>2
<1>6. CASE ~CommitBegin(t)
  <2>1. hist' = hist
    BY <1>6 DEF Step, Begin, Abort, OwnWrite, Request, Grant, Refuse, Wait, TimedOut,
                LookupRead, Install, Unlock, Remove
  <2>2. Fresh'
    <3>1. ASSUME NEW h \in hist
          PROVE  h.id[2] <= count'[h.id[1]] /\ (h.id[2] = count'[h.id[1]] => ~Running(h.id[1])')
      <4>1. h.id[1] \in Thread /\ h.id[2] \in Nat /\ count[h.id[1]] \in Nat
            /\ h.id[2] <= count[h.id[1]] /\ (h.id[2] = count[h.id[1]] => ~Running(h.id[1]))
        BY <1>2, <1>3 DEF SerialInv, Fresh
      <4>2. CASE h.id[1] = t
        BY <1>4, <4>1, <4>2
      <4>3. CASE h.id[1] # t
        BY <1>1, <4>1, <4>3
      <4>4. QED
        BY <4>2, <4>3
    <3>2. QED
      BY <2>1, <3>1 DEF Fresh
  <2>3. ASSUME NEW h \in hist, NEW r \in h.reads PROVE r.ver <= Len(db'[r.key])
    <3>1. r.ver <= Len(db[r.key]) /\ r.key \in Key /\ r.ver \in Nat
      BY <1>2 DEF SerialInv, ReadsStored
    <3>2. Len(db'[r.key]) \in Nat
      BY <1>2, <3>1, <2>1 DEF Step
    <3>3. QED
      BY <1>2, <1>5, <3>1, <3>2
  <2>4. QED
    BY <2>1, <2>2, <2>3 DEF ReadsStored
<1>7. CASE CommitBegin(t)
  <2> DEFINE n == [id |-> Id(t), cts |-> ts[t], reads |-> reads[t]]
  <2>1. hist' = hist \cup {n} /\ count' = count /\ db' = db /\ pc[t] = "run"
    BY <1>7 DEF CommitBegin, txnVars
  <2>2. ~Running(t)'
    BY <1>7, LoopUnwritten DEF CommitBegin, txnVars, SerialInv, Inv, TypeOK, Running
  <2>3. n.id[1] = t /\ n.id[2] = count[t] /\ n.reads = reads[t]
    BY DEF Id
  <2>4. \A r \in reads[t] : r.ver <= Len(db[r.key])
    <3>1. ASSUME NEW r \in reads[t] PROVE r.ver <= Len(db[r.key])
      <4>1. r.key \in Key /\ r.ver = Len(Versions[r.key]) /\ owners[r.key][t] # "free"
        BY <2>1 DEF SerialInv, ReadsCurrent, Running, Inv, TypeOK, Read
      <4>2. Versions[r.key] = db[r.key]
        BY <2>1, <4>1, LockedStored DEF Running
      <4>3. QED
        BY <1>2, <4>1, <4>2
    <3>2. QED
      BY <3>1
  <2> HIDE DEF n
  <2>5. Fresh'
    <3>1. ASSUME NEW h \in hist
          PROVE  h.id[2] <= count[h.id[1]] /\ (h.id[2] = count[h.id[1]] => ~Running(h.id[1])')
      <4>1. h.id[1] \in Thread /\ h.id[2] <= count[h.id[1]]
            /\ (h.id[2] = count[h.id[1]] => ~Running(h.id[1]))
        BY <1>3 DEF SerialInv, Fresh
      <4>2. QED
        BY <1>1, <2>2, <4>1
    <3>2. count[t] <= count[t]
      BY <1>2
    <3>3. QED
      BY <2>1, <2>2, <2>3, <3>1, <3>2 DEF Fresh
  <2>6. QED
    BY <2>1, <2>3, <2>4, <2>5 DEF SerialInv, ReadsStored
<1>8. QED
  BY <1>6, <1>7

\* Every step preserves the invariant.
LEMMA NextSerial == SerialInv /\ Inv' /\ Abs!Exclusion' /\ [Next]_vars => SerialInv'
<1> SUFFICES ASSUME SerialInv, Inv', Abs!Exclusion', [Next]_vars PROVE SerialInv'
  OBVIOUS
<1>1. ASSUME NEW t \in Thread, Step(t) \/ Begin(t) \/ Abort(t), CommitBegin(t)
      PROVE  SerialInv'
  BY <1>1, CommitSerial, OthersSerial, OwnSerial, CountsSerial DEF SerialInv
<1>2. ASSUME NEW t \in Thread, Step(t) \/ Begin(t) \/ Abort(t), ~CommitBegin(t)
      PROVE  SerialInv'
  <2>1. Versions' = Versions
    BY <1>2, VersionsStay
  <2>2. hist' = hist
    BY <1>2 DEF Step, Begin, Abort, OwnWrite, Request, Grant, Refuse, Wait, TimedOut,
                LookupRead, Install, Unlock, Remove
  <2>3. Known'
    BY <2>1, <2>2 DEF SerialInv, Known
  <2>4. NoCycle(Versions, hist)'
    <3>1. NoCycle(Versions', hist')
      BY <2>1, <2>2 DEF SerialInv
    <3>2. QED
      BY <3>1 DEF NoCycle, Edge
  <2>5. QED
    BY <1>2, <2>1, <2>3, <2>4, OthersSerial, OwnSerial, CountsSerial DEF SerialInv
<1>3. CASE UNCHANGED vars
  <2>1. Versions' = Versions
    BY <1>3 DEF vars, txnVars, Versions, Writer, Unwritten, Ending, Elems, Id
  <2>2. /\ pc' = pc /\ owners' = owners /\ reads' = reads /\ hist' = hist /\ db' = db
        /\ count' = count /\ ending' = ending /\ todo' = todo /\ writes' = writes /\ calls' = calls
    BY <1>3 DEF vars, txnVars, lockVars
  <2>3. \A t \in Thread : AtWork(t)' /\ ReadsCurrent(t)'
    BY <2>1, <2>2 DEF SerialInv, AtWork, ReadsCurrent, Running, CallKey
  <2>4. Fresh' /\ ReadsStored'
    BY <2>2 DEF SerialInv, Fresh, ReadsStored, Running
  <2>5. Known'
    BY <2>1, <2>2 DEF SerialInv, Known
  <2>6. NoCycle(Versions, hist)'
    <3>1. NoCycle(Versions', hist')
      BY <2>1, <2>2 DEF SerialInv
    <3>2. QED
      BY <3>1 DEF NoCycle, Edge
  <2>7. QED
    BY <2>3, <2>4, <2>5, <2>6 DEF SerialInv
<1>4. QED
  BY <1>1, <1>2, <1>3 DEF Next, Finished

\* Two-phase locking, under each of the three policies: what commits has a
\* serial order, though a commit gives back the lock of one key before it has
\* written the next.
THEOREM SerializableCommits == Spec => []Serializable
<1>1. SerialInv => Serializable
  <2>1. SUFFICES ASSUME SerialInv PROVE NoCycle(db, hist)
    BY SerializableIs
  <2>2. ASSUME NEW a \in hist, NEW b \in hist, Edge(db, a, b)
        PROVE  Edge(Versions, a, b)
    <3>1. \A k \in Key : \A i \in DOMAIN db[k] :
            i \in DOMAIN Versions[k] /\ Versions[k][i] = db[k][i]
      BY <2>1, Stored
    <3>2. \A h \in hist : \A r \in h.reads : r.key \in Key
      BY <2>1, Stored
    <3>3. QED
      BY <2>2, <3>1, <3>2 DEF Edge
  <2>3. QED
    BY <2>1, <2>2 DEF SerialInv, NoCycle
<1>2. QED
  BY <1>1, InitSerial, NextSerial, Invariance, WriterAlone, TwoPhaseAssumption, PTL DEF Spec
-----------------------------------------------------------------------------
(***************************************************************************)
(* The other lock that is shared and exclusive: for every set of threads   *)
(* the lock of platform_batch_rwlock excludes everybody else from its      *)
(* writer, and implements SharedExclusive.                                 *)
(***************************************************************************)
VARIABLES claim, word, counter, place, passed

Batch == INSTANCE BatchRwLock WITH lock <- word, pc <- place

LEMMA BatchInit == Batch!Init => Batch!IInv
BY DEF Batch!Counted, Batch!Claimers, Batch!Lockers, Batch!Labels, Batch!Init, Batch!IInv,
        Batch!TypeOK, Batch!CountersTrue, Batch!ClaimTrue, Batch!LockTrue, Batch!PassedOut

\* Each step of a thread keeps the parts of the invariant.
LEMMA BatchStep == ASSUME Batch!IInv, NEW t \in Thread, Batch!Step(t) PROVE Batch!IInv'
<1> USE DEF Batch!Counted, Batch!Claimers, Batch!Lockers, Batch!Labels, Batch!IInv,
   Batch!TypeOK, Batch!Move
<1>1. CASE Batch!See(t)
  BY <1>1 DEF Batch!See, Batch!CountersTrue, Batch!ClaimTrue, Batch!LockTrue, Batch!PassedOut
<1>2. CASE Batch!Count(t)
  BY <1>2 DEF Batch!Count, Batch!Add, Batch!CountersTrue, Batch!ClaimTrue, Batch!LockTrue,
     Batch!PassedOut
<1>3. CASE Batch!Enter(t)
  <2>1. \A u \in Thread : place[u] \notin Batch!Lockers
    BY <1>3 DEF Batch!Enter, Batch!LockTrue
  <2>2. Batch!PassedOut'
    BY <1>3, <2>1 DEF Batch!Enter, Batch!PassedOut
  <2> QED BY <1>3, <2>2 DEF Batch!Enter, Batch!CountersTrue, Batch!ClaimTrue, Batch!LockTrue
<1>4. CASE Batch!Refuse(t)
  BY <1>4 DEF Batch!Refuse, Batch!CountersTrue, Batch!ClaimTrue, Batch!LockTrue, Batch!PassedOut
<1>5. CASE Batch!Back(t)
  BY <1>5 DEF Batch!Back, Batch!Subtract, Batch!CountersTrue, Batch!ClaimTrue, Batch!LockTrue,
     Batch!PassedOut
<1>6. CASE Batch!Unget(t)
  BY <1>6 DEF Batch!Unget, Batch!Subtract, Batch!CountersTrue, Batch!ClaimTrue, Batch!LockTrue,
     Batch!PassedOut
<1>7. CASE Batch!TryClaim(t)
  <2>1. \A u \in Thread : place[u] \notin Batch!Claimers
    BY <1>7 DEF Batch!TryClaim, Batch!ClaimTrue
  <2> QED BY <1>7, <2>1 DEF Batch!TryClaim, Batch!CountersTrue, Batch!ClaimTrue,
     Batch!LockTrue, Batch!PassedOut
<1>8. CASE Batch!StopReading(t)
  BY <1>8 DEF Batch!StopReading, Batch!Subtract, Batch!CountersTrue, Batch!ClaimTrue,
     Batch!LockTrue, Batch!PassedOut
<1>9. CASE Batch!Lock(t)
  <2>1. \A u \in Thread : u # t => place[u] \notin Batch!Claimers
    BY <1>9 DEF Batch!Lock, Batch!ClaimTrue
  <2>2. Batch!LockTrue'
    BY <1>9 DEF Batch!Lock, Batch!LockTrue
  <2>3. Batch!PassedOut'
    BY <1>9, <2>1 DEF Batch!Lock, Batch!PassedOut
  <2> QED BY <1>9, <2>2, <2>3 DEF Batch!Lock, Batch!CountersTrue, Batch!ClaimTrue
<1>10. ASSUME NEW u \in Thread, Batch!Pass(t, u) PROVE Batch!IInv'
  <2>1. place[u] # "reading"
    BY <1>10 DEF Batch!Pass, Batch!CountersTrue
  <2>2. Batch!PassedOut'
    BY <1>10, <2>1 DEF Batch!Pass, Batch!PassedOut
  <2> QED BY <1>10, <2>2 DEF Batch!Pass, Batch!CountersTrue, Batch!ClaimTrue, Batch!LockTrue
<1>11. CASE Batch!Drained(t)
  <2>1. \A u \in Thread : place[u] # "reading"
    BY <1>11 DEF Batch!Drained, Batch!PassedOut
  <2>2. Batch!PassedOut'
    BY <1>11, <2>1 DEF Batch!Drained, Batch!PassedOut
  <2>3. Batch!LockTrue'
    BY <1>11 DEF Batch!Drained, Batch!LockTrue
  <2> QED BY <1>11, <2>2, <2>3 DEF Batch!Drained, Batch!CountersTrue, Batch!ClaimTrue
<1>12. CASE Batch!Unlock(t)
  <2>1. \A u \in Thread : u # t => place[u] \notin Batch!Claimers
    BY <1>12 DEF Batch!Unlock, Batch!ClaimTrue
  <2>2. Batch!LockTrue'
    BY <1>12, <2>1 DEF Batch!Unlock, Batch!LockTrue
  <2>3. Batch!CountersTrue'
    BY <1>12 DEF Batch!Unlock, Batch!CountersTrue
  <2>4. Batch!ClaimTrue'
    BY <1>12 DEF Batch!Unlock, Batch!ClaimTrue
  <2>5. Batch!PassedOut'
    BY <1>12 DEF Batch!Unlock, Batch!PassedOut
  <2>6. Batch!TypeOK'
    BY <1>12 DEF Batch!Unlock
  <2> QED BY <2>2, <2>3, <2>4, <2>5, <2>6
<1>13. CASE Batch!ReadAgain(t)
  BY <1>13 DEF Batch!ReadAgain, Batch!Add, Batch!CountersTrue, Batch!ClaimTrue, Batch!LockTrue,
     Batch!PassedOut
<1>14. CASE Batch!Unclaim(t)
  <2>1. \A u \in Thread : u # t => place[u] \notin Batch!Claimers
    BY <1>14 DEF Batch!Unclaim, Batch!ClaimTrue
  <2>2. Batch!PassedOut'
    BY <1>14, <2>1 DEF Batch!Unclaim, Batch!PassedOut
  <2> QED BY <1>14, <2>1, <2>2 DEF Batch!Unclaim, Batch!CountersTrue, Batch!ClaimTrue,
     Batch!LockTrue
<1> QED
  BY <1>1, <1>2, <1>3, <1>4, <1>5, <1>6, <1>7, <1>8, <1>9, <1>10, <1>11, <1>12, <1>13,
     <1>14 DEF Batch!Step

\* The invariant the other results rest on: counters and flags tell the truth,
\* and whom the locker has passed does not read.
THEOREM BatchInvariance == Batch!Spec => []Batch!IInv
<1>1. Batch!Init => Batch!IInv
  BY BatchInit
<1>2. Batch!IInv /\ [Batch!Next]_(Batch!vars) => Batch!IInv'
  <2>1. Batch!IInv /\ Batch!Next => Batch!IInv'
    BY BatchStep DEF Batch!Next
  <2>2. Batch!IInv /\ UNCHANGED Batch!vars => Batch!IInv'
    BY DEF Batch!IInv, Batch!TypeOK, Batch!CountersTrue, Batch!ClaimTrue, Batch!LockTrue,
       Batch!PassedOut, Batch!vars
  <2> QED BY <2>1, <2>2
<1> QED BY <1>1, <1>2, PTL DEF Batch!Spec

\* The writer of platform_batch_rwlock_lock is alone.
THEOREM WriterIsAlone == Batch!Spec => []Batch!WriterAlone
<1>1. Batch!IInv => Batch!WriterAlone
  BY DEF Batch!Claimers, Batch!IInv, Batch!TypeOK, Batch!ClaimTrue, Batch!PassedOut,
         Batch!WriterAlone
<1> QED BY <1>1, BatchInvariance, PTL
-----------------------------------------------------------------------------
(* Refinement.                                                             *)

\* How the callers see a thread depends on where it is.
LEMMA ModeOf ==
  ASSUME NEW t \in Thread
  PROVE  Batch!mode["lock"][t] = IF place[t] = "writing" THEN "write"
           ELSE IF place[t] \in {"reading", "claiming", "unclaiming"} THEN "read" ELSE "free"
BY DEF Batch!mode

\* A step that moves one thread changes the mode of no other.
LEMMA ModeMoves ==
  ASSUME Batch!TypeOK, NEW t \in Thread, NEW from, NEW to, Batch!Move(t, from, to)
  PROVE  Batch!mode' = [Batch!mode EXCEPT !["lock"][t] =
           IF to = "writing" THEN "write"
           ELSE IF to \in {"reading", "claiming", "unclaiming"} THEN "read" ELSE "free"]
BY DEF Batch!mode, Batch!Move, Batch!TypeOK

LEMMA BatchRefines == ASSUME Batch!IInv, NEW t \in Thread,
   Batch!Step(t) PROVE Batch!Held!Next \/ Batch!mode' = Batch!mode
<1> USE DEF Batch!Counted, Batch!Claimers, Batch!Lockers, Batch!Labels, Batch!IInv, Batch!TypeOK
<1>a. ASSUME NEW from, NEW to, Batch!Move(t, from, to),
        (IF to = "writing" THEN "write"
           ELSE IF to \in {"reading", "claiming",
              "unclaiming"} THEN "read" ELSE "free") = Batch!mode["lock"][t]
      PROVE Batch!mode' = Batch!mode
  <2>1. Batch!mode' = [Batch!mode EXCEPT !["lock"][t] = Batch!mode["lock"][t]]
    BY <1>a, ModeMoves
  <2>2. Batch!mode \in [{"lock"} -> [Thread -> {"write", "read", "free"}]]
    BY DEF Batch!mode
  <2> QED BY <2>1, <2>2
<1>1. CASE Batch!See(t)
  BY <1>1, <1>a, ModeOf DEF Batch!See, Batch!Move
<1>2. CASE Batch!Count(t)
  BY <1>2, <1>a, ModeOf DEF Batch!Count, Batch!Move
<1>3. CASE Batch!Enter(t)
  <2>1. \A u \in Thread : place[u] # "writing"
    BY <1>3 DEF Batch!Enter, Batch!LockTrue
  <2>2. Batch!Held!Share("lock", t)
    BY <1>3, <2>1, ModeMoves, ModeOf DEF Batch!Enter, Batch!Move, Batch!Held!Share,
       Batch!Held!Others, Batch!Held!Free
  <2> QED BY <2>2 DEF Batch!Held!Next
<1>4. CASE Batch!Refuse(t)
  BY <1>4, <1>a, ModeOf DEF Batch!Refuse, Batch!Move
<1>5. CASE Batch!Back(t)
  BY <1>5, <1>a, ModeOf DEF Batch!Back, Batch!Move
<1>6. CASE Batch!Unget(t)
  <2>0. Batch!Move(t, "reading", "out") /\ place[t] = "reading"
    BY <1>6 DEF Batch!Unget, Batch!Move
  <2>a. Batch!mode' = [Batch!mode EXCEPT !["lock"][t] = "free"]
    BY <2>0, ModeMoves
  <2>1. Batch!Held!Give("lock", t)
    BY <2>0, <2>a, ModeOf DEF Batch!Held!Give
  <2> QED BY <2>1 DEF Batch!Held!Next
<1>7. CASE Batch!TryClaim(t)
  BY <1>7, <1>a, ModeOf DEF Batch!TryClaim, Batch!Move
<1>8. CASE Batch!StopReading(t)
  <2>0. Batch!Move(t, "claiming", "claimed") /\ place[t] = "claiming"
    BY <1>8 DEF Batch!StopReading, Batch!Move
  <2>a. Batch!mode' = [Batch!mode EXCEPT !["lock"][t] = "free"]
    BY <2>0, ModeMoves
  <2>1. Batch!Held!Give("lock", t)
    BY <2>0, <2>a, ModeOf DEF Batch!Held!Give
  <2> QED BY <2>1 DEF Batch!Held!Next
<1>9. CASE Batch!Lock(t)
  BY <1>9, <1>a, ModeOf DEF Batch!Lock, Batch!Move
<1>10. ASSUME NEW u \in Thread, Batch!Pass(t, u) PROVE Batch!mode' = Batch!mode
  BY <1>10 DEF Batch!Pass, Batch!mode
<1>11. CASE Batch!Drained(t)
  <2>1. \A u \in Thread : u # t => place[u] \notin Batch!Claimers
    BY <1>11 DEF Batch!Drained, Batch!Move, Batch!ClaimTrue
  <2>2. \A u \in Thread : place[u] # "reading"
    BY <1>11 DEF Batch!Drained, Batch!Move, Batch!PassedOut
  <2>3. Batch!Held!Exclude("lock", t)
    BY <1>11, <2>1, <2>2, ModeMoves, ModeOf DEF Batch!Drained, Batch!Move, Batch!Held!Exclude,
       Batch!Held!Others, Batch!Held!Free
  <2> QED BY <2>3 DEF Batch!Held!Next
<1>12. CASE Batch!Unlock(t)
  <2>0. Batch!Move(t, "writing", "claimed") /\ place[t] = "writing"
    BY <1>12 DEF Batch!Unlock, Batch!Move
  <2>a. Batch!mode' = [Batch!mode EXCEPT !["lock"][t] = "free"]
    BY <2>0, ModeMoves
  <2>1. Batch!Held!Give("lock", t)
    BY <2>0, <2>a, ModeOf DEF Batch!Held!Give
  <2> QED BY <2>1 DEF Batch!Held!Next
<1>13. CASE Batch!ReadAgain(t)
  <2>1. \A u \in Thread : place[u] # "writing"
    BY <1>13 DEF Batch!ReadAgain, Batch!Move, Batch!ClaimTrue
  <2>2. Batch!Held!Share("lock", t)
    BY <1>13, <2>1, ModeMoves, ModeOf DEF Batch!ReadAgain, Batch!Move, Batch!Held!Share,
       Batch!Held!Others, Batch!Held!Free
  <2> QED BY <2>2 DEF Batch!Held!Next
<1>14. CASE Batch!Unclaim(t)
  BY <1>14, <1>a, ModeOf DEF Batch!Unclaim, Batch!Move
<1> QED
  BY <1>1, <1>2, <1>3, <1>4, <1>5, <1>6, <1>7, <1>8, <1>9, <1>10, <1>11, <1>12, <1>13,
     <1>14 DEF Batch!Step

\* platform_batch_rwlock implements the abstract shared-exclusive lock.
THEOREM BatchImplements == Batch!Spec => Batch!ImplementsSharedExclusive
<1>1. Batch!Init => Batch!Held!Init
  BY DEF Batch!Init, Batch!Held!Init, Batch!mode
<1>2. Batch!IInv /\ [Batch!Next]_(Batch!vars) => [Batch!Held!Next]_(Batch!mode)
  <2>1. Batch!IInv /\ Batch!Next => Batch!Held!Next \/ Batch!mode' = Batch!mode
    BY BatchRefines DEF Batch!Next
  <2>2. UNCHANGED Batch!vars => Batch!mode' = Batch!mode
    BY DEF Batch!vars, Batch!mode
  <2> QED BY <2>1, <2>2
<1> QED BY <1>1, <1>2, BatchInvariance, PTL DEF Batch!Spec, Batch!ImplementsSharedExclusive,
   Batch!Held!Spec
=============================================================================
