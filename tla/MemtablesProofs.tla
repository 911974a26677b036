---------------------------- MODULE MemtablesProofs ----------------------------
(***************************************************************************)
(* The memtables keep what they promise for any threads, any number of     *)
(* memtables and any capacity.  The invariant has three parts: Shape, what *)
(* the locks, the claim of the root and the count of tasks say of where    *)
(* each thread is; Core, the generations, the states and the references    *)
(* of the memtables and who cares for each; and Contents, which inserts    *)
(* each memtable and the trunk have and what a reader has still to find.   *)
(* Core is proved in two ways: a step that leaves the memtables and the    *)
(* queue alone and hands nothing over keeps it because it looks alike      *)
(* (AlikeStep), the others change one memtable (SlotStep) or the window    *)
(* and have a lemma of their own.  Contents likewise: most steps leave the *)
(* store of inserts as it is (StoreStep).                                  *)
(***************************************************************************)
EXTENDS Memtables, FiniteSetTheorems, WellFoundedInduction, TLAPS

-----------------------------------------------------------------------------
(* The first part of the invariant, Shape: the kinds of the variables,     *)
(* where each thread may be, and what the two locks of the batch and the   *)
(* claim of the root say of it.                                            *)

\* The labels of a task, and of its part that incorporates a memtable.
Assigned  == {"copy", "block", "retire"}
Retired   == {"switch", "unblock", "decref", "recycle", "ready", "continue"}
Working   == {"compact", "packed", "start", "done"} \cup Assigned \cup Retired
Recycling == {"recycle", "ready"}

Works(t)        == t \notin Reader /\ pc[t] \in Working
Assigns(t)      == t \notin Reader /\ pc[t] \in Assigned
Incorporates(t) == t \notin Reader /\ pc[t] \in Assigned \cup Retired

\* TypeOK, but for the bounds that only the rest of the invariant gives.
Context == [generation : Nat, to_incorporate : Int, retired : Nat \cup {-1}, is_empty : BOOLEAN]
Table   == [state : States, generation : Nat, tree : SUBSET Insert, refs : Int]
RwLock  == [readers : SUBSET Thread, claim : Thread \cup {Noone}, writer : Thread \cup {Noone}]
Local   == [gen : Int, last : Nat \cup {-1}, new : SUBSET Insert, seen : SUBSET Insert, floor : Nat,
            from : {"", "branch", "memtable"}, held : SUBSET Int, scan : BOOLEAN,
            back : {"idle", "begin", "drain"}]
Kinds ==
  /\ ctxt \in Context /\ mt \in [Slot -> Table]
  /\ branch \in [Slot -> SUBSET Insert] /\ root \in SUBSET Insert
  /\ claimed \in Thread \cup {Noone} /\ locks \in [{"insert", "lookup"} -> RwLock]
  /\ tasks \in Seq(Int) /\ executing \in Int
  /\ pc \in [Thread -> Label] /\ at \in [Thread -> Local]
  /\ inserted \in Nat /\ count \in [Inserter \cup Reader -> Nat]

\* The labels a thread may be at, and where its task may send it back to.
Places(t) ==
  /\ \/ pc[t] = "idle"
     \/ t \in Inserter /\ pc[t] \in {"begin", "check", "busy", "rotate", "process", "insert",
                                     "inserted", "after"} \cup Working
     \/ t \in Worker /\ pc[t] \in Working
     \/ t \in Reader /\ pc[t] \in {"gens", "tables", "read", "scan", "found", "release",
                                   "decref"} \cup Recycling
     \/ t \in Closer /\ pc[t] \in {"finalize", "process", "drain", "closed"} \cup Working
  /\ Works(t) => at[t].back \in IF t \in Inserter THEN {"idle", "begin"}
                                ELSE IF t \in Closer THEN {"drain"} ELSE {"idle"}

\* The two locks of the batch, and the claim of the root.
Under   == {t \in Thread : pc[t] \in {"check", "insert", "inserted"}}
Looking == {t \in Thread : pc[t] \in {"gens", "tables", "read"}}
InsertLock ==
  /\ locks["insert"].readers = Under
  /\ locks["insert"].claim = locks["insert"].writer
  /\ \A t \in Thread : pc[t] = "rotate" <=> locks["insert"].claim = t
LookupLock ==
  /\ locks["lookup"].readers = Looking
  /\ locks["lookup"].claim = locks["lookup"].writer
  /\ \A t \in Thread : pc[t] \in {"retire", "switch", "unblock"} <=> locks["lookup"].claim = t
  /\ \A t \in Thread : pc[t] \in {"switch", "unblock"} => Looking = {}
RootClaim == \A t \in Thread : pc[t] \in {"block", "retire", "switch"} <=> claimed = t

\* The group's count of the tasks that run.
Counted == executing = Cardinality({t \in Thread : Works(t)})

Shape == Kinds /\ (\A t \in Thread : Places(t)) /\ InsertLock /\ LookupLock /\ RootClaim /\ Counted

-----------------------------------------------------------------------------
(* The second part, Core: the generations, the states and the references   *)
(* of the memtables, and who has which of them in its hands.               *)

Generation == ctxt.generation

\* The tasks: each is of one memtable that is finalized, and nobody has it yet.
Handles(t) == pc[t] \in {"process", "compact"}
Queued(g)  == \E i \in DOMAIN tasks : tasks[i] = g
Queue ==
  /\ \A i \in DOMAIN tasks : mt[Of(tasks[i])].generation = tasks[i] /\ mt[Of(tasks[i])].state = "FINALIZED"
  /\ \A i, j \in DOMAIN tasks : i # j => tasks[i] # tasks[j]
  /\ \A t \in Thread : Handles(t) => ~Queued(at[t].gen)

\* Two threads do not have the same memtable in their hands, and only one
\* incorporates.
Apart(t, u) ==
  /\ Handles(t) /\ Handles(u) => at[t].gen # at[u].gen
  /\ pc[t] = "packed" /\ pc[u] = "packed" => at[t].gen # at[u].gen
  /\ ~(Incorporates(t) /\ Incorporates(u))
  /\ pc[t] \in Recycling /\ pc[u] \in Recycling => Mine(t) # Mine(u)

\* Whose turn it is.
Turn ==
  /\ ctxt.to_incorporate >= 0
  /\ (\A t \in Thread : ~Incorporates(t)) => ctxt.to_incorporate = ctxt.retired + 1

\* The memtables that have not been retired are there, the newest of them takes
\* inserts, and they are no more than there are memtables.
Window ==
  /\ ctxt.retired < Generation
  /\ \A g \in ctxt.retired + 1 .. Generation :
       mt[Of(g)].generation = g /\ mt[Of(g)].state # "INCORPORATED"
  /\ mt[Current].state = "READY"

\* The references to a memtable.
Holding(t) == at[t].held \cup IF t \in Reader /\ pc[t] = "decref" THEN {at[t].gen} ELSE {}
Refers(t, s) ==
  \/ \E g \in Holding(t) : Of(g) = s
  \/ t \notin Reader /\ pc[t] \in {"switch", "unblock", "decref"} /\ Mine(t) = s
  \/ pc[t] = "ready" /\ Mine(t) = s
Counts(s) == mt[s].refs = Cardinality({t \in Thread : Refers(t, s)})
                            + IF mt[s].state = "INCORPORATED" THEN 0 ELSE 1

\* What the state of a memtable says of its generation, and who cares for it.
Bounds(s) ==
  LET m == mt[s] IN
  /\ Of(m.generation) = s /\ m.state # "INCORPORATING"
  /\ Generation - Tables < m.generation /\ m.generation < Generation + Tables
  /\ m.state = "READY" => m.generation >= Generation
  /\ m.state \notin {"READY", "INCORPORATED"} =>
       ctxt.retired < m.generation /\ m.generation < Generation
Cared(s) ==
  LET m == mt[s] IN
  /\ m.state = "FINALIZED" =>
       Queued(m.generation) \/ \E t \in Thread : Handles(t) /\ at[t].gen = m.generation
  /\ m.state = "COMPACTING" => \E t \in Thread : pc[t] = "packed" /\ at[t].gen = m.generation
  /\ m.state = "COMPACTED" /\ m.generation = ctxt.to_incorporate =>
       \E t \in Thread : pc[t] = "start" /\ at[t].gen = m.generation
  /\ m.state = "INCORPORATION_ASSIGNED" =>
       \E t \in Thread : Assigns(t) /\ at[t].gen = m.generation
  /\ m.state = "INCORPORATED" /\ m.generation > ctxt.retired =>
       \E t \in Thread : pc[t] = "ready" /\ Mine(t) = s
  /\ m.state = "INCORPORATED" /\ m.refs = 0 =>
       \E t \in Thread : pc[t] = "recycle" /\ Mine(t) = s
Slots(s) == Bounds(s) /\ Cared(s) /\ Counts(s)

\* What a thread with a memtable in its hands knows of it.
Has(t, state) == mt[Mine(t)].generation = at[t].gen /\ mt[Mine(t)].state = state
Tasks(t) ==
  /\ Handles(t) => Has(t, "FINALIZED")
  /\ pc[t] = "packed" => Has(t, "COMPACTING")
  /\ Assigns(t) => ctxt.to_incorporate = ctxt.retired + 1 /\ Has(t, "INCORPORATION_ASSIGNED")
  /\ Incorporates(t) => at[t].gen = ctxt.to_incorporate
  /\ t \notin Reader /\ pc[t] \in Retired => ctxt.to_incorporate = ctxt.retired
  /\ t \notin Reader /\ pc[t] \in {"switch", "unblock", "decref"} => Has(t, "INCORPORATED")
  /\ pc[t] \in Recycling => mt[Mine(t)].state = "INCORPORATED"
  /\ pc[t] = "recycle" => mt[Mine(t)].generation <= ctxt.retired /\ mt[Mine(t)].refs = 0
  /\ pc[t] = "ready" => mt[Mine(t)].generation > Generation /\ mt[Mine(t)].refs = 1

\* What a reader keeps is there, and what an inserter looked at is as it was.
Keeps(t) ==
  /\ \A g \in Holding(t) : mt[Of(g)].generation = g /\ g <= Generation
  /\ t \in Reader /\ pc[t] = "decref" => at[t].gen \notin at[t].held
  /\ t \notin Reader \/ pc[t] \in {"idle", "gens"} => at[t].held = {}
  /\ at[t].gen >= -1
  /\ pc[t] \in {"rotate", "insert", "inserted"} => at[t].gen = Generation
  /\ pc[t] = "rotate" => mt[Of(Generation + 1)].state = "READY"
Reads(t) ==
  /\ pc[t] = "gens" => at[t].seen = {}
  /\ pc[t] \in {"tables", "read"} =>
       /\ at[t].last = ctxt.retired
       /\ ctxt.retired <= at[t].gen /\ at[t].gen <= Generation
       /\ \A h \in at[t].held : h > at[t].gen
       /\ ~at[t].scan => at[t].held = {} /\ at[t].seen = {}
  /\ pc[t] = "read" => /\ at[t].gen > ctxt.retired /\ ~at[t].scan
                       /\ at[t].from = "branch" => Compacted(Mine(t))
Mind(t) == Tasks(t) /\ Keeps(t) /\ Reads(t)

\* Whoever closes the database does so with nothing else going on.
AtRest == \A t \in Inserter \cup Reader : pc[t] = "idle"
Closing ==
  \A c \in Closer : pc[c] # "idle" =>
    /\ AtRest
    /\ pc[c] = "finalize" => tasks = <<>> /\ \A t \in Thread : ~Works(t)

Core ==
  /\ Queue /\ Turn /\ Window /\ Closing
  /\ \A s \in Slot : Slots(s)
  /\ \A t \in Thread : Mind(t)
  /\ \A t, u \in Thread : t # u => Apart(t, u)

-----------------------------------------------------------------------------
(* The third part, Contents: where the inserts are.                        *)

Tree(g) == mt[Of(g)].tree

\* A memtable to come is empty, and a branch is what its memtable was.
Packed(s) ==
  /\ mt[s].state = "READY" /\ mt[s].generation > Generation => mt[s].tree = {}
  /\ mt[s].state \in {"COMPACTING", "COMPACTED", "INCORPORATION_ASSIGNED"} => branch[s] = mt[s].tree
Carries(t) ==
  /\ pc[t] = "ready" => mt[Mine(t)].tree = {}
  /\ pc[t] \in {"block", "retire", "switch"} => at[t].new = root \cup mt[Mine(t)].tree

\* Those in the trunk are the oldest, each memtable has those that came after
\* the one before it, and none is missing.
Ordered ==
  /\ \A x \in root, y \in 1 .. inserted : y < x => y \in root
  /\ \A g \in ctxt.retired + 1 .. Generation : \A x \in Tree(g) :
       /\ \A y \in root : y < x
       /\ \A h \in g + 1 .. Generation : \A y \in Tree(h) : x < y
       /\ \A t \in Thread : pc[t] = "switch" => \A y \in at[t].new : y < x
Complete ==
  /\ root \subseteq 1 .. inserted
  /\ \A s \in Slot : mt[s].tree \subseteq 1 .. inserted
  /\ \A x \in 1 .. inserted :
       \/ x \in root
       \/ \E g \in ctxt.retired + 1 .. Generation : x \in Tree(g)
       \/ \E t \in Thread : pc[t] = "switch" /\ x \in at[t].new

\* What a reader still has to find: an insert as new as the newest one when it
\* began is in what it has seen or has kept, or in what it goes on to look at.
Seeks(t) == pc[t] \in {"tables", "read"}
Sought(t) ==
  /\ at[t].floor <= inserted
  /\ (Seeks(t) \/ pc[t] \in {"scan", "found"}) /\ at[t].floor > 0 =>
       \E n \in 1 .. inserted :
         /\ n >= at[t].floor
         /\ \/ n \in at[t].seen
            \/ pc[t] # "found" /\ \E g \in at[t].held : n \in Tree(g)
            \/ Seeks(t) /\ n \in root
            \/ Seeks(t) /\ \E g \in ctxt.retired + 1 .. at[t].gen : n \in Tree(g)

\* An empty database may close, and a closed one has everything in the trunk.
Emptied ==
  /\ Tree(Generation) # {} => ~ctxt.is_empty \/ \E t \in Thread : pc[t] = "inserted"
  /\ \A c \in Closer : /\ pc[c] \notin {"idle", "finalize"} => Tree(Generation) = {}
                       /\ pc[c] = "closed" => root = 1 .. inserted

Contents ==
  /\ Ordered /\ Complete /\ Emptied
  /\ \A s \in Slot : Packed(s)
  /\ \A t \in Thread : Carries(t) /\ Sought(t)

-----------------------------------------------------------------------------
(* Shape is inductive by itself.                                           *)

LEMMA ThreadsDisjoint ==
  /\ Inserter \cap Worker = {} /\ Inserter \cap Reader = {} /\ Inserter \cap Closer = {}
  /\ Worker \cap Reader = {} /\ Worker \cap Closer = {} /\ Reader \cap Closer = {}
  /\ \A c, d \in Closer : c = d
  /\ Noone \notin Thread /\ IsFiniteSet(Thread)
BY MemtablesAssumption

\* What an update of a record leaves of its kind.
LEMMA LocalKind ==
  /\ Idle \in Local
  /\ \A r \in Local :
       /\ \A x \in Int : [r EXCEPT !.gen = x] \in Local
       /\ \A x \in Nat \cup {-1} : [r EXCEPT !.last = x] \in Local
       /\ \A x \in SUBSET Insert : [r EXCEPT !.new = x] \in Local /\ [r EXCEPT !.seen = x] \in Local
       /\ \A x \in Nat : [r EXCEPT !.floor = x] \in Local
       /\ \A x \in {"", "branch", "memtable"} : [r EXCEPT !.from = x] \in Local
       /\ \A x \in SUBSET Int : [r EXCEPT !.held = x] \in Local
       /\ \A x \in BOOLEAN : [r EXCEPT !.scan = x] \in Local
       /\ \A x \in {"idle", "begin", "drain"} : [r EXCEPT !.back = x] \in Local
<1>1. Idle \in Local
  BY DEF Idle, Local
<1> SUFFICES ASSUME NEW r \in Local
             PROVE  /\ \A x \in Int : [r EXCEPT !.gen = x] \in Local
                    /\ \A x \in Nat \cup {-1} : [r EXCEPT !.last = x] \in Local
                    /\ \A x \in SUBSET Insert : [r EXCEPT !.new = x] \in Local /\ [r EXCEPT !.seen = x] \in Local
                    /\ \A x \in Nat : [r EXCEPT !.floor = x] \in Local
                    /\ \A x \in {"", "branch", "memtable"} : [r EXCEPT !.from = x] \in Local
                    /\ \A x \in SUBSET Int : [r EXCEPT !.held = x] \in Local
                    /\ \A x \in BOOLEAN : [r EXCEPT !.scan = x] \in Local
                    /\ \A x \in {"idle", "begin", "drain"} : [r EXCEPT !.back = x] \in Local
  BY <1>1
<1> QED
  BY DEF Local
LEMMA TableKind ==
  \A r \in Table :
    /\ \A x \in States : [r EXCEPT !.state = x] \in Table
    /\ \A x \in Nat : [r EXCEPT !.generation = x] \in Table
    /\ \A x \in SUBSET Insert : [r EXCEPT !.tree = x] \in Table
    /\ \A x \in Int : [r EXCEPT !.refs = x] \in Table
BY DEF Table
LEMMA ContextKind ==
  \A r \in Context :
    /\ \A x \in Nat : [r EXCEPT !.generation = x] \in Context
    /\ \A x \in Int : [r EXCEPT !.to_incorporate = x] \in Context
    /\ \A x \in Nat \cup {-1} : [r EXCEPT !.retired = x] \in Context
    /\ \A x \in BOOLEAN : [r EXCEPT !.is_empty = x] \in Context
BY DEF Context
LEMMA LockKind ==
  /\ Free \in RwLock
  /\ \A r \in RwLock :
       /\ \A x \in SUBSET Thread : [r EXCEPT !.readers = x] \in RwLock
       /\ \A x \in Thread \cup {Noone} :
            [r EXCEPT !.claim = x] \in RwLock /\ [r EXCEPT !.writer = x] \in RwLock
BY DEF RwLock, Free

LEMMA ShapeInit == Init => Shape
<1> SUFFICES ASSUME Init PROVE Shape
  OBVIOUS
<1> USE MemtablesAssumption DEF Init
<1>1. Kinds
  <2>1. mt \in [Slot -> Table]
    BY DEF States, Slot, Table
  <2>2. Idle \in Local
    BY LocalKind
  <2>3. Free \in RwLock
    BY LockKind
  <2>4. ctxt \in Context
    BY DEF Context
  <2> QED
    BY <2>1, <2>2, <2>3, <2>4 DEF Kinds, Label, Slot
<1>2. \A t \in Thread : Places(t)
  BY DEF Places, Works, Working, Assigned, Retired
<1>3. InsertLock /\ LookupLock /\ RootClaim
  BY DEF InsertLock, LookupLock, RootClaim, Free, Under, Looking
<1>4. Counted
  <2>1. {t \in Thread : Works(t)} = {}
    BY DEF Works, Working, Assigned, Retired
  <2> QED
    BY <2>1, FS_EmptySet DEF Counted
<1> QED
  BY <1>1, <1>2, <1>3, <1>4 DEF Shape

\* A step of a thread leaves the other threads where they are.
Others(t) == \A u \in Thread : u # t => pc'[u] = pc[u] /\ at'[u] = at[u]

\* The number of the threads with a property, when one thread changes.
LEMMA CountIn ==
  ASSUME NEW S, NEW T, NEW t, IsFiniteSet(S), t \notin S, T = S \cup {t}
  PROVE  Cardinality(T) = Cardinality(S) + 1
BY FS_AddElement
LEMMA CountOut ==
  ASSUME NEW S, NEW T, NEW t, IsFiniteSet(S), t \in S, T = S \ {t}
  PROVE  Cardinality(T) = Cardinality(S) - 1
BY FS_RemoveElement

\* Everything but the count of the tasks, from the few facts a step gives.
LEMMA CountedSame ==
  ASSUME Shape, NEW t \in Thread, Others(t), executing' = executing, Works(t)' <=> Works(t)
  PROVE  Counted'
<1>1. {u \in Thread : Works(u)}' = {u \in Thread : Works(u)}
  BY DEF Others, Works
<1> QED
  BY <1>1 DEF Shape, Counted
LEMMA CountedMore ==
  ASSUME Shape, NEW t \in Thread, Others(t), executing' = executing + 1, ~Works(t), Works(t)'
  PROVE  Counted'
<1>1. {u \in Thread : Works(u)}' = {u \in Thread : Works(u)} \cup {t}
  BY DEF Others, Works
<1>2. IsFiniteSet({u \in Thread : Works(u)})
  BY ThreadsDisjoint, FS_Subset
<1> QED
  BY <1>1, <1>2, CountIn DEF Shape, Counted
LEMMA CountedLess ==
  ASSUME Shape, NEW t \in Thread, Others(t), executing' = executing - 1, Works(t), ~Works(t)'
  PROVE  Counted'
<1>1. {u \in Thread : Works(u)}' = {u \in Thread : Works(u)} \ {t}
  BY DEF Others, Works
<1>2. IsFiniteSet({u \in Thread : Works(u)})
  BY ThreadsDisjoint, FS_Subset
<1> QED
  BY <1>1, <1>2, CountOut DEF Shape, Counted
\* The slots are those of the generations.
LEMMA SlotOf == \A g \in Int : Of(g) \in Slot
BY MemtablesAssumption DEF Of, Slot

\* The fields of the records.
LEMMA LocalFields ==
  \A r \in Local :
    /\ r.gen \in Int /\ r.last \in Nat \cup {-1} /\ r.floor \in Nat /\ r.scan \in BOOLEAN
    /\ r.new \subseteq Insert /\ r.seen \subseteq Insert /\ r.held \subseteq Int
    /\ r.from \in {"", "branch", "memtable"} /\ r.back \in {"idle", "begin", "drain"}
BY DEF Local
LEMMA TableFields ==
  \A r \in Table : /\ r.state \in States /\ r.generation \in Nat
                   /\ r.tree \subseteq Insert /\ r.refs \in Int
BY DEF Table
LEMMA ContextFields ==
  \A r \in Context : /\ r.generation \in Nat /\ r.to_incorporate \in Int
                     /\ r.retired \in Nat \cup {-1} /\ r.is_empty \in BOOLEAN
BY DEF Context
LEMMA Fields ==
  ASSUME Kinds
  PROVE  /\ ctxt.generation \in Nat /\ ctxt.to_incorporate \in Int /\ ctxt.retired \in Nat \cup {-1}
         /\ Current \in Slot
         /\ \A s \in Slot : /\ mt[s].state \in States /\ mt[s].generation \in Nat
                           /\ mt[s].tree \subseteq Insert /\ mt[s].refs \in Int
                           /\ branch[s] \subseteq Insert
         /\ \A t \in Thread : /\ at[t].gen \in Int /\ at[t].last \in Nat \cup {-1}
                             /\ at[t].floor \in Nat /\ at[t].scan \in BOOLEAN
                             /\ at[t].new \subseteq Insert /\ at[t].seen \subseteq Insert
                             /\ at[t].held \subseteq Int
                             /\ Mine(t) \in Slot
<1>1. ctxt.generation \in Nat /\ ctxt.to_incorporate \in Int /\ ctxt.retired \in Nat \cup {-1}
  BY ContextFields DEF Kinds
<1>2. Current \in Slot
  BY <1>1, SlotOf DEF Current
<1>3. \A s \in Slot : /\ mt[s].state \in States /\ mt[s].generation \in Nat
                    /\ mt[s].tree \subseteq Insert /\ mt[s].refs \in Int
                    /\ branch[s] \subseteq Insert
  BY TableFields DEF Kinds
<1>4. \A t \in Thread : /\ at[t].gen \in Int /\ at[t].last \in Nat \cup {-1}
                      /\ at[t].floor \in Nat /\ at[t].scan \in BOOLEAN
                      /\ at[t].new \subseteq Insert /\ at[t].seen \subseteq Insert
                      /\ at[t].held \subseteq Int
  BY LocalFields DEF Kinds
<1>5. \A t \in Thread : Mine(t) \in Slot
  BY <1>4, SlotOf DEF Mine
<1> QED
  BY <1>1, <1>2, <1>3, <1>4, <1>5

\* Transition, field by field.
LEMMA TransitionKind ==
  ASSUME Kinds, NEW s \in Slot, NEW from, NEW to \in States, Transition(s, from, to)
  PROVE  mt' \in [Slot -> Table]
<1>1. [mt[s] EXCEPT !.state = to] \in Table
  BY TableKind DEF Kinds
<1> QED
  BY <1>1 DEF Kinds, Transition
LEMMA LocksKind ==
  ASSUME Kinds, NEW t \in Thread, NEW l \in {"insert", "lookup"}, Get(t, l) \/ Unget(t, l)
  PROVE  locks' \in [{"insert", "lookup"} -> RwLock]
<1>1. locks[l] \in RwLock /\ locks[l].readers \in SUBSET Thread
  BY DEF Kinds, RwLock
<1>2. [locks[l] EXCEPT !.readers = @ \cup {t}] \in RwLock /\ [locks[l] EXCEPT !.readers = @ \ {t}] \in RwLock
  BY <1>1, LockKind
<1> QED
  BY <1>2 DEF Kinds, Get, Unget
LEMMA TakeKind ==
  ASSUME Kinds, NEW t \in Thread, NEW back \in {"idle", "begin", "drain"}, Take(t, back)
  PROVE  Kinds'
<1>1. Head(tasks) \in Int /\ tasks' \in Seq(Int)
  BY DEF Kinds, Take
<1>2. [[at[t] EXCEPT !.gen = Head(tasks)] EXCEPT !.back = back] \in Local
  BY <1>1, LocalKind DEF Kinds
<1>3. at' = [at EXCEPT ![t] = [[at[t] EXCEPT !.gen = Head(tasks)] EXCEPT !.back = back]]
  BY DEF Take, Kinds
<1>4. at' \in [Thread -> Local]
  BY <1>2, <1>3 DEF Kinds
<1> QED
  BY <1>1, <1>4 DEF Kinds, Take, data, Goto, Label

\* The actions of a thread, one by one.
Acts(t) ==
  \/ BeginInsert(t) \/ BeginLookup(t) \/ Close(t) \/ InsertStep(t) \/ FlushStep(t)
  \/ ReadStep(t) \/ CloseStep(t)

LEMMA KindsStep ==
  ASSUME Shape, NEW t \in Thread, Acts(t)
  PROVE  Kinds'
<1>a. Kinds
  BY DEF Shape
<1>b. /\ at[t] \in Local /\ mt[Mine(t)] \in Table /\ ctxt \in Context
      /\ Mine(t) \in Slot /\ Current \in Slot
      /\ ctxt.generation \in Nat /\ ctxt.retired \in Nat \cup {-1}
      /\ mt[Mine(t)].generation \in Nat /\ mt[Mine(t)].refs \in Int
      /\ mt[Mine(t)].tree \in SUBSET Insert /\ branch[Mine(t)] \in SUBSET Insert
      /\ root \in SUBSET Insert /\ inserted \in Nat
      /\ at[t].gen \in Int /\ at[t].seen \in SUBSET Insert /\ at[t].new \in SUBSET Insert
      /\ at[t].held \in SUBSET Int /\ at[t].back \in {"idle", "begin", "drain"}
  BY <1>a, Fields, LocalFields DEF Kinds
<1>c. /\ ctxt.generation \in Int /\ ctxt.generation + 1 \in Nat /\ ctxt.retired + 1 \in Nat \cup {-1}
      /\ mt[Mine(t)].refs + 1 \in Int /\ mt[Mine(t)].refs - 1 \in Int /\ 1 \in Int
      /\ at[t].gen + 1 \in Int /\ at[t].gen - 1 \in Int
  BY <1>b
<1>1. CASE BeginInsert(t)
  <2>1. locks' \in [{"insert", "lookup"} -> RwLock]
    BY <1>a, <1>b, <1>c, <1>1, LocksKind DEF BeginInsert
  <2>2. count[t] + 1 \in Nat
    BY <1>a, <1>b, <1>c, <1>1, SMTT(30) DEF BeginInsert, Kinds
  <2>3. count' \in [Inserter \cup Reader -> Nat]
    BY <1>a, <1>b, <1>c, <1>1, <2>2 DEF BeginInsert, Kinds
  <2> QED
    BY <1>a, <1>b, <1>c, <1>1, <2>1, <2>2, <2>3 DEF BeginInsert, Kinds, Goto, Label, data, queue
<1>2. CASE BeginAgain(t)
  <2>1. locks' \in [{"insert", "lookup"} -> RwLock]
    BY <1>a, <1>b, <1>c, <1>2, LocksKind DEF BeginAgain
  <2> QED
    BY <1>a, <1>b, <1>c, <1>2, <2>1 DEF BeginAgain, Kinds, Goto, Label, data, queue
<1>3. CASE HasRoom(t)
  <2>1. [at[t] EXCEPT !.gen = ctxt.generation] \in Local
    BY <1>a, <1>b, <1>c, LocalKind DEF Kinds
  <2>2. at' = [at EXCEPT ![t] = [at[t] EXCEPT !.gen = ctxt.generation]]
    BY <1>a, <1>b, <1>c, <1>3 DEF HasRoom, Kinds
  <2>3. at' \in [Thread -> Local]
    BY <1>a, <1>b, <1>c, <2>1, <2>2 DEF Kinds
  <2> QED
    BY <1>a, <1>b, <1>c, <1>3, <2>1, <2>2, <2>3 DEF HasRoom, Kinds, Goto, Label, data, queue
<1>4. CASE Busy(t)
  <2>1. locks' \in [{"insert", "lookup"} -> RwLock]
    BY <1>a, <1>b, <1>c, <1>4, LocksKind DEF Busy
  <2> QED
    BY <1>a, <1>b, <1>c, <1>4, <2>1 DEF Busy, Kinds, Goto, Label, data, queue
<1>5. CASE BusyWorks(t)
  BY <1>a, <1>b, <1>c, <1>5, TakeKind DEF BusyWorks
<1>6. CASE BusyWaits(t)
  BY <1>a, <1>b, <1>c, <1>6 DEF BusyWaits, Kinds, Goto, Label, data, queue
<1>7. CASE Rotating(t)
  <2>1. [at[t] EXCEPT !.gen = ctxt.generation] \in Local
    BY <1>a, <1>b, <1>c, LocalKind DEF Kinds
  <2>2. at' = [at EXCEPT ![t] = [at[t] EXCEPT !.gen = ctxt.generation]]
    BY <1>a, <1>b, <1>c, <1>7 DEF Rotating, Kinds
  <2>3. at' \in [Thread -> Local]
    BY <1>a, <1>b, <1>c, <2>1, <2>2 DEF Kinds
  <2>4. [readers |-> locks["insert"].readers \ {t}, claim |-> t, writer |-> t] \in RwLock
    BY <1>a, <1>b, <1>c DEF Kinds, RwLock
  <2>5. locks' \in [{"insert", "lookup"} -> RwLock]
    BY <1>a, <1>b, <1>c, <1>7, <2>4, LocksKind DEF Rotating, Kinds
  <2> QED
    BY <1>a, <1>b, <1>c, <1>7, <2>1, <2>2, <2>3, <2>4, <2>5 DEF Rotating, Kinds, Goto, Label, data, queue
<1>8. CASE Rotate(t)
  <2>1. mt' \in [Slot -> Table]
    BY <1>a, <1>b, <1>c, <1>8, TransitionKind DEF Rotate, States
  <2>2. [ctxt EXCEPT !.generation = @ + 1] \in Context
    BY <1>a, <1>b, <1>c, ContextKind DEF Kinds
  <2>3. [[ctxt EXCEPT !.generation = @ + 1] EXCEPT !.is_empty = TRUE] \in Context
    BY <1>a, <1>b, <1>c, <2>2, ContextKind DEF Kinds
  <2>4. ctxt' \in Context
    BY <1>a, <1>b, <1>c, <1>8, <2>3 DEF Rotate
  <2>5. locks' \in [{"insert", "lookup"} -> RwLock]
    BY <1>a, <1>b, <1>c, <1>8, LockKind DEF Rotate, Kinds
  <2> QED
    BY <1>a, <1>b, <1>c, <1>8, <2>1, <2>2, <2>3, <2>4, <2>5 DEF Rotate, Kinds, Goto, Label, data, queue
<1>9. CASE Process(t)
  <2>1. tasks' \in Seq(Int)
    BY <1>a, <1>b, <1>c, <1>9 DEF Process, Kinds
  <2> QED
    BY <1>a, <1>b, <1>c, <1>9, <2>1 DEF Process, Kinds, Goto, Label, data, queue
<1>10. CASE TreeInsert(t)
  <2>1. mt[Of(at[t].gen)].tree \cup {inserted'} \in SUBSET Insert
    BY <1>a, <1>b, <1>c, <1>10, SMTT(30) DEF TreeInsert, Kinds, Insert, Mine
  <2>2. [mt[Of(at[t].gen)] EXCEPT !.tree = @ \cup {inserted'}] \in Table
    BY <1>a, <1>b, <1>c, <2>1, TableKind DEF Kinds, Mine
  <2>3. mt' \in [Slot -> Table]
    BY <1>a, <1>b, <1>c, <1>10, <2>2 DEF TreeInsert, Kinds
  <2>4. inserted' \in Nat /\ pc' \in [Thread -> Label]
    BY <1>a, <1>b, <1>c, <1>10, SMTT(30) DEF TreeInsert, Goto, Label, Kinds
  <2> QED
    BY <1>a, <1>b, <1>c, <1>10, <2>3, <2>4 DEF TreeInsert, Kinds, queue
<1>11. CASE EndInsert(t)
  <2>1. at' \in [Thread -> Local]
    BY <1>a, <1>b, <1>c, <1>11, LocalKind DEF EndInsert, Kinds
  <2>2. [ctxt EXCEPT !.is_empty = FALSE] \in Context
    BY <1>a, <1>b, <1>c, ContextKind DEF Kinds
  <2>3. ctxt' \in Context
    BY <1>a, <1>b, <1>c, <1>11, <2>2 DEF EndInsert
  <2>4. locks' \in [{"insert", "lookup"} -> RwLock]
    BY <1>a, <1>b, <1>c, <1>11, LocksKind DEF EndInsert
  <2> QED
    BY <1>a, <1>b, <1>c, <1>11, <2>1, <2>2, <2>3, <2>4 DEF EndInsert, Kinds, Goto, Label, data, queue
<1>12. CASE AfterWorks(t)
  BY <1>a, <1>b, <1>c, <1>12, TakeKind DEF AfterWorks
<1>13. CASE AfterWaits(t)
  BY <1>a, <1>b, <1>c, <1>13 DEF AfterWaits, Kinds, Goto, Label, data, queue
<1>14. CASE WorkerTakes(t)
  BY <1>a, <1>b, <1>c, <1>14, TakeKind DEF WorkerTakes
<1>15. CASE TaskDone(t)
  <2>1. at' \in [Thread -> Local]
    BY <1>a, <1>b, <1>c, <1>15, LocalKind DEF TaskDone, Kinds
  <2>2. at[t].back \in Label
    BY <1>a, <1>b, <1>c DEF Label
  <2>3. pc' \in [Thread -> Label] /\ executing' \in Int
    BY <1>a, <1>b, <1>c, <1>15, <2>2 DEF TaskDone, Goto, Kinds
  <2> QED
    BY <1>a, <1>b, <1>c, <1>15, <2>1, <2>2, <2>3 DEF TaskDone, Kinds, Goto, Label, data, queue
<1>16. CASE Compact(t)
  <2>1. mt' \in [Slot -> Table]
    BY <1>a, <1>b, <1>c, <1>16, TransitionKind DEF Compact, States
  <2>2. branch' \in [Slot -> SUBSET Insert]
    BY <1>a, <1>b, <1>c, <1>16 DEF Compact, Kinds
  <2> QED
    BY <1>a, <1>b, <1>c, <1>16, <2>1, <2>2 DEF Compact, Kinds, Goto, Label, data, queue
<1>17. CASE EndCompact(t)
  <2>1. mt' \in [Slot -> Table]
    BY <1>a, <1>b, <1>c, <1>17, TransitionKind DEF EndCompact, States
  <2> QED
    BY <1>a, <1>b, <1>c, <1>17, <2>1 DEF EndCompact, Kinds, Goto, Label, data, queue
<1>18. CASE TryStart(t)
  <2>1. mt' \in [Slot -> Table]
    BY <1>a, <1>b, <1>c, <1>18, TransitionKind DEF TryStart, States, Kinds
  <2> QED
    BY <1>a, <1>b, <1>c, <1>18, <2>1 DEF TryStart, Kinds, Goto, Label, data, queue
<1>19. CASE CopyRoot(t)
  <2>1. [at[t] EXCEPT !.new = root \cup branch[Mine(t)]] \in Local
    BY <1>a, <1>b, <1>c, LocalKind DEF Kinds
  <2>2. at' = [at EXCEPT ![t] = [at[t] EXCEPT !.new = root \cup branch[Mine(t)]]]
    BY <1>a, <1>b, <1>c, <1>19 DEF CopyRoot, Kinds
  <2>3. at' \in [Thread -> Local]
    BY <1>a, <1>b, <1>c, <2>1, <2>2 DEF Kinds
  <2> QED
    BY <1>a, <1>b, <1>c, <1>19, <2>1, <2>2, <2>3 DEF CopyRoot, Kinds, Goto, Label, data, queue
<1>20. CASE BlockLookups(t)
  <2>1. [locks["lookup"] EXCEPT !.claim = t] \in RwLock
    BY <1>a, <1>b, <1>c, LockKind DEF Kinds
  <2>2. [[locks["lookup"] EXCEPT !.claim = t] EXCEPT !.writer = t] \in RwLock
    BY <1>a, <1>b, <1>c, <2>1, LockKind
  <2>3. locks' = [locks EXCEPT !["lookup"] = [[@ EXCEPT !.claim = t] EXCEPT !.writer = t]]
    BY <1>a, <1>b, <1>c, <1>20 DEF BlockLookups, Kinds
  <2>4. locks' \in [{"insert", "lookup"} -> RwLock]
    BY <1>a, <1>b, <1>c, <2>2, <2>3 DEF Kinds
  <2> QED
    BY <1>a, <1>b, <1>c, <1>20, <2>1, <2>2, <2>3, <2>4 DEF BlockLookups, Kinds, Goto, Label, data, queue
<1>21. CASE Retire(t)
  <2>1. mt' \in [Slot -> Table]
    BY <1>a, <1>b, <1>c, <1>21, TransitionKind DEF Retire, States
  <2>2. [ctxt EXCEPT !.retired = @ + 1] \in Context
    BY <1>a, <1>b, <1>c, ContextKind DEF Kinds
  <2>3. ctxt' \in Context
    BY <1>a, <1>b, <1>c, <1>21, <2>2 DEF Retire
  <2> QED
    BY <1>a, <1>b, <1>c, <1>21, <2>1, <2>2, <2>3 DEF Retire, Kinds, Goto, Label, data, queue
<1>22. CASE SwitchRoot(t)
  <2>1. root' \in SUBSET Insert
    BY <1>a, <1>b, <1>c, <1>22 DEF SwitchRoot, Kinds
  <2> QED
    BY <1>a, <1>b, <1>c, <1>22, <2>1 DEF SwitchRoot, Kinds, Goto, Label, data, queue
<1>23. CASE UnblockLookups(t)
  <2>1. [locks["lookup"] EXCEPT !.claim = Noone] \in RwLock
    BY <1>a, <1>b, <1>c, LockKind DEF Kinds
  <2>2. [[locks["lookup"] EXCEPT !.claim = Noone] EXCEPT !.writer = Noone] \in RwLock
    BY <1>a, <1>b, <1>c, <2>1, LockKind
  <2>3. locks' = [locks EXCEPT !["lookup"] = [[@ EXCEPT !.claim = Noone] EXCEPT !.writer = Noone]]
    BY <1>a, <1>b, <1>c, <1>23 DEF UnblockLookups, Kinds
  <2>4. locks' \in [{"insert", "lookup"} -> RwLock]
    BY <1>a, <1>b, <1>c, <2>2, <2>3 DEF Kinds
  <2> QED
    BY <1>a, <1>b, <1>c, <1>23, <2>1, <2>2, <2>3, <2>4 DEF UnblockLookups, Kinds, Goto, Label, data, queue
<1>24. CASE DecRef(t)
  <2>1. [mt[Mine(t)] EXCEPT !.refs = @ - 1] \in Table
    BY <1>a, <1>b, <1>c, TableKind DEF Kinds
  <2>2. mt' \in [Slot -> Table]
    BY <1>a, <1>b, <1>c, <1>24, <2>1 DEF DecRef, Kinds
  <2> QED
    BY <1>a, <1>b, <1>c, <1>24, <2>1, <2>2 DEF DecRef, Kinds, Goto, Label, data, queue, After
<1>25. CASE Recycle(t)
  <2>1. mt[Mine(t)].generation + Tables \in Nat
    BY <1>a, <1>b, <1>c, MemtablesAssumption, SMTT(30) DEF Kinds
  <2>2. mt[Mine(t)] \in Table
    BY <1>a, <1>b, <1>c DEF Kinds
  <2>3. [mt[Mine(t)] EXCEPT !.tree = {}] \in Table
    BY <1>a, <1>b, <1>c, <2>2, TableKind
  <2>4. [[mt[Mine(t)] EXCEPT !.tree = {}] EXCEPT !.refs = 1] \in Table
    BY <1>a, <1>b, <1>c, <2>3, TableKind
  <2>5. [[[mt[Mine(t)] EXCEPT !.tree = {}] EXCEPT !.refs = 1] EXCEPT !.generation = mt[Mine(t)].generation + Tables] \in Table
    BY <1>a, <1>b, <1>c, <2>1, <2>4, TableKind
  <2>6. mt' = [mt EXCEPT ![Mine(t)] = [[[mt[Mine(t)] EXCEPT !.tree = {}] EXCEPT !.refs = 1] EXCEPT !.generation = mt[Mine(t)].generation + Tables]]
    BY <1>a, <1>b, <1>c, <1>25, <2>2 DEF Recycle, Kinds
  <2>7. mt' \in [Slot -> Table]
    BY <1>a, <1>b, <1>c, <2>5, <2>6 DEF Kinds
  <2> QED
    BY <1>a, <1>b, <1>c, <1>25, <2>1, <2>2, <2>3, <2>4, <2>5, <2>6, <2>7 DEF Recycle, Kinds, Goto,
       Label, data, queue
<1>26. CASE Ready(t)
  <2>1. mt' \in [Slot -> Table]
    BY <1>a, <1>b, <1>c, <1>26, TransitionKind DEF Ready, States
  <2> QED
    BY <1>a, <1>b, <1>c, <1>26, <2>1 DEF Ready, Kinds, Goto, Label, data, queue, After
<1>27. CASE TryContinue(t)
  <2>1. at[t].gen + 1 \in Int /\ Of(at[t].gen + 1) \in Slot
    BY <1>a, <1>b, <1>c, SlotOf
  <2>2. [at[t] EXCEPT !.gen = at[t].gen + 1] \in Local
    BY <1>a, <1>b, <1>c, <2>1, LocalKind
  <2>3. [ctxt EXCEPT !.to_incorporate = at[t].gen + 1] \in Context
    BY <1>a, <1>b, <1>c, <2>1, ContextKind DEF Kinds
  <2>4. ctxt' \in Context /\ at' \in [Thread -> Local]
    BY <1>a, <1>b, <1>c, <1>27, <2>2, <2>3 DEF TryContinue, Kinds
  <2>5. mt' \in [Slot -> Table]
    BY <1>a, <1>b, <1>c, <1>27, <2>1, TransitionKind DEF TryContinue, States, Kinds
  <2> QED
    BY <1>a, <1>b, <1>c, <1>27, <2>4, <2>5 DEF TryContinue, Kinds, Goto, Label, data, queue
<1>28. CASE BeginLookup(t)
  <2>1. locks' \in [{"insert", "lookup"} -> RwLock]
    BY <1>a, <1>b, <1>c, <1>28, LocksKind DEF BeginLookup
  <2>2. locks' \in [{"insert", "lookup"} -> RwLock]
    BY <1>a, <1>b, <1>c, <1>28, LocksKind DEF BeginLookup
  <2>3. PICK scan \in BOOLEAN : at' = [at EXCEPT ![t] = [Idle EXCEPT !.floor = inserted, !.scan = scan]]
    BY <1>a, <1>b, <1>c, <1>28 DEF BeginLookup
  <2>4. [Idle EXCEPT !.floor = inserted] \in Local
    BY <1>a, <1>b, <1>c, LocalKind DEF Kinds
  <2>5. [Idle EXCEPT !.floor = inserted, !.scan = scan] \in Local
    BY <1>a, <1>b, <1>c, <2>4, LocalKind
  <2>6. at' \in [Thread -> Local]
    BY <1>a, <1>b, <1>c, <2>3, <2>5 DEF Kinds
  <2>7. count[t] + 1 \in Nat
    BY <1>a, <1>b, <1>c, <1>28, SMTT(30) DEF BeginLookup, Kinds
  <2>8. count' \in [Inserter \cup Reader -> Nat]
    BY <1>a, <1>b, <1>c, <1>28, <2>7 DEF BeginLookup, Kinds
  <2> QED
    BY <1>a, <1>b, <1>c, <1>28, <2>1, <2>2, <2>6, <2>7, <2>8 DEF BeginLookup, Kinds, Goto, Label, data, queue
<1>29. CASE ReadGenerations(t)
  <2>1. [at[t] EXCEPT !.gen = ctxt.generation] \in Local
    BY <1>a, <1>b, <1>c, LocalKind DEF Kinds
  <2>2. [[at[t] EXCEPT !.gen = ctxt.generation] EXCEPT !.last = ctxt.retired] \in Local
    BY <1>a, <1>b, <1>c, <2>1, LocalKind DEF Kinds
  <2>3. at' = [at EXCEPT ![t] = [[at[t] EXCEPT !.gen = ctxt.generation] EXCEPT !.last = ctxt.retired]]
    BY <1>a, <1>b, <1>c, <1>29 DEF ReadGenerations, Kinds
  <2>4. at' \in [Thread -> Local]
    BY <1>a, <1>b, <1>c, <2>2, <2>3 DEF Kinds
  <2> QED
    BY <1>a, <1>b, <1>c, <1>29, <2>1, <2>2, <2>3, <2>4 DEF ReadGenerations, Kinds, Goto, Label, data, queue
<1>30. CASE PickTable(t)
  <2>1. [at[t] EXCEPT !.from = IF Compacted(Mine(t)) THEN "branch" ELSE "memtable"] \in Local
    BY <1>a, <1>b, <1>c, LocalKind DEF Kinds
  <2>2. at' = [at EXCEPT ![t] = [at[t] EXCEPT !.from = IF Compacted(Mine(t)) THEN "branch" ELSE "memtable"]]
    BY <1>a, <1>b, <1>c, <1>30 DEF PickTable, Kinds
  <2>3. at' \in [Thread -> Local]
    BY <1>a, <1>b, <1>c, <2>1, <2>2 DEF Kinds
  <2> QED
    BY <1>a, <1>b, <1>c, <1>30, <2>1, <2>2, <2>3 DEF PickTable, Kinds, Goto, Label, data, queue
<1>31. CASE ReadTable(t)
  <2>1. branch[Mine(t)] \in SUBSET Insert /\ mt[Mine(t)].tree \in SUBSET Insert /\ at[t].gen - 1 \in Int
    BY <1>a, <1>b, <1>c DEF Kinds
  <2>2. \A x \in SUBSET Insert : [[at[t] EXCEPT !.seen = x] EXCEPT !.from = ""] \in Local
    BY <1>a, <1>b, <1>c, LocalKind
  <2>3. [[at[t] EXCEPT !.gen = @ - 1] EXCEPT !.from = ""] \in Local
    BY <1>a, <1>b, <1>c, <2>1, LocalKind
  <2>4. PICK found \in SUBSET Insert :
          IF found # {}
            THEN /\ at' = [at EXCEPT ![t].seen = found, ![t].from = ""]
                 /\ Unget(t, "lookup")
                 /\ Goto(t, "found")
            ELSE /\ at' = [at EXCEPT ![t].gen = @ - 1, ![t].from = ""]
                 /\ Goto(t, "tables")
                 /\ UNCHANGED locks
    BY <1>a, <1>b, <1>c, <1>31, <2>1 DEF ReadTable
  <2>5. CASE found # {}
    <3>1. at' = [at EXCEPT ![t] = [[at[t] EXCEPT !.seen = found] EXCEPT !.from = ""]]
      BY <1>a, <1>b, <1>c, <2>4, <2>5 DEF Kinds
    <3>2. locks' \in [{"insert", "lookup"} -> RwLock]
      BY <1>a, <1>b, <1>c, <2>4, <2>5, LocksKind
    <3> QED
      BY <1>a, <1>b, <1>c, <1>31, <2>4, <2>5, <3>1, <3>2, <2>2 DEF ReadTable, Kinds, Goto, Label, data, queue
  <2>6. CASE found = {}
    <3>1. at' = [at EXCEPT ![t] = [[at[t] EXCEPT !.gen = @ - 1] EXCEPT !.from = ""]]
      BY <1>a, <1>b, <1>c, <2>4, <2>6 DEF Kinds
    <3> QED
      BY <1>a, <1>b, <1>c, <1>31, <2>4, <2>6, <3>1, <2>3 DEF ReadTable, Kinds, Goto, Label, data, queue
  <2> QED
    BY <2>5, <2>6
<1>32. CASE KeepTable(t)
  <2>1. at[t].gen - 1 \in Int /\ branch[Mine(t)] \in SUBSET Insert /\ at[t].seen \cup branch[Mine(t)] \in SUBSET Insert /\ at[t].held \cup {at[t].gen} \in SUBSET Int
    BY <1>a, <1>b, <1>c DEF Kinds
  <2>2. [at[t] EXCEPT !.gen = @ - 1] \in Local
    BY <1>a, <1>b, <1>c, <2>1, LocalKind
  <2>3. [[at[t] EXCEPT !.gen = @ - 1] EXCEPT !.seen = at[t].seen \cup branch[Mine(t)]] \in Local
    BY <1>a, <1>b, <1>c, <2>1, <2>2, LocalKind
  <2>4. [[at[t] EXCEPT !.gen = @ - 1] EXCEPT !.held = at[t].held \cup {at[t].gen}] \in Local
    BY <1>a, <1>b, <1>c, <2>1, <2>2, LocalKind
  <2>5. [mt[Mine(t)] EXCEPT !.refs = @ + 1] \in Table
    BY <1>a, <1>b, <1>c, TableKind DEF Kinds
  <2>6. mt' \in [Slot -> Table]
    BY <1>a, <1>b, <1>c, <1>32, <2>5 DEF KeepTable, Kinds
  <2>7. CASE Compacted(Mine(t))
    <3>1. at' = [at EXCEPT ![t] = [[at[t] EXCEPT !.gen = @ - 1] EXCEPT !.seen = at[t].seen \cup branch[Mine(t)]]]
      BY <1>a, <1>b, <1>c, <1>32, <2>7 DEF KeepTable, Kinds
    <3> QED
      BY <1>a, <1>b, <1>c, <1>32, <3>1, <2>3, <2>6 DEF KeepTable, Kinds, queue
  <2>8. CASE ~Compacted(Mine(t))
    <3>1. at' = [at EXCEPT ![t] = [[at[t] EXCEPT !.gen = @ - 1] EXCEPT !.held = at[t].held \cup {at[t].gen}]]
      BY <1>a, <1>b, <1>c, <1>32, <2>8 DEF KeepTable, Kinds
    <3> QED
      BY <1>a, <1>b, <1>c, <1>32, <3>1, <2>4, <2>6 DEF KeepTable, Kinds, queue
  <2> QED
    BY <2>7, <2>8
<1>33. CASE ReadRoot(t)
  <2>1. [at[t] EXCEPT !.seen = at[t].seen \cup root] \in Local
    BY <1>a, <1>b, <1>c, LocalKind DEF Kinds
  <2>2. at' = [at EXCEPT ![t] = [at[t] EXCEPT !.seen = at[t].seen \cup root]]
    BY <1>a, <1>b, <1>c, <1>33 DEF ReadRoot, Kinds
  <2>3. at' \in [Thread -> Local]
    BY <1>a, <1>b, <1>c, <2>1, <2>2 DEF Kinds
  <2>4. locks' \in [{"insert", "lookup"} -> RwLock]
    BY <1>a, <1>b, <1>c, <1>33, LocksKind DEF ReadRoot
  <2> QED
    BY <1>a, <1>b, <1>c, <1>33, <2>1, <2>2, <2>3, <2>4 DEF ReadRoot, Kinds, Goto, Label, data, queue
<1>34. CASE Scan(t)
  <2>1. UNION {mt[Of(g)].tree : g \in at[t].held} \in SUBSET Insert
    BY <1>a, <1>b, <1>c, SlotOf, Fields
  <2>2. [at[t] EXCEPT !.seen = at[t].seen \cup UNION {mt[Of(g)].tree : g \in at[t].held}] \in Local
    BY <1>a, <1>b, <1>c, <2>1, LocalKind DEF Kinds
  <2>3. at' = [at EXCEPT ![t] = [at[t] EXCEPT !.seen = at[t].seen \cup UNION {mt[Of(g)].tree : g \in at[t].held}]]
    BY <1>a, <1>b, <1>c, <1>34 DEF Scan, Kinds
  <2>4. at' \in [Thread -> Local]
    BY <1>a, <1>b, <1>c, <2>2, <2>3 DEF Kinds
  <2> QED
    BY <1>a, <1>b, <1>c, <1>34, <2>1, <2>2, <2>3, <2>4 DEF Scan, Kinds, Goto, Label, data, queue
<1>35. CASE Found(t)
  <2>1. [at[t] EXCEPT !.seen = {}] \in Local
    BY <1>a, <1>b, <1>c, LocalKind DEF Kinds
  <2>2. [[at[t] EXCEPT !.seen = {}] EXCEPT !.floor = 0] \in Local
    BY <1>a, <1>b, <1>c, <2>1, LocalKind DEF Kinds
  <2>3. at' = [at EXCEPT ![t] = [[at[t] EXCEPT !.seen = {}] EXCEPT !.floor = 0]]
    BY <1>a, <1>b, <1>c, <1>35 DEF Found, Kinds
  <2>4. at' \in [Thread -> Local]
    BY <1>a, <1>b, <1>c, <2>2, <2>3 DEF Kinds
  <2> QED
    BY <1>a, <1>b, <1>c, <1>35, <2>1, <2>2, <2>3, <2>4 DEF Found, Kinds, Goto, Label, data, queue
<1>36. CASE Release(t)
  <2>1. CASE at[t].held = {}
    BY <1>a, <1>b, <1>c, <1>36, <2>1, LocalKind DEF Release, Kinds, Goto, Label, data, queue
  <2>2. CASE at[t].held # {}
    <3>1. PICK g \in at[t].held : at' = [at EXCEPT ![t].gen = g, ![t].held = @ \ {g}]
      BY <1>a, <1>b, <1>c, <1>36, <2>2 DEF Release
    <3>2. g \in Int /\ at[t].held \ {g} \in SUBSET Int
      BY <1>a, <1>b, <1>c DEF Local
    <3>3. [at[t] EXCEPT !.gen = g] \in Local
      BY <1>a, <1>b, <1>c, <3>2, LocalKind
    <3>4. [[at[t] EXCEPT !.gen = g] EXCEPT !.held = at[t].held \ {g}] \in Local
      BY <1>a, <1>b, <1>c, <3>2, <3>3, LocalKind
    <3>5. at' = [at EXCEPT ![t] = [[at[t] EXCEPT !.gen = g] EXCEPT !.held = at[t].held \ {g}]]
      BY <1>a, <1>b, <1>c, <3>1 DEF Kinds
    <3> QED
      BY <1>a, <1>b, <1>c, <1>36, <2>2, <3>4, <3>5 DEF Release, Kinds, Goto, Label, data, queue
  <2> QED
    BY <2>1, <2>2
<1>37. CASE Close(t)
  BY <1>a, <1>b, <1>c, <1>37 DEF Close, Kinds, Goto, Label, data, queue
<1>38. CASE ForceFinalize(t)
  <2>1. [at[t] EXCEPT !.gen = ctxt.generation] \in Local
    BY <1>a, <1>b, <1>c, LocalKind DEF Kinds
  <2>2. at' = [at EXCEPT ![t] = [at[t] EXCEPT !.gen = ctxt.generation]]
    BY <1>a, <1>b, <1>c, <1>38 DEF ForceFinalize, Kinds
  <2>3. at' \in [Thread -> Local]
    BY <1>a, <1>b, <1>c, <2>1, <2>2 DEF Kinds
  <2>4. mt' \in [Slot -> Table]
    BY <1>a, <1>b, <1>c, <1>38, TransitionKind DEF ForceFinalize, States
  <2>5. [ctxt EXCEPT !.generation = @ + 1] \in Context
    BY <1>a, <1>b, <1>c, ContextKind DEF Kinds
  <2>6. [[ctxt EXCEPT !.generation = @ + 1] EXCEPT !.is_empty = TRUE] \in Context
    BY <1>a, <1>b, <1>c, <2>5, ContextKind DEF Kinds
  <2>7. ctxt' \in Context
    BY <1>a, <1>b, <1>c, <1>38, <2>6 DEF ForceFinalize
  <2> QED
    BY <1>a, <1>b, <1>c, <1>38, <2>1, <2>2, <2>3, <2>4, <2>5, <2>6, <2>7 DEF ForceFinalize, Kinds,
       Goto, Label, data, queue
<1>39. CASE DrainOne(t)
  BY <1>a, <1>b, <1>c, <1>39, TakeKind DEF DrainOne
<1>40. CASE Closed(t)
  BY <1>a, <1>b, <1>c, <1>40 DEF Closed, Kinds, Goto, Label, data, queue
<1> QED
  BY <1>1, <1>2, <1>3, <1>4, <1>5, <1>6, <1>7, <1>8, <1>9, <1>10, <1>11, <1>12, <1>13, <1>14, <1>15,
     <1>16, <1>17, <1>18, <1>19, <1>20, <1>21, <1>22, <1>23, <1>24, <1>25, <1>26, <1>27, <1>28,
     <1>29, <1>30, <1>31, <1>32, <1>33, <1>34, <1>35, <1>36, <1>37, <1>38, <1>39, <1>40 DEF Acts,
     InsertStep, FlushStep, ReadStep, CloseStep

LEMMA OthersStep ==
  ASSUME Shape, NEW t \in Thread, Acts(t)
  PROVE  Others(t)
<1>a. pc \in [Thread -> Label] /\ at \in [Thread -> Local]
  BY DEF Shape, Kinds
<1>1. CASE BeginInsert(t)
  BY <1>a, <1>1 DEF BeginInsert, Others, Goto, Take
<1>2. CASE BeginAgain(t)
  BY <1>a, <1>2 DEF BeginAgain, Others, Goto, Take
<1>3. CASE HasRoom(t)
  BY <1>a, <1>3 DEF HasRoom, Others, Goto, Take
<1>4. CASE Busy(t)
  BY <1>a, <1>4 DEF Busy, Others, Goto, Take
<1>5. CASE BusyWorks(t)
  BY <1>a, <1>5 DEF BusyWorks, Others, Goto, Take
<1>6. CASE BusyWaits(t)
  BY <1>a, <1>6 DEF BusyWaits, Others, Goto, Take
<1>7. CASE Rotating(t)
  BY <1>a, <1>7 DEF Rotating, Others, Goto, Take
<1>8. CASE Rotate(t)
  BY <1>a, <1>8 DEF Rotate, Others, Goto, Take
<1>9. CASE Process(t)
  BY <1>a, <1>9 DEF Process, Others, Goto, Take
<1>10. CASE TreeInsert(t)
  BY <1>a, <1>10 DEF TreeInsert, Others, Goto, Take
<1>11. CASE EndInsert(t)
  BY <1>a, <1>11 DEF EndInsert, Others, Goto, Take
<1>12. CASE AfterWorks(t)
  BY <1>a, <1>12 DEF AfterWorks, Others, Goto, Take
<1>13. CASE AfterWaits(t)
  BY <1>a, <1>13 DEF AfterWaits, Others, Goto, Take
<1>14. CASE WorkerTakes(t)
  BY <1>a, <1>14 DEF WorkerTakes, Others, Goto, Take
<1>15. CASE TaskDone(t)
  BY <1>a, <1>15 DEF TaskDone, Others, Goto, Take
<1>16. CASE Compact(t)
  BY <1>a, <1>16 DEF Compact, Others, Goto, Take
<1>17. CASE EndCompact(t)
  BY <1>a, <1>17 DEF EndCompact, Others, Goto, Take
<1>18. CASE TryStart(t)
  BY <1>a, <1>18 DEF TryStart, Others, Goto, Take
<1>19. CASE CopyRoot(t)
  BY <1>a, <1>19 DEF CopyRoot, Others, Goto, Take
<1>20. CASE BlockLookups(t)
  BY <1>a, <1>20 DEF BlockLookups, Others, Goto, Take
<1>21. CASE Retire(t)
  BY <1>a, <1>21 DEF Retire, Others, Goto, Take
<1>22. CASE SwitchRoot(t)
  BY <1>a, <1>22 DEF SwitchRoot, Others, Goto, Take
<1>23. CASE UnblockLookups(t)
  BY <1>a, <1>23 DEF UnblockLookups, Others, Goto, Take
<1>24. CASE DecRef(t)
  BY <1>a, <1>24 DEF DecRef, Others, Goto, Take
<1>25. CASE Recycle(t)
  BY <1>a, <1>25 DEF Recycle, Others, Goto, Take
<1>26. CASE Ready(t)
  BY <1>a, <1>26 DEF Ready, Others, Goto, Take
<1>27. CASE TryContinue(t)
  BY <1>a, <1>27 DEF TryContinue, Others, Goto, Take
<1>28. CASE BeginLookup(t)
  BY <1>a, <1>28 DEF BeginLookup, Others, Goto, Take
<1>29. CASE ReadGenerations(t)
  BY <1>a, <1>29 DEF ReadGenerations, Others, Goto, Take
<1>30. CASE PickTable(t)
  BY <1>a, <1>30 DEF PickTable, Others, Goto, Take
<1>31. CASE ReadTable(t)
  BY <1>a, <1>31 DEF ReadTable, Others, Goto, Take
<1>32. CASE KeepTable(t)
  BY <1>a, <1>32 DEF KeepTable, Others, Goto, Take
<1>33. CASE ReadRoot(t)
  BY <1>a, <1>33 DEF ReadRoot, Others, Goto, Take
<1>34. CASE Scan(t)
  BY <1>a, <1>34 DEF Scan, Others, Goto, Take
<1>35. CASE Found(t)
  BY <1>a, <1>35 DEF Found, Others, Goto, Take
<1>36. CASE Release(t)
  BY <1>a, <1>36 DEF Release, Others, Goto, Take
<1>37. CASE Close(t)
  BY <1>a, <1>37 DEF Close, Others, Goto, Take
<1>38. CASE ForceFinalize(t)
  BY <1>a, <1>38 DEF ForceFinalize, Others, Goto, Take
<1>39. CASE DrainOne(t)
  BY <1>a, <1>39 DEF DrainOne, Others, Goto, Take
<1>40. CASE Closed(t)
  BY <1>a, <1>40 DEF Closed, Others, Goto, Take
<1> QED
  BY <1>1, <1>2, <1>3, <1>4, <1>5, <1>6, <1>7, <1>8, <1>9, <1>10, <1>11, <1>12, <1>13, <1>14, <1>15,
     <1>16, <1>17, <1>18, <1>19, <1>20, <1>21, <1>22, <1>23, <1>24, <1>25, <1>26, <1>27, <1>28,
     <1>29, <1>30, <1>31, <1>32, <1>33, <1>34, <1>35, <1>36, <1>37, <1>38, <1>39, <1>40 DEF Acts,
     InsertStep, FlushStep, ReadStep, CloseStep

LEMMA PlacesStep ==
  ASSUME Shape, NEW t \in Thread, Acts(t)
  PROVE  (\A u \in Thread : Places(u))'
<1>a. pc \in [Thread -> Label] /\ at \in [Thread -> Local] /\ Places(t)
  BY DEF Shape, Kinds
<1>b. \A u \in Thread : u # t => Places(u)'
  BY OthersStep DEF Shape, Others, Places, Works
<1>c. Places(t)'
  <2>1. CASE BeginInsert(t)
    BY <1>a, <2>1, ThreadsDisjoint DEF BeginInsert, Places, Works, Working, Assigned, Retired,
       Recycling, Goto, At
  <2>2. CASE BeginAgain(t)
    BY <1>a, <2>2, ThreadsDisjoint DEF BeginAgain, Places, Works, Working, Assigned, Retired,
       Recycling, Goto, At
  <2>3. CASE HasRoom(t)
    BY <1>a, <2>3, ThreadsDisjoint DEF HasRoom, Places, Works, Working, Assigned, Retired, Recycling, Goto, At
  <2>4. CASE Busy(t)
    BY <1>a, <2>4, ThreadsDisjoint DEF Busy, Places, Works, Working, Assigned, Retired, Recycling, Goto, At
  <2>5. CASE BusyWorks(t)
    BY <1>a, <2>5, ThreadsDisjoint DEF BusyWorks, Places, Works, Working, Assigned, Retired,
       Recycling, Goto, At, Take
  <2>6. CASE BusyWaits(t)
    BY <1>a, <2>6, ThreadsDisjoint DEF BusyWaits, Places, Works, Working, Assigned, Retired,
       Recycling, Goto, At
  <2>7. CASE Rotating(t)
    BY <1>a, <2>7, ThreadsDisjoint DEF Rotating, Places, Works, Working, Assigned, Retired,
       Recycling, Goto, At
  <2>8. CASE Rotate(t)
    BY <1>a, <2>8, ThreadsDisjoint DEF Rotate, Places, Works, Working, Assigned, Retired, Recycling, Goto, At
  <2>9. CASE Process(t)
    BY <1>a, <2>9, ThreadsDisjoint DEF Process, Places, Works, Working, Assigned, Retired, Recycling, Goto, At
  <2>10. CASE TreeInsert(t)
    BY <1>a, <2>10, ThreadsDisjoint DEF TreeInsert, Places, Works, Working, Assigned, Retired,
       Recycling, Goto, At
  <2>11. CASE EndInsert(t)
    BY <1>a, <2>11, ThreadsDisjoint DEF EndInsert, Places, Works, Working, Assigned, Retired,
       Recycling, Goto, At
  <2>12. CASE AfterWorks(t)
    BY <1>a, <2>12, ThreadsDisjoint DEF AfterWorks, Places, Works, Working, Assigned, Retired,
       Recycling, Goto, At, Take
  <2>13. CASE AfterWaits(t)
    BY <1>a, <2>13, ThreadsDisjoint DEF AfterWaits, Places, Works, Working, Assigned, Retired,
       Recycling, Goto, At
  <2>14. CASE WorkerTakes(t)
    BY <1>a, <2>14, ThreadsDisjoint DEF WorkerTakes, Places, Works, Working, Assigned, Retired,
       Recycling, Goto, At, Take
  <2>15. CASE TaskDone(t)
    BY <1>a, <2>15, ThreadsDisjoint DEF TaskDone, Places, Works, Working, Assigned, Retired,
       Recycling, Goto, At
  <2>16. CASE Compact(t)
    BY <1>a, <2>16, ThreadsDisjoint DEF Compact, Places, Works, Working, Assigned, Retired,
       Recycling, Goto, At
  <2>17. CASE EndCompact(t)
    BY <1>a, <2>17, ThreadsDisjoint DEF EndCompact, Places, Works, Working, Assigned, Retired,
       Recycling, Goto, At
  <2>18. CASE TryStart(t)
    BY <1>a, <2>18, ThreadsDisjoint DEF TryStart, Places, Works, Working, Assigned, Retired,
       Recycling, Goto, At
  <2>19. CASE CopyRoot(t)
    BY <1>a, <2>19, ThreadsDisjoint DEF CopyRoot, Places, Works, Working, Assigned, Retired,
       Recycling, Goto, At
  <2>20. CASE BlockLookups(t)
    BY <1>a, <2>20, ThreadsDisjoint DEF BlockLookups, Places, Works, Working, Assigned, Retired,
       Recycling, Goto, At
  <2>21. CASE Retire(t)
    BY <1>a, <2>21, ThreadsDisjoint DEF Retire, Places, Works, Working, Assigned, Retired, Recycling, Goto, At
  <2>22. CASE SwitchRoot(t)
    BY <1>a, <2>22, ThreadsDisjoint DEF SwitchRoot, Places, Works, Working, Assigned, Retired,
       Recycling, Goto, At
  <2>23. CASE UnblockLookups(t)
    BY <1>a, <2>23, ThreadsDisjoint DEF UnblockLookups, Places, Works, Working, Assigned, Retired,
       Recycling, Goto, At
  <2>24. CASE DecRef(t)
    BY <1>a, <2>24, ThreadsDisjoint DEF DecRef, Places, Works, Working, Assigned, Retired,
       Recycling, Goto, At, After
  <2>25. CASE Recycle(t)
    BY <1>a, <2>25, ThreadsDisjoint DEF Recycle, Places, Works, Working, Assigned, Retired,
       Recycling, Goto, At
  <2>26. CASE Ready(t)
    BY <1>a, <2>26, ThreadsDisjoint DEF Ready, Places, Works, Working, Assigned, Retired, Recycling,
       Goto, At, After
  <2>27. CASE TryContinue(t)
    <3>1. pc[t] = "continue" /\ pc'[t] \in {"copy", "done"} /\ at'[t].back = at[t].back
      <4>1. CASE at' = at
        BY <1>a, <2>27, <4>1 DEF TryContinue, Goto, At
      <4>2. CASE at' = [at EXCEPT ![t].gen = at[t].gen + 1] /\ Goto(t, "copy")
        BY <1>a, <2>27, <4>2 DEF TryContinue, Goto, At
      <4> QED
        BY <2>27, <4>1, <4>2 DEF TryContinue
    <3> QED
      BY <1>a, <3>1, ThreadsDisjoint DEF Places, Works, Working, Assigned, Retired, Recycling
  <2>28. CASE BeginLookup(t)
    BY <1>a, <2>28, ThreadsDisjoint DEF BeginLookup, Places, Works, Working, Assigned, Retired,
       Recycling, Goto, At
  <2>29. CASE ReadGenerations(t)
    BY <1>a, <2>29, ThreadsDisjoint DEF ReadGenerations, Places, Works, Working, Assigned, Retired,
       Recycling, Goto, At
  <2>30. CASE PickTable(t)
    BY <1>a, <2>30, ThreadsDisjoint DEF PickTable, Places, Works, Working, Assigned, Retired,
       Recycling, Goto, At
  <2>31. CASE ReadTable(t)
    BY <1>a, <2>31, ThreadsDisjoint DEF ReadTable, Places, Works, Working, Assigned, Retired,
       Recycling, Goto, At
  <2>32. CASE KeepTable(t)
    BY <1>a, <2>32, ThreadsDisjoint DEF KeepTable, Places, Works, Working, Assigned, Retired,
       Recycling, Goto, At
  <2>33. CASE ReadRoot(t)
    BY <1>a, <2>33, ThreadsDisjoint DEF ReadRoot, Places, Works, Working, Assigned, Retired,
       Recycling, Goto, At
  <2>34. CASE Scan(t)
    BY <1>a, <2>34, ThreadsDisjoint DEF Scan, Places, Works, Working, Assigned, Retired, Recycling, Goto, At
  <2>35. CASE Found(t)
    BY <1>a, <2>35, ThreadsDisjoint DEF Found, Places, Works, Working, Assigned, Retired, Recycling, Goto, At
  <2>36. CASE Release(t)
    BY <1>a, <2>36, ThreadsDisjoint DEF Release, Places, Works, Working, Assigned, Retired,
       Recycling, Goto, At
  <2>37. CASE Close(t)
    BY <1>a, <2>37, ThreadsDisjoint DEF Close, Places, Works, Working, Assigned, Retired, Recycling, Goto, At
  <2>38. CASE ForceFinalize(t)
    BY <1>a, <2>38, ThreadsDisjoint DEF ForceFinalize, Places, Works, Working, Assigned, Retired,
       Recycling, Goto, At
  <2>39. CASE DrainOne(t)
    BY <1>a, <2>39, ThreadsDisjoint DEF DrainOne, Places, Works, Working, Assigned, Retired,
       Recycling, Goto, At, Take
  <2>40. CASE Closed(t)
    BY <1>a, <2>40, ThreadsDisjoint DEF Closed, Places, Works, Working, Assigned, Retired, Recycling, Goto, At
  <2> QED
    BY <2>1, <2>2, <2>3, <2>4, <2>5, <2>6, <2>7, <2>8, <2>9, <2>10, <2>11, <2>12, <2>13, <2>14,
       <2>15, <2>16, <2>17, <2>18, <2>19, <2>20, <2>21, <2>22, <2>23, <2>24, <2>25, <2>26, <2>27,
       <2>28, <2>29, <2>30, <2>31, <2>32, <2>33, <2>34, <2>35, <2>36, <2>37, <2>38, <2>39, <2>40 DEF
       Acts, InsertStep, FlushStep, ReadStep, CloseStep
<1> QED
  BY <1>b, <1>c

LEMMA InsertLockStep ==
  ASSUME Shape, NEW t \in Thread, Acts(t)
  PROVE  InsertLock'
<1>a. /\ Kinds /\ InsertLock /\ Noone \notin Thread /\ Places(t)
  BY MemtablesAssumption DEF Shape
<1>1. CASE BeginInsert(t)
  BY <1>a, <1>1 DEF BeginInsert, Kinds, InsertLock, Under, Goto, At, Get, Unget, CanRead, data, queue
<1>2. CASE BeginAgain(t)
  BY <1>a, <1>2 DEF BeginAgain, Kinds, InsertLock, Under, Goto, At, Get, Unget, CanRead, data, queue
<1>3. CASE HasRoom(t)
  BY <1>a, <1>3 DEF HasRoom, Kinds, InsertLock, Under, Goto, At, Get, Unget, CanRead, data, queue
<1>4. CASE Busy(t)
  BY <1>a, <1>4 DEF Busy, Kinds, InsertLock, Under, Goto, At, Get, Unget, CanRead, data, queue
<1>5. CASE BusyWorks(t)
  BY <1>a, <1>5 DEF BusyWorks, Kinds, InsertLock, Under, Goto, At, Get, Unget, CanRead, data, queue, Take
<1>6. CASE BusyWaits(t)
  BY <1>a, <1>6 DEF BusyWaits, Kinds, InsertLock, Under, Goto, At, Get, Unget, CanRead, data, queue
<1>7. CASE Rotating(t)
  <2>1. CASE locks["insert"].claim = Noone
    <3>1. locks'["insert"] = [readers |-> locks["insert"].readers \ {t}, claim |-> t, writer |-> t]
      BY <1>7, <2>1, <1>a DEF Rotating, Kinds
    <3>2. pc' = [pc EXCEPT ![t] = "rotate"] /\ pc[t] = "check"
      BY <1>7, <2>1 DEF Rotating, Goto, At
    <3> QED
      BY <1>a, <2>1, <3>1, <3>2 DEF InsertLock, Under, Kinds
  <2>2. CASE locks["insert"].claim # Noone
    <3>1. pc' = [pc EXCEPT ![t] = "begin"] /\ pc[t] = "check"
          /\ locks' = [locks EXCEPT !["insert"].readers = @ \ {t}]
      BY <1>7, <2>2 DEF Rotating, Goto, At, Unget
    <3> QED
      BY <1>a, <3>1 DEF InsertLock, Under, Kinds
  <2> QED
    BY <2>1, <2>2
<1>8. CASE Rotate(t)
  <2>1. locks'["insert"].readers = {} /\ locks'["insert"].claim = Noone /\ locks'["insert"].writer = Noone
    BY <1>8, <1>a DEF Rotate, Kinds, Free
  <2>2. pc' = [pc EXCEPT ![t] = "process"] /\ pc[t] = "rotate" /\ locks["insert"].readers = {}
    BY <1>8 DEF Rotate, Goto, At
  <2> QED
    BY <1>a, <2>1, <2>2 DEF InsertLock, Under, Kinds
<1>9. CASE Process(t)
  BY <1>a, <1>9 DEF Process, Kinds, InsertLock, Under, Goto, At, Get, Unget, CanRead, data, queue
<1>10. CASE TreeInsert(t)
  BY <1>a, <1>10 DEF TreeInsert, Kinds, InsertLock, Under, Goto, At, Get, Unget, CanRead, data, queue
<1>11. CASE EndInsert(t)
  BY <1>a, <1>11 DEF EndInsert, Kinds, InsertLock, Under, Goto, At, Get, Unget, CanRead, data, queue
<1>12. CASE AfterWorks(t)
  BY <1>a, <1>12 DEF AfterWorks, Kinds, InsertLock, Under, Goto, At, Get, Unget, CanRead, data, queue, Take
<1>13. CASE AfterWaits(t)
  BY <1>a, <1>13 DEF AfterWaits, Kinds, InsertLock, Under, Goto, At, Get, Unget, CanRead, data, queue
<1>14. CASE WorkerTakes(t)
  BY <1>a, <1>14 DEF WorkerTakes, Kinds, InsertLock, Under, Goto, At, Get, Unget, CanRead, data, queue, Take
<1>15. CASE TaskDone(t)
  BY <1>a, <1>15, LocalFields DEF TaskDone, Kinds, InsertLock, Under, Goto, At, Get, Unget, CanRead,
     data, queue
<1>16. CASE Compact(t)
  BY <1>a, <1>16 DEF Compact, Kinds, InsertLock, Under, Goto, At, Get, Unget, CanRead, data, queue
<1>17. CASE EndCompact(t)
  BY <1>a, <1>17 DEF EndCompact, Kinds, InsertLock, Under, Goto, At, Get, Unget, CanRead, data, queue
<1>18. CASE TryStart(t)
  BY <1>a, <1>18 DEF TryStart, Kinds, InsertLock, Under, Goto, At, Get, Unget, CanRead, data, queue
<1>19. CASE CopyRoot(t)
  BY <1>a, <1>19 DEF CopyRoot, Kinds, InsertLock, Under, Goto, At, Get, Unget, CanRead, data, queue
<1>20. CASE BlockLookups(t)
  BY <1>a, <1>20 DEF BlockLookups, Kinds, InsertLock, Under, Goto, At, Get, Unget, CanRead, data, queue
<1>21. CASE Retire(t)
  BY <1>a, <1>21 DEF Retire, Kinds, InsertLock, Under, Goto, At, Get, Unget, CanRead, data, queue
<1>22. CASE SwitchRoot(t)
  BY <1>a, <1>22 DEF SwitchRoot, Kinds, InsertLock, Under, Goto, At, Get, Unget, CanRead, data, queue
<1>23. CASE UnblockLookups(t)
  BY <1>a, <1>23 DEF UnblockLookups, Kinds, InsertLock, Under, Goto, At, Get, Unget, CanRead, data, queue
<1>24. CASE DecRef(t)
  BY <1>a, <1>24 DEF DecRef, Kinds, InsertLock, Under, Goto, At, Get, Unget, CanRead, data, queue, After
<1>25. CASE Recycle(t)
  BY <1>a, <1>25 DEF Recycle, Kinds, InsertLock, Under, Goto, At, Get, Unget, CanRead, data, queue
<1>26. CASE Ready(t)
  BY <1>a, <1>26 DEF Ready, Kinds, InsertLock, Under, Goto, At, Get, Unget, CanRead, data, queue, After
<1>27. CASE TryContinue(t)
  BY <1>a, <1>27 DEF TryContinue, Kinds, InsertLock, Under, Goto, At, Get, Unget, CanRead, data, queue
<1>28. CASE BeginLookup(t)
  BY <1>a, <1>28 DEF BeginLookup, Kinds, InsertLock, Under, Goto, At, Get, Unget, CanRead, data, queue
<1>29. CASE ReadGenerations(t)
  BY <1>a, <1>29 DEF ReadGenerations, Kinds, InsertLock, Under, Goto, At, Get, Unget, CanRead, data, queue
<1>30. CASE PickTable(t)
  BY <1>a, <1>30 DEF PickTable, Kinds, InsertLock, Under, Goto, At, Get, Unget, CanRead, data, queue
<1>31. CASE ReadTable(t)
  BY <1>a, <1>31 DEF ReadTable, Kinds, InsertLock, Under, Goto, At, Get, Unget, CanRead, data, queue
<1>32. CASE KeepTable(t)
  BY <1>a, <1>32 DEF KeepTable, Kinds, InsertLock, Under, Goto, At, Get, Unget, CanRead, data, queue
<1>33. CASE ReadRoot(t)
  BY <1>a, <1>33 DEF ReadRoot, Kinds, InsertLock, Under, Goto, At, Get, Unget, CanRead, data, queue
<1>34. CASE Scan(t)
  BY <1>a, <1>34 DEF Scan, Kinds, InsertLock, Under, Goto, At, Get, Unget, CanRead, data, queue
<1>35. CASE Found(t)
  BY <1>a, <1>35 DEF Found, Kinds, InsertLock, Under, Goto, At, Get, Unget, CanRead, data, queue
<1>36. CASE Release(t)
  BY <1>a, <1>36 DEF Release, Kinds, InsertLock, Under, Goto, At, Get, Unget, CanRead, data, queue
<1>37. CASE Close(t)
  BY <1>a, <1>37 DEF Close, Kinds, InsertLock, Under, Goto, At, Get, Unget, CanRead, data, queue
<1>38. CASE ForceFinalize(t)
  BY <1>a, <1>38 DEF ForceFinalize, Kinds, InsertLock, Under, Goto, At, Get, Unget, CanRead, data, queue
<1>39. CASE DrainOne(t)
  BY <1>a, <1>39 DEF DrainOne, Kinds, InsertLock, Under, Goto, At, Get, Unget, CanRead, data, queue, Take
<1>40. CASE Closed(t)
  BY <1>a, <1>40 DEF Closed, Kinds, InsertLock, Under, Goto, At, Get, Unget, CanRead, data, queue
<1> QED
  BY <1>1, <1>2, <1>3, <1>4, <1>5, <1>6, <1>7, <1>8, <1>9, <1>10, <1>11, <1>12, <1>13, <1>14, <1>15,
     <1>16, <1>17, <1>18, <1>19, <1>20, <1>21, <1>22, <1>23, <1>24, <1>25, <1>26, <1>27, <1>28,
     <1>29, <1>30, <1>31, <1>32, <1>33, <1>34, <1>35, <1>36, <1>37, <1>38, <1>39, <1>40 DEF Acts,
     InsertStep, FlushStep, ReadStep, CloseStep

LEMMA LookupLockStep ==
  ASSUME Shape, NEW t \in Thread, Acts(t)
  PROVE  LookupLock'
<1>a. /\ Kinds /\ LookupLock /\ Noone \notin Thread /\ Places(t)
  BY MemtablesAssumption DEF Shape
<1>1. CASE BeginInsert(t)
  BY <1>a, <1>1 DEF BeginInsert, Kinds, LookupLock, Looking, Goto, At, Get, Unget, CanRead, data, queue
<1>2. CASE BeginAgain(t)
  BY <1>a, <1>2 DEF BeginAgain, Kinds, LookupLock, Looking, Goto, At, Get, Unget, CanRead, data, queue
<1>3. CASE HasRoom(t)
  BY <1>a, <1>3 DEF HasRoom, Kinds, LookupLock, Looking, Goto, At, Get, Unget, CanRead, data, queue
<1>4. CASE Busy(t)
  BY <1>a, <1>4 DEF Busy, Kinds, LookupLock, Looking, Goto, At, Get, Unget, CanRead, data, queue
<1>5. CASE BusyWorks(t)
  BY <1>a, <1>5 DEF BusyWorks, Kinds, LookupLock, Looking, Goto, At, Get, Unget, CanRead, data, queue, Take
<1>6. CASE BusyWaits(t)
  BY <1>a, <1>6 DEF BusyWaits, Kinds, LookupLock, Looking, Goto, At, Get, Unget, CanRead, data, queue
<1>7. CASE Rotating(t)
  BY <1>a, <1>7 DEF Rotating, Kinds, LookupLock, Looking, Goto, At, Get, Unget, CanRead, data, queue
<1>8. CASE Rotate(t)
  BY <1>a, <1>8 DEF Rotate, Kinds, LookupLock, Looking, Goto, At, Get, Unget, CanRead, data, queue
<1>9. CASE Process(t)
  BY <1>a, <1>9 DEF Process, Kinds, LookupLock, Looking, Goto, At, Get, Unget, CanRead, data, queue
<1>10. CASE TreeInsert(t)
  BY <1>a, <1>10 DEF TreeInsert, Kinds, LookupLock, Looking, Goto, At, Get, Unget, CanRead, data, queue
<1>11. CASE EndInsert(t)
  BY <1>a, <1>11 DEF EndInsert, Kinds, LookupLock, Looking, Goto, At, Get, Unget, CanRead, data, queue
<1>12. CASE AfterWorks(t)
  BY <1>a, <1>12 DEF AfterWorks, Kinds, LookupLock, Looking, Goto, At, Get, Unget, CanRead, data, queue, Take
<1>13. CASE AfterWaits(t)
  BY <1>a, <1>13 DEF AfterWaits, Kinds, LookupLock, Looking, Goto, At, Get, Unget, CanRead, data, queue
<1>14. CASE WorkerTakes(t)
  BY <1>a, <1>14 DEF WorkerTakes, Kinds, LookupLock, Looking, Goto, At, Get, Unget, CanRead, data, queue, Take
<1>15. CASE TaskDone(t)
  BY <1>a, <1>15, LocalFields DEF TaskDone, Kinds, LookupLock, Looking, Goto, At, Get, Unget,
     CanRead, data, queue
<1>16. CASE Compact(t)
  BY <1>a, <1>16 DEF Compact, Kinds, LookupLock, Looking, Goto, At, Get, Unget, CanRead, data, queue
<1>17. CASE EndCompact(t)
  BY <1>a, <1>17 DEF EndCompact, Kinds, LookupLock, Looking, Goto, At, Get, Unget, CanRead, data, queue
<1>18. CASE TryStart(t)
  <2>1. pc' = [pc EXCEPT ![t] = "copy"] \/ pc' = [pc EXCEPT ![t] = "done"]
    BY <1>18 DEF TryStart, Goto
  <2>2. locks' = locks /\ pc[t] = "start"
    BY <1>18 DEF TryStart, At
  <2>3. pc'[t] \in {"copy", "done"} /\ \A u \in Thread \ {t} : pc'[u] = pc[u]
    BY <1>a, <2>1 DEF Kinds
  <2>4. Looking' = Looking
    BY <2>2, <2>3 DEF Looking
  <2>5. QED
    BY <1>a, <2>2, <2>3, <2>4 DEF LookupLock
<1>19. CASE CopyRoot(t)
  BY <1>a, <1>19 DEF CopyRoot, Kinds, LookupLock, Looking, Goto, At, Get, Unget, CanRead, data, queue
<1>20. CASE BlockLookups(t)
  <2>1. /\ locks'["lookup"].claim = t /\ locks'["lookup"].writer = t
        /\ locks'["lookup"].readers = locks["lookup"].readers
    <3> DEFINE l == [locks["lookup"] EXCEPT !.claim = t]
    <3>1. l \in RwLock
      BY <1>a, LockKind DEF Kinds
    <3>2. locks' = [locks EXCEPT !["lookup"] = [l EXCEPT !.writer = t]]
      BY <1>20, <1>a DEF BlockLookups, Kinds
    <3> QED
      BY <1>a, <3>1, <3>2 DEF Kinds, RwLock
  <2>2. pc' = [pc EXCEPT ![t] = "retire"] /\ pc[t] = "block" /\ locks["lookup"].claim = Noone
    BY <1>20 DEF BlockLookups, Goto, At
  <2> QED
    BY <1>a, <2>1, <2>2 DEF LookupLock, Looking, Kinds
<1>21. CASE Retire(t)
  BY <1>a, <1>21 DEF Retire, Kinds, LookupLock, Looking, Goto, At, Get, Unget, CanRead, data, queue
<1>22. CASE SwitchRoot(t)
  BY <1>a, <1>22 DEF SwitchRoot, Kinds, LookupLock, Looking, Goto, At, Get, Unget, CanRead, data, queue
<1>23. CASE UnblockLookups(t)
  BY <1>a, <1>23 DEF UnblockLookups, Kinds, LookupLock, Looking, Goto, At, Get, Unget, CanRead, data, queue
<1>24. CASE DecRef(t)
  BY <1>a, <1>24 DEF DecRef, Kinds, LookupLock, Looking, Goto, At, Get, Unget, CanRead, data, queue, After
<1>25. CASE Recycle(t)
  BY <1>a, <1>25 DEF Recycle, Kinds, LookupLock, Looking, Goto, At, Get, Unget, CanRead, data, queue
<1>26. CASE Ready(t)
  BY <1>a, <1>26 DEF Ready, Kinds, LookupLock, Looking, Goto, At, Get, Unget, CanRead, data, queue, After
<1>27. CASE TryContinue(t)
  BY <1>a, <1>27 DEF TryContinue, Kinds, LookupLock, Looking, Goto, At, Get, Unget, CanRead, data, queue
<1>28. CASE BeginLookup(t)
  BY <1>a, <1>28 DEF BeginLookup, Kinds, LookupLock, Looking, Goto, At, Get, Unget, CanRead, data, queue
<1>29. CASE ReadGenerations(t)
  BY <1>a, <1>29 DEF ReadGenerations, Kinds, LookupLock, Looking, Goto, At, Get, Unget, CanRead, data, queue
<1>30. CASE PickTable(t)
  BY <1>a, <1>30 DEF PickTable, Kinds, LookupLock, Looking, Goto, At, Get, Unget, CanRead, data, queue
<1>31. CASE ReadTable(t)
  <2>1. CASE Unget(t, "lookup") /\ Goto(t, "found")
    <3>1. pc[t] = "read" /\ pc' = [pc EXCEPT ![t] = "found"]
          /\ locks' = [locks EXCEPT !["lookup"].readers = @ \ {t}]
      BY <1>31, <2>1 DEF ReadTable, Goto, At, Unget
    <3> QED
      BY <1>a, <3>1 DEF Kinds, LookupLock, Looking
  <2>2. CASE UNCHANGED locks /\ Goto(t, "tables")
    BY <1>a, <1>31, <2>2 DEF ReadTable, Kinds, LookupLock, Looking, Goto, At
  <2> QED
    BY <1>31, <2>1, <2>2 DEF ReadTable
<1>32. CASE KeepTable(t)
  BY <1>a, <1>32 DEF KeepTable, Kinds, LookupLock, Looking, Goto, At, Get, Unget, CanRead, data, queue
<1>33. CASE ReadRoot(t)
  BY <1>a, <1>33 DEF ReadRoot, Kinds, LookupLock, Looking, Goto, At, Get, Unget, CanRead, data, queue
<1>34. CASE Scan(t)
  BY <1>a, <1>34 DEF Scan, Kinds, LookupLock, Looking, Goto, At, Get, Unget, CanRead, data, queue
<1>35. CASE Found(t)
  BY <1>a, <1>35 DEF Found, Kinds, LookupLock, Looking, Goto, At, Get, Unget, CanRead, data, queue
<1>36. CASE Release(t)
  BY <1>a, <1>36 DEF Release, Kinds, LookupLock, Looking, Goto, At, Get, Unget, CanRead, data, queue
<1>37. CASE Close(t)
  BY <1>a, <1>37 DEF Close, Kinds, LookupLock, Looking, Goto, At, Get, Unget, CanRead, data, queue
<1>38. CASE ForceFinalize(t)
  BY <1>a, <1>38 DEF ForceFinalize, Kinds, LookupLock, Looking, Goto, At, Get, Unget, CanRead, data, queue
<1>39. CASE DrainOne(t)
  BY <1>a, <1>39 DEF DrainOne, Kinds, LookupLock, Looking, Goto, At, Get, Unget, CanRead, data, queue, Take
<1>40. CASE Closed(t)
  BY <1>a, <1>40 DEF Closed, Kinds, LookupLock, Looking, Goto, At, Get, Unget, CanRead, data, queue
<1> QED
  BY <1>1, <1>2, <1>3, <1>4, <1>5, <1>6, <1>7, <1>8, <1>9, <1>10, <1>11, <1>12, <1>13, <1>14, <1>15,
     <1>16, <1>17, <1>18, <1>19, <1>20, <1>21, <1>22, <1>23, <1>24, <1>25, <1>26, <1>27, <1>28,
     <1>29, <1>30, <1>31, <1>32, <1>33, <1>34, <1>35, <1>36, <1>37, <1>38, <1>39, <1>40 DEF Acts,
     InsertStep, FlushStep, ReadStep, CloseStep

LEMMA RootClaimStep ==
  ASSUME Shape, NEW t \in Thread, Acts(t)
  PROVE  RootClaim'
<1>a. /\ Kinds /\ RootClaim /\ Noone \notin Thread /\ Places(t)
  BY MemtablesAssumption DEF Shape
<1>1. CASE BeginInsert(t)
  BY <1>a, <1>1 DEF BeginInsert, Kinds, RootClaim, Goto, At, data, queue
<1>2. CASE BeginAgain(t)
  BY <1>a, <1>2 DEF BeginAgain, Kinds, RootClaim, Goto, At, data, queue
<1>3. CASE HasRoom(t)
  BY <1>a, <1>3 DEF HasRoom, Kinds, RootClaim, Goto, At, data, queue
<1>4. CASE Busy(t)
  BY <1>a, <1>4 DEF Busy, Kinds, RootClaim, Goto, At, data, queue
<1>5. CASE BusyWorks(t)
  BY <1>a, <1>5 DEF BusyWorks, Kinds, RootClaim, Goto, At, data, queue, Take
<1>6. CASE BusyWaits(t)
  BY <1>a, <1>6 DEF BusyWaits, Kinds, RootClaim, Goto, At, data, queue
<1>7. CASE Rotating(t)
  BY <1>a, <1>7 DEF Rotating, Kinds, RootClaim, Goto, At, data, queue
<1>8. CASE Rotate(t)
  BY <1>a, <1>8 DEF Rotate, Kinds, RootClaim, Goto, At, data, queue
<1>9. CASE Process(t)
  BY <1>a, <1>9 DEF Process, Kinds, RootClaim, Goto, At, data, queue
<1>10. CASE TreeInsert(t)
  BY <1>a, <1>10 DEF TreeInsert, Kinds, RootClaim, Goto, At, data, queue
<1>11. CASE EndInsert(t)
  BY <1>a, <1>11 DEF EndInsert, Kinds, RootClaim, Goto, At, data, queue
<1>12. CASE AfterWorks(t)
  BY <1>a, <1>12 DEF AfterWorks, Kinds, RootClaim, Goto, At, data, queue, Take
<1>13. CASE AfterWaits(t)
  BY <1>a, <1>13 DEF AfterWaits, Kinds, RootClaim, Goto, At, data, queue
<1>14. CASE WorkerTakes(t)
  BY <1>a, <1>14 DEF WorkerTakes, Kinds, RootClaim, Goto, At, data, queue, Take
<1>15. CASE TaskDone(t)
  BY <1>a, <1>15, LocalFields DEF TaskDone, Kinds, RootClaim, Goto, At, data, queue
<1>16. CASE Compact(t)
  BY <1>a, <1>16 DEF Compact, Kinds, RootClaim, Goto, At, data, queue
<1>17. CASE EndCompact(t)
  BY <1>a, <1>17 DEF EndCompact, Kinds, RootClaim, Goto, At, data, queue
<1>18. CASE TryStart(t)
  BY <1>a, <1>18 DEF TryStart, Kinds, RootClaim, Goto, At, data, queue
<1>19. CASE CopyRoot(t)
  BY <1>a, <1>19 DEF CopyRoot, Kinds, RootClaim, Goto, At, data, queue
<1>20. CASE BlockLookups(t)
  BY <1>a, <1>20 DEF BlockLookups, Kinds, RootClaim, Goto, At, data, queue
<1>21. CASE Retire(t)
  BY <1>a, <1>21 DEF Retire, Kinds, RootClaim, Goto, At, data, queue
<1>22. CASE SwitchRoot(t)
  BY <1>a, <1>22 DEF SwitchRoot, Kinds, RootClaim, Goto, At, data, queue
<1>23. CASE UnblockLookups(t)
  BY <1>a, <1>23 DEF UnblockLookups, Kinds, RootClaim, Goto, At, data, queue
<1>24. CASE DecRef(t)
  BY <1>a, <1>24 DEF DecRef, Kinds, RootClaim, Goto, At, data, queue, After
<1>25. CASE Recycle(t)
  BY <1>a, <1>25 DEF Recycle, Kinds, RootClaim, Goto, At, data, queue
<1>26. CASE Ready(t)
  BY <1>a, <1>26 DEF Ready, Kinds, RootClaim, Goto, At, data, queue, After
<1>27. CASE TryContinue(t)
  BY <1>a, <1>27 DEF TryContinue, Kinds, RootClaim, Goto, At, data, queue
<1>28. CASE BeginLookup(t)
  BY <1>a, <1>28 DEF BeginLookup, Kinds, RootClaim, Goto, At, data, queue
<1>29. CASE ReadGenerations(t)
  BY <1>a, <1>29 DEF ReadGenerations, Kinds, RootClaim, Goto, At, data, queue
<1>30. CASE PickTable(t)
  BY <1>a, <1>30 DEF PickTable, Kinds, RootClaim, Goto, At, data, queue
<1>31. CASE ReadTable(t)
  BY <1>a, <1>31 DEF ReadTable, Kinds, RootClaim, Goto, At, data, queue
<1>32. CASE KeepTable(t)
  BY <1>a, <1>32 DEF KeepTable, Kinds, RootClaim, Goto, At, data, queue
<1>33. CASE ReadRoot(t)
  BY <1>a, <1>33 DEF ReadRoot, Kinds, RootClaim, Goto, At, data, queue
<1>34. CASE Scan(t)
  BY <1>a, <1>34 DEF Scan, Kinds, RootClaim, Goto, At, data, queue
<1>35. CASE Found(t)
  BY <1>a, <1>35 DEF Found, Kinds, RootClaim, Goto, At, data, queue
<1>36. CASE Release(t)
  BY <1>a, <1>36 DEF Release, Kinds, RootClaim, Goto, At, data, queue
<1>37. CASE Close(t)
  BY <1>a, <1>37 DEF Close, Kinds, RootClaim, Goto, At, data, queue
<1>38. CASE ForceFinalize(t)
  BY <1>a, <1>38 DEF ForceFinalize, Kinds, RootClaim, Goto, At, data, queue
<1>39. CASE DrainOne(t)
  BY <1>a, <1>39 DEF DrainOne, Kinds, RootClaim, Goto, At, data, queue, Take
<1>40. CASE Closed(t)
  BY <1>a, <1>40 DEF Closed, Kinds, RootClaim, Goto, At, data, queue
<1> QED
  BY <1>1, <1>2, <1>3, <1>4, <1>5, <1>6, <1>7, <1>8, <1>9, <1>10, <1>11, <1>12, <1>13, <1>14, <1>15,
     <1>16, <1>17, <1>18, <1>19, <1>20, <1>21, <1>22, <1>23, <1>24, <1>25, <1>26, <1>27, <1>28,
     <1>29, <1>30, <1>31, <1>32, <1>33, <1>34, <1>35, <1>36, <1>37, <1>38, <1>39, <1>40 DEF Acts,
     InsertStep, FlushStep, ReadStep, CloseStep

LEMMA CountedStep ==
  ASSUME Shape, NEW t \in Thread, Acts(t)
  PROVE  Counted'
<1>a. pc \in [Thread -> Label] /\ executing \in Int /\ Places(t) /\ Others(t)
  BY OthersStep DEF Shape, Kinds
<1>1. CASE BeginInsert(t)
  <2>1. executing' = executing /\ (Works(t)' <=> Works(t))
    BY <1>a, <1>1, ThreadsDisjoint DEF BeginInsert, Places, Works, Working, Assigned, Retired,
       Recycling, Goto, At, queue
  <2> QED
    BY <1>a, <2>1, CountedSame
<1>2. CASE BeginAgain(t)
  <2>1. executing' = executing /\ (Works(t)' <=> Works(t))
    BY <1>a, <1>2, ThreadsDisjoint DEF BeginAgain, Places, Works, Working, Assigned, Retired,
       Recycling, Goto, At, queue
  <2> QED
    BY <1>a, <2>1, CountedSame
<1>3. CASE HasRoom(t)
  <2>1. executing' = executing /\ (Works(t)' <=> Works(t))
    BY <1>a, <1>3, ThreadsDisjoint DEF HasRoom, Places, Works, Working, Assigned, Retired,
       Recycling, Goto, At, queue
  <2> QED
    BY <1>a, <2>1, CountedSame
<1>4. CASE Busy(t)
  <2>1. executing' = executing /\ (Works(t)' <=> Works(t))
    BY <1>a, <1>4, ThreadsDisjoint DEF Busy, Places, Works, Working, Assigned, Retired, Recycling,
       Goto, At, queue
  <2> QED
    BY <1>a, <2>1, CountedSame
<1>5. CASE BusyWorks(t)
  <2>1. executing' = executing + 1 /\ ~Works(t) /\ Works(t)'
    BY <1>a, <1>5, ThreadsDisjoint DEF BusyWorks, Take, Places, Works, Working, Assigned, Retired,
       Recycling, Goto, At, queue
  <2> QED
    BY <1>a, <2>1, CountedMore
<1>6. CASE BusyWaits(t)
  <2>1. executing' = executing /\ (Works(t)' <=> Works(t))
    BY <1>a, <1>6, ThreadsDisjoint DEF BusyWaits, Places, Works, Working, Assigned, Retired,
       Recycling, Goto, At, queue
  <2> QED
    BY <1>a, <2>1, CountedSame
<1>7. CASE Rotating(t)
  <2>1. executing' = executing /\ (Works(t)' <=> Works(t))
    BY <1>a, <1>7, ThreadsDisjoint DEF Rotating, Places, Works, Working, Assigned, Retired,
       Recycling, Goto, At, queue
  <2> QED
    BY <1>a, <2>1, CountedSame
<1>8. CASE Rotate(t)
  <2>1. executing' = executing /\ (Works(t)' <=> Works(t))
    BY <1>a, <1>8, ThreadsDisjoint DEF Rotate, Places, Works, Working, Assigned, Retired, Recycling,
       Goto, At, queue
  <2> QED
    BY <1>a, <2>1, CountedSame
<1>9. CASE Process(t)
  <2>1. executing' = executing /\ (Works(t)' <=> Works(t))
    BY <1>a, <1>9, ThreadsDisjoint DEF Process, Places, Works, Working, Assigned, Retired,
       Recycling, Goto, At, queue
  <2> QED
    BY <1>a, <2>1, CountedSame
<1>10. CASE TreeInsert(t)
  <2>1. executing' = executing /\ (Works(t)' <=> Works(t))
    BY <1>a, <1>10, ThreadsDisjoint DEF TreeInsert, Places, Works, Working, Assigned, Retired,
       Recycling, Goto, At, queue
  <2> QED
    BY <1>a, <2>1, CountedSame
<1>11. CASE EndInsert(t)
  <2>1. executing' = executing /\ (Works(t)' <=> Works(t))
    BY <1>a, <1>11, ThreadsDisjoint DEF EndInsert, Places, Works, Working, Assigned, Retired,
       Recycling, Goto, At, queue
  <2> QED
    BY <1>a, <2>1, CountedSame
<1>12. CASE AfterWorks(t)
  <2>1. executing' = executing + 1 /\ ~Works(t) /\ Works(t)'
    BY <1>a, <1>12, ThreadsDisjoint DEF AfterWorks, Take, Places, Works, Working, Assigned, Retired,
       Recycling, Goto, At, queue
  <2> QED
    BY <1>a, <2>1, CountedMore
<1>13. CASE AfterWaits(t)
  <2>1. executing' = executing /\ (Works(t)' <=> Works(t))
    BY <1>a, <1>13, ThreadsDisjoint DEF AfterWaits, Places, Works, Working, Assigned, Retired,
       Recycling, Goto, At, queue
  <2> QED
    BY <1>a, <2>1, CountedSame
<1>14. CASE WorkerTakes(t)
  <2>1. executing' = executing + 1 /\ ~Works(t) /\ Works(t)'
    BY <1>a, <1>14, ThreadsDisjoint DEF WorkerTakes, Take, Places, Works, Working, Assigned,
       Retired, Recycling, Goto, At, queue
  <2> QED
    BY <1>a, <2>1, CountedMore
<1>15. CASE TaskDone(t)
  <2>1. at[t].back \in {"idle", "begin", "drain"} /\ t \notin Reader
    BY <1>a, <1>15, LocalFields, ThreadsDisjoint DEF TaskDone, Places, At, Shape, Kinds, Recycling,
       Working, Assigned, Retired
  <2>2. executing' = executing - 1 /\ Works(t) /\ ~Works(t)'
    BY <1>a, <1>15, <2>1 DEF TaskDone, Works, Working, Assigned, Retired, Recycling, Goto, At, queue
  <2> QED
    BY <1>a, <2>2, CountedLess
<1>16. CASE Compact(t)
  <2>1. executing' = executing /\ (Works(t)' <=> Works(t))
    BY <1>a, <1>16, ThreadsDisjoint DEF Compact, Places, Works, Working, Assigned, Retired,
       Recycling, Goto, At, queue
  <2> QED
    BY <1>a, <2>1, CountedSame
<1>17. CASE EndCompact(t)
  <2>1. executing' = executing /\ (Works(t)' <=> Works(t))
    BY <1>a, <1>17, ThreadsDisjoint DEF EndCompact, Places, Works, Working, Assigned, Retired,
       Recycling, Goto, At, queue
  <2> QED
    BY <1>a, <2>1, CountedSame
<1>18. CASE TryStart(t)
  <2>1. executing' = executing /\ (Works(t)' <=> Works(t))
    BY <1>a, <1>18, ThreadsDisjoint DEF TryStart, Places, Works, Working, Assigned, Retired,
       Recycling, Goto, At, queue
  <2> QED
    BY <1>a, <2>1, CountedSame
<1>19. CASE CopyRoot(t)
  <2>1. executing' = executing /\ (Works(t)' <=> Works(t))
    BY <1>a, <1>19, ThreadsDisjoint DEF CopyRoot, Places, Works, Working, Assigned, Retired,
       Recycling, Goto, At, queue
  <2> QED
    BY <1>a, <2>1, CountedSame
<1>20. CASE BlockLookups(t)
  <2>1. executing' = executing /\ (Works(t)' <=> Works(t))
    BY <1>a, <1>20, ThreadsDisjoint DEF BlockLookups, Places, Works, Working, Assigned, Retired,
       Recycling, Goto, At, queue
  <2> QED
    BY <1>a, <2>1, CountedSame
<1>21. CASE Retire(t)
  <2>1. executing' = executing /\ (Works(t)' <=> Works(t))
    BY <1>a, <1>21, ThreadsDisjoint DEF Retire, Places, Works, Working, Assigned, Retired,
       Recycling, Goto, At, queue
  <2> QED
    BY <1>a, <2>1, CountedSame
<1>22. CASE SwitchRoot(t)
  <2>1. executing' = executing /\ (Works(t)' <=> Works(t))
    BY <1>a, <1>22, ThreadsDisjoint DEF SwitchRoot, Places, Works, Working, Assigned, Retired,
       Recycling, Goto, At, queue
  <2> QED
    BY <1>a, <2>1, CountedSame
<1>23. CASE UnblockLookups(t)
  <2>1. executing' = executing /\ (Works(t)' <=> Works(t))
    BY <1>a, <1>23, ThreadsDisjoint DEF UnblockLookups, Places, Works, Working, Assigned, Retired,
       Recycling, Goto, At, queue
  <2> QED
    BY <1>a, <2>1, CountedSame
<1>24. CASE DecRef(t)
  <2>1. executing' = executing /\ (Works(t)' <=> Works(t))
    BY <1>a, <1>24, ThreadsDisjoint DEF DecRef, Places, Works, Working, Assigned, Retired,
       Recycling, Goto, At, queue, After
  <2> QED
    BY <1>a, <2>1, CountedSame
<1>25. CASE Recycle(t)
  <2>1. executing' = executing /\ (Works(t)' <=> Works(t))
    BY <1>a, <1>25, ThreadsDisjoint DEF Recycle, Places, Works, Working, Assigned, Retired,
       Recycling, Goto, At, queue
  <2> QED
    BY <1>a, <2>1, CountedSame
<1>26. CASE Ready(t)
  <2>1. executing' = executing /\ (Works(t)' <=> Works(t))
    BY <1>a, <1>26, ThreadsDisjoint DEF Ready, Places, Works, Working, Assigned, Retired, Recycling,
       Goto, At, queue, After
  <2> QED
    BY <1>a, <2>1, CountedSame
<1>27. CASE TryContinue(t)
  <2>1. executing' = executing /\ (Works(t)' <=> Works(t))
    BY <1>a, <1>27, ThreadsDisjoint DEF TryContinue, Places, Works, Working, Assigned, Retired,
       Recycling, Goto, At, queue
  <2> QED
    BY <1>a, <2>1, CountedSame
<1>28. CASE BeginLookup(t)
  <2>1. executing' = executing /\ (Works(t)' <=> Works(t))
    BY <1>a, <1>28, ThreadsDisjoint DEF BeginLookup, Places, Works, Working, Assigned, Retired,
       Recycling, Goto, At, queue
  <2> QED
    BY <1>a, <2>1, CountedSame
<1>29. CASE ReadGenerations(t)
  <2>1. executing' = executing /\ (Works(t)' <=> Works(t))
    BY <1>a, <1>29, ThreadsDisjoint DEF ReadGenerations, Places, Works, Working, Assigned, Retired,
       Recycling, Goto, At, queue
  <2> QED
    BY <1>a, <2>1, CountedSame
<1>30. CASE PickTable(t)
  <2>1. executing' = executing /\ (Works(t)' <=> Works(t))
    BY <1>a, <1>30, ThreadsDisjoint DEF PickTable, Places, Works, Working, Assigned, Retired,
       Recycling, Goto, At, queue
  <2> QED
    BY <1>a, <2>1, CountedSame
<1>31. CASE ReadTable(t)
  <2>1. executing' = executing /\ (Works(t)' <=> Works(t))
    BY <1>a, <1>31, ThreadsDisjoint DEF ReadTable, Places, Works, Working, Assigned, Retired,
       Recycling, Goto, At, queue
  <2> QED
    BY <1>a, <2>1, CountedSame
<1>32. CASE KeepTable(t)
  <2>1. executing' = executing /\ (Works(t)' <=> Works(t))
    BY <1>a, <1>32, ThreadsDisjoint DEF KeepTable, Places, Works, Working, Assigned, Retired,
       Recycling, Goto, At, queue
  <2> QED
    BY <1>a, <2>1, CountedSame
<1>33. CASE ReadRoot(t)
  <2>1. executing' = executing /\ (Works(t)' <=> Works(t))
    BY <1>a, <1>33, ThreadsDisjoint DEF ReadRoot, Places, Works, Working, Assigned, Retired,
       Recycling, Goto, At, queue
  <2> QED
    BY <1>a, <2>1, CountedSame
<1>34. CASE Scan(t)
  <2>1. executing' = executing /\ (Works(t)' <=> Works(t))
    BY <1>a, <1>34, ThreadsDisjoint DEF Scan, Places, Works, Working, Assigned, Retired, Recycling,
       Goto, At, queue
  <2> QED
    BY <1>a, <2>1, CountedSame
<1>35. CASE Found(t)
  <2>1. executing' = executing /\ (Works(t)' <=> Works(t))
    BY <1>a, <1>35, ThreadsDisjoint DEF Found, Places, Works, Working, Assigned, Retired, Recycling,
       Goto, At, queue
  <2> QED
    BY <1>a, <2>1, CountedSame
<1>36. CASE Release(t)
  <2>1. executing' = executing /\ (Works(t)' <=> Works(t))
    BY <1>a, <1>36, ThreadsDisjoint DEF Release, Places, Works, Working, Assigned, Retired,
       Recycling, Goto, At, queue
  <2> QED
    BY <1>a, <2>1, CountedSame
<1>37. CASE Close(t)
  <2>1. executing' = executing /\ (Works(t)' <=> Works(t))
    BY <1>a, <1>37, ThreadsDisjoint DEF Close, Places, Works, Working, Assigned, Retired, Recycling,
       Goto, At, queue
  <2> QED
    BY <1>a, <2>1, CountedSame
<1>38. CASE ForceFinalize(t)
  <2>1. executing' = executing /\ (Works(t)' <=> Works(t))
    BY <1>a, <1>38, ThreadsDisjoint DEF ForceFinalize, Places, Works, Working, Assigned, Retired,
       Recycling, Goto, At, queue
  <2> QED
    BY <1>a, <2>1, CountedSame
<1>39. CASE DrainOne(t)
  <2>1. executing' = executing + 1 /\ ~Works(t) /\ Works(t)'
    BY <1>a, <1>39, ThreadsDisjoint DEF DrainOne, Take, Places, Works, Working, Assigned, Retired,
       Recycling, Goto, At, queue
  <2> QED
    BY <1>a, <2>1, CountedMore
<1>40. CASE Closed(t)
  <2>1. executing' = executing /\ (Works(t)' <=> Works(t))
    BY <1>a, <1>40, ThreadsDisjoint DEF Closed, Places, Works, Working, Assigned, Retired,
       Recycling, Goto, At, queue
  <2> QED
    BY <1>a, <2>1, CountedSame
<1> QED
  BY <1>1, <1>2, <1>3, <1>4, <1>5, <1>6, <1>7, <1>8, <1>9, <1>10, <1>11, <1>12, <1>13, <1>14, <1>15,
     <1>16, <1>17, <1>18, <1>19, <1>20, <1>21, <1>22, <1>23, <1>24, <1>25, <1>26, <1>27, <1>28,
     <1>29, <1>30, <1>31, <1>32, <1>33, <1>34, <1>35, <1>36, <1>37, <1>38, <1>39, <1>40 DEF Acts,
     InsertStep, FlushStep, ReadStep, CloseStep

LEMMA ShapeStep ==
  ASSUME Shape, [Next]_vars
  PROVE  Shape'
<1>1. CASE \E t \in Thread : Acts(t)
  BY <1>1, KindsStep, PlacesStep, InsertLockStep, LookupLockStep, RootClaimStep, CountedStep
  DEF Shape
<1>2. CASE UNCHANGED vars
  BY <1>2 DEF vars, data, queue, Shape, Kinds, Places, Works, InsertLock, Under, LookupLock, Looking,
              RootClaim, Counted
<1> QED
  BY <1>1, <1>2 DEF Next, Step, Acts

-----------------------------------------------------------------------------
(* What Core says, in the forms that the steps need.                       *)

\* Two generations of a memtable are Tables apart.
LEMMA SameSlot ==
  ASSUME NEW g \in Int, NEW h \in Int, Of(g) = Of(h)
  PROVE  g = h \/ g >= h + Tables \/ h >= g + Tables
<1>1. /\ g = Tables * (g \div Tables) + Of(g) /\ g \div Tables \in Int
      /\ h = Tables * (h \div Tables) + Of(h) /\ h \div Tables \in Int
      /\ Of(g) \in Int
  BY MemtablesAssumption DEF Of
<1>2. PICK p \in Int, q \in Int, r \in Int : g = Tables * p + r /\ h = Tables * q + r
  BY <1>1
<1>3. ASSUME NEW a \in Int, NEW b \in Int, a < b PROVE Tables * b >= Tables * a + Tables
  <2>1. PICK c \in Nat : b = a + 1 + c
    BY <1>3
  <2>2. Tables * b = Tables * a + Tables + Tables * c /\ Tables * c >= 0
    BY <2>1, MemtablesAssumption
  <2> QED
    BY <2>2, MemtablesAssumption
<1>4. p = q \/ p < q \/ q < p
  OBVIOUS
<1>5. Tables * p \in Int /\ Tables * q \in Int /\ Tables \in Int
  BY MemtablesAssumption
<1> QED
  BY <1>2, <1>3, <1>4, <1>5
LEMMA NextSlot ==
  ASSUME NEW g \in Int
  PROVE  Of(g + Tables) = Of(g)
<1>1. Tables \in Int /\ Tables > 0
  BY MemtablesAssumption
<1>2. /\ g = Tables * (g \div Tables) + Of(g) /\ g \div Tables \in Int
      /\ g + Tables = Tables * ((g + Tables) \div Tables) + Of(g + Tables)
      /\ (g + Tables) \div Tables \in Int
      /\ Of(g) \in 0 .. Tables - 1 /\ Of(g + Tables) \in 0 .. Tables - 1
  BY <1>1 DEF Of
<1>3. PICK p \in Int, q \in Int, r \in 0 .. Tables - 1, z \in 0 .. Tables - 1 :
        g = Tables * p + r /\ g + Tables = Tables * q + z /\ r = Of(g) /\ z = Of(g + Tables)
  BY <1>2
<1>4. Tables * (q - p - 1) = r - z
  BY <1>1, <1>3
<1>5. ASSUME NEW d \in Int, Tables * d = r - z PROVE r = z
  <2>1. CASE d = 0
    BY <1>1, <1>5, <2>1
  <2>2. CASE d >= 1
    <3>1. PICK c \in Nat : d = c + 1
      BY <2>2
    <3>2. Tables * d = Tables + Tables * c /\ Tables * c >= 0
      BY <1>1, <3>1
    <3> QED
      BY <1>1, <1>5, <3>2
  <2>3. CASE d <= -1
    <3>1. PICK c \in Nat : d = -1 - c
      BY <2>3
    <3>2. Tables * d = -Tables - Tables * c /\ Tables * c >= 0
      BY <1>1, <3>1
    <3> QED
      BY <1>1, <1>5, <3>2
  <2> QED
    BY <1>5, <2>1, <2>2, <2>3
<1>6. r = z
  BY <1>4, <1>5
<1> QED
  BY <1>3, <1>6

\* Who refers to a memtable keeps it from being made new.
LEMMA RefersFinite == ASSUME NEW s PROVE IsFiniteSet({t \in Thread : Refers(t, s)})
BY ThreadsDisjoint, FS_Subset
LEMMA OneRefers ==
  ASSUME Kinds, NEW s \in Slot, Counts(s), NEW t \in Thread, Refers(t, s)
  PROVE  mt[s].refs >= 1
<1> DEFINE R == {u \in Thread : Refers(u, s)}
<1>1. IsFiniteSet(R) /\ t \in R
  BY RefersFinite
<1>2. Cardinality(R) \in Nat /\ Cardinality(R) # 0
  BY <1>1, FS_CardinalityType, FS_EmptySet
<1> QED
  BY <1>2 DEF Counts
LEMMA TwoRefer ==
  ASSUME Kinds, NEW s \in Slot, Counts(s), NEW t \in Thread, NEW u \in Thread, t # u,
         Refers(t, s), Refers(u, s)
  PROVE  mt[s].refs >= 2
<1> DEFINE R == {v \in Thread : Refers(v, s)}
<1>1. IsFiniteSet(R) /\ t \in R /\ u \in R
  BY RefersFinite
<1>2. IsFiniteSet(R \ {t}) /\ Cardinality(R \ {t}) = Cardinality(R) - 1 /\ u \in R \ {t}
  BY <1>1, FS_RemoveElement
<1>3. Cardinality(R \ {t}) \in Nat /\ Cardinality(R \ {t}) # 0 /\ Cardinality(R) \in Nat
  BY <1>1, <1>2, FS_CardinalityType, FS_EmptySet
<1> QED
  BY <1>2, <1>3 DEF Counts
LEMMA NoneRefers ==
  ASSUME Kinds, NEW s \in Slot, Counts(s), mt[s].refs = 0, NEW t \in Thread
  PROVE  ~Refers(t, s)
BY OneRefers

\* The memtable of somebody's hands is in nobody else's.
InHands(t) ==
  \/ Handles(t) \/ pc[t] = "packed" \/ Assigns(t) \/ pc[t] \in Recycling
  \/ t \notin Reader /\ pc[t] \in {"switch", "unblock", "decref"}
LEMMA Alone ==
  ASSUME Kinds, Core, NEW t \in Thread, NEW u \in Thread, t # u, InHands(t), InHands(u)
  PROVE  Mine(t) # Mine(u)
<1> SUFFICES ASSUME Mine(t) = Mine(u) PROVE FALSE
  OBVIOUS
<1>1. /\ Tasks(t) /\ Tasks(u) /\ Apart(t, u) /\ Mine(t) \in Slot /\ Counts(Mine(t))
      /\ ctxt.retired < Generation /\ ctxt.to_incorporate \in Int /\ ctxt.retired \in Int
      /\ Generation \in Int /\ mt[Mine(t)].generation \in Int
  BY Fields DEF Core, Mind, Slots, Window, Generation
<1>2. CASE pc[t] \in Recycling /\ ~(pc[u] \in Recycling)
  <2>1. t # u /\ u \notin Reader /\ pc[u] \in {"switch", "unblock", "decref"} /\ Refers(u, Mine(t))
    BY <1>1, <1>2 DEF Tasks, Has, InHands, Refers
  <2>2. mt[Mine(t)].refs >= 1
    BY <1>1, <2>1, OneRefers
  <2>3. CASE pc[t] = "recycle"
    BY <1>1, <2>2, <2>3 DEF Tasks
  <2>4. CASE pc[t] = "ready"
    BY <1>1, <2>1, <2>4 DEF Tasks, Has, Retired, Incorporates
  <2> QED
    BY <1>2, <2>3, <2>4 DEF Recycling
<1>3. CASE pc[u] \in Recycling /\ ~(pc[t] \in Recycling)
  <2>1. t # u /\ t \notin Reader /\ pc[t] \in {"switch", "unblock", "decref"} /\ Refers(t, Mine(t))
    BY <1>1, <1>3 DEF Tasks, Has, InHands, Refers
  <2>2. mt[Mine(t)].refs >= 1
    BY <1>1, <2>1, OneRefers
  <2>3. CASE pc[u] = "recycle"
    BY <1>1, <2>2, <2>3 DEF Tasks
  <2>4. CASE pc[u] = "ready"
    BY <1>1, <2>1, <2>4 DEF Tasks, Has, Retired, Incorporates
  <2> QED
    BY <1>3, <2>3, <2>4 DEF Recycling
<1>4. CASE pc[t] \in Recycling /\ pc[u] \in Recycling
  BY <1>1, <1>4 DEF Apart
<1>5. CASE ~(pc[t] \in Recycling) /\ ~(pc[u] \in Recycling)
  BY <1>1, <1>5 DEF InHands, Tasks, Has, Apart, Incorporates, Assigns, Assigned, Retired
<1> QED
  BY <1>2, <1>3, <1>4, <1>5

\* The threads keep apart when one of them changes and stays apart from the rest.
LEMMA ApartStep ==
  ASSUME Core, NEW t \in Thread, Others(t), \A u \in Thread : u # t => Apart(t, u)'
  PROVE  (\A u, v \in Thread : u # v => Apart(u, v))'
<1> SUFFICES ASSUME NEW u \in Thread, NEW v \in Thread, u # v PROVE Apart(u, v)'
  OBVIOUS
<1>1. CASE u # t /\ v # t
  <2>1. Apart(u, v)
    BY DEF Core
  <2> QED
    BY <1>1, <2>1 DEF Others, Apart, Handles, Incorporates, Mine
<1>2. CASE u = t
  BY <1>2
<1>3. CASE v = t
  <2>1. Apart(v, u)'
    BY <1>3
  <2> QED
    BY <2>1 DEF Apart
<1> QED
  BY <1>1, <1>2, <1>3

\* The generations and the memtables are as they were.
SameContext ==
  /\ ctxt'.generation = Generation /\ ctxt'.retired = ctxt.retired
  /\ ctxt'.to_incorporate = ctxt.to_incorporate
SameTable(s) ==
  /\ mt'[s].state = mt[s].state /\ mt'[s].generation = mt[s].generation
  /\ mt'[s].refs = mt[s].refs

\* A step in which a thread keeps what it has in its hands and what it holds.
Alike(t) ==
  /\ Handles(t)' <=> Handles(t)
  /\ \A l \in {"packed", "start"} \cup Recycling : pc'[t] = l <=> pc[t] = l
  /\ Assigns(t)' <=> Assigns(t)
  /\ Incorporates(t)' <=> Incorporates(t)
  /\ t \notin Reader => (pc'[t] \in {"switch", "unblock", "decref"} <=> pc[t] \in {"switch", "unblock", "decref"})
  /\ InHands(t) \/ pc[t] = "start" \/ Incorporates(t) => at'[t].gen = at[t].gen
  /\ Holding(t)' = Holding(t)

LEMMA AlikeStep ==
  ASSUME Shape, Core, Shape', NEW t \in Thread, Others(t), Alike(t),
         SameContext, \A s \in Slot : SameTable(s), tasks' = tasks,
         Keeps(t)', Reads(t)', Closing'
  PROVE  Core'
<1> USE DEF Generation
<1>1. \A g \in Int : Of(g) \in Slot
  BY SlotOf
<1>2. /\ ctxt.generation \in Int /\ ctxt.retired \in Int
      /\ \A u \in Thread : at[u].gen \in Int /\ Mine(u) \in Slot /\ at[u].held \subseteq Int
      /\ \A s \in Slot : mt[s].generation \in Int
      /\ \A i \in DOMAIN tasks : tasks[i] \in Int
      /\ Current \in Slot
  BY Fields DEF Shape, Kinds
<1>3. \A u \in Thread : /\ Handles(u)' <=> Handles(u)
                        /\ Assigns(u)' <=> Assigns(u)
                        /\ Incorporates(u)' <=> Incorporates(u)
                        /\ \A l \in {"packed", "start", "recycle", "ready"} : pc'[u] = l <=> pc[u] = l
                        /\ u \notin Reader => (pc'[u] \in {"switch", "unblock", "decref"} <=> pc[u] \in {"switch", "unblock", "decref"})
                        /\ InHands(u) \/ pc[u] = "start" \/ Incorporates(u) => at'[u].gen = at[u].gen
                        /\ Holding(u)' = Holding(u)
  BY DEF Others, Alike, Handles, Assigns, Incorporates, Holding, Recycling
<1>4. Queue'
  BY <1>1, <1>2, <1>3 DEF Core, Queue, Queued, SameTable, InHands
<1>5. Turn'
  BY <1>3 DEF Core, Turn, SameContext
<1>6. Window'
  BY <1>1, <1>2 DEF Core, Window, SameContext, SameTable, Current
<1>7. ASSUME NEW s \in Slot PROVE Slots(s)'
  <2>1. Bounds(s)'
    BY DEF Core, Slots, Bounds, SameContext, SameTable
  <2>2. Cared(s)'
    BY <1>2, <1>3 DEF Core, Slots, Cared, SameContext, SameTable, Mine, InHands, Queued, Recycling
  <2>3. \A u \in Thread : Refers(u, s)' <=> Refers(u, s)
    BY <1>3 DEF Refers, Mine, InHands, Recycling
  <2>4. {u \in Thread : Refers(u, s)}' = {u \in Thread : Refers(u, s)}
    BY <2>3
  <2>5. Counts(s)'
    BY <2>4 DEF Core, Slots, Counts, SameTable
  <2> QED
    BY <2>1, <2>2, <2>5 DEF Slots
<1>8. Tasks(t)'
  <2>1. Tasks(t)
    BY DEF Core, Mind
  <2>2. InHands(t) \/ Incorporates(t) => Mine(t)' = Mine(t)
    BY <1>3 DEF Mine
  <2>3. /\ Handles(t)' => Has(t, "FINALIZED")'
        /\ (pc[t] = "packed")' => Has(t, "COMPACTING")'
        /\ Assigns(t)' => (ctxt.to_incorporate = ctxt.retired + 1)' /\ Has(t, "INCORPORATION_ASSIGNED")'
        /\ Incorporates(t)' => (at[t].gen = ctxt.to_incorporate)'
    BY <1>2, <1>3, <2>1, <2>2 DEF Tasks, Has, InHands, SameContext, SameTable
  <2>4. t \notin Reader /\ pc'[t] \in Retired => t \notin Reader /\ pc[t] \in Retired
    BY <1>3 DEF Incorporates, Assigns, Assigned, Retired
  <2> QED
    BY <1>2, <1>3, <2>1, <2>2, <2>3, <2>4
    DEF Tasks, Has, InHands, Recycling, SameContext, SameTable
<1>9. ASSUME NEW u \in Thread, u # t PROVE Mind(u)'
  <2>1. Mind(u) /\ pc'[u] = pc[u] /\ at'[u] = at[u] /\ Mine(u)' = Mine(u)
    BY <1>9 DEF Core, Others, Mine
  <2>2. Tasks(u)'
    BY <1>2, <2>1 DEF Mind, Tasks, Has, Handles, Assigns, Incorporates, SameContext, SameTable
  <2>3. Keeps(u)'
    BY <1>1, <1>2, <2>1 DEF Mind, Keeps, Holding, SameContext, SameTable
  <2>4. Reads(u)'
    BY <1>2, <2>1 DEF Mind, Reads, Compacted, SameContext, SameTable
  <2> QED
    BY <2>2, <2>3, <2>4 DEF Mind
<1>10. ASSUME NEW u \in Thread, u # t PROVE Apart(t, u)'
  <2>1. Apart(t, u)
    BY <1>10 DEF Core
  <2> QED
    BY <1>3, <1>10, <2>1 DEF Apart, Others, InHands, Mine, Recycling
<1>11. (\A u, v \in Thread : u # v => Apart(u, v))'
  BY <1>10, ApartStep
<1> QED
  BY <1>4, <1>5, <1>6, <1>7, <1>8, <1>9, <1>11 DEF Core, Mind

\* Nothing else goes on while somebody closes the database.
LEMMA Begins ==
  ASSUME NEW t \in Thread, Acts(t), pc[t] = "idle"
  PROVE  BeginInsert(t) \/ BeginLookup(t) \/ Close(t) \/ WorkerTakes(t)
BY DEF Acts, InsertStep, FlushStep, ReadStep, CloseStep, At, BeginAgain, HasRoom, Busy, BusyWorks,
       BusyWaits, Rotating, Rotate, Process, TreeInsert, EndInsert, AfterWorks, AfterWaits, TaskDone,
       Compact, EndCompact, TryStart, CopyRoot, BlockLookups, Retire, SwitchRoot, UnblockLookups,
       DecRef, Recycle, Ready, TryContinue, ReadGenerations, PickTable, ReadTable, KeepTable,
       ReadRoot, Scan, Found, Release, ForceFinalize, DrainOne, Closed
LEMMA WorkerActs ==
  ASSUME Shape, NEW t \in Worker, Acts(t), ~Works(t)
  PROVE  tasks # <<>>
<1>1. pc[t] = "idle" /\ t \in Thread
  BY ThreadsDisjoint DEF Shape, Places, Works, Thread
<1>2. BeginInsert(t) \/ BeginLookup(t) \/ Close(t) \/ WorkerTakes(t)
  BY <1>1, Begins
<1> QED
  BY <1>2, ThreadsDisjoint DEF BeginInsert, BeginLookup, Close, WorkerTakes, Take
LEMMA CloserActs ==
  ASSUME Shape, Closing, NEW t \in Closer, Acts(t)
  PROVE  \/ Close(t)
         \/ FlushStep(t) /\ pc[t] \notin {"idle", "finalize"}
         \/ pc[t] = "process" /\ Process(t)
         \/ CloseStep(t)
<1>1. t \in Thread /\ t \notin Reader /\ t \notin Inserter /\ t \notin Worker
  BY ThreadsDisjoint DEF Thread
<1>2. pc[t] \in {"idle", "finalize", "process", "drain", "closed"} \cup Working
  BY <1>1 DEF Shape, Places
<1>3. CASE pc[t] = "idle"
  BY <1>1, <1>3, Begins DEF BeginInsert, BeginLookup, WorkerTakes
<1>4. CASE pc[t] # "idle"
  <2>1. InsertStep(t) => pc[t] = "process" /\ Process(t)
    BY <1>2 DEF InsertStep, At, BeginAgain, HasRoom, Busy, BusyWorks, BusyWaits, Rotating, Rotate,
                Process, TreeInsert, EndInsert, AfterWorks, AfterWaits, Working, Assigned, Retired
  <2>2. ~ReadStep(t)
    BY <1>2 DEF ReadStep, At, ReadGenerations, PickTable, ReadTable, KeepTable, ReadRoot, Scan,
                Found, Release, Working, Assigned, Retired
  <2>3. ~BeginInsert(t) /\ ~BeginLookup(t) /\ ~Close(t)
    BY <1>4 DEF BeginInsert, BeginLookup, Close, At
  <2>4. FlushStep(t) => pc[t] # "finalize"
    BY <1>1 DEF FlushStep, At, WorkerTakes, TaskDone, Compact, EndCompact, TryStart, CopyRoot,
                BlockLookups, Retire, SwitchRoot, UnblockLookups, DecRef, Recycle, Ready, TryContinue
  <2> QED
    BY <1>4, <2>1, <2>2, <2>3, <2>4 DEF Acts
<1> QED
  BY <1>3, <1>4

LEMMA ClosingStep ==
  ASSUME ClosesIdle, Shape, Closing, NEW t \in Thread, Acts(t)
  PROVE  Closing'
<1>1. Others(t) /\ Places(t) /\ Kinds
  BY OthersStep DEF Shape
<1>2. CASE t \in Inserter \cup Reader
  <2>1. \A c \in Closer : pc[c] = "idle" /\ c # t
    <3>1. CASE pc[t] = "idle"
      BY <1>2, <3>1, Begins, ThreadsDisjoint DEF BeginInsert, BeginLookup, Close, WorkerTakes
    <3>2. CASE pc[t] # "idle"
      BY <1>2, <3>2, ThreadsDisjoint DEF Closing, AtRest
    <3> QED
      BY <3>1, <3>2
  <2> QED
    BY <1>1, <2>1 DEF Closing, Others, Thread
<1>3. CASE t \in Worker
  <2> SUFFICES ASSUME NEW c \in Closer, pc'[c] # "idle"
               PROVE  AtRest' /\ (pc'[c] = "finalize" => tasks' = <<>> /\ (\A u \in Thread : ~Works(u))')
    BY DEF Closing
  <2>1. pc'[c] = pc[c] /\ \A u \in Inserter \cup Reader : pc'[u] = pc[u]
    BY <1>1, <1>3, ThreadsDisjoint DEF Others, Thread
  <2>2. AtRest'
    BY <2>1 DEF Closing, AtRest
  <2>3. pc[c] # "finalize"
    BY <1>3, <2>1, WorkerActs DEF Closing
  <2> QED
    BY <2>1, <2>2, <2>3
<1>4. CASE t \in Closer
  <2>1. \A c \in Closer : c = t
    BY <1>4, ThreadsDisjoint
  <2>2. \A u \in Inserter \cup Reader : pc'[u] = pc[u]
    BY <1>1, <1>4, ThreadsDisjoint DEF Others, Thread
  <2>3. CASE pc[t] # "idle"
    <3>1. pc'[t] # "finalize"
      <4>1. ~Close(t)
        BY <2>3 DEF Close, At
      <4>2. CASE FlushStep(t)
        <5>1. TaskDone(t) => at[t].back \in {"idle", "begin", "drain"}
          BY <1>1, LocalFields DEF Kinds
        <5> QED
          BY <4>2, <5>1, <1>1 DEF Kinds, FlushStep, At, Goto, Take, After, WorkerTakes, TaskDone, Compact,
             EndCompact, TryStart, CopyRoot, BlockLookups, Retire, SwitchRoot, UnblockLookups, DecRef,
             Recycle, Ready, TryContinue
      <4>3. CASE CloseStep(t) \/ Process(t)
        BY <4>3, <1>1 DEF Kinds, CloseStep, Process, ForceFinalize, DrainOne, Closed, Take, Goto
      <4> QED
        BY <1>4, <4>1, <4>2, <4>3, CloserActs DEF FlushStep
    <3> QED
      BY <1>4, <2>1, <2>2, <2>3, <3>1 DEF Closing, AtRest
  <2>4. CASE pc[t] = "idle"
    <3>1. Close(t)
      BY <1>4, <2>4, Begins, ThreadsDisjoint DEF BeginInsert, BeginLookup, WorkerTakes, Thread
    <3>2. /\ \A u \in Inserter \cup Reader : pc[u] = "idle"
          /\ tasks = <<>> /\ executing = 0 /\ tasks' = tasks /\ pc'[t] \in {"drain", "finalize"}
      BY <1>1, <3>1 DEF Close, queue, Goto, Kinds
    <3>3. \A u \in Thread : ~Works(u)
      <4>1. IsFiniteSet({u \in Thread : Works(u)}) /\ Cardinality({u \in Thread : Works(u)}) = 0
        BY <3>2, ThreadsDisjoint, FS_Subset DEF Shape, Counted
      <4> QED
        BY <4>1, FS_EmptySet
    <3>4. (\A u \in Thread : ~Works(u))'
      BY <1>1, <3>2, <3>3 DEF Others, Works, Working, Assigned, Retired
    <3> QED
      BY <2>1, <2>2, <3>2, <3>4 DEF Closing, AtRest
  <2> QED
    BY <2>3, <2>4
<1> QED
  BY <1>2, <1>3, <1>4 DEF Thread

\* The steps that are alike: the thread has no memtable in its hands, or keeps it.
Neutral == {"idle", "begin", "check", "busy", "rotate", "insert", "inserted", "after", "gens",
            "tables", "read", "scan", "found", "done", "drain", "finalize", "closed", "release"}
LEMMA NeutralAlike ==
  ASSUME Kinds, NEW t \in Thread, pc[t] \in Neutral, pc'[t] \in Neutral, at'[t].held = at[t].held
  PROVE  Alike(t)
BY DEF Neutral, Alike, Handles, Assigns, Incorporates, InHands, Holding, Assigned, Retired, Recycling

LEMMA AlikeActs ==
  ASSUME ClosesIdle, Shape, Core, Shape', NEW t \in Thread, Acts(t),
         \/ BeginInsert(t) \/ BeginAgain(t) \/ HasRoom(t) \/ Busy(t) \/ BusyWaits(t) \/ Rotating(t)
         \/ TreeInsert(t) \/ EndInsert(t) \/ AfterWaits(t) \/ TaskDone(t) \/ CopyRoot(t)
         \/ BlockLookups(t) \/ SwitchRoot(t) \/ UnblockLookups(t) \/ BeginLookup(t)
         \/ ReadGenerations(t) \/ PickTable(t) \/ ReadTable(t) \/ (KeepTable(t) /\ Compacted(Mine(t)))
         \/ ReadRoot(t) \/ Scan(t) \/ Found(t) \/ Release(t) \/ Close(t) \/ Closed(t)
  PROVE  Core'
<1>a. /\ Kinds /\ Others(t) /\ Closing' /\ Places(t) /\ Kinds' /\ Places(t)'
      /\ pc \in [Thread -> Label] /\ at \in [Thread -> Local] /\ at[t] \in Local
  BY OthersStep, ClosingStep DEF Shape, Core, Kinds
<1>b. /\ Mine(t) \in Slot /\ Current \in Slot /\ Generation \in Nat /\ ctxt.retired \in Nat \cup {-1}
      /\ at[t].gen \in Int /\ at[t].held \subseteq Int /\ at[t].scan \in BOOLEAN
  BY <1>a, Fields DEF Generation
<1>c. Keeps(t) /\ Reads(t) /\ Tasks(t) /\ ctxt.retired < Generation /\ mt[Current].state = "READY"
  BY DEF Core, Mind, Window
<1>1. CASE BeginInsert(t)
  <2>1. pc[t] = "idle" /\ pc'[t] = "check"
    BY <1>a, <1>1 DEF BeginInsert, At, Goto, Kinds
  <2>2. at'[t] = at[t]
    BY <1>a, <1>b, <1>1 DEF BeginInsert, Mine
  <2>3. SameContext /\ (\A s \in Slot : SameTable(s)) /\ tasks' = tasks
    BY <1>a, <1>b, <1>1 DEF BeginInsert, SameContext, SameTable, Generation, data, queue
  <2>4. Alike(t)
    BY <1>a, <2>1, <2>2, NeutralAlike DEF Neutral
  <2>5. Keeps(t)'
    BY <1>a, <1>b, <1>c, <1>1, <2>1, <2>2, <2>3, SlotOf, ThreadsDisjoint DEF Keeps, Holding,
       SameContext, SameTable, Generation, Places, Working, Assigned, Retired, Recycling
  <2>6. Reads(t)'
    BY <1>a, <1>b, <1>c, <1>1, <2>1, <2>2, <2>3 DEF Reads, SameContext, SameTable, Generation
  <2> QED
    BY <1>a, <2>3, <2>4, <2>5, <2>6, AlikeStep
<1>2. CASE BeginAgain(t)
  <2>1. pc[t] = "begin" /\ pc'[t] = "check"
    BY <1>a, <1>2 DEF BeginAgain, At, Goto, Kinds
  <2>2. at'[t] = at[t]
    BY <1>a, <1>b, <1>2 DEF BeginAgain, Mine
  <2>3. SameContext /\ (\A s \in Slot : SameTable(s)) /\ tasks' = tasks
    BY <1>a, <1>b, <1>2 DEF BeginAgain, SameContext, SameTable, Generation, data, queue
  <2>4. Alike(t)
    BY <1>a, <2>1, <2>2, NeutralAlike DEF Neutral
  <2>5. Keeps(t)'
    BY <1>a, <1>b, <1>c, <1>2, <2>1, <2>2, <2>3, SlotOf, ThreadsDisjoint DEF Keeps, Holding,
       SameContext, SameTable, Generation, Places, Working, Assigned, Retired, Recycling
  <2>6. Reads(t)'
    BY <1>a, <1>b, <1>c, <1>2, <2>1, <2>2, <2>3 DEF Reads, SameContext, SameTable, Generation
  <2> QED
    BY <1>a, <2>3, <2>4, <2>5, <2>6, AlikeStep
<1>3. CASE HasRoom(t)
  <2>1. pc[t] = "check" /\ pc'[t] = "insert"
    BY <1>a, <1>3 DEF HasRoom, At, Goto, Kinds
  <2>2. at'[t].held = at[t].held /\ at'[t].gen = Generation
    BY <1>a, <1>b, <1>3 DEF HasRoom, Generation
  <2>3. SameContext /\ (\A s \in Slot : SameTable(s)) /\ tasks' = tasks
    BY <1>a, <1>b, <1>3 DEF HasRoom, SameContext, SameTable, Generation, data, queue
  <2>4. Alike(t)
    BY <1>a, <2>1, <2>2, NeutralAlike DEF Neutral
  <2>5. Keeps(t)'
    BY <1>a, <1>b, <1>c, <1>3, <2>1, <2>2, <2>3, SlotOf, ThreadsDisjoint DEF Keeps, Holding,
       SameContext, SameTable, Generation, Places, Working, Assigned, Retired, Recycling
  <2>6. Reads(t)'
    BY <1>a, <1>b, <1>c, <1>3, <2>1, <2>2, <2>3 DEF Reads, SameContext, SameTable, Generation
  <2> QED
    BY <1>a, <2>3, <2>4, <2>5, <2>6, AlikeStep
<1>4. CASE Busy(t)
  <2>1. pc[t] = "check" /\ pc'[t] = "busy"
    BY <1>a, <1>4 DEF Busy, At, Goto, Kinds
  <2>2. at'[t] = at[t]
    BY <1>a, <1>b, <1>4 DEF Busy, Mine
  <2>3. SameContext /\ (\A s \in Slot : SameTable(s)) /\ tasks' = tasks
    BY <1>a, <1>b, <1>4 DEF Busy, SameContext, SameTable, Generation, data, queue
  <2>4. Alike(t)
    BY <1>a, <2>1, <2>2, NeutralAlike DEF Neutral
  <2>5. Keeps(t)'
    BY <1>a, <1>b, <1>c, <1>4, <2>1, <2>2, <2>3, SlotOf, ThreadsDisjoint DEF Keeps, Holding,
       SameContext, SameTable, Generation, Places, Working, Assigned, Retired, Recycling
  <2>6. Reads(t)'
    BY <1>a, <1>b, <1>c, <1>4, <2>1, <2>2, <2>3 DEF Reads, SameContext, SameTable, Generation
  <2> QED
    BY <1>a, <2>3, <2>4, <2>5, <2>6, AlikeStep
<1>5. CASE BusyWaits(t)
  <2>1. pc[t] = "busy" /\ pc'[t] = "begin"
    BY <1>a, <1>5 DEF BusyWaits, At, Goto, Kinds
  <2>2. at'[t] = at[t]
    BY <1>a, <1>b, <1>5 DEF BusyWaits, Mine
  <2>3. SameContext /\ (\A s \in Slot : SameTable(s)) /\ tasks' = tasks
    BY <1>a, <1>b, <1>5 DEF BusyWaits, SameContext, SameTable, Generation, data, queue
  <2>4. Alike(t)
    BY <1>a, <2>1, <2>2, NeutralAlike DEF Neutral
  <2>5. Keeps(t)'
    BY <1>a, <1>b, <1>c, <1>5, <2>1, <2>2, <2>3, SlotOf, ThreadsDisjoint DEF Keeps, Holding,
       SameContext, SameTable, Generation, Places, Working, Assigned, Retired, Recycling
  <2>6. Reads(t)'
    BY <1>a, <1>b, <1>c, <1>5, <2>1, <2>2, <2>3 DEF Reads, SameContext, SameTable, Generation
  <2> QED
    BY <1>a, <2>3, <2>4, <2>5, <2>6, AlikeStep
<1>6. CASE Rotating(t)
  <2>1. pc[t] = "check" /\ pc'[t] \in {"rotate", "begin"}
    BY <1>a, <1>6 DEF Rotating, At, Goto, Kinds
  <2>2. at'[t].held = at[t].held /\ at'[t].gen = Generation
    BY <1>a, <1>b, <1>6 DEF Rotating, Generation
  <2>3. SameContext /\ (\A s \in Slot : SameTable(s)) /\ tasks' = tasks
    BY <1>a, <1>b, <1>6 DEF Rotating, SameContext, SameTable, Generation, data, queue
  <2>4. Alike(t)
    BY <1>a, <2>1, <2>2, NeutralAlike DEF Neutral
  <2>5. Keeps(t)'
    <3>1. pc'[t] = "rotate" => Of(Generation + 1) \in Slot /\ mt[Of(Generation + 1)].state = "READY"
      BY <1>a, <1>b, <1>6, SlotOf DEF Rotating, Generation, Goto
    <3>2. Holding(t)' = Holding(t) /\ Holding(t) = {} /\ t \notin Reader /\ at'[t].held = {}
      BY <1>a, <1>c, <2>1, <2>2, ThreadsDisjoint DEF Keeps, Holding, Places, Working, Assigned,
         Retired, Recycling
    <3> QED
      BY <1>b, <2>1, <2>2, <2>3, <3>1, <3>2 DEF Keeps, SameTable, SameContext, Generation
  <2>6. Reads(t)'
    BY <1>a, <1>b, <1>c, <1>6, <2>1, <2>2, <2>3 DEF Reads, SameContext, SameTable, Generation
  <2> QED
    BY <1>a, <2>3, <2>4, <2>5, <2>6, AlikeStep
<1>7. CASE TreeInsert(t)
  <2>1. pc[t] = "insert" /\ pc'[t] = "inserted"
    BY <1>a, <1>7 DEF TreeInsert, At, Goto, Kinds
  <2>2. at'[t] = at[t]
    BY <1>a, <1>b, <1>7 DEF TreeInsert, Mine
  <2>3. SameContext /\ (\A s \in Slot : SameTable(s)) /\ tasks' = tasks
    BY <1>a, <1>b, <1>7 DEF TreeInsert, SameContext, SameTable, Generation, Kinds, Table, queue
  <2>4. Alike(t)
    BY <1>a, <2>1, <2>2, NeutralAlike DEF Neutral
  <2>5. Keeps(t)'
    BY <1>a, <1>b, <1>c, <1>7, <2>1, <2>2, <2>3, SlotOf, ThreadsDisjoint DEF Keeps, Holding,
       SameContext, SameTable, Generation, Places, Working, Assigned, Retired, Recycling
  <2>6. Reads(t)'
    BY <1>a, <1>b, <1>c, <1>7, <2>1, <2>2, <2>3 DEF Reads, SameContext, SameTable, Generation
  <2> QED
    BY <1>a, <2>3, <2>4, <2>5, <2>6, AlikeStep
<1>8. CASE EndInsert(t)
  <2>1. pc[t] = "inserted" /\ pc'[t] \in {"idle", "after"}
    BY <1>a, <1>8 DEF EndInsert, At, Goto, Kinds
  <2>2. at'[t].held = {} /\ at[t].held = {} /\ at'[t].gen = 0
    <3>1. t \notin Reader
      BY <1>a, <2>1, ThreadsDisjoint DEF Places, Working, Assigned, Retired, Recycling
    <3> QED
      BY <1>a, <1>b, <1>c, <1>8, <3>1 DEF EndInsert, Keeps, Idle
  <2>3. SameContext /\ (\A s \in Slot : SameTable(s)) /\ tasks' = tasks
    BY <1>a, <1>b, <1>8 DEF EndInsert, SameContext, SameTable, Generation, data, queue
  <2>4. Alike(t)
    BY <1>a, <2>1, <2>2, NeutralAlike DEF Neutral
  <2>5. Keeps(t)'
    BY <1>a, <1>b, <1>c, <1>8, <2>1, <2>2, <2>3, SlotOf, ThreadsDisjoint DEF Keeps, Holding,
       SameContext, SameTable, Generation, Places, Working, Assigned, Retired, Recycling
  <2>6. Reads(t)'
    BY <1>a, <1>b, <1>c, <1>8, <2>1, <2>2, <2>3 DEF Reads, SameContext, SameTable, Generation
  <2> QED
    BY <1>a, <2>3, <2>4, <2>5, <2>6, AlikeStep
<1>9. CASE AfterWaits(t)
  <2>1. pc[t] = "after" /\ pc'[t] = "idle"
    BY <1>a, <1>9 DEF AfterWaits, At, Goto, Kinds
  <2>2. at'[t] = at[t]
    BY <1>a, <1>b, <1>9 DEF AfterWaits, Mine
  <2>3. SameContext /\ (\A s \in Slot : SameTable(s)) /\ tasks' = tasks
    BY <1>a, <1>b, <1>9 DEF AfterWaits, SameContext, SameTable, Generation, data, queue
  <2>4. Alike(t)
    BY <1>a, <2>1, <2>2, NeutralAlike DEF Neutral
  <2>5. Keeps(t)'
    BY <1>a, <1>b, <1>c, <1>9, <2>1, <2>2, <2>3, SlotOf, ThreadsDisjoint DEF Keeps, Holding,
       SameContext, SameTable, Generation, Places, Working, Assigned, Retired, Recycling
  <2>6. Reads(t)'
    BY <1>a, <1>b, <1>c, <1>9, <2>1, <2>2, <2>3 DEF Reads, SameContext, SameTable, Generation
  <2> QED
    BY <1>a, <2>3, <2>4, <2>5, <2>6, AlikeStep
<1>10. CASE TaskDone(t)
  <2>1. pc[t] = "done" /\ pc'[t] \in {"idle", "begin", "drain"}
    BY <1>a, <1>10, LocalFields DEF TaskDone, At, Goto, Kinds
  <2>2. at'[t].held = {} /\ at[t].held = {} /\ at'[t].gen = 0
    <3>1. t \notin Reader
      BY <1>a, <2>1, ThreadsDisjoint DEF Places, Working, Assigned, Retired, Recycling
    <3> QED
      BY <1>a, <1>b, <1>c, <1>10, <3>1 DEF TaskDone, Keeps, Idle
  <2>3. SameContext /\ (\A s \in Slot : SameTable(s)) /\ tasks' = tasks
    BY <1>a, <1>b, <1>10 DEF TaskDone, SameContext, SameTable, Generation, data, queue
  <2>4. Alike(t)
    BY <1>a, <2>1, <2>2, NeutralAlike DEF Neutral
  <2>5. Keeps(t)'
    BY <1>a, <1>b, <1>c, <1>10, <2>1, <2>2, <2>3, SlotOf, ThreadsDisjoint DEF Keeps, Holding,
       SameContext, SameTable, Generation, Places, Working, Assigned, Retired, Recycling
  <2>6. Reads(t)'
    BY <1>a, <1>b, <1>c, <1>10, <2>1, <2>2, <2>3 DEF Reads, SameContext, SameTable, Generation
  <2> QED
    BY <1>a, <2>3, <2>4, <2>5, <2>6, AlikeStep
<1>11. CASE BeginLookup(t)
  <2>1. pc[t] = "idle" /\ pc'[t] = "gens"
    BY <1>a, <1>11 DEF BeginLookup, At, Goto, Kinds
  <2>2. at'[t].held = {} /\ at[t].held = {} /\ at'[t].gen = 0 /\ at'[t].seen = {}
    <3>1. PICK scan \in BOOLEAN : at' = [at EXCEPT ![t] = [Idle EXCEPT !.floor = inserted, !.scan = scan]]
      BY <1>11 DEF BeginLookup
    <3>2. at'[t] = [Idle EXCEPT !.floor = inserted, !.scan = scan]
      BY <1>a, <3>1
    <3>3. at'[t].held = {} /\ at'[t].gen = 0 /\ at'[t].seen = {}
      BY <3>2 DEF Idle
    <3> QED
      BY <1>a, <1>b, <1>c, <1>11, <2>1, <3>3 DEF Keeps
  <2>3. SameContext /\ (\A s \in Slot : SameTable(s)) /\ tasks' = tasks
    BY <1>a, <1>b, <1>11 DEF BeginLookup, SameContext, SameTable, Generation, data, queue
  <2>4. Alike(t)
    BY <1>a, <2>1, <2>2, NeutralAlike DEF Neutral
  <2>5. Keeps(t)'
    BY <1>a, <1>b, <1>c, <1>11, <2>1, <2>2, <2>3, SlotOf, ThreadsDisjoint DEF Keeps, Holding,
       SameContext, SameTable, Generation, Places, Working, Assigned, Retired, Recycling
  <2>6. Reads(t)'
    BY <1>a, <1>b, <1>c, <1>11, <2>1, <2>2, <2>3 DEF Reads, SameContext, SameTable, Generation
  <2> QED
    BY <1>a, <2>3, <2>4, <2>5, <2>6, AlikeStep
<1>12. CASE ReadGenerations(t)
  <2>1. pc[t] = "gens" /\ pc'[t] = "tables"
    BY <1>a, <1>12 DEF ReadGenerations, At, Goto, Kinds
  <2>2. at'[t].held = at[t].held /\ at'[t].gen = Generation /\ at'[t].last = ctxt.retired /\ at'[t].seen = at[t].seen
    <3>1. at'[t] = [[at[t] EXCEPT !.gen = ctxt.generation] EXCEPT !.last = ctxt.retired]
      BY <1>a, <1>12 DEF ReadGenerations
    <3> QED
      BY <1>a, <3>1 DEF Local, Generation
  <2>3. SameContext /\ (\A s \in Slot : SameTable(s)) /\ tasks' = tasks
    BY <1>a, <1>b, <1>12 DEF ReadGenerations, SameContext, SameTable, Generation, data, queue
  <2>4. Alike(t)
    BY <1>a, <2>1, <2>2, NeutralAlike DEF Neutral
  <2>5. Keeps(t)'
    BY <1>a, <1>b, <1>c, <1>12, <2>1, <2>2, <2>3, SlotOf, ThreadsDisjoint DEF Keeps, Holding,
       SameContext, SameTable, Generation, Places, Working, Assigned, Retired, Recycling
  <2>6. Reads(t)'
    <3>1. t \in Reader
      BY <1>a, <2>1 DEF Places, Working, Assigned, Retired
    <3>2. at[t].held = {} /\ at[t].seen = {}
      BY <1>c, <2>1, <3>1 DEF Keeps, Reads
    <3> QED
      BY <1>b, <1>c, <2>1, <2>2, <2>3, <3>2 DEF Reads, SameContext, Generation
  <2> QED
    BY <1>a, <2>3, <2>4, <2>5, <2>6, AlikeStep
<1>13. CASE PickTable(t)
  <2>1. pc[t] = "tables" /\ pc'[t] = "read"
    BY <1>a, <1>13 DEF PickTable, At, Goto, Kinds
  <2>2. at'[t].held = at[t].held /\ at'[t].gen = at[t].gen /\ at'[t].last = at[t].last /\ at'[t].seen = at[t].seen /\ at'[t].scan = at[t].scan /\ at'[t].from = IF Compacted(Mine(t)) THEN "branch" ELSE "memtable"
    BY <1>a, <1>b, <1>13 DEF PickTable, Mine
  <2>3. SameContext /\ (\A s \in Slot : SameTable(s)) /\ tasks' = tasks
    BY <1>a, <1>b, <1>13 DEF PickTable, SameContext, SameTable, Generation, data, queue
  <2>4. Alike(t)
    BY <1>a, <2>1, <2>2, NeutralAlike DEF Neutral
  <2>5. Keeps(t)'
    BY <1>a, <1>b, <1>c, <1>13, <2>1, <2>2, <2>3, SlotOf, ThreadsDisjoint DEF Keeps, Holding,
       SameContext, SameTable, Generation, Places, Working, Assigned, Retired, Recycling
  <2>6. Reads(t)'
    BY <1>a, <1>b, <1>c, <1>13, <2>1, <2>2, <2>3 DEF Reads, SameContext, SameTable, Generation,
       PickTable, Compacted, Mine
  <2> QED
    BY <1>a, <2>3, <2>4, <2>5, <2>6, AlikeStep
<1>14. CASE ReadTable(t)
  <2>1. pc[t] = "read" /\ pc'[t] \in {"tables", "found"}
    BY <1>a, <1>14 DEF ReadTable, At, Goto, Kinds
  <2>2. at'[t].held = at[t].held /\ at'[t].last = at[t].last /\ at'[t].scan = at[t].scan /\ (pc'[t] = "tables" => at'[t].gen = at[t].gen - 1 /\ at'[t].seen = at[t].seen) /\ (pc'[t] = "found" => at'[t].gen = at[t].gen)
    <3>1. PICK found : IF found # {} THEN /\ at' = [at EXCEPT ![t].seen = found, ![t].from = ""]
                                          /\ Goto(t, "found")
                                     ELSE /\ at' = [at EXCEPT ![t].gen = @ - 1, ![t].from = ""]
                                          /\ Goto(t, "tables")
      BY <1>14 DEF ReadTable
    <3>2. CASE found # {}
      <4>1. at'[t] = [[at[t] EXCEPT !.seen = found] EXCEPT !.from = ""] /\ pc'[t] = "found"
        BY <1>a, <3>1, <3>2 DEF Goto
      <4> QED
        BY <1>a, <4>1 DEF Local
    <3>3. CASE found = {}
      <4>1. at'[t] = [[at[t] EXCEPT !.gen = at[t].gen - 1] EXCEPT !.from = ""] /\ pc'[t] = "tables"
        BY <1>a, <3>1, <3>3 DEF Goto
      <4> QED
        BY <1>a, <4>1 DEF Local
    <3> QED
      BY <3>2, <3>3
  <2>3. SameContext /\ (\A s \in Slot : SameTable(s)) /\ tasks' = tasks
    BY <1>a, <1>b, <1>14 DEF ReadTable, SameContext, SameTable, Generation, data, queue
  <2>4. Alike(t)
    BY <1>a, <2>1, <2>2, NeutralAlike DEF Neutral
  <2>5. Keeps(t)'
    <3>1. Holding(t)' = Holding(t) /\ at'[t].gen >= -1
      BY <1>b, <1>c, <2>1, <2>2 DEF Holding, Reads
    <3>2. t \in Reader
      BY <1>a, <2>1 DEF Places, Working, Assigned, Retired
    <3>3. \A h \in Holding(t) : Of(h) \in Slot /\ mt[Of(h)].generation = h /\ h <= Generation
      BY <1>b, <1>c, <2>1, SlotOf DEF Keeps, Holding
    <3> QED
      BY <2>1, <2>3, <3>1, <3>2, <3>3 DEF Keeps, SameTable, SameContext, Generation
  <2>6. Reads(t)'
    BY <1>a, <1>b, <1>c, <1>14, <2>1, <2>2, <2>3 DEF Reads, SameContext, SameTable, Generation
  <2> QED
    BY <1>a, <2>3, <2>4, <2>5, <2>6, AlikeStep
<1>15. CASE KeepTable(t) /\ Compacted(Mine(t))
  <2>1. pc[t] = "tables" /\ pc'[t] = "tables"
    BY <1>a, <1>15 DEF KeepTable, At, Goto, Kinds
  <2>2. at'[t].held = at[t].held /\ at'[t].last = at[t].last /\ at'[t].scan = at[t].scan /\ at'[t].gen = at[t].gen - 1 /\ at[t].scan /\ at[t].gen # at[t].last
    <3>1. at' = [at EXCEPT ![t].gen = @ - 1, ![t].seen = @ \cup branch[Mine(t)]]
      BY <1>15 DEF KeepTable
    <3>2. at'[t] = [[at[t] EXCEPT !.gen = at[t].gen - 1] EXCEPT !.seen = at[t].seen \cup branch[Mine(t)]]
      BY <1>a, <3>1 DEF Local
    <3> QED
      BY <1>a, <1>15, <3>2 DEF Local, KeepTable
  <2>3. SameContext /\ (\A s \in Slot : SameTable(s)) /\ tasks' = tasks
    BY <1>a, <1>b, <1>15 DEF KeepTable, SameContext, SameTable, Generation, data, queue
  <2>4. Alike(t)
    BY <1>a, <2>1, <2>2, NeutralAlike DEF Neutral
  <2>5. Keeps(t)'
    <3>1. Holding(t)' = Holding(t) /\ at'[t].gen >= -1
      BY <1>b, <1>c, <2>1, <2>2 DEF Holding, Reads
    <3>2. t \in Reader
      BY <1>a, <2>1 DEF Places, Working, Assigned, Retired
    <3>3. \A h \in Holding(t) : Of(h) \in Slot /\ mt[Of(h)].generation = h /\ h <= Generation
      BY <1>b, <1>c, <2>1, SlotOf DEF Keeps, Holding
    <3> QED
      BY <2>1, <2>3, <3>1, <3>2, <3>3 DEF Keeps, SameTable, SameContext, Generation
  <2>6. Reads(t)'
    BY <1>a, <1>b, <1>c, <1>15, <2>1, <2>2, <2>3 DEF Reads, SameContext, SameTable, Generation
  <2> QED
    BY <1>a, <2>3, <2>4, <2>5, <2>6, AlikeStep
<1>16. CASE ReadRoot(t)
  <2>1. pc[t] = "tables" /\ pc'[t] \in {"scan", "found"}
    BY <1>a, <1>16 DEF ReadRoot, At, Goto, Kinds
  <2>2. at'[t].held = at[t].held /\ at'[t].gen = at[t].gen
    BY <1>a, <1>b, <1>16 DEF ReadRoot, Mine
  <2>3. SameContext /\ (\A s \in Slot : SameTable(s)) /\ tasks' = tasks
    BY <1>a, <1>b, <1>16 DEF ReadRoot, SameContext, SameTable, Generation, data, queue
  <2>4. Alike(t)
    BY <1>a, <2>1, <2>2, NeutralAlike DEF Neutral
  <2>5. Keeps(t)'
    BY <1>a, <1>b, <1>c, <1>16, <2>1, <2>2, <2>3, SlotOf, ThreadsDisjoint DEF Keeps, Holding,
       SameContext, SameTable, Generation, Places, Working, Assigned, Retired, Recycling
  <2>6. Reads(t)'
    BY <1>a, <1>b, <1>c, <1>16, <2>1, <2>2, <2>3 DEF Reads, SameContext, SameTable, Generation
  <2> QED
    BY <1>a, <2>3, <2>4, <2>5, <2>6, AlikeStep
<1>17. CASE Scan(t)
  <2>1. pc[t] = "scan" /\ pc'[t] = "found"
    BY <1>a, <1>17 DEF Scan, At, Goto, Kinds
  <2>2. at'[t].held = at[t].held /\ at'[t].gen = at[t].gen
    BY <1>a, <1>b, <1>17 DEF Scan, Mine
  <2>3. SameContext /\ (\A s \in Slot : SameTable(s)) /\ tasks' = tasks
    BY <1>a, <1>b, <1>17 DEF Scan, SameContext, SameTable, Generation, data, queue
  <2>4. Alike(t)
    BY <1>a, <2>1, <2>2, NeutralAlike DEF Neutral
  <2>5. Keeps(t)'
    BY <1>a, <1>b, <1>c, <1>17, <2>1, <2>2, <2>3, SlotOf, ThreadsDisjoint DEF Keeps, Holding,
       SameContext, SameTable, Generation, Places, Working, Assigned, Retired, Recycling
  <2>6. Reads(t)'
    BY <1>a, <1>b, <1>c, <1>17, <2>1, <2>2, <2>3 DEF Reads, SameContext, SameTable, Generation
  <2> QED
    BY <1>a, <2>3, <2>4, <2>5, <2>6, AlikeStep
<1>18. CASE Found(t)
  <2>1. pc[t] = "found" /\ pc'[t] = "release"
    BY <1>a, <1>18 DEF Found, At, Goto, Kinds
  <2>2. at'[t].held = at[t].held /\ at'[t].gen = at[t].gen
    BY <1>a, <1>b, <1>18 DEF Found, Mine
  <2>3. SameContext /\ (\A s \in Slot : SameTable(s)) /\ tasks' = tasks
    BY <1>a, <1>b, <1>18 DEF Found, SameContext, SameTable, Generation, data, queue
  <2>4. Alike(t)
    BY <1>a, <2>1, <2>2, NeutralAlike DEF Neutral
  <2>5. Keeps(t)'
    BY <1>a, <1>b, <1>c, <1>18, <2>1, <2>2, <2>3, SlotOf, ThreadsDisjoint DEF Keeps, Holding,
       SameContext, SameTable, Generation, Places, Working, Assigned, Retired, Recycling
  <2>6. Reads(t)'
    BY <1>a, <1>b, <1>c, <1>18, <2>1, <2>2, <2>3 DEF Reads, SameContext, SameTable, Generation
  <2> QED
    BY <1>a, <2>3, <2>4, <2>5, <2>6, AlikeStep
<1>19. CASE Close(t)
  <2>1. pc[t] = "idle" /\ pc'[t] \in {"drain", "finalize"}
    BY <1>a, <1>19 DEF Close, At, Goto, Kinds
  <2>2. at'[t] = at[t]
    BY <1>a, <1>b, <1>19 DEF Close, Mine
  <2>3. SameContext /\ (\A s \in Slot : SameTable(s)) /\ tasks' = tasks
    BY <1>a, <1>b, <1>19 DEF Close, SameContext, SameTable, Generation, data, queue
  <2>4. Alike(t)
    BY <1>a, <2>1, <2>2, NeutralAlike DEF Neutral
  <2>5. Keeps(t)'
    BY <1>a, <1>b, <1>c, <1>19, <2>1, <2>2, <2>3, SlotOf, ThreadsDisjoint DEF Keeps, Holding,
       SameContext, SameTable, Generation, Places, Working, Assigned, Retired, Recycling
  <2>6. Reads(t)'
    BY <1>a, <1>b, <1>c, <1>19, <2>1, <2>2, <2>3 DEF Reads, SameContext, SameTable, Generation
  <2> QED
    BY <1>a, <2>3, <2>4, <2>5, <2>6, AlikeStep
<1>20. CASE Closed(t)
  <2>1. pc[t] = "drain" /\ pc'[t] = "closed"
    BY <1>a, <1>20 DEF Closed, At, Goto, Kinds
  <2>2. at'[t] = at[t]
    BY <1>a, <1>b, <1>20 DEF Closed, Mine
  <2>3. SameContext /\ (\A s \in Slot : SameTable(s)) /\ tasks' = tasks
    BY <1>a, <1>b, <1>20 DEF Closed, SameContext, SameTable, Generation, data, queue
  <2>4. Alike(t)
    BY <1>a, <2>1, <2>2, NeutralAlike DEF Neutral
  <2>5. Keeps(t)'
    BY <1>a, <1>b, <1>c, <1>20, <2>1, <2>2, <2>3, SlotOf, ThreadsDisjoint DEF Keeps, Holding,
       SameContext, SameTable, Generation, Places, Working, Assigned, Retired, Recycling
  <2>6. Reads(t)'
    BY <1>a, <1>b, <1>c, <1>20, <2>1, <2>2, <2>3 DEF Reads, SameContext, SameTable, Generation
  <2> QED
    BY <1>a, <2>3, <2>4, <2>5, <2>6, AlikeStep
<1>21. CASE CopyRoot(t)
  <2>1. pc[t] = "copy" /\ pc'[t] = "block" /\ t \notin Reader
    BY <1>a, <1>21, ThreadsDisjoint DEF CopyRoot, At, Goto, Kinds, Places, Recycling
  <2>2. at'[t].held = at[t].held /\ at'[t].gen = at[t].gen
    BY <1>a, <1>b, <1>21 DEF CopyRoot
  <2>3. SameContext /\ (\A s \in Slot : SameTable(s)) /\ tasks' = tasks
    BY <1>a, <1>b, <1>21 DEF CopyRoot, SameContext, SameTable, Generation, data, queue
  <2>4. Alike(t)
    BY <2>1, <2>2 DEF Alike, Handles, Assigns, Incorporates, InHands, Holding, Assigned, Retired, Recycling
  <2>5. Keeps(t)'
    BY <1>c, <2>1, <2>2, <2>3 DEF Keeps, Holding
  <2>6. Reads(t)'
    BY <2>1 DEF Reads
  <2> QED
    BY <1>a, <2>3, <2>4, <2>5, <2>6, AlikeStep
<1>22. CASE BlockLookups(t)
  <2>1. pc[t] = "block" /\ pc'[t] = "retire" /\ t \notin Reader
    BY <1>a, <1>22, ThreadsDisjoint DEF BlockLookups, At, Goto, Kinds, Places, Recycling
  <2>2. at'[t].held = at[t].held /\ at'[t].gen = at[t].gen
    BY <1>a, <1>b, <1>22 DEF BlockLookups
  <2>3. SameContext /\ (\A s \in Slot : SameTable(s)) /\ tasks' = tasks
    BY <1>a, <1>b, <1>22 DEF BlockLookups, SameContext, SameTable, Generation, data, queue
  <2>4. Alike(t)
    BY <2>1, <2>2 DEF Alike, Handles, Assigns, Incorporates, InHands, Holding, Assigned, Retired, Recycling
  <2>5. Keeps(t)'
    BY <1>c, <2>1, <2>2, <2>3 DEF Keeps, Holding
  <2>6. Reads(t)'
    BY <2>1 DEF Reads
  <2> QED
    BY <1>a, <2>3, <2>4, <2>5, <2>6, AlikeStep
<1>23. CASE SwitchRoot(t)
  <2>1. pc[t] = "switch" /\ pc'[t] = "unblock" /\ t \notin Reader
    BY <1>a, <1>23, ThreadsDisjoint DEF SwitchRoot, At, Goto, Kinds, Places, Recycling
  <2>2. at'[t].held = at[t].held /\ at'[t].gen = at[t].gen
    BY <1>a, <1>b, <1>23 DEF SwitchRoot
  <2>3. SameContext /\ (\A s \in Slot : SameTable(s)) /\ tasks' = tasks
    BY <1>a, <1>b, <1>23 DEF SwitchRoot, SameContext, SameTable, Generation, data, queue
  <2>4. Alike(t)
    BY <2>1, <2>2 DEF Alike, Handles, Assigns, Incorporates, InHands, Holding, Assigned, Retired, Recycling
  <2>5. Keeps(t)'
    BY <1>c, <2>1, <2>2, <2>3 DEF Keeps, Holding
  <2>6. Reads(t)'
    BY <2>1 DEF Reads
  <2> QED
    BY <1>a, <2>3, <2>4, <2>5, <2>6, AlikeStep
<1>24. CASE UnblockLookups(t)
  <2>1. pc[t] = "unblock" /\ pc'[t] = "decref" /\ t \notin Reader
    BY <1>a, <1>24, ThreadsDisjoint DEF UnblockLookups, At, Goto, Kinds, Places, Recycling
  <2>2. at'[t].held = at[t].held /\ at'[t].gen = at[t].gen
    BY <1>a, <1>b, <1>24 DEF UnblockLookups
  <2>3. SameContext /\ (\A s \in Slot : SameTable(s)) /\ tasks' = tasks
    BY <1>a, <1>b, <1>24 DEF UnblockLookups, SameContext, SameTable, Generation, data, queue
  <2>4. Alike(t)
    BY <2>1, <2>2 DEF Alike, Handles, Assigns, Incorporates, InHands, Holding, Assigned, Retired, Recycling
  <2>5. Keeps(t)'
    BY <1>c, <2>1, <2>2, <2>3 DEF Keeps, Holding
  <2>6. Reads(t)'
    BY <2>1 DEF Reads
  <2> QED
    BY <1>a, <2>3, <2>4, <2>5, <2>6, AlikeStep
<1>25. CASE Release(t)
  <2>1. pc[t] = "release" /\ t \in Reader
    BY <1>a, <1>25 DEF Release, At, Places, Working, Assigned, Retired
  <2>2. SameContext /\ (\A s \in Slot : SameTable(s)) /\ tasks' = tasks
    BY <1>a, <1>b, <1>25 DEF Release, SameContext, SameTable, Generation, data, queue
  <2>3. CASE at[t].held = {}
    <3>a. Idle.held = {} /\ Idle.gen = 0
      BY DEF Idle
    <3>b. pc'[t] = "idle" /\ at'[t] = Idle
      BY <1>a, <1>25, <2>3 DEF Release, Goto
    <3>1. pc'[t] = "idle" /\ at'[t].held = {} /\ at'[t].gen = 0
      BY <3>a, <3>b
    <3>2. Alike(t)
      BY <1>a, <2>1, <2>3, <3>1, NeutralAlike DEF Neutral
    <3>3. Keeps(t)' /\ Reads(t)'
      BY <3>1 DEF Keeps, Holding, Reads
    <3> QED
      BY <1>a, <2>2, <3>2, <3>3, AlikeStep
  <2>4. CASE at[t].held # {}
    <3>1. PICK g \in at[t].held : /\ at' = [at EXCEPT ![t].gen = g, ![t].held = @ \ {g}]
                                  /\ pc' = [pc EXCEPT ![t] = "decref"]
      BY <1>25, <2>4 DEF Release, Goto
    <3>2. pc'[t] = "decref" /\ at'[t].gen = g /\ at'[t].held = at[t].held \ {g}
      <4>1. at' = [at EXCEPT ![t] = [[at[t] EXCEPT !.gen = g] EXCEPT !.held = at[t].held \ {g}]]
        BY <1>a, <3>1
      <4>2. at'[t] = [[at[t] EXCEPT !.gen = g] EXCEPT !.held = at[t].held \ {g}]
        BY <1>a, <4>1
      <4> QED
        BY <1>a, <3>1, <4>2 DEF Local
    <3>3. Holding(t)' = Holding(t) /\ Holding(t) = at[t].held
      BY <2>1, <3>1, <3>2 DEF Holding
    <3>4. Alike(t)
      BY <2>1, <3>2, <3>3 DEF Alike, Handles, Assigns, Incorporates, InHands, Assigned, Retired, Recycling
    <3>5. Keeps(t)'
      <4>1. \A h \in Holding(t)' : Of(h) \in Slot /\ mt[Of(h)].generation = h /\ h <= Generation
        BY <1>b, <1>c, <3>3, SlotOf DEF Keeps
      <4>2. g \in Nat
        <5>1. Of(g) \in Slot /\ mt[Of(g)].generation = g
          BY <3>3, <4>1
        <5> QED
          BY <1>a, <5>1, Fields
      <4> QED
        BY <2>1, <2>2, <3>2, <4>1, <4>2 DEF Keeps, SameTable, SameContext, Generation
    <3>6. Reads(t)'
      BY <3>2 DEF Reads
    <3> QED
      BY <1>a, <2>2, <3>4, <3>5, <3>6, AlikeStep
  <2> QED
    BY <2>3, <2>4
<1> QED
  BY <1>1, <1>2, <1>3, <1>4, <1>5, <1>6, <1>7, <1>8, <1>9, <1>10, <1>11, <1>12, <1>13, <1>14, <1>15,
     <1>16, <1>17, <1>18, <1>19, <1>20, <1>21, <1>22, <1>23, <1>24, <1>25

\* A step that changes one memtable leaves the minds of the other threads ...
LEMMA OtherMind ==
  ASSUME Shape, Core, NEW t \in Thread, Others(t), NEW u \in Thread, u # t, NEW S \in Slot,
         \A s \in Slot : s # S => SameTable(s),
         ctxt'.generation \in Int, ctxt'.retired \in Int, ctxt'.retired >= ctxt.retired,
         ctxt'.generation >= Generation,
         pc[u] \in {"rotate", "insert", "inserted"} => ctxt'.generation = Generation,
         pc[u] \in {"tables", "read"} => ctxt'.retired = ctxt.retired,
         pc[u] = "ready" => mt[Mine(u)].generation > ctxt'.generation,
         Incorporates(u) => ctxt'.retired = ctxt.retired /\ ctxt'.to_incorporate = ctxt.to_incorporate,
         InHands(u) /\ Mine(u) = S => /\ mt'[S].state = mt[S].state
                                      /\ mt'[S].generation = mt[S].generation
                                      /\ pc[u] \in Recycling => mt'[S].refs = mt[S].refs,
         \A g \in Holding(u) : Of(g) = S => mt'[S].generation = mt[S].generation,
         pc[u] = "read" /\ Mine(u) = S /\ Compacted(S) => Compacted(S)',
         pc[u] = "rotate" /\ Of(Generation + 1) = S => mt'[S].state = "READY"
  PROVE  Mind(u)'
<1> USE DEF Generation
<1>1. /\ ctxt.generation \in Int /\ ctxt.retired \in Int
      /\ at[u].gen \in Int /\ Mine(u) \in Slot /\ at[u].held \subseteq Int
      /\ \A s \in Slot : mt[s].generation \in Int
      /\ \A g \in Int : Of(g) \in Slot
  BY Fields, SlotOf DEF Shape
<1>2. Mind(u) /\ pc'[u] = pc[u] /\ at'[u] = at[u] /\ Mine(u)' = Mine(u)
  BY DEF Core, Others, Mine
<1>3. InHands(u) => /\ mt'[Mine(u)].state = mt[Mine(u)].state
                    /\ mt'[Mine(u)].generation = mt[Mine(u)].generation
                    /\ pc[u] \in Recycling => mt'[Mine(u)].refs = mt[Mine(u)].refs
  BY <1>1 DEF SameTable
<1>4. Tasks(u)'
  <2>1. Tasks(u)
    BY <1>2 DEF Mind
  <2>2. /\ Handles(u)' => Has(u, "FINALIZED")'
        /\ (pc[u] = "packed")' => Has(u, "COMPACTING")'
        /\ Assigns(u)' => (ctxt.to_incorporate = ctxt.retired + 1)' /\ Has(u, "INCORPORATION_ASSIGNED")'
        /\ Incorporates(u)' => (at[u].gen = ctxt.to_incorporate)'
    BY <1>2, <1>3, <2>1 DEF Tasks, Has, InHands, Handles, Assigns, Incorporates
  <2>3. u \notin Reader /\ pc'[u] \in Retired => (ctxt.to_incorporate = ctxt.retired)'
    BY <1>2, <2>1 DEF Tasks, Incorporates
  <2>4. u \notin Reader /\ pc'[u] \in {"switch", "unblock", "decref"} => Has(u, "INCORPORATED")'
    BY <1>2, <1>3, <2>1 DEF Tasks, Has, InHands
  <2>5. pc'[u] \in Recycling =>
          /\ mt'[Mine(u)].state = "INCORPORATED"
          /\ pc[u] = "recycle" => mt'[Mine(u)].generation <= ctxt'.retired /\ mt'[Mine(u)].refs = 0
          /\ pc[u] = "ready" => mt'[Mine(u)].generation > ctxt'.generation /\ mt'[Mine(u)].refs = 1
    BY <1>1, <1>2, <1>3, <2>1 DEF Tasks, InHands, Recycling
  <2> QED
    BY <1>2, <2>2, <2>3, <2>4, <2>5 DEF Tasks, Recycling
<1>5. Keeps(u)'
  <2>1. Keeps(u) /\ Holding(u)' = Holding(u) /\ Holding(u) \subseteq Int
    BY <1>1, <1>2 DEF Mind, Holding
  <2>2. \A g \in Holding(u) : mt'[Of(g)].generation = g
    BY <1>1, <2>1 DEF Keeps, SameTable
  <2>3. pc[u] = "rotate" => mt'[Of(Generation + 1)].state = "READY"
    BY <1>1, <2>1 DEF Keeps, SameTable
  <2> QED
    BY <1>1, <1>2, <2>1, <2>2, <2>3 DEF Keeps
<1>6. Reads(u)'
  <2>1. Reads(u)
    BY <1>2 DEF Mind
  <2>2. pc[u] = "read" /\ Compacted(Mine(u)) => Compacted(Mine(u))'
    BY <1>1, <1>2 DEF SameTable, Compacted
  <2> QED
    BY <1>1, <1>2, <2>1, <2>2 DEF Reads
<1> QED
  BY <1>4, <1>5, <1>6 DEF Mind

\* ... and the other memtables cared for, and their references counted.
LEMMA OtherCared ==
  ASSUME Shape, Core, NEW t \in Thread, Others(t), NEW s \in Slot, SameTable(s),
         Queued(mt[s].generation) /\ mt[s].state = "FINALIZED" =>
           Queued(mt[s].generation)' \/ (Handles(t)' /\ at'[t].gen = mt[s].generation),
         Handles(t) \/ pc[t] \in {"packed", "start"} \/ Assigns(t) \/ pc[t] \in Recycling => Mine(t) # s,
         mt[s].state = "COMPACTED" /\ mt[s].generation = ctxt'.to_incorporate =>
           mt[s].generation = ctxt.to_incorporate,
         ctxt'.retired \in Int, ctxt'.retired >= ctxt.retired
  PROVE  Cared(s)'
<1>1. /\ ctxt.retired \in Int /\ mt[s].generation \in Int
      /\ Cared(s) /\ Of(mt[s].generation) = s
  BY Fields DEF Shape, Core, Slots, Bounds
<1>2. \A u \in Thread : u # t => pc'[u] = pc[u] /\ at'[u] = at[u]
  BY DEF Others
<1>a. /\ mt'[s].state = mt[s].state /\ mt'[s].generation = mt[s].generation
      /\ mt'[s].refs = mt[s].refs
  BY DEF SameTable
<1>3. mt[s].state = "FINALIZED" =>
        Queued(mt[s].generation)' \/ \E u \in Thread : Handles(u)' /\ at'[u].gen = mt[s].generation
  BY <1>1, <1>2 DEF Cared, Handles, Mine
<1>4. mt[s].state = "COMPACTING" => \E u \in Thread : pc'[u] = "packed" /\ at'[u].gen = mt[s].generation
  BY <1>1, <1>2 DEF Cared, Mine
<1>5. mt[s].state = "COMPACTED" /\ mt[s].generation = ctxt'.to_incorporate =>
        \E u \in Thread : pc'[u] = "start" /\ at'[u].gen = mt[s].generation
  BY <1>1, <1>2 DEF Cared, Mine
<1>6. mt[s].state = "INCORPORATION_ASSIGNED" =>
        \E u \in Thread : Assigns(u)' /\ at'[u].gen = mt[s].generation
  BY <1>1, <1>2 DEF Cared, Mine, Assigns
<1>7. mt[s].state = "INCORPORATED" /\ mt[s].generation > ctxt'.retired =>
        \E u \in Thread : pc'[u] = "ready" /\ Mine(u)' = s
  BY <1>1, <1>2 DEF Cared, Mine, Recycling
<1>8. mt[s].state = "INCORPORATED" /\ mt[s].refs = 0 =>
        \E u \in Thread : pc'[u] = "recycle" /\ Mine(u)' = s
  BY <1>1, <1>2 DEF Cared, Mine, Recycling
<1> QED
  BY <1>a, <1>3, <1>4, <1>5, <1>6, <1>7, <1>8 DEF Cared
LEMMA SameRefers ==
  ASSUME NEW t \in Thread, Others(t), NEW s, Refers(t, s)' <=> Refers(t, s)
  PROVE  {u \in Thread : Refers(u, s)}' = {u \in Thread : Refers(u, s)}
<1>1. \A u \in Thread : u # t => (Refers(u, s)' <=> Refers(u, s))
  BY DEF Others, Refers, Holding, Mine
<1> QED
  BY <1>1
LEMMA OtherCounts ==
  ASSUME Core, NEW t \in Thread, Others(t), NEW s \in Slot, SameTable(s), Refers(t, s)' <=> Refers(t, s)
  PROVE  Counts(s)'
BY SameRefers DEF Core, Slots, Counts, SameTable
LEMMA MoreRefers ==
  ASSUME NEW t \in Thread, Others(t), NEW s, Refers(t, s)', ~Refers(t, s)
  PROVE  Cardinality({u \in Thread : Refers(u, s)}') = Cardinality({u \in Thread : Refers(u, s)}) + 1
<1>1. \A u \in Thread : u # t => (Refers(u, s)' <=> Refers(u, s))
  BY DEF Others, Refers, Holding, Mine
<1>2. {u \in Thread : Refers(u, s)}' = {u \in Thread : Refers(u, s)} \cup {t}
  BY <1>1
<1> QED
  BY <1>2, RefersFinite, CountIn
LEMMA FewerRefers ==
  ASSUME NEW t \in Thread, Others(t), NEW s, ~Refers(t, s)', Refers(t, s)
  PROVE  Cardinality({u \in Thread : Refers(u, s)}') = Cardinality({u \in Thread : Refers(u, s)}) - 1
<1>1. \A u \in Thread : u # t => (Refers(u, s)' <=> Refers(u, s))
  BY DEF Others, Refers, Holding, Mine
<1>2. {u \in Thread : Refers(u, s)}' = {u \in Thread : Refers(u, s)} \ {t}
  BY <1>1
<1> QED
  BY <1>2, RefersFinite, CountOut

-----------------------------------------------------------------------------
(* The steps in which a memtable changes hands or state.                   *)

LEMMA TakeTail ==
  ASSUME Kinds, tasks # <<>>
  PROVE  /\ 1 \in DOMAIN tasks /\ Head(tasks) = tasks[1]
         /\ \A i \in DOMAIN tasks : tasks[i] \in Int /\ i \in Nat
         /\ \A i \in DOMAIN Tail(tasks) : i + 1 \in DOMAIN tasks /\ Tail(tasks)[i] = tasks[i + 1]
         /\ \A i \in DOMAIN tasks : i # 1 => i - 1 \in DOMAIN Tail(tasks) /\ Tail(tasks)[i - 1] = tasks[i]
<1>1. tasks \in Seq(Int) /\ Len(tasks) \in Nat /\ DOMAIN tasks = 1 .. Len(tasks) /\ Len(tasks) > 0
  BY DEF Kinds
<1>2. DOMAIN Tail(tasks) = 1 .. Len(tasks) - 1
  BY <1>1
<1> QED
  BY <1>1, <1>2

LEMMA TakeStep ==
  ASSUME ClosesIdle, Shape, Core, Shape', NEW t \in Thread, Acts(t), NEW back, Take(t, back),
         t \notin Reader, pc[t] \in {"idle", "busy", "after", "drain"}
  PROVE  Core'
<1>0. PICK g : g = Head(tasks)
  OBVIOUS
<1>a. /\ Kinds /\ Others(t) /\ Closing' /\ Kinds' /\ at \in [Thread -> Local] /\ at[t] \in Local
      /\ pc \in [Thread -> Label]
  BY OthersStep, ClosingStep DEF Shape, Core, Kinds
<1>b. /\ tasks # <<>> /\ tasks' = Tail(tasks) /\ ctxt' = ctxt /\ mt' = mt
      /\ pc'[t] = "compact" /\ at'[t] = [[at[t] EXCEPT !.gen = g] EXCEPT !.back = back]
  BY <1>0, <1>a DEF Take, Goto, data
<1>c. at'[t].gen = g /\ at'[t].held = at[t].held /\ at[t].held = {}
  BY <1>a, <1>b DEF Local, Core, Mind, Keeps
<1>d. /\ 1 \in DOMAIN tasks /\ g = tasks[1] /\ g \in Int
      /\ \A i \in DOMAIN tasks : tasks[i] \in Int /\ i \in Nat
      /\ \A i \in DOMAIN tasks' : i + 1 \in DOMAIN tasks /\ tasks'[i] = tasks[i + 1] /\ i \in Nat /\ i >= 1
      /\ \A i \in DOMAIN tasks : i # 1 => i - 1 \in DOMAIN tasks' /\ tasks'[i - 1] = tasks[i]
  <2>1. /\ 1 \in DOMAIN tasks /\ g = tasks[1]
        /\ \A i \in DOMAIN tasks : tasks[i] \in Int /\ i \in Nat
        /\ \A i \in DOMAIN tasks' : i + 1 \in DOMAIN tasks /\ tasks'[i] = tasks[i + 1]
        /\ \A i \in DOMAIN tasks : i # 1 => i - 1 \in DOMAIN tasks' /\ tasks'[i - 1] = tasks[i]
    BY <1>0, <1>a, <1>b, TakeTail
  <2>2. tasks' \in Seq(Int)
    BY <1>a DEF Kinds
  <2>3. \A i \in DOMAIN tasks' : i \in Nat /\ i >= 1
    BY <2>2
  <2> QED
    BY <2>1, <2>3
<1>e. /\ mt[Of(g)].generation = g /\ mt[Of(g)].state = "FINALIZED" /\ Of(g) \in Slot
      /\ ctxt.generation \in Int /\ ctxt.retired \in Int
  BY <1>a, <1>d, SlotOf, Fields DEF Core, Queue
<1>f. \A s \in Slot : SameTable(s)
  BY <1>b DEF SameTable
<1>g. \A h : Queued(h) <=> Queued(h)' \/ h = g
  BY <1>d DEF Queued
<1>h. ~Queued(g)'
  <2> SUFFICES ASSUME NEW i \in DOMAIN tasks', tasks'[i] = g PROVE FALSE
    BY DEF Queued
  <2>1. i + 1 \in DOMAIN tasks /\ tasks[i + 1] = g /\ i + 1 # 1
    BY <1>d
  <2> QED
    BY <1>d, <2>1 DEF Core, Queue
<1>i. \A u \in Thread : u # t => pc'[u] = pc[u] /\ at'[u] = at[u]
  BY <1>a DEF Others
<1>1. Queue'
  <2>1. \A i \in DOMAIN tasks' : mt[Of(tasks'[i])].generation = tasks'[i] /\ mt[Of(tasks'[i])].state = "FINALIZED"
    BY <1>d DEF Core, Queue
  <2>2. \A i, j \in DOMAIN tasks' : i # j => tasks'[i] # tasks'[j]
    BY <1>d DEF Core, Queue
  <2>3. \A u \in Thread : Handles(u)' => ~Queued(at[u].gen)'
    <3> SUFFICES ASSUME NEW u \in Thread, Handles(u)', NEW i \in DOMAIN tasks', tasks'[i] = at'[u].gen
                 PROVE  FALSE
      BY DEF Queued
    <3>1. u # t
      BY <1>c, <1>h DEF Queued
    <3>2. Handles(u) /\ at'[u].gen = at[u].gen
      BY <1>i, <3>1 DEF Handles
    <3> QED
      BY <1>d, <3>2 DEF Core, Queue, Queued
  <2> QED
    BY <1>b, <2>1, <2>2, <2>3 DEF Queue, Queued
<1>2. Turn'
  BY <1>b, <1>i DEF Core, Turn, Incorporates, Assigned, Retired
<1>3. Window'
  BY <1>b DEF Core, Window, Current, Generation
<1>4. ASSUME NEW s \in Slot PROVE Slots(s)'
  <2>1. Bounds(s)'
    BY <1>b DEF Core, Slots, Bounds, Generation
  <2>2. Cared(s)'
    <3>1. Queued(mt[s].generation) => Queued(mt[s].generation)' \/ (Handles(t)' /\ at'[t].gen = mt[s].generation)
      BY <1>b, <1>c, <1>g DEF Handles
    <3>2. ~Handles(t) /\ pc[t] \notin {"packed", "start"} /\ ~Assigns(t) /\ pc[t] \notin Recycling
      BY DEF Handles, Assigns, Assigned, Recycling
    <3>3. ctxt'.retired \in Int /\ ctxt'.retired >= ctxt.retired /\ ctxt'.to_incorporate = ctxt.to_incorporate
      BY <1>b, <1>e
    <3> QED
      BY <1>a, <1>f, <3>1, <3>2, <3>3, OtherCared
  <2>3. Refers(t, s)' <=> Refers(t, s)
    BY <1>b, <1>c DEF Refers, Holding
  <2>4. Counts(s)'
    BY <1>a, <1>f, <2>3, OtherCounts
  <2> QED
    BY <2>1, <2>2, <2>4 DEF Slots
<1>5. Mind(t)'
  BY <1>b, <1>c, <1>e, <1>a, Fields
  DEF Mind, Tasks, Has, Keeps, Reads, Mine, Holding, Handles, Assigns, Incorporates, Assigned,
     Retired, Recycling
<1>6. ASSUME NEW u \in Thread, u # t PROVE Mind(u)'
  <2>1. Mind(u)
    BY DEF Core
  <2>2. mt' = mt /\ ctxt' = ctxt /\ ctxt'.generation = Generation
    BY <1>b DEF Generation
  <2>3. pc[u] = "ready" => mt[Mine(u)].generation > ctxt'.generation
    BY <2>1, <2>2 DEF Mind, Tasks
  <2>4. pc[u] = "rotate" => mt[Of(Generation + 1)].state = "READY"
    BY <2>1 DEF Mind, Keeps
  <2>5. Compacted(Of(g)) => Compacted(Of(g))'
    BY <2>2 DEF Compacted
  <2>6. Generation \in Int
    BY <1>e DEF Generation
  <2> HIDE <1>b
  <2> QED
    BY <1>a, <1>e, <1>f, <1>6, <2>2, <2>3, <2>4, <2>5, <2>6, OtherMind
<1>7. ASSUME NEW u \in Thread, u # t PROVE Apart(t, u)'
  BY <1>b, <1>c, <1>d, <1>i, <1>7
  DEF Apart, Core, Queue, Queued, Handles, Incorporates, Assigned, Retired, Recycling
<1>8. (\A u, v \in Thread : u # v => Apart(u, v))'
  BY <1>a, <1>7, ApartStep
<1> QED
  BY <1>a, <1>1, <1>2, <1>3, <1>4, <1>5, <1>6, <1>8 DEF Core

\* A step that changes one memtable and neither the generations nor the tasks.
LEMMA SlotStep ==
  ASSUME Shape, Core, Shape', NEW t \in Thread, Others(t), SameContext, tasks' = tasks, Closing',
         NEW S \in Slot, \A s \in Slot : s # S => SameTable(s),
         Handles(t) \/ pc[t] \in {"packed", "start"} \/ Assigns(t) \/ pc[t] \in Recycling => Mine(t) = S,
         Handles(t)' => Handles(t) /\ at'[t].gen = at[t].gen,
         mt[S].state = "FINALIZED" /\ Queued(mt[S].generation) =>
           mt'[S].state = "FINALIZED" /\ mt'[S].generation = mt[S].generation,
         mt[S].state # "INCORPORATED" => /\ mt'[S].generation = mt[S].generation
                                         /\ mt'[S].state # "INCORPORATED",
         mt[S].state = "READY" => mt'[S].state = "READY",
         Compacted(S) => Compacted(S)',
         \A s \in Slot : s # S => (Refers(t, s)' <=> Refers(t, s)),
         \A u \in Thread : u # t /\ InHands(u) /\ Mine(u) = S =>
           /\ mt'[S].state = mt[S].state /\ mt'[S].generation = mt[S].generation
           /\ pc[u] \in Recycling => mt'[S].refs = mt[S].refs,
         \A u \in Thread : u # t => \A g \in Holding(u) : Of(g) = S => mt'[S].generation = mt[S].generation,
         Slots(S)', Mind(t)', Turn', \A u \in Thread : u # t => Apart(t, u)'
  PROVE  Core'
<1>a. /\ ctxt.generation \in Int /\ ctxt.retired \in Int /\ Generation \in Int
      /\ \A s \in Slot : mt[s].generation \in Int
      /\ \A g \in Int : Of(g) \in Slot
      /\ \A i \in DOMAIN tasks : tasks[i] \in Int
  BY Fields, SlotOf DEF Shape, Generation, Kinds
<1>b. \A u \in Thread : u # t => pc'[u] = pc[u] /\ at'[u] = at[u]
  BY DEF Others
<1>c. /\ ctxt'.generation = ctxt.generation /\ ctxt'.retired = ctxt.retired
      /\ ctxt'.to_incorporate = ctxt.to_incorporate
  BY DEF SameContext, Generation
<1>1. Queue'
  <2>1. ASSUME NEW i \in DOMAIN tasks
        PROVE  mt'[Of(tasks[i])].generation = tasks[i] /\ mt'[Of(tasks[i])].state = "FINALIZED"
    <3>1. mt[Of(tasks[i])].generation = tasks[i] /\ mt[Of(tasks[i])].state = "FINALIZED" /\ Of(tasks[i]) \in Slot
      BY <1>a DEF Core, Queue
    <3>2. Queued(tasks[i])
      BY DEF Queued
    <3> QED
      BY <3>1, <3>2 DEF SameTable
  <2>2. \A u \in Thread : Handles(u)' => Handles(u) /\ at'[u].gen = at[u].gen
    BY <1>b DEF Handles
  <2> QED
    BY <2>1, <2>2 DEF Core, Queue, Queued
<1>2. Window'
  <2>1. \A s \in Slot : mt[s].state # "INCORPORATED" =>
          mt'[s].generation = mt[s].generation /\ mt'[s].state # "INCORPORATED"
    BY DEF SameTable
  <2>2. mt'[Current].state = "READY" /\ Current \in Slot
    BY <1>a DEF Core, Window, Current, SameTable, Generation
  <2> QED
    BY <1>a, <1>c, <2>1, <2>2 DEF Core, Window, Current, Generation
<1>3. ASSUME NEW s \in Slot, s # S PROVE Slots(s)'
  <2>1. SameTable(s)
    BY <1>3
  <2>2. Bounds(s)'
    BY <1>c, <2>1 DEF Core, Slots, Bounds, SameTable, Generation
  <2>3. Cared(s)'
    <3>1. Queued(mt[s].generation) => Queued(mt[s].generation)'
      BY <2>1 DEF Queued, SameTable
    <3>2. Handles(t) \/ pc[t] \in {"packed", "start"} \/ Assigns(t) \/ pc[t] \in Recycling => Mine(t) # s
      BY <1>3
    <3>3. ctxt'.retired \in Int /\ ctxt'.retired >= ctxt.retired
      BY <1>a, <1>c
    <3> QED
      BY <1>c, <2>1, <3>1, <3>2, <3>3, OtherCared
  <2>4. Counts(s)'
    BY <1>3, <2>1, OtherCounts
  <2> QED
    BY <2>2, <2>3, <2>4 DEF Slots
<1>4. ASSUME NEW u \in Thread, u # t PROVE Mind(u)'
  <2>1. Mind(u)
    BY DEF Core
  <2>2. ctxt'.generation = Generation
    BY <1>c DEF Generation
  <2>3. pc[u] = "ready" => mt[Mine(u)].generation > ctxt'.generation
    BY <2>1, <2>2 DEF Mind, Tasks
  <2>4. pc[u] = "rotate" => mt[Of(Generation + 1)].state = "READY"
    BY <2>1 DEF Mind, Keeps
  <2>5. /\ InHands(u) /\ Mine(u) = S => /\ mt'[S].state = mt[S].state
                                        /\ mt'[S].generation = mt[S].generation
                                        /\ pc[u] \in Recycling => mt'[S].refs = mt[S].refs
        /\ \A g \in Holding(u) : Of(g) = S => mt'[S].generation = mt[S].generation
    BY <1>4
  <2>6. ctxt'.generation \in Int /\ ctxt'.retired \in Int /\ ctxt'.retired >= ctxt.retired
        /\ ctxt'.generation >= Generation
    BY <1>a, <1>c, <2>2
  <2>7. \A s \in Slot : s # S => SameTable(s)
    OBVIOUS
  <2>8. /\ pc[u] = "read" /\ Mine(u) = S /\ Compacted(S) => Compacted(S)'
        /\ pc[u] = "rotate" /\ Of(Generation + 1) = S => mt'[S].state = "READY"
    BY <2>4
  <2> QED
    BY <1>4, <1>c, <2>2, <2>3, <2>5, <2>6, <2>7, <2>8, OtherMind
<1>5. (\A u, v \in Thread : u # v => Apart(u, v))'
  BY ApartStep
<1>6. (\A s \in Slot : Slots(s))'
  BY <1>3
<1>7. (\A u \in Thread : Mind(u))'
  BY <1>4
<1> QED
  BY <1>1, <1>2, <1>5, <1>6, <1>7 DEF Core

\* Whoever works on a memtable that has not been incorporated holds none.
LEMMA WorkerHolds ==
  ASSUME Shape, Core, NEW t \in Thread,
         pc[t] \in {"process", "rotate", "compact", "packed", "start", "switch", "unblock", "continue"} \cup Assigned
  PROVE  t \notin Reader /\ at[t].held = {} /\ Holding(t) = {}
<1>1. t \notin Reader
  BY ThreadsDisjoint DEF Shape, Places, Working, Assigned, Retired, Recycling
<1>2. at[t].held = {}
  BY <1>1 DEF Core, Mind, Keeps
<1> QED
  BY <1>1, <1>2 DEF Holding

LEMMA CompactStep ==
  ASSUME ClosesIdle, Shape, Core, Shape', NEW t \in Thread, Acts(t), Compact(t) \/ EndCompact(t)
  PROVE  Core'
<1>0. PICK S : S = Mine(t)
  OBVIOUS
<1>a. /\ Kinds /\ Others(t) /\ Closing' /\ at \in [Thread -> Local] /\ pc \in [Thread -> Label]
      /\ S \in Slot /\ at[t].gen \in Int
      /\ mt \in [Slot -> Table] /\ mt[S] \in Table
  BY <1>0, OthersStep, ClosingStep, Fields DEF Shape, Core, Kinds
<1>b. /\ \/ /\ pc[t] = "compact" /\ pc'[t] = "packed"
            /\ mt[S].state = "FINALIZED" /\ mt'[S].state = "COMPACTING"
         \/ /\ pc[t] = "packed" /\ pc'[t] = "start"
            /\ mt[S].state = "COMPACTING" /\ mt'[S].state = "COMPACTED"
      /\ mt'[S].generation = mt[S].generation /\ mt'[S].refs = mt[S].refs
      /\ \A s \in Slot : s # S => SameTable(s)
  <2>1. CASE Compact(t)
    BY <1>0, <1>a, <2>1 DEF Compact, At, Goto, Transition, SameTable
  <2>2. CASE EndCompact(t)
    BY <1>0, <1>a, <2>2 DEF EndCompact, At, Goto, Transition, SameTable
  <2> QED
    BY <2>1, <2>2
<1>c. ctxt' = ctxt /\ tasks' = tasks /\ at' = at
  BY DEF Compact, EndCompact, queue
<1>d. t \notin Reader /\ at[t].held = {} /\ Holding(t) = {}
  BY <1>b, WorkerHolds
<1>e. /\ InHands(t) /\ Slots(S) /\ mt[S].generation = at[t].gen /\ Of(at[t].gen) = S
      /\ Handles(t) => ~Queued(at[t].gen)
  BY <1>0, <1>a, <1>b DEF Core, Mind, Tasks, Has, Handles, InHands, Queue, Mine
<1>f. \A u \in Thread : u # t => ~(InHands(u) /\ Mine(u) = S)
  BY <1>0, <1>a, <1>e, Alone
<1>1. Slots(S)'
  <2>1. Bounds(S)'
    BY <1>b, <1>c, <1>e DEF Slots, Bounds, Generation
  <2>2. Cared(S)'
    BY <1>b, <1>c, <1>e DEF Cared
  <2>3. Refers(t, S)' <=> Refers(t, S)
    BY <1>b, <1>c, <1>d DEF Refers, Holding
  <2>4. Counts(S)'
    BY <1>a, <1>b, <1>e, <2>3, SameRefers DEF Slots, Counts
  <2> QED
    BY <2>1, <2>2, <2>4 DEF Slots
<1>2. \A s \in Slot : Refers(t, s)' <=> Refers(t, s)
  BY <1>b, <1>c, <1>d DEF Refers, Holding
<1>3. Mind(t)'
  <2>1. Mind(t)
    BY DEF Core
  <2>2. Tasks(t)'
    BY <1>0, <1>b, <1>c, <1>e DEF Tasks, Has, Mine, Handles, Assigns, Incorporates, Assigned,
       Retired, Recycling
  <2>3. Keeps(t)' /\ Reads(t)'
    BY <1>b, <1>c, <1>d, <2>1 DEF Mind, Keeps, Reads, Holding
  <2> QED
    BY <2>2, <2>3 DEF Mind
<1>4. Turn'
  <2>1. \A u \in Thread : Incorporates(u)' <=> Incorporates(u)
    BY <1>a, <1>b DEF Incorporates, Assigned, Retired, Others
  <2> QED
    BY <1>c, <2>1 DEF Core, Turn
<1>5. ASSUME NEW u \in Thread, u # t PROVE Apart(t, u)'
  <2>1. Tasks(u) /\ pc'[u] = pc[u] /\ ~(InHands(u) /\ Mine(u) = S)
    BY <1>a, <1>f, <1>5 DEF Core, Mind, Others
  <2> QED
    BY <1>b, <1>c, <1>e, <2>1
    DEF Apart, Tasks, Has, Mine, InHands, Handles, Incorporates, Assigned, Retired, Recycling
<1>6. SameContext
  BY <1>c DEF SameContext, Generation
<1>7. /\ Handles(t) \/ pc[t] \in {"packed", "start"} \/ Assigns(t) \/ pc[t] \in Recycling => Mine(t) = S
      /\ ~Handles(t)'
      /\ mt[S].state = "FINALIZED" => ~Queued(mt[S].generation)
      /\ mt[S].state # "INCORPORATED" => mt'[S].generation = mt[S].generation /\ mt'[S].state # "INCORPORATED"
      /\ mt[S].state = "READY" => mt'[S].state = "READY"
      /\ Compacted(S) => Compacted(S)'
  BY <1>0, <1>b, <1>e DEF Handles, Compacted
<1> QED
  BY <1>a, <1>b, <1>c, <1>f, <1>1, <1>2, <1>3, <1>4, <1>5, <1>6, <1>7, SlotStep

\* It takes its turn, or leaves it to whoever is incorporating.
LEMMA TryStartStep ==
  ASSUME ClosesIdle, Shape, Core, Shape', NEW t \in Thread, Acts(t), TryStart(t)
  PROVE  Core'
<1>0. PICK S : S = Mine(t)
  OBVIOUS
<1>a. /\ Kinds /\ Others(t) /\ Closing' /\ at \in [Thread -> Local] /\ pc \in [Thread -> Label]
      /\ S \in Slot /\ at[t].gen \in Int /\ Of(at[t].gen) = S
      /\ mt \in [Slot -> Table] /\ mt[S] \in Table /\ Slots(S)
      /\ ctxt.retired \in Int /\ mt[S].generation \in Int
  BY <1>0, OthersStep, ClosingStep, Fields DEF Shape, Core, Kinds, Mine
<1>b. /\ pc[t] = "start"
      /\ \/ /\ pc'[t] = "copy" /\ mt[S].generation = at[t].gen /\ at[t].gen = ctxt.to_incorporate
            /\ mt[S].state = "COMPACTED" /\ mt'[S].state = "INCORPORATION_ASSIGNED"
         \/ /\ pc'[t] = "done" /\ mt' = mt
            /\ ~(mt[S].generation = at[t].gen /\ at[t].gen = ctxt.to_incorporate /\ mt[S].state = "COMPACTED")
      /\ mt'[S].generation = mt[S].generation /\ mt'[S].refs = mt[S].refs
      /\ \A s \in Slot : s # S => SameTable(s)
  <2>1. CASE Transition(S, "COMPACTED", "INCORPORATION_ASSIGNED") /\ Goto(t, "copy")
    BY <1>0, <1>a, <2>1 DEF TryStart, At, Goto, Transition, SameTable
  <2>2. CASE mt' = mt /\ Goto(t, "done")
    BY <1>0, <1>a, <2>2 DEF TryStart, At, Goto, SameTable, Transition
  <2> QED
    BY <1>0, <2>1, <2>2 DEF TryStart
<1>c. ctxt' = ctxt /\ tasks' = tasks /\ at' = at
  BY DEF TryStart, queue
<1>d. t \notin Reader /\ at[t].held = {} /\ Holding(t) = {}
  BY <1>b, WorkerHolds
<1>2. \A s \in Slot : Refers(t, s)' <=> Refers(t, s)
  BY <1>b, <1>c, <1>d DEF Refers, Holding
<1>e. CASE pc'[t] = "copy"
  <2>a. /\ mt[S].generation = at[t].gen /\ at[t].gen = ctxt.to_incorporate
        /\ mt[S].state = "COMPACTED" /\ mt'[S].state = "INCORPORATION_ASSIGNED"
    BY <1>b, <1>e
  <2>b. \A u \in Thread : u # t => ~(InHands(u) /\ Mine(u) = S) /\ ~Incorporates(u)
    <3> SUFFICES ASSUME NEW u \in Thread, u # t PROVE ~(InHands(u) /\ Mine(u) = S) /\ ~Incorporates(u)
      OBVIOUS
    <3>1. Tasks(u)
      BY DEF Core, Mind
    <3>2. ~(InHands(u) /\ Mine(u) = S)
      BY <2>a, <3>1 DEF Tasks, Has, InHands
    <3>3. CASE Incorporates(u) /\ Assigns(u)
      BY <1>a, <2>a, <3>1, <3>2, <3>3 DEF Tasks, Mine, InHands
    <3>4. CASE Incorporates(u) /\ ~Assigns(u)
      BY <1>a, <2>a, <3>1, <3>4 DEF Tasks, Incorporates, Assigns, Slots, Bounds
    <3> QED
      BY <3>2, <3>3, <3>4
  <2>1. Slots(S)'
    <3>1. Bounds(S)'
      BY <1>a, <1>b, <1>c, <2>a DEF Slots, Bounds, Generation
    <3>2. Cared(S)'
      BY <1>a, <1>b, <1>c, <1>d, <1>e, <2>a DEF Slots, Cared, Assigns, Assigned
    <3>3. Counts(S)'
      BY <1>a, <1>b, <1>2, <2>a, SameRefers DEF Slots, Counts
    <3> QED
      BY <3>1, <3>2, <3>3 DEF Slots
  <2>2. Turn' /\ ctxt.to_incorporate = ctxt.retired + 1
    <3>1. Incorporates(t)' /\ ~Incorporates(t)
      BY <1>b, <1>d, <1>e DEF Incorporates, Assigned, Retired
    <3> QED
      BY <1>c, <2>b, <3>1 DEF Core, Turn
  <2>3. Mind(t)'
    <3>1. Mind(t)
      BY DEF Core
    <3>2. Tasks(t)'
      BY <1>0, <1>b, <1>c, <1>e, <2>a, <2>2 DEF Tasks, Has, Mine, Handles, Assigns, Incorporates,
         Assigned, Retired, Recycling
    <3>3. Keeps(t)' /\ Reads(t)'
      BY <1>c, <1>d, <1>e, <3>1 DEF Mind, Keeps, Reads, Holding
    <3> QED
      BY <3>2, <3>3 DEF Mind
  <2>4. ASSUME NEW u \in Thread, u # t PROVE Apart(t, u)'
    <3>1. ~Incorporates(u)'
      BY <1>a, <2>b, <2>4 DEF Others, Incorporates
    <3> QED
      BY <1>e, <3>1 DEF Apart, Handles, Recycling
  <2>5. SameContext
    BY <1>c DEF SameContext, Generation
  <2>6. /\ Handles(t) \/ pc[t] \in {"packed", "start"} \/ Assigns(t) \/ pc[t] \in Recycling => Mine(t) = S
        /\ ~Handles(t)' /\ mt[S].state # "FINALIZED"
        /\ mt[S].state # "INCORPORATED" => mt'[S].generation = mt[S].generation /\ mt'[S].state # "INCORPORATED"
        /\ mt[S].state # "READY"
        /\ Compacted(S) => Compacted(S)'
    BY <1>0, <1>b, <1>e, <2>a DEF Handles, Compacted
  <2> QED
    BY <1>a, <1>b, <1>c, <1>2, <2>b, <2>1, <2>2, <2>3, <2>4, <2>5, <2>6, SlotStep
<1>f. CASE pc'[t] = "done"
  <2>a. mt' = mt /\ ~(mt[S].generation = at[t].gen /\ at[t].gen = ctxt.to_incorporate /\ mt[S].state = "COMPACTED")
    BY <1>b, <1>f
  <2>1. Slots(S)'
    <3>1. Bounds(S)'
      BY <1>a, <1>c, <2>a DEF Slots, Bounds, Generation
    <3>2. Cared(S)'
      <4>1. \A u \in Thread : u # t => pc'[u] = pc[u]
        BY <1>a DEF Others
      <4>2. ~(pc[t] \in Recycling) /\ ~Handles(t) /\ ~Assigns(t)
        BY <1>b DEF Recycling, Handles, Assigns, Assigned
      <4> QED
        BY <1>a, <1>b, <1>c, <2>a, <4>1, <4>2 DEF Slots, Cared, Queued, Handles, Assigns, Recycling, Mine
    <3>3. Counts(S)'
      BY <1>a, <1>b, <1>2, <2>a, SameRefers DEF Slots, Counts
    <3> QED
      BY <3>1, <3>2, <3>3 DEF Slots
  <2>2. Turn'
    <3>1. \A u \in Thread : Incorporates(u)' <=> Incorporates(u)
      BY <1>a, <1>b, <1>f DEF Incorporates, Assigned, Retired, Others
    <3> QED
      BY <1>c, <3>1 DEF Core, Turn
  <2>3. Mind(t)'
    <3>1. Mind(t)
      BY DEF Core
    <3> QED
      BY <1>c, <1>d, <1>f, <3>1
      DEF Mind, Tasks, Keeps, Reads, Holding, Handles, Assigns, Incorporates, Assigned, Retired, Recycling
  <2>4. ASSUME NEW u \in Thread, u # t PROVE Apart(t, u)'
    BY <1>f DEF Apart, Handles, Incorporates, Assigned, Retired, Recycling
  <2>5. SameContext
    BY <1>c DEF SameContext, Generation
  <2>6. /\ Handles(t) \/ pc[t] \in {"packed", "start"} \/ Assigns(t) \/ pc[t] \in Recycling => Mine(t) = S
        /\ ~Handles(t)'
        /\ mt[S].state # "INCORPORATED" => mt'[S].generation = mt[S].generation /\ mt'[S].state # "INCORPORATED"
        /\ Compacted(S) => Compacted(S)'
    BY <1>0, <1>f, <2>a DEF Handles, Compacted
  <2> QED
    BY <1>a, <1>b, <1>c, <1>2, <2>a, <2>1, <2>2, <2>3, <2>4, <2>5, <2>6, SlotStep
<1> QED
  BY <1>b, <1>e, <1>f

\* A reference is given back, and the last one makes the memtable new.
LEMMA DecRefStep ==
  ASSUME ClosesIdle, Shape, Core, Shape', NEW t \in Thread, Acts(t), DecRef(t)
  PROVE  Core'
<1>0. PICK S : S = Mine(t)
  OBVIOUS
<1>a. /\ Kinds /\ Others(t) /\ Closing' /\ at \in [Thread -> Local] /\ pc \in [Thread -> Label]
      /\ S \in Slot /\ at[t].gen \in Int /\ Of(at[t].gen) = S /\ at[t].held \subseteq Int
      /\ mt \in [Slot -> Table] /\ mt[S] \in Table /\ Slots(S) /\ Counts(S)
      /\ ctxt.retired \in Int /\ mt[S].generation \in Int /\ mt[S].refs \in Int
  BY <1>0, OthersStep, ClosingStep, Fields DEF Shape, Core, Kinds, Mine, Slots
<1>b. /\ pc[t] = "decref"
      /\ pc'[t] = IF mt[S].refs = 1 THEN "recycle" ELSE After(t)
      /\ mt'[S].refs = mt[S].refs - 1
      /\ mt'[S].generation = mt[S].generation /\ mt'[S].state = mt[S].state
      /\ \A s \in Slot : s # S => SameTable(s)
  BY <1>0, <1>a DEF DecRef, At, Goto, SameTable
<1>c. ctxt' = ctxt /\ tasks' = tasks /\ at' = at
  BY DEF DecRef, queue
<1>d. Tasks(t) /\ Keeps(t) /\ Reads(t)
  BY DEF Core, Mind
<1>e. mt[S].generation = at[t].gen /\ Refers(t, S)
  <2>1. CASE t \in Reader
    BY <1>a, <1>b, <1>d, <2>1 DEF Keeps, Holding, Refers
  <2>2. CASE t \notin Reader
    BY <1>0, <1>a, <1>b, <1>d, <2>2 DEF Tasks, Has, Refers
  <2> QED
    BY <2>1, <2>2
<1>f. Holding(t)' = at[t].held /\ pc'[t] \in {"recycle", "release", "continue"}
      /\ (pc'[t] = "release" => t \in Reader) /\ (pc'[t] = "continue" => t \notin Reader)
  BY <1>b, <1>c DEF Holding, After
<1>g. /\ ~Refers(t, S)'
      /\ \A s \in Slot : s # S => (Refers(t, s)' <=> Refers(t, s))
  <2>1. CASE t \in Reader
    <3>1. \A g \in at[t].held : mt[Of(g)].generation = g /\ g # at[t].gen
      BY <1>b, <1>d, <2>1 DEF Keeps, Holding
    <3> QED
      BY <1>a, <1>b, <1>c, <1>e, <1>f, <2>1, <3>1 DEF Refers, Holding
  <2>2. CASE t \notin Reader
    <3>1. at[t].held = {}
      BY <1>d, <2>2 DEF Keeps
    <3> QED
      BY <1>0, <1>a, <1>b, <1>c, <1>f, <2>2, <3>1 DEF Refers, Holding, Mine
  <2> QED
    BY <2>1, <2>2
<1>h. ASSUME NEW u \in Thread, u # t, pc[u] \in Recycling, Mine(u) = S
      PROVE  pc[u] = "ready" /\ FALSE
  <2>1. mt[S].refs >= 1
    BY <1>a, <1>e, OneRefers
  <2>2. pc[u] = "ready" /\ mt[S].refs = 1
    BY <1>h, <2>1 DEF Core, Mind, Tasks, Recycling
  <2>3. Refers(u, S)
    BY <1>h, <2>2 DEF Refers
  <2>4. mt[S].refs >= 2
    BY <1>a, <1>e, <1>h, <2>3, TwoRefer
  <2> QED
    BY <2>2, <2>4
<1>i. mt[S].refs = 1 => mt[S].state = "INCORPORATED" /\ mt[S].generation <= ctxt.retired
  <2> SUFFICES ASSUME mt[S].refs = 1 PROVE mt[S].state = "INCORPORATED" /\ mt[S].generation <= ctxt.retired
    OBVIOUS
  <2> DEFINE R == {u \in Thread : Refers(u, S)}
  <2>1. IsFiniteSet(R) /\ t \in R
    BY <1>e, RefersFinite
  <2>2. Cardinality(R) \in Nat /\ Cardinality(R) # 0
    BY <2>1, FS_CardinalityType, FS_EmptySet
  <2>3. mt[S].state = "INCORPORATED"
    BY <1>a, <2>2 DEF Counts
  <2>4. CASE mt[S].generation > ctxt.retired
    <3>1. PICK u \in Thread : pc[u] = "ready" /\ Mine(u) = S
      BY <1>a, <2>3, <2>4 DEF Slots, Cared
    <3> QED
      BY <1>b, <1>h, <3>1 DEF Recycling
  <2> QED
    BY <1>a, <2>3, <2>4
<1>1. Slots(S)'
  <2>1. Bounds(S)'
    BY <1>a, <1>b, <1>c DEF Slots, Bounds, Generation
  <2>2. Cared(S)'
    <3>1. \A u \in Thread : u # t => pc'[u] = pc[u]
      BY <1>a DEF Others
    <3>2. ~Handles(t) /\ ~Assigns(t) /\ pc[t] \notin {"packed", "start", "ready", "recycle"}
      BY <1>b DEF Handles, Assigns, Assigned
    <3>3. mt'[S].refs = 0 => pc'[t] = "recycle" /\ Mine(t)' = S
      BY <1>0, <1>a, <1>b, <1>c DEF Mine
    <3>4. Cared(S)
      BY <1>a DEF Slots
    <3>5. /\ mt[S].state = "FINALIZED" =>
               Queued(mt[S].generation)' \/ \E u \in Thread : Handles(u)' /\ at[u].gen = mt[S].generation
          /\ mt[S].state = "COMPACTING" => \E u \in Thread : pc'[u] = "packed" /\ at[u].gen = mt[S].generation
          /\ mt[S].state = "COMPACTED" /\ mt[S].generation = ctxt.to_incorporate =>
               \E u \in Thread : pc'[u] = "start" /\ at[u].gen = mt[S].generation
          /\ mt[S].state = "INCORPORATION_ASSIGNED" =>
               \E u \in Thread : Assigns(u)' /\ at[u].gen = mt[S].generation
          /\ mt[S].state = "INCORPORATED" /\ mt[S].generation > ctxt.retired =>
               \E u \in Thread : pc'[u] = "ready" /\ Mine(u) = S
      BY <1>b, <1>c, <3>1, <3>2, <3>4 DEF Cared, Queued, Handles, Assigns
    <3> QED
      BY <1>b, <1>c, <3>3, <3>5 DEF Cared, Mine
  <2>3. Counts(S)'
    <3>1. Cardinality({u \in Thread : Refers(u, S)}') = Cardinality({u \in Thread : Refers(u, S)}) - 1
      BY <1>a, <1>e, <1>g, FewerRefers
    <3>2. Cardinality({u \in Thread : Refers(u, S)}) \in Int
      BY RefersFinite, FS_CardinalityType
    <3> QED
      BY <1>a, <1>b, <3>1, <3>2 DEF Counts
  <2> QED
    BY <2>1, <2>2, <2>3 DEF Slots
<1>2. Mind(t)'
  <2>1. Tasks(t)'
    <3>1. pc'[t] = "recycle" => /\ mt'[S].refs = 0 /\ mt'[S].state = "INCORPORATED"
                               /\ mt'[S].generation <= ctxt'.retired
      BY <1>a, <1>b, <1>c, <1>i DEF After
    <3>2. t \notin Reader => at[t].gen = ctxt.to_incorporate /\ ctxt.to_incorporate = ctxt.retired
      BY <1>b, <1>d DEF Tasks, Incorporates, Retired
    <3> QED
      BY <1>0, <1>c, <1>f, <3>1, <3>2
      DEF Tasks, Mine, Handles, Assigns, Incorporates, Assigned, Retired, Recycling
  <2>2. Keeps(t)'
    <3>1. \A g \in at[t].held : mt'[Of(g)].generation = g /\ g <= Generation
      BY <1>a, <1>b, <1>d, SlotOf DEF Keeps, Holding, SameTable
    <3> QED
      BY <1>c, <1>d, <1>f, <3>1 DEF Keeps, Generation
  <2>3. Reads(t)'
    BY <1>f DEF Reads
  <2> QED
    BY <2>1, <2>2, <2>3 DEF Mind
<1>3. Turn'
  <2>1. \A u \in Thread : Incorporates(u)' <=> Incorporates(u)
    BY <1>a, <1>b DEF Incorporates, Assigned, Retired, Others, After
  <2> QED
    BY <1>c, <2>1 DEF Core, Turn
<1>4. ASSUME NEW u \in Thread, u # t PROVE Apart(t, u)'
  <2>1. Apart(t, u) /\ pc'[u] = pc[u]
    BY <1>a, <1>4 DEF Core, Others
  <2>2. ~(pc[u] \in Recycling /\ Mine(u) = S)
    BY <1>h, <1>4
  <2> QED
    BY <1>0, <1>b, <1>c, <1>f, <2>1, <2>2
    DEF Apart, Handles, Incorporates, Assigned, Retired, Recycling, Mine
<1>5. SameContext
  BY <1>c DEF SameContext, Generation
<1>6. /\ ~Handles(t) /\ pc[t] \notin {"packed", "start"} /\ ~Assigns(t) /\ pc[t] \notin Recycling
      /\ ~Handles(t)'
      /\ Compacted(S) => Compacted(S)'
  BY <1>b, <1>f DEF Handles, Assigns, Assigned, Recycling, Compacted
<1>7. \A u \in Thread : u # t /\ InHands(u) /\ Mine(u) = S => ~(pc[u] \in Recycling)
  BY <1>h
<1> QED
  BY <1>a, <1>b, <1>c, <1>g, <1>1, <1>2, <1>3, <1>4, <1>5, <1>6, <1>7, SlotStep

LEMMA RecycleStep ==
  ASSUME ClosesIdle, Shape, Core, Shape', NEW t \in Thread, Acts(t), Recycle(t)
  PROVE  Core'
<1>0. PICK S : S = Mine(t)
  OBVIOUS
<1>a. /\ Kinds /\ Others(t) /\ Closing' /\ at \in [Thread -> Local] /\ pc \in [Thread -> Label]
      /\ S \in Slot /\ at[t].gen \in Int /\ Of(at[t].gen) = S /\ at[t].held \subseteq Int
      /\ mt \in [Slot -> Table] /\ mt[S] \in Table /\ Slots(S) /\ Counts(S) /\ Bounds(S)
      /\ ctxt.retired \in Int /\ ctxt.generation \in Int /\ mt[S].generation \in Int /\ mt[S].refs \in Int
      /\ Tables \in Int /\ Tables > 0
  BY <1>0, OthersStep, ClosingStep, Fields, MemtablesAssumption DEF Shape, Core, Kinds, Mine, Slots
<1>b. /\ pc[t] = "recycle" /\ pc'[t] = "ready" /\ mt[S].state = "INCORPORATED"
      /\ mt'[S].refs = 1 /\ mt'[S].generation = mt[S].generation + Tables /\ mt'[S].state = mt[S].state
      /\ \A s \in Slot : s # S => SameTable(s)
  <2>1. mt' = [mt EXCEPT ![S] = [[[mt[S] EXCEPT !.tree = {}] EXCEPT !.refs = 1] EXCEPT !.generation = mt[S].generation + Tables]]
    BY <1>0, <1>a DEF Recycle, Table
  <2>2. mt'[S] = [[[mt[S] EXCEPT !.tree = {}] EXCEPT !.refs = 1] EXCEPT !.generation = mt[S].generation + Tables]
    BY <1>a, <2>1
  <2>3. mt'[S].refs = 1 /\ mt'[S].generation = mt[S].generation + Tables /\ mt'[S].state = mt[S].state
    BY <1>a, <2>2 DEF Table
  <2>4. \A s \in Slot : s # S => SameTable(s)
    BY <1>a, <2>1 DEF SameTable
  <2> QED
    BY <1>0, <1>a, <2>3, <2>4 DEF Recycle, At, Goto
<1>c. ctxt' = ctxt /\ tasks' = tasks /\ at' = at
  BY DEF Recycle, queue
<1>d. Tasks(t) /\ Keeps(t) /\ Reads(t) /\ ctxt.retired < ctxt.generation
  BY DEF Core, Mind, Window, Generation
<1>e. mt[S].refs = 0 /\ mt[S].generation <= ctxt.retired /\ \A u \in Thread : ~Refers(u, S)
  <2>1. mt[S].refs = 0 /\ mt[S].generation <= ctxt.retired
    BY <1>0, <1>b, <1>d DEF Tasks
  <2> QED
    BY <1>a, <2>1, NoneRefers
<1>f. Holding(t)' = Holding(t)
  BY <1>b, <1>c DEF Holding
<1>g. Refers(t, S)' /\ \A s \in Slot : s # S => (Refers(t, s)' <=> Refers(t, s))
  <2>1. Refers(t, S)'
    BY <1>0, <1>b, <1>c DEF Refers, Mine
  <2>2. \A s \in Slot : s # S => (Refers(t, s)' <=> Refers(t, s))
    BY <1>0, <1>b, <1>c, <1>f DEF Refers, Mine
  <2> QED
    BY <2>1, <2>2
<1>h. \A u \in Thread : \A g \in Holding(u) : Of(g) # S
  BY <1>e DEF Refers
<1>i. InHands(t) /\ \A u \in Thread : u # t => ~(InHands(u) /\ Mine(u) = S)
  <2>1. InHands(t)
    BY <1>b DEF InHands, Recycling
  <2> QED
    BY <1>0, <1>a, <2>1, Alone
<1>1. Slots(S)'
  <2>1. Bounds(S)'
    BY <1>a, <1>b, <1>c, <1>d, <1>e, NextSlot DEF Bounds, Generation
  <2>2. Cared(S)'
    BY <1>0, <1>b, <1>c DEF Cared, Mine
  <2>3. Counts(S)'
    <3>1. Cardinality({u \in Thread : Refers(u, S)}') = Cardinality({u \in Thread : Refers(u, S)}) + 1
      BY <1>a, <1>e, <1>g, MoreRefers
    <3>2. {u \in Thread : Refers(u, S)} = {}
      BY <1>e
    <3> QED
      BY <1>b, <3>1, <3>2, FS_EmptySet DEF Counts
  <2> QED
    BY <2>1, <2>2, <2>3 DEF Slots
<1>2. Mind(t)'
  <2>1. Tasks(t)'
    <3>1. mt'[S].generation > ctxt'.generation
      BY <1>a, <1>b, <1>c DEF Bounds, Generation
    <3> QED
      BY <1>0, <1>b, <1>c, <1>d, <3>1
      DEF Tasks, Mine, Handles, Assigns, Incorporates, Assigned, Retired, Recycling, Generation
  <2>2. Keeps(t)'
    <3>1. \A g \in Holding(t) : mt'[Of(g)].generation = g /\ g <= Generation
      BY <1>a, <1>b, <1>d, <1>h, SlotOf DEF Keeps, Holding, SameTable
    <3> QED
      BY <1>b, <1>c, <1>d, <1>f, <3>1 DEF Keeps, Generation
  <2>3. Reads(t)'
    BY <1>b DEF Reads
  <2> QED
    BY <2>1, <2>2, <2>3 DEF Mind
<1>3. Turn'
  <2>1. \A u \in Thread : Incorporates(u)' <=> Incorporates(u)
    BY <1>a, <1>b DEF Incorporates, Assigned, Retired, Others
  <2> QED
    BY <1>c, <2>1 DEF Core, Turn
<1>4. ASSUME NEW u \in Thread, u # t PROVE Apart(t, u)'
  <2>1. Apart(t, u) /\ pc'[u] = pc[u]
    BY <1>a, <1>4 DEF Core, Others
  <2> QED
    BY <1>b, <1>c, <2>1 DEF Apart, Handles, Incorporates, Assigned, Retired, Recycling, Mine
<1>5. SameContext
  BY <1>c DEF SameContext, Generation
<1>6. /\ ~Handles(t)' /\ ~Handles(t) /\ Mine(t) = S
      /\ ~Compacted(S)
  BY <1>0, <1>b DEF Handles, Compacted
<1> QED
  BY <1>a, <1>b, <1>c, <1>g, <1>h, <1>i, <1>1, <1>2, <1>3, <1>4, <1>5, <1>6, SlotStep

LEMMA ReadyStep ==
  ASSUME ClosesIdle, Shape, Core, Shape', NEW t \in Thread, Acts(t), Ready(t)
  PROVE  Core'
<1>0. PICK S : S = Mine(t)
  OBVIOUS
<1>a. /\ Kinds /\ Others(t) /\ Closing' /\ at \in [Thread -> Local] /\ pc \in [Thread -> Label]
      /\ S \in Slot /\ at[t].gen \in Int /\ Of(at[t].gen) = S /\ at[t].held \subseteq Int
      /\ mt \in [Slot -> Table] /\ mt[S] \in Table /\ Slots(S) /\ Counts(S) /\ Bounds(S)
      /\ ctxt.retired \in Int /\ ctxt.generation \in Int /\ mt[S].generation \in Int /\ mt[S].refs \in Int
  BY <1>0, OthersStep, ClosingStep, Fields DEF Shape, Core, Kinds, Mine, Slots
<1>b. /\ pc[t] = "ready" /\ pc'[t] = After(t) /\ mt[S].state = "INCORPORATED" /\ mt'[S].state = "READY"
      /\ mt'[S].refs = mt[S].refs /\ mt'[S].generation = mt[S].generation
      /\ \A s \in Slot : s # S => SameTable(s)
  BY <1>0, <1>a DEF Ready, At, Goto, Transition, SameTable
<1>c. ctxt' = ctxt /\ tasks' = tasks /\ at' = at
  BY DEF Ready, queue
<1>d. Tasks(t) /\ Keeps(t) /\ mt[S].refs = 1 /\ mt[S].generation > ctxt.generation
  BY <1>0, <1>b DEF Core, Mind, Tasks, Generation
<1>f. Holding(t)' = Holding(t) /\ Holding(t) = at[t].held
  BY <1>b, <1>c DEF Holding, After
<1>g. /\ Refers(t, S) /\ ~Refers(t, S)'
      /\ \A s \in Slot : s # S => (Refers(t, s)' <=> Refers(t, s))
  <2>1. \A g \in Holding(t) : mt[Of(g)].generation = g /\ g <= ctxt.generation
    BY <1>d DEF Keeps, Generation
  <2>2. \A g \in Holding(t) : Of(g) # S
    BY <1>a, <1>d, <1>f, <2>1
  <2> QED
    BY <1>0, <1>b, <1>c, <1>f, <2>2 DEF Refers, Mine, After
<1>i. InHands(t) /\ \A u \in Thread : u # t => ~(InHands(u) /\ Mine(u) = S)
  <2>1. InHands(t)
    BY <1>b DEF InHands, Recycling
  <2> QED
    BY <1>0, <1>a, <2>1, Alone
<1>1. Slots(S)'
  <2>1. Bounds(S)'
    BY <1>a, <1>b, <1>c, <1>d DEF Bounds, Generation
  <2>2. Cared(S)'
    BY <1>b DEF Cared
  <2>3. Counts(S)'
    <3>1. Cardinality({u \in Thread : Refers(u, S)}') = Cardinality({u \in Thread : Refers(u, S)}) - 1
      BY <1>a, <1>g, FewerRefers
    <3>2. Cardinality({u \in Thread : Refers(u, S)}) \in Int
      BY RefersFinite, FS_CardinalityType
    <3> QED
      BY <1>a, <1>b, <3>1, <3>2 DEF Counts
  <2> QED
    BY <2>1, <2>2, <2>3 DEF Slots
<1>2. Mind(t)'
  <2>1. Tasks(t)'
    BY <1>b, <1>c, <1>d DEF Tasks, Handles, Assigns, Incorporates, Assigned, Retired, Recycling, After
  <2>2. Keeps(t)'
    <3>1. \A g \in Holding(t) : mt'[Of(g)].generation = g /\ g <= Generation
      BY <1>a, <1>b, <1>d, <1>f, SlotOf DEF Keeps, SameTable
    <3> QED
      BY <1>b, <1>c, <1>d, <1>f, <3>1 DEF Keeps, Generation, After
  <2>3. Reads(t)'
    BY <1>b DEF Reads, After
  <2> QED
    BY <2>1, <2>2, <2>3 DEF Mind
<1>3. Turn'
  <2>1. \A u \in Thread : Incorporates(u)' <=> Incorporates(u)
    BY <1>a, <1>b DEF Incorporates, Assigned, Retired, Others, After
  <2> QED
    BY <1>c, <2>1 DEF Core, Turn
<1>4. ASSUME NEW u \in Thread, u # t PROVE Apart(t, u)'
  <2>1. Apart(t, u) /\ pc'[u] = pc[u]
    BY <1>a, <1>4 DEF Core, Others
  <2> QED
    BY <1>b, <1>c, <2>1 DEF Apart, Handles, Incorporates, Assigned, Retired, Recycling, Mine, After
<1>5. SameContext
  BY <1>c DEF SameContext, Generation
<1>6. /\ ~Handles(t)' /\ ~Handles(t) /\ Mine(t) = S
      /\ ~Compacted(S)
  BY <1>0, <1>b DEF Handles, Compacted, After
<1> QED
  BY <1>a, <1>b, <1>c, <1>g, <1>i, <1>1, <1>2, <1>3, <1>4, <1>5, <1>6, SlotStep

\* An iterator keeps a memtable that is in the window.
LEMMA KeepTableStep ==
  ASSUME ClosesIdle, Shape, Core, Shape', NEW t \in Thread, Acts(t), KeepTable(t), ~Compacted(Mine(t))
  PROVE  Core'
<1>0. PICK S : S = Mine(t)
  OBVIOUS
<1>a. /\ Kinds /\ Others(t) /\ Closing' /\ at \in [Thread -> Local] /\ at[t] \in Local
      /\ pc \in [Thread -> Label]
      /\ S \in Slot /\ at[t].gen \in Int /\ Of(at[t].gen) = S /\ at[t].held \subseteq Int
      /\ mt \in [Slot -> Table] /\ mt[S] \in Table /\ Slots(S) /\ Counts(S) /\ Bounds(S)
      /\ ctxt.retired \in Nat \cup {-1} /\ ctxt.generation \in Int
      /\ mt[S].generation \in Int /\ mt[S].refs \in Int
  BY <1>0, OthersStep, ClosingStep, Fields DEF Shape, Core, Kinds, Mine, Slots
<1>b. /\ pc[t] = "tables" /\ pc' = pc /\ at[t].scan /\ at[t].gen # at[t].last
      /\ mt'[S].refs = mt[S].refs + 1 /\ mt'[S].state = mt[S].state /\ mt'[S].generation = mt[S].generation
      /\ \A s \in Slot : s # S => SameTable(s)
  <2>1. mt' = [mt EXCEPT ![S].refs = @ + 1]
    BY <1>0 DEF KeepTable
  <2>2. mt'[S] = [mt[S] EXCEPT !.refs = mt[S].refs + 1] /\ \A s \in Slot : s # S => mt'[s] = mt[s]
    BY <1>a, <2>1
  <2>3. mt'[S].refs = mt[S].refs + 1 /\ mt'[S].state = mt[S].state /\ mt'[S].generation = mt[S].generation
    BY <1>a, <2>2 DEF Table
  <2>4. \A s \in Slot : s # S => SameTable(s)
    BY <2>2 DEF SameTable
  <2> QED
    BY <1>0, <2>3, <2>4 DEF KeepTable, At
<1>c. ctxt' = ctxt /\ tasks' = tasks
  BY DEF KeepTable, queue
<1>d. /\ at'[t].gen = at[t].gen - 1 /\ at'[t].held = at[t].held \cup {at[t].gen}
      /\ at'[t].last = at[t].last /\ at'[t].scan = at[t].scan
  <2>1. at' = [at EXCEPT ![t].gen = @ - 1, ![t].held = @ \cup {at[t].gen}]
    BY <1>0 DEF KeepTable
  <2>2. at'[t] = [[at[t] EXCEPT !.gen = at[t].gen - 1] EXCEPT !.held = at[t].held \cup {at[t].gen}]
    BY <1>a, <2>1 DEF Local
  <2> QED
    BY <1>a, <2>2 DEF Local
<1>e. Keeps(t) /\ Reads(t) /\ t \in Reader
  BY <1>b DEF Core, Mind, Shape, Places, Working, Assigned, Retired
<1>f. /\ at[t].last = ctxt.retired /\ ctxt.retired < at[t].gen /\ at[t].gen <= ctxt.generation
      /\ mt[S].generation = at[t].gen /\ mt[S].state # "INCORPORATED"
      /\ \A h \in at[t].held : h > at[t].gen /\ mt[Of(h)].generation = h /\ h <= ctxt.generation
  <2>1. /\ at[t].last = ctxt.retired /\ ctxt.retired < at[t].gen /\ at[t].gen <= ctxt.generation
        /\ \A h \in at[t].held : h > at[t].gen /\ mt[Of(h)].generation = h /\ h <= ctxt.generation
    BY <1>a, <1>b, <1>e DEF Reads, Keeps, Holding, Generation
  <2>2. at[t].gen \in ctxt.retired + 1 .. ctxt.generation
    BY <1>a, <2>1
  <2> QED
    BY <1>a, <2>1, <2>2 DEF Core, Window, Generation
<1>g. /\ ~Refers(t, S) /\ Refers(t, S)'
      /\ \A s \in Slot : s # S => (Refers(t, s)' <=> Refers(t, s))
  <2>1. Holding(t) = at[t].held /\ Holding(t)' = at[t].held \cup {at[t].gen}
    BY <1>b, <1>d DEF Holding
  <2>2. \A h \in at[t].held : Of(h) # S
    BY <1>a, <1>f
  <2> QED
    BY <1>a, <1>b, <2>1, <2>2 DEF Refers
<1>h. \A u \in Thread : ~(pc[u] \in Recycling /\ Mine(u) = S)
  BY <1>f DEF Core, Mind, Tasks
<1>1. Slots(S)'
  <2>1. Bounds(S)'
    BY <1>a, <1>b, <1>c DEF Bounds, Generation
  <2>2. Cared(S)'
    <3>1. Cared(S) /\ \A u \in Thread : u # t => at'[u] = at[u]
      BY <1>a DEF Slots, Others
    <3>2. ~Handles(t) /\ ~Assigns(t) /\ pc[t] \notin {"packed", "start", "ready", "recycle"}
      BY <1>b DEF Handles, Assigns, Assigned
    <3> QED
      BY <1>b, <1>c, <1>f, <3>1, <3>2 DEF Cared, Queued, Handles, Assigns
  <2>3. Counts(S)'
    <3>1. Cardinality({u \in Thread : Refers(u, S)}') = Cardinality({u \in Thread : Refers(u, S)}) + 1
      BY <1>a, <1>g, MoreRefers
    <3>2. Cardinality({u \in Thread : Refers(u, S)}) \in Int
      BY RefersFinite, FS_CardinalityType
    <3> QED
      BY <1>a, <1>b, <3>1, <3>2 DEF Counts
  <2> QED
    BY <2>1, <2>2, <2>3 DEF Slots
<1>2. Mind(t)'
  <2>1. Tasks(t)'
    BY <1>b DEF Tasks, Handles, Assigns, Incorporates, Assigned, Retired, Recycling
  <2>2. Keeps(t)'
    <3>1. Holding(t)' = at[t].held \cup {at[t].gen}
      BY <1>b, <1>d DEF Holding
    <3>2. \A g \in at[t].held \cup {at[t].gen} : mt'[Of(g)].generation = g /\ g <= ctxt.generation
      BY <1>a, <1>b, <1>f, SlotOf DEF SameTable
    <3>3. at'[t].gen >= -1
      BY <1>a, <1>d, <1>f
    <3> QED
      BY <1>b, <1>c, <1>e, <3>1, <3>2, <3>3 DEF Keeps, Generation
  <2>3. Reads(t)'
    BY <1>a, <1>b, <1>c, <1>d, <1>f DEF Reads, Generation
  <2> QED
    BY <2>1, <2>2, <2>3 DEF Mind
<1>3. Turn'
  BY <1>b, <1>c DEF Core, Turn, Incorporates
<1>4. ASSUME NEW u \in Thread, u # t PROVE Apart(t, u)'
  BY <1>b DEF Apart, Handles, Incorporates, Assigned, Retired, Recycling
<1>5. SameContext
  BY <1>c DEF SameContext, Generation
<1>6. /\ ~Handles(t) /\ pc[t] \notin {"packed", "start"} /\ ~Assigns(t) /\ pc[t] \notin Recycling
      /\ ~Handles(t)' /\ (Compacted(S) => Compacted(S)')
  BY <1>b DEF Handles, Assigns, Assigned, Recycling, Compacted
<1> QED
  BY <1>a, <1>b, <1>c, <1>g, <1>h, <1>1, <1>2, <1>3, <1>4, <1>5, <1>6, SlotStep

-----------------------------------------------------------------------------
(* The steps that change the tasks or the generations.                     *)

LEMMA ProcessStep ==
  ASSUME ClosesIdle, Shape, Core, Shape', NEW t \in Thread, Acts(t), Process(t)
  PROVE  Core'
<1>0. PICK g : g = at[t].gen
  OBVIOUS
<1>a. /\ Kinds /\ Others(t) /\ Closing' /\ pc \in [Thread -> Label] /\ Tasks(t)
  BY OthersStep, ClosingStep DEF Shape, Core, Kinds, Mind
<1>b. /\ pc[t] = "process" /\ pc'[t] \in {"begin", "drain"} /\ tasks' = Append(tasks, g)
      /\ ctxt' = ctxt /\ mt' = mt /\ at' = at
  BY <1>0, <1>a DEF Process, At, Goto, data
<1>c. t \notin Reader /\ at[t].held = {} /\ Holding(t) = {}
  BY <1>b, WorkerHolds
<1>d. /\ g \in Int /\ Of(g) \in Slot /\ mt[Of(g)].generation = g /\ mt[Of(g)].state = "FINALIZED"
      /\ ~Queued(g) /\ ctxt.generation \in Int /\ ctxt.retired \in Int
  BY <1>0, <1>a, <1>b, SlotOf, Fields DEF Tasks, Has, Mine, Handles, Core, Queue
<1>e. /\ \A i \in DOMAIN tasks : i \in DOMAIN tasks' /\ tasks'[i] = tasks[i]
      /\ \A i \in DOMAIN tasks' : (i \in DOMAIN tasks /\ tasks'[i] = tasks[i]) \/ (i = Len(tasks) + 1 /\ tasks'[i] = g)
      /\ Len(tasks) + 1 \in DOMAIN tasks' /\ tasks'[Len(tasks) + 1] = g
  BY <1>a, <1>b, <1>d DEF Kinds
<1>f. \A s \in Slot : SameTable(s)
  BY <1>b DEF SameTable
<1>g. \A h : Queued(h)' <=> Queued(h) \/ h = g
  BY <1>e DEF Queued
<1>i. \A u \in Thread : u # t => pc'[u] = pc[u] /\ at'[u] = at[u]
  BY <1>a DEF Others
<1>1. Queue'
  <2>1. \A i \in DOMAIN tasks' : mt[Of(tasks'[i])].generation = tasks'[i] /\ mt[Of(tasks'[i])].state = "FINALIZED"
    BY <1>d, <1>e DEF Core, Queue
  <2>2. \A i, j \in DOMAIN tasks' : i # j => tasks'[i] # tasks'[j]
    BY <1>d, <1>e DEF Core, Queue, Queued
  <2>3. \A u \in Thread : Handles(u)' => ~Queued(at[u].gen)'
    <3> SUFFICES ASSUME NEW u \in Thread, Handles(u)', NEW i \in DOMAIN tasks', tasks'[i] = at'[u].gen
                 PROVE  FALSE
      BY DEF Queued
    <3>1. u # t
      BY <1>b DEF Handles
    <3>2. Handles(u) /\ at'[u].gen = at[u].gen /\ at[u].gen # g
      BY <1>0, <1>b, <1>i, <3>1 DEF Handles, Core, Apart
    <3> QED
      BY <1>e, <3>2 DEF Core, Queue, Queued
  <2> QED
    BY <1>b, <2>1, <2>2, <2>3 DEF Queue
<1>2. Turn'
  BY <1>b, <1>i DEF Core, Turn, Incorporates, Assigned, Retired
<1>3. Window'
  BY <1>b DEF Core, Window, Current, Generation
<1>4. ASSUME NEW s \in Slot PROVE Slots(s)'
  <2>1. Bounds(s)'
    BY <1>b DEF Core, Slots, Bounds, Generation
  <2>2. Cared(s)'
    <3>1. Cared(s) /\ ~Assigns(t)
      BY <1>b DEF Core, Slots, Assigns, Assigned
    <3> QED
      BY <1>0, <1>b, <1>g, <1>i, <3>1 DEF Cared, Handles, Assigns, Mine
  <2>3. Refers(t, s)' <=> Refers(t, s)
    BY <1>b, <1>c DEF Refers, Holding
  <2>4. Counts(s)'
    BY <1>a, <1>f, <2>3, OtherCounts
  <2> QED
    BY <2>1, <2>2, <2>4 DEF Slots
<1>5. Mind(t)'
  <2>1. Mind(t)
    BY DEF Core
  <2> QED
    BY <1>b, <1>c, <1>a, <2>1
    DEF Mind, Tasks, Keeps, Reads, Holding, Handles, Assigns, Incorporates, Assigned, Retired, Recycling
<1>6. ASSUME NEW u \in Thread, u # t PROVE Mind(u)'
  <2>1. Mind(u)
    BY DEF Core
  <2>2. mt' = mt /\ ctxt' = ctxt /\ ctxt'.generation = Generation
    BY <1>b DEF Generation
  <2>3. pc[u] = "ready" => mt[Mine(u)].generation > ctxt'.generation
    BY <2>1, <2>2 DEF Mind, Tasks
  <2>4. pc[u] = "rotate" => mt[Of(Generation + 1)].state = "READY"
    BY <2>1 DEF Mind, Keeps
  <2>5. Compacted(Of(g)) => Compacted(Of(g))'
    BY <2>2 DEF Compacted
  <2>6. Generation \in Int
    BY <1>d DEF Generation
  <2> HIDE <1>b
  <2> QED
    BY <1>a, <1>d, <1>f, <1>6, <2>2, <2>3, <2>4, <2>5, <2>6, OtherMind
<1>7. ASSUME NEW u \in Thread, u # t PROVE Apart(t, u)'
  BY <1>b DEF Apart, Handles, Incorporates, Assigned, Retired, Recycling
<1>8. (\A u, v \in Thread : u # v => Apart(u, v))'
  BY <1>a, <1>7, ApartStep
<1> QED
  BY <1>a, <1>1, <1>2, <1>3, <1>4, <1>5, <1>6, <1>8 DEF Core

\* The memtables that are incorporated are the trunk's: nobody looks at them.
LEMMA RetireStep ==
  ASSUME ClosesIdle, Shape, Core, Shape', NEW t \in Thread, Acts(t), Retire(t)
  PROVE  Core'
<1>0. PICK S : S = Mine(t)
  OBVIOUS
<1>a. /\ Kinds /\ Others(t) /\ Closing' /\ pc \in [Thread -> Label]
      /\ S \in Slot /\ at[t].gen \in Int /\ Of(at[t].gen) = S /\ ctxt \in Context
      /\ mt \in [Slot -> Table] /\ mt[S] \in Table /\ Slots(S) /\ Counts(S) /\ Bounds(S) /\ Cared(S)
      /\ ctxt.retired \in Nat \cup {-1} /\ ctxt.generation \in Int /\ ctxt.to_incorporate \in Int
      /\ mt[S].generation \in Int /\ mt[S].refs \in Int
  BY <1>0, OthersStep, ClosingStep, Fields DEF Shape, Core, Kinds, Mine, Slots
<1>b. /\ pc[t] = "retire" /\ pc'[t] = "switch"
      /\ mt[S].state = "INCORPORATION_ASSIGNED" /\ mt'[S].state = "INCORPORATED"
      /\ mt'[S].refs = mt[S].refs /\ mt'[S].generation = mt[S].generation
      /\ \A s \in Slot : s # S => SameTable(s)
  BY <1>0, <1>a DEF Retire, At, Goto, Transition, SameTable
<1>c. /\ ctxt'.retired = ctxt.retired + 1 /\ ctxt'.generation = ctxt.generation
      /\ ctxt'.to_incorporate = ctxt.to_incorporate /\ tasks' = tasks /\ at' = at
  BY <1>a DEF Retire, queue, Context
<1>d. t \notin Reader /\ at[t].held = {} /\ Holding(t) = {} /\ Holding(t)' = {}
  BY <1>b, <1>c, WorkerHolds DEF Holding, Assigned
<1>e. /\ mt[S].generation = at[t].gen /\ at[t].gen = ctxt.retired + 1
      /\ ctxt.to_incorporate = ctxt.retired + 1 /\ at[t].gen < ctxt.generation
      /\ Incorporates(t) /\ Assigns(t) /\ Tasks(t) /\ Keeps(t)
  <2>1. Tasks(t) /\ Keeps(t) /\ Incorporates(t) /\ Assigns(t)
    BY <1>b, <1>d DEF Core, Mind, Incorporates, Assigns, Assigned
  <2> QED
    BY <1>0, <1>a, <1>b, <2>1 DEF Tasks, Has, Bounds, Generation
<1>f. Looking = {} /\ \A u \in Thread : pc[u] \notin {"gens", "tables", "read"}
  BY DEF Retire, Shape, LookupLock, Looking
<1>g. \A u \in Thread : u # t => ~Incorporates(u) /\ ~(InHands(u) /\ Mine(u) = S)
  <2>1. InHands(t)
    BY <1>e DEF InHands
  <2> QED
    BY <1>0, <1>a, <1>e, <2>1, Alone DEF Core, Apart
<1>i. \A u \in Thread : u # t => pc'[u] = pc[u] /\ at'[u] = at[u]
  BY <1>a DEF Others
<1>j. \A s \in Slot : mt[s].generation = ctxt.retired + 1 => s = S
  BY <1>a, <1>e DEF Core, Slots, Bounds
<1>1. Queue'
  <2>1. \A i \in DOMAIN tasks : mt'[Of(tasks[i])].generation = tasks[i] /\ mt'[Of(tasks[i])].state = "FINALIZED"
    <3> SUFFICES ASSUME NEW i \in DOMAIN tasks
                 PROVE  mt'[Of(tasks[i])].generation = tasks[i] /\ mt'[Of(tasks[i])].state = "FINALIZED"
      OBVIOUS
    <3>1. mt[Of(tasks[i])].generation = tasks[i] /\ mt[Of(tasks[i])].state = "FINALIZED" /\ Of(tasks[i]) \in Slot
      BY <1>a, SlotOf DEF Core, Queue, Kinds
    <3> QED
      BY <1>b, <3>1 DEF SameTable
  <2>2. \A u \in Thread : Handles(u)' => Handles(u)
    BY <1>b, <1>i DEF Handles
  <2> QED
    BY <1>c, <2>1, <2>2 DEF Core, Queue, Queued
<1>2. Turn'
  <2>1. Incorporates(t)'
    BY <1>b, <1>d DEF Incorporates, Retired
  <2> QED
    BY <1>c, <2>1 DEF Core, Turn
<1>3. Window'
  <2>1. ASSUME NEW g \in ctxt'.retired + 1 .. ctxt'.generation
        PROVE  mt'[Of(g)].generation = g /\ mt'[Of(g)].state # "INCORPORATED"
    <3>1. g \in ctxt.retired + 1 .. ctxt.generation /\ g \in Int /\ g # ctxt.retired + 1
      BY <1>a, <1>c, <2>1
    <3>2. mt[Of(g)].generation = g /\ mt[Of(g)].state # "INCORPORATED" /\ Of(g) \in Slot
      BY <3>1, SlotOf DEF Core, Window, Generation
    <3>3. Of(g) # S
      BY <1>e, <3>1, <3>2
    <3> QED
      BY <1>b, <3>2, <3>3 DEF SameTable
  <2>2. Current \in Slot /\ mt[Current].state = "READY" /\ mt'[Current].state = "READY"
    BY <1>a, <1>b, Fields DEF Core, Window, SameTable
  <2>3. ctxt'.retired < ctxt'.generation /\ Current' = Current
    BY <1>a, <1>c, <1>e DEF Current
  <2> QED
    BY <2>1, <2>2, <2>3 DEF Window, Generation, Current
<1>4. ASSUME NEW s \in Slot PROVE Slots(s)'
  <2>a. Bounds(s) /\ Cared(s) /\ mt[s].generation \in Int
    BY <1>a, Fields DEF Core, Slots
  <2>1. CASE s = S
    <3>1. Bounds(S)'
      BY <1>a, <1>b, <1>c DEF Bounds, Generation
    <3>2. Cared(S)'
      <4>1. Refers(t, S)'
        BY <1>0, <1>b, <1>c, <1>d DEF Refers, Mine
      <4>2. mt'[S].refs # 0
        <5>1. Counts(S)'
          <6>1. ~Refers(t, S)
            BY <1>b, <1>d DEF Refers
          <6>2. Cardinality({u \in Thread : Refers(u, S)}') = Cardinality({u \in Thread : Refers(u, S)}) + 1
            BY <1>a, <4>1, <6>1, MoreRefers
          <6>3. Cardinality({u \in Thread : Refers(u, S)}) \in Int
            BY RefersFinite, FS_CardinalityType
          <6> QED
            BY <1>a, <1>b, <6>2, <6>3 DEF Counts
        <5>2. IsFiniteSet({u \in Thread : Refers(u, S)}') /\ t \in {u \in Thread : Refers(u, S)}'
          BY <4>1, ThreadsDisjoint, FS_Subset
        <5>3. Cardinality({u \in Thread : Refers(u, S)}') # 0
          BY <5>2, FS_EmptySet
        <5>4. Cardinality({u \in Thread : Refers(u, S)}') = mt'[S].refs
          BY <1>b, <5>1, <5>2, FS_CardinalityType DEF Counts
        <5> QED
          BY <5>3, <5>4
      <4>3. ~(mt'[S].generation > ctxt'.retired)
        BY <1>a, <1>b, <1>c, <1>e
      <4> QED
        BY <1>b, <4>2, <4>3 DEF Cared
    <3>3. Counts(S)'
      <4>1. ~Refers(t, S) /\ Refers(t, S)'
        BY <1>0, <1>b, <1>c, <1>d DEF Refers, Mine
      <4>2. Cardinality({u \in Thread : Refers(u, S)}') = Cardinality({u \in Thread : Refers(u, S)}) + 1
        BY <1>a, <4>1, MoreRefers
      <4>3. Cardinality({u \in Thread : Refers(u, S)}) \in Int
        BY RefersFinite, FS_CardinalityType
      <4> QED
        BY <1>a, <1>b, <4>2, <4>3 DEF Counts
    <3> QED
      BY <2>1, <3>1, <3>2, <3>3 DEF Slots
  <2>2. CASE s # S
    <3>1. SameTable(s) /\ mt[s].generation # ctxt.retired + 1
      BY <1>b, <1>j, <2>2
    <3>2. Bounds(s)'
      BY <1>a, <1>c, <2>a, <3>1 DEF Bounds, SameTable, Generation
    <3>3. Cared(s)'
      <4>1. Queued(mt[s].generation) => Queued(mt[s].generation)'
        BY <1>c, <3>1 DEF Queued, SameTable
      <4>2. ctxt'.retired \in Int /\ ctxt'.retired >= ctxt.retired
        BY <1>a, <1>c
      <4> QED
        BY <1>0, <1>a, <1>c, <2>2, <3>1, <4>1, <4>2, OtherCared
    <3>4. Refers(t, s)' <=> Refers(t, s)
      BY <1>0, <1>b, <1>c, <1>d, <2>2 DEF Refers, Mine
    <3>5. Counts(s)'
      BY <1>a, <3>1, <3>4, OtherCounts
    <3> QED
      BY <3>2, <3>3, <3>5 DEF Slots
  <2> QED
    BY <2>1, <2>2
<1>5. Mind(t)'
  <2>1. Tasks(t)'
    BY <1>0, <1>b, <1>c, <1>d, <1>e
    DEF Tasks, Has, Mine, Handles, Assigns, Incorporates, Assigned, Retired, Recycling
  <2>2. Keeps(t)'
    BY <1>b, <1>c, <1>d, <1>e DEF Keeps
  <2>3. Reads(t)'
    BY <1>b DEF Reads
  <2> QED
    BY <2>1, <2>2, <2>3 DEF Mind
<1>6. ASSUME NEW u \in Thread, u # t PROVE Mind(u)'
  <2>1. Mind(u) /\ ~Incorporates(u) /\ ~(InHands(u) /\ Mine(u) = S)
    BY <1>g, <1>6 DEF Core
  <2>2. /\ ctxt'.generation = Generation /\ ctxt'.generation \in Int /\ ctxt'.retired \in Int
        /\ ctxt'.retired >= ctxt.retired /\ ctxt'.generation >= Generation
    BY <1>a, <1>c DEF Generation
  <2>3. pc[u] = "ready" => mt[Mine(u)].generation > ctxt'.generation
    BY <2>1, <2>2 DEF Mind, Tasks
  <2>4. pc[u] = "rotate" => mt[Of(Generation + 1)].state = "READY"
    BY <2>1 DEF Mind, Keeps
  <2>5. pc[u] = "rotate" /\ Of(Generation + 1) = S => mt'[S].state = "READY"
    BY <1>b, <2>4
  <2>6. \A g \in Holding(u) : Of(g) = S => mt'[S].generation = mt[S].generation
    BY <1>b
  <2>7. pc[u] \notin {"tables", "read"}
    BY <1>f
  <2>8. \A s \in Slot : s # S => SameTable(s)
    BY <1>b
  <2> HIDE <1>b
  <2> QED
    BY <1>a, <1>6, <2>1, <2>2, <2>3, <2>5, <2>6, <2>7, <2>8, OtherMind
<1>7. ASSUME NEW u \in Thread, u # t PROVE Apart(t, u)'
  <2>1. ~Incorporates(u)'
    BY <1>g, <1>i, <1>7 DEF Incorporates
  <2> QED
    BY <1>b, <2>1 DEF Apart, Handles, Recycling
<1>8. (\A u, v \in Thread : u # v => Apart(u, v))'
  BY <1>a, <1>7, ApartStep
<1> QED
  BY <1>a, <1>1, <1>2, <1>3, <1>4, <1>5, <1>6, <1>8 DEF Core

\* The turn passes on, and with it the next memtable if it is compacted.
LEMMA TryContinueStep ==
  ASSUME ClosesIdle, Shape, Core, Shape', NEW t \in Thread, Acts(t), TryContinue(t)
  PROVE  Core'
<1>0. PICK S, n : n = at[t].gen + 1 /\ S = Of(n)
  OBVIOUS
<1>9. Kinds /\ n \in Int /\ S \in Slot
  <2>1. Kinds /\ at[t].gen \in Int
    BY Fields DEF Shape
  <2> QED
    BY <1>0, <2>1, SlotOf
<1>a. /\ Kinds /\ Others(t) /\ Closing' /\ pc \in [Thread -> Label] /\ pc[t] = "continue"
      /\ at \in [Thread -> Local] /\ at[t] \in Local
      /\ at[t].gen \in Int /\ n \in Int /\ S \in Slot /\ ctxt \in Context
      /\ mt \in [Slot -> Table] /\ mt[S] \in Table /\ Slots(S) /\ Counts(S) /\ Bounds(S) /\ Cared(S)
      /\ ctxt.retired \in Nat \cup {-1} /\ ctxt.generation \in Int /\ ctxt.to_incorporate \in Int
      /\ mt[S].generation \in Int /\ mt[S].refs \in Int
  BY <1>9, OthersStep, ClosingStep, Fields, SMTT(30) DEF Shape, Core, Kinds, Slots, TryContinue, At
<1>d. t \notin Reader /\ at[t].held = {} /\ Holding(t) = {}
  BY <1>a, WorkerHolds
<1>e. /\ Incorporates(t) /\ Tasks(t) /\ Keeps(t) /\ ~Assigns(t)
      /\ at[t].gen = ctxt.to_incorporate /\ ctxt.to_incorporate = ctxt.retired
      /\ n = ctxt.retired + 1 /\ ctxt.retired < ctxt.generation
      /\ mt[S].generation = n
  <2>1. Tasks(t) /\ Keeps(t) /\ Incorporates(t) /\ ~Assigns(t)
    BY <1>a, <1>d DEF Core, Mind, Incorporates, Assigns, Assigned, Retired
  <2>2. at[t].gen = ctxt.to_incorporate /\ ctxt.to_incorporate = ctxt.retired /\ n = ctxt.retired + 1
    BY <1>0, <1>a, <1>d, <2>1 DEF Tasks, Retired
  <2>3. ctxt.retired < ctxt.generation /\ n \in ctxt.retired + 1 .. ctxt.generation
    BY <1>a, <2>2 DEF Core, Window, Generation
  <2>4. mt[S].generation = n
    BY <1>0, <2>3 DEF Core, Window, Generation
  <2> QED
    BY <2>1, <2>2, <2>3, <2>4
<1>b. /\ ctxt'.to_incorporate = n /\ ctxt'.retired = ctxt.retired /\ ctxt'.generation = ctxt.generation
      /\ tasks' = tasks
      /\ \/ /\ mt[S].state = "COMPACTED" /\ mt'[S].state = "INCORPORATION_ASSIGNED"
            /\ pc'[t] = "copy" /\ at'[t].gen = n
         \/ mt[S].state # "COMPACTED" /\ mt' = mt /\ pc'[t] = "done" /\ at' = at
      /\ mt'[S].refs = mt[S].refs /\ mt'[S].generation = mt[S].generation
      /\ \A s \in Slot : s # S => SameTable(s)
      /\ at'[t].held = at[t].held /\ at'[t].gen \in Int
  <2>1. ctxt' = [ctxt EXCEPT !.to_incorporate = n] /\ tasks' = tasks
    BY <1>0, <1>e DEF TryContinue, queue
  <2>2. ctxt'.to_incorporate = n /\ ctxt'.retired = ctxt.retired /\ ctxt'.generation = ctxt.generation
    BY <1>a, <2>1 DEF Context
  <2>3. CASE mt[S].state = "COMPACTED"
    <3>1. /\ mt' = [mt EXCEPT ![S].state = "INCORPORATION_ASSIGNED"]
          /\ at' = [at EXCEPT ![t].gen = n] /\ pc' = [pc EXCEPT ![t] = "copy"]
      BY <1>0, <1>e, <2>3 DEF TryContinue, Transition, Goto
    <3>2. mt'[S] = [mt[S] EXCEPT !.state = "INCORPORATION_ASSIGNED"] /\ at'[t] = [at[t] EXCEPT !.gen = n]
          /\ \A s \in Slot : s # S => mt'[s] = mt[s]
      BY <1>a, <3>1
    <3>3. mt'[S].state = "INCORPORATION_ASSIGNED" /\ mt'[S].refs = mt[S].refs /\ mt'[S].generation = mt[S].generation
      BY <1>a, <3>2 DEF Table
    <3>4. at'[t].gen = n /\ at'[t].held = at[t].held
      BY <1>a, <3>2 DEF Local
    <3> QED
      BY <1>a, <2>1, <2>2, <2>3, <3>1, <3>2, <3>3, <3>4 DEF SameTable
  <2>4. CASE mt[S].state # "COMPACTED"
    <3>1. mt' = mt /\ at' = at /\ pc' = [pc EXCEPT ![t] = "done"]
      BY <1>0, <1>e, <2>4 DEF TryContinue, Goto
    <3> QED
      BY <1>a, <2>1, <2>2, <2>4, <3>1 DEF SameTable
  <2> QED
    BY <2>3, <2>4
<1>g. \A u \in Thread : u # t => ~Incorporates(u)
  BY <1>e DEF Core, Apart
<1>f. /\ \A u \in Thread : u # t => ~(InHands(u) /\ Mine(u) = S) \/ mt[S].state # "COMPACTED"
      /\ \A u \in Thread : u # t => pc'[u] = pc[u] /\ at'[u] = at[u]
  <2>1. \A u \in Thread : u # t => ~(InHands(u) /\ Mine(u) = S) \/ mt[S].state # "COMPACTED"
    <3> SUFFICES ASSUME NEW u \in Thread, u # t, InHands(u), Mine(u) = S, mt[S].state = "COMPACTED" PROVE FALSE
      OBVIOUS
    <3>1. Tasks(u)
      BY DEF Core, Mind
    <3> QED
      BY <3>1 DEF Tasks, Has, InHands
  <2> QED
    BY <1>a, <2>1 DEF Others
<1>j. \A s \in Slot : mt[s].generation = n => s = S
  BY <1>0, <1>a, <1>e DEF Core, Slots, Bounds
<1>k. /\ Holding(t)' = {} /\ \A s \in Slot : Refers(t, s)' <=> Refers(t, s)
  <2>1. Holding(t)' = {}
    BY <1>b, <1>d DEF Holding
  <2> QED
    BY <1>a, <1>b, <1>d, <2>1 DEF Refers
<1>1. Queue'
  <2>1. \A i \in DOMAIN tasks : mt'[Of(tasks[i])].generation = tasks[i] /\ mt'[Of(tasks[i])].state = "FINALIZED"
    <3> SUFFICES ASSUME NEW i \in DOMAIN tasks
                 PROVE  mt'[Of(tasks[i])].generation = tasks[i] /\ mt'[Of(tasks[i])].state = "FINALIZED"
      OBVIOUS
    <3>1. mt[Of(tasks[i])].generation = tasks[i] /\ mt[Of(tasks[i])].state = "FINALIZED" /\ Of(tasks[i]) \in Slot
      BY <1>a, SlotOf DEF Core, Queue, Kinds
    <3> QED
      BY <1>b, <3>1 DEF SameTable
  <2>2. \A u \in Thread : Handles(u)' => Handles(u) /\ at'[u].gen = at[u].gen
    BY <1>b, <1>f DEF Handles
  <2> QED
    BY <1>b, <2>1, <2>2 DEF Core, Queue, Queued
<1>2. Turn'
  <2>1. pc'[t] = "copy" => Incorporates(t)'
    BY <1>d DEF Incorporates, Assigned
  <2>2. n >= 0
    BY <1>a, <1>e
  <2> QED
    BY <1>b, <1>e, <2>1, <2>2 DEF Turn
<1>3. Window'
  <2>1. ASSUME NEW g \in ctxt'.retired + 1 .. ctxt'.generation
        PROVE  mt'[Of(g)].generation = g /\ mt'[Of(g)].state # "INCORPORATED"
    <3>1. g \in ctxt.retired + 1 .. ctxt.generation /\ g \in Int
      BY <1>a, <1>b, <2>1
    <3>2. mt[Of(g)].generation = g /\ mt[Of(g)].state # "INCORPORATED" /\ Of(g) \in Slot
      BY <3>1, SlotOf DEF Core, Window, Generation
    <3> QED
      BY <1>b, <3>2 DEF SameTable
  <2>2. Current \in Slot /\ mt[Current].state = "READY" /\ mt'[Current].state = "READY"
    BY <1>a, <1>b, Fields DEF Core, Window, SameTable
  <2>3. ctxt'.retired < ctxt'.generation /\ Current' = Current
    BY <1>a, <1>b, <1>e DEF Current
  <2> QED
    BY <2>1, <2>2, <2>3 DEF Window, Generation, Current
<1>4. ASSUME NEW s \in Slot PROVE Slots(s)'
  <2>a. Bounds(s) /\ Cared(s) /\ mt[s].generation \in Int
    BY <1>a, Fields DEF Core, Slots
  <2>1. CASE s = S
    <3>1. Bounds(S)'
      BY <1>a, <1>b DEF Bounds, Generation
    <3>2. Cared(S)'
      <4>1. CASE mt[S].state = "COMPACTED"
        BY <1>b, <1>d, <1>e, <4>1 DEF Cared, Assigns, Assigned
      <4>2. CASE mt[S].state # "COMPACTED"
        <5>1. mt' = mt /\ pc'[t] = "done" /\ at' = at
          BY <1>b, <4>2
        <5>2. ~Handles(t) /\ pc[t] = "continue"
          BY <1>a DEF Handles
        <5> QED
          BY <1>a, <1>b, <1>e, <1>f, <4>2, <5>1, <5>2 DEF Cared, Queued, Handles, Assigns, Mine
      <4> QED
        BY <4>1, <4>2
    <3>3. Counts(S)'
      BY <1>a, <1>b, <1>k, SameRefers DEF Counts
    <3> QED
      BY <2>1, <3>1, <3>2, <3>3 DEF Slots
  <2>2. CASE s # S
    <3>1. SameTable(s) /\ mt[s].generation # n
      BY <1>b, <1>j, <2>2
    <3>2. Bounds(s)'
      BY <1>a, <1>b, <2>a, <3>1 DEF Bounds, SameTable, Generation
    <3>3. Cared(s)'
      <4>1. Queued(mt[s].generation) => Queued(mt[s].generation)'
        BY <1>b, <3>1 DEF Queued, SameTable
      <4>2. ctxt'.retired \in Int /\ ctxt'.retired >= ctxt.retired
        BY <1>a, <1>b
      <4>3. ~Handles(t) /\ pc[t] \notin {"packed", "start"} /\ ~Assigns(t) /\ pc[t] \notin Recycling
        BY <1>a, <1>e DEF Handles, Recycling
      <4> QED
        BY <1>a, <1>b, <2>2, <3>1, <4>1, <4>2, <4>3, OtherCared
    <3>4. Counts(s)'
      BY <1>a, <1>k, <3>1, OtherCounts
    <3> QED
      BY <3>2, <3>3, <3>4 DEF Slots
  <2> QED
    BY <2>1, <2>2
<1>5. Mind(t)'
  <2>1. Tasks(t)'
    BY <1>0, <1>a, <1>b, <1>d, <1>e
    DEF Tasks, Has, Mine, Handles, Assigns, Incorporates, Assigned, Retired, Recycling
  <2>2. Keeps(t)'
    <3>1. at'[t].gen >= -1
      BY <1>a, <1>b, <1>e
    <3> QED
      BY <1>b, <1>d, <1>k, <3>1 DEF Keeps
  <2>3. Reads(t)'
    BY <1>b DEF Reads
  <2> QED
    BY <2>1, <2>2, <2>3 DEF Mind
<1>6. ASSUME NEW u \in Thread, u # t PROVE Mind(u)'
  <2>1. Mind(u) /\ ~Incorporates(u)
    BY <1>g, <1>6 DEF Core
  <2>2. /\ ctxt'.generation = Generation /\ ctxt'.generation \in Int /\ ctxt'.retired \in Int
        /\ ctxt'.retired >= ctxt.retired /\ ctxt'.generation >= Generation /\ ctxt'.retired = ctxt.retired
    BY <1>a, <1>b DEF Generation
  <2>3. pc[u] = "ready" => mt[Mine(u)].generation > ctxt'.generation
    BY <2>1, <2>2 DEF Mind, Tasks
  <2>4. pc[u] = "rotate" => mt[Of(Generation + 1)].state = "READY"
    BY <2>1 DEF Mind, Keeps
  <2>5. pc[u] = "rotate" /\ Of(Generation + 1) = S => mt'[S].state = "READY"
    BY <1>b, <2>4
  <2>6. \A g \in Holding(u) : Of(g) = S => mt'[S].generation = mt[S].generation
    BY <1>b
  <2>7. /\ \A s \in Slot : s # S => SameTable(s)
        /\ pc[u] = "read" /\ Mine(u) = S /\ Compacted(S) => Compacted(S)'
    BY <1>b DEF Compacted
  <2>8. InHands(u) /\ Mine(u) = S => /\ mt'[S].state = mt[S].state
                                     /\ mt'[S].generation = mt[S].generation
                                     /\ pc[u] \in Recycling => mt'[S].refs = mt[S].refs
    BY <1>b, <1>f, <1>6
  <2> HIDE <1>b
  <2> QED
    BY <1>a, <1>6, <2>1, <2>2, <2>3, <2>5, <2>6, <2>7, <2>8, OtherMind
<1>7. ASSUME NEW u \in Thread, u # t PROVE Apart(t, u)'
  <2>1. ~Incorporates(u)'
    BY <1>f, <1>g, <1>7 DEF Incorporates
  <2> QED
    BY <1>b, <2>1 DEF Apart, Handles, Recycling
<1>8. (\A u, v \in Thread : u # v => Apart(u, v))'
  BY <1>a, <1>7, ApartStep
<1> QED
  BY <1>a, <1>1, <1>2, <1>3, <1>4, <1>5, <1>6, <1>8 DEF Core

\* With no task left, everything that was finalized has been incorporated.
LEMMA NothingWaits ==
  ASSUME Shape, Core, tasks = <<>>, \A t \in Thread : ~Works(t) /\ pc[t] # "process"
  PROVE  ctxt.retired = ctxt.generation - 1
<1>1. /\ ctxt.retired \in Nat \cup {-1} /\ ctxt.generation \in Nat /\ ctxt.retired < ctxt.generation
      /\ ctxt.to_incorporate \in Int
  BY Fields DEF Shape, Core, Window, Generation
<1>2. \A t \in Thread : /\ ~Handles(t) /\ pc[t] \notin {"packed", "start"} /\ ~Assigns(t) /\ ~Incorporates(t)
  <2> SUFFICES ASSUME NEW t \in Thread
               PROVE  ~Handles(t) /\ pc[t] \notin {"packed", "start"} /\ ~Assigns(t) /\ ~Incorporates(t)
    OBVIOUS
  <2>1. t \in Reader => pc[t] \notin {"compact", "packed", "start"}
    BY ThreadsDisjoint DEF Shape, Places, Recycling
  <2> QED
    BY <2>1 DEF Works, Working, Handles, Assigns, Incorporates
<1> SUFFICES ASSUME ctxt.retired + 1 < ctxt.generation PROVE FALSE
  BY <1>1
<1>3. PICK g, s : g = ctxt.retired + 1 /\ s = Of(g)
  OBVIOUS
<1>4. /\ g \in Int /\ s \in Slot /\ mt[s].generation = g /\ mt[s].state # "INCORPORATED"
      /\ mt[s].state \in States /\ ctxt.to_incorporate = g
  <2>1. g \in Int /\ s \in Slot
    BY <1>1, <1>3, SlotOf
  <2>2. g \in ctxt.retired + 1 .. ctxt.generation
    BY <1>1, <1>3
  <2>3. mt[s].state \in States
    BY <2>1, Fields DEF Shape
  <2> QED
    BY <1>2, <1>3, <2>1, <2>2, <2>3 DEF Core, Window, Turn, Generation
<1>5. Cared(s) /\ Bounds(s) /\ ~Queued(g)
  BY <1>4 DEF Core, Slots, Queued
<1> QED
  BY <1>1, <1>2, <1>3, <1>4, <1>5 DEF Cared, Bounds, States, Generation

\* The current memtable is finalized and the next one takes its place.
LEMMA FinalizeStep ==
  ASSUME Shape, Core, Shape', NEW t \in Thread, Others(t), Closing', t \notin Reader,
         pc[t] \in {"rotate", "finalize"}, pc'[t] = "process", tasks' = tasks,
         at'[t].gen = Generation, at'[t].held = at[t].held,
         NEW S \in Slot, S = Current, mt'[S].state = "FINALIZED",
         mt'[S].generation = mt[S].generation, mt'[S].refs = mt[S].refs,
         \A s \in Slot : s # S => SameTable(s),
         ctxt'.generation = Generation + 1, ctxt'.retired = ctxt.retired,
         ctxt'.to_incorporate = ctxt.to_incorporate,
         mt[Of(Generation + 1)].state = "READY",
         \A u \in Thread : u # t => pc[u] \notin {"rotate", "insert", "inserted"}
  PROVE  Core'
<1>0. PICK G, N : G = ctxt.generation /\ N = Of(G + 1)
  OBVIOUS
<1>a. /\ Kinds /\ G \in Nat /\ G = Generation /\ N \in Slot /\ S = Of(G) /\ Of(G + 1) = N
      /\ ctxt.retired \in Nat \cup {-1} /\ ctxt.retired < G
      /\ Tables \in Int /\ Tables >= 2 /\ mt[S].state = "READY" /\ mt[S].generation = G
      /\ \A s \in Slot : mt[s].generation \in Int
  <2>1. Kinds /\ G \in Nat /\ S = Of(G)
    BY <1>0, Fields DEF Shape, Current
  <2>2. G + 1 \in Int
    BY <2>1
  <2>3. N \in Slot
    BY <1>0, <2>2, SlotOf
  <2>4. ctxt.retired \in Nat \cup {-1} /\ ctxt.retired < G /\ mt[S].state = "READY"
    BY <1>0, <2>1, Fields DEF Core, Window, Generation
  <2>5. G \in ctxt.retired + 1 .. G
    BY <2>1, <2>4
  <2>6. mt[S].generation = G
    BY <1>0, <2>1, <2>5 DEF Core, Window, Generation
  <2> QED
    BY <1>0, <2>1, <2>3, <2>4, <2>6, Fields, MemtablesAssumption DEF Generation
<1>b. N # S
  BY <1>a, SameSlot
<1>c. mt[N].state = "READY" /\ mt[N].generation = G + 1
  <2>1. mt[N].state = "READY"
    BY <1>a
  <2>2. mt[N].generation >= G /\ mt[N].generation < G + Tables /\ Of(mt[N].generation) = N
    BY <1>a, <2>1 DEF Core, Slots, Bounds
  <2>3. /\ mt[N].generation \in Int /\ G + 1 \in Int /\ Of(mt[N].generation) = Of(G + 1)
    BY <1>a, <2>2
  <2>4. \/ mt[N].generation = G + 1 \/ mt[N].generation >= G + 1 + Tables \/ G + 1 >= mt[N].generation + Tables
    BY <2>3, SameSlot
  <2> QED
    BY <1>a, <2>1, <2>2, <2>3, <2>4
<1>d. at[t].held = {} /\ Holding(t) = {} /\ Holding(t)' = {}
  BY DEF Core, Mind, Keeps, Holding
<1>e. \A u \in Thread : ~(InHands(u) /\ Mine(u) = S)
  BY <1>a DEF Core, Mind, Tasks, Has, InHands
<1>i. \A u \in Thread : u # t => pc'[u] = pc[u] /\ at'[u] = at[u]
  BY DEF Others
<1>f. SameTable(N) /\ ~Handles(t) /\ pc[t] \notin {"packed", "start"} /\ ~Assigns(t) /\ pc[t] \notin Recycling
      /\ ~Incorporates(t)
  BY <1>a, <1>b DEF Handles, Assigns, Incorporates, Assigned, Retired, Recycling
<1>g. ~Queued(G)
  BY <1>a DEF Core, Queue, Queued
<1>1. Queue'
  <2>1. \A i \in DOMAIN tasks : mt'[Of(tasks[i])].generation = tasks[i] /\ mt'[Of(tasks[i])].state = "FINALIZED"
    <3> SUFFICES ASSUME NEW i \in DOMAIN tasks
                 PROVE  mt'[Of(tasks[i])].generation = tasks[i] /\ mt'[Of(tasks[i])].state = "FINALIZED"
      OBVIOUS
    <3>1. mt[Of(tasks[i])].generation = tasks[i] /\ mt[Of(tasks[i])].state = "FINALIZED" /\ Of(tasks[i]) \in Slot
      BY <1>a, SlotOf DEF Core, Queue, Kinds
    <3> QED
      BY <1>a, <3>1 DEF SameTable
  <2>2. \A u \in Thread : Handles(u)' => ~Queued(at[u].gen)'
    <3> SUFFICES ASSUME NEW u \in Thread, Handles(u)', NEW i \in DOMAIN tasks', tasks'[i] = at'[u].gen
                 PROVE  FALSE
      BY DEF Queued
    <3>1. CASE u = t
      BY <1>a, <1>g, <3>1 DEF Queued
    <3>2. CASE u # t
      BY <1>i, <3>2 DEF Handles, Core, Queue, Queued
    <3> QED
      BY <3>1, <3>2
  <2> QED
    BY <2>1, <2>2 DEF Core, Queue
<1>2. Turn'
  <2>1. \A u \in Thread : Incorporates(u)' <=> Incorporates(u)
    BY <1>f, <1>i DEF Incorporates, Assigned, Retired
  <2> QED
    BY <2>1 DEF Core, Turn
<1>3. Window'
  <2>1. ASSUME NEW g \in ctxt'.retired + 1 .. ctxt'.generation
        PROVE  mt'[Of(g)].generation = g /\ mt'[Of(g)].state # "INCORPORATED"
    <3>1. CASE g = G + 1
      BY <1>a, <1>c, <1>f, <3>1 DEF SameTable
    <3>2. CASE g # G + 1
      <4>1. g \in ctxt.retired + 1 .. G /\ g \in Int
        BY <1>a, <2>1, <3>2
      <4>2. mt[Of(g)].generation = g /\ mt[Of(g)].state # "INCORPORATED" /\ Of(g) \in Slot
        BY <1>a, <4>1, SlotOf DEF Core, Window
      <4> QED
        BY <4>2 DEF SameTable
    <3> QED
      BY <3>1, <3>2
  <2>2. Current' = N /\ mt'[N].state = "READY"
    BY <1>a, <1>c, <1>f DEF Current, SameTable
  <2>3. ctxt'.retired < ctxt'.generation
    BY <1>a
  <2> QED
    BY <2>1, <2>2, <2>3 DEF Window, Generation, Current
<1>4. ASSUME NEW s \in Slot PROVE Slots(s)'
  <2>a. Bounds(s) /\ mt[s].generation \in Int
    BY <1>a DEF Core, Slots
  <2>r. Refers(t, s)' <=> Refers(t, s)
    BY <1>d DEF Refers
  <2>1. CASE s = S
    <3>1. Bounds(S)'
      BY <1>a, <2>a, <2>1 DEF Bounds, Generation
    <3>2. Cared(S)'
      BY <1>a DEF Cared, Handles
    <3>3. Counts(S)'
      BY <1>a, <2>r, <2>1, SameRefers DEF Core, Slots, Counts
    <3> QED
      BY <2>1, <3>1, <3>2, <3>3 DEF Slots
  <2>2. CASE s # S
    <3>1. SameTable(s)
      BY <2>2
    <3>2. Bounds(s)'
      <4>1. mt[s].generation # G + 1 - Tables
        <5> SUFFICES ASSUME mt[s].generation = G + 1 - Tables PROVE FALSE
          OBVIOUS
        <5>1. mt[s].generation + Tables = G + 1 /\ Of(mt[s].generation) = s
          BY <1>a, <2>a DEF Bounds
        <5>2. Of(mt[s].generation + Tables) = Of(mt[s].generation)
          BY <2>a, NextSlot
        <5>3. s = N
          BY <1>a, <5>1, <5>2
        <5> QED
          BY <1>a, <1>c, <5>1, <5>3
      <4>2. mt[s].generation # G
        BY <1>a, <2>a, <2>2 DEF Bounds
      <4>3. /\ G - Tables < mt[s].generation /\ mt[s].generation < G + Tables
            /\ mt[s].state = "READY" => mt[s].generation >= G
            /\ mt[s].state \notin {"READY", "INCORPORATED"} => mt[s].generation < G
        BY <1>a, <2>a DEF Bounds
      <4>4. /\ (G + 1) - Tables < mt[s].generation /\ mt[s].generation < (G + 1) + Tables
            /\ mt[s].state = "READY" => mt[s].generation >= G + 1
            /\ mt[s].state \notin {"READY", "INCORPORATED"} => mt[s].generation < G + 1
        BY <1>a, <2>a, <4>1, <4>2, <4>3
      <4> QED
        BY <1>a, <2>a, <3>1, <4>4 DEF Bounds, SameTable, Generation
    <3>3. Cared(s)'
      <4>1. Queued(mt[s].generation) => Queued(mt[s].generation)'
        BY <3>1 DEF Queued, SameTable
      <4>2. ctxt'.retired \in Int /\ ctxt'.retired >= ctxt.retired
        BY <1>a
      <4> QED
        BY <1>f, <3>1, <4>1, <4>2, OtherCared
    <3>4. Counts(s)'
      BY <2>r, <3>1, OtherCounts
    <3> QED
      BY <3>2, <3>3, <3>4 DEF Slots
  <2> QED
    BY <2>1, <2>2
<1>5. Mind(t)'
  <2>1. Tasks(t)'
    BY <1>a DEF Tasks, Has, Mine, Handles, Assigns, Incorporates, Assigned, Retired, Recycling
  <2>2. Keeps(t)'
    BY <1>a, <1>d DEF Keeps
  <2>3. Reads(t)'
    BY DEF Reads
  <2> QED
    BY <2>1, <2>2, <2>3 DEF Mind
<1>6. ASSUME NEW u \in Thread, u # t PROVE Mind(u)'
  <2>1. Mind(u) /\ ~(InHands(u) /\ Mine(u) = S) /\ pc[u] \notin {"rotate", "insert", "inserted"}
    BY <1>e, <1>6 DEF Core
  <2>2. /\ ctxt'.generation \in Int /\ ctxt'.retired \in Int
        /\ ctxt'.retired >= ctxt.retired /\ ctxt'.generation >= Generation
    BY <1>a
  <2>3. pc[u] = "ready" => mt[Mine(u)].generation > ctxt'.generation
    <3> SUFFICES ASSUME pc[u] = "ready" PROVE mt[Mine(u)].generation > G + 1
      BY <1>a
    <3>1. mt[Mine(u)].generation > G /\ mt[Mine(u)].state = "INCORPORATED" /\ Mine(u) \in Slot
      BY <1>a, <2>1, Fields DEF Mind, Tasks, Recycling
    <3>2. mt[Mine(u)].generation # G + 1
      <4> SUFFICES ASSUME mt[Mine(u)].generation = G + 1 PROVE FALSE
        OBVIOUS
      <4>1. Mine(u) = N
        BY <1>a, <3>1 DEF Core, Slots, Bounds
      <4> QED
        BY <1>c, <3>1, <4>1
    <3>3. mt[Mine(u)].generation \in Int
      BY <1>a, <3>1
    <3> QED
      BY <1>a, <3>1, <3>2, <3>3
  <2>6. \A g \in Holding(u) : Of(g) = S => mt'[S].generation = mt[S].generation
    OBVIOUS
  <2>7. ~Compacted(S)
    BY <1>a DEF Compacted
  <2> QED
    BY <1>6, <2>1, <2>2, <2>3, <2>6, <2>7, OtherMind
<1>7. ASSUME NEW u \in Thread, u # t PROVE Apart(t, u)'
  <2>1. Handles(u) => at[u].gen # G
    BY <1>a DEF Core, Mind, Tasks, Has, Mine
  <2> QED
    BY <1>a, <1>i, <1>7, <2>1 DEF Apart, Handles, Incorporates, Assigned, Retired, Recycling
<1>8. (\A u, v \in Thread : u # v => Apart(u, v))'
  BY <1>7, ApartStep
<1> QED
  BY <1>1, <1>2, <1>3, <1>4, <1>5, <1>6, <1>8 DEF Core

LEMMA RotateStep ==
  ASSUME ClosesIdle, Shape, Core, Shape', NEW t \in Thread, Acts(t), Rotate(t)
  PROVE  Core'
<1>0. PICK S : S = Current
  OBVIOUS
<1>a. /\ Kinds /\ Others(t) /\ Closing' /\ pc \in [Thread -> Label] /\ ctxt \in Context
      /\ S \in Slot /\ mt \in [Slot -> Table] /\ mt[S] \in Table
  BY <1>0, OthersStep, ClosingStep, Fields DEF Shape, Core, Kinds
<1>b. /\ pc[t] = "rotate" /\ pc'[t] = "process" /\ mt'[S].state = "FINALIZED"
      /\ mt'[S].refs = mt[S].refs /\ mt'[S].generation = mt[S].generation
      /\ \A s \in Slot : s # S => SameTable(s)
  BY <1>0, <1>a DEF Rotate, At, Goto, Transition, SameTable
<1>c. /\ ctxt'.retired = ctxt.retired /\ ctxt'.generation = Generation + 1
      /\ ctxt'.to_incorporate = ctxt.to_incorporate /\ tasks' = tasks /\ at' = at
  BY <1>a DEF Rotate, queue, Context, Generation
<1>d. t \notin Reader
  BY <1>b, WorkerHolds
<1>e. at[t].gen = Generation /\ mt[Of(Generation + 1)].state = "READY"
  BY <1>b DEF Core, Mind, Keeps
<1>f. \A u \in Thread : u # t => pc[u] \notin {"rotate", "insert", "inserted"}
  <2>1. Under = {} /\ locks["insert"].claim = t
    BY <1>b DEF Rotate, Shape, InsertLock
  <2> QED
    BY <2>1 DEF Under, Shape, InsertLock
<1> QED
  BY <1>0, <1>a, <1>b, <1>c, <1>d, <1>e, <1>f, FinalizeStep

LEMMA ForceFinalizeStep ==
  ASSUME ClosesIdle, Shape, Core, Shape', NEW t \in Thread, Acts(t), ForceFinalize(t)
  PROVE  Core'
<1>0. PICK S, N : S = Current /\ N = Of(Generation + 1)
  OBVIOUS
<1>a. /\ Kinds /\ Others(t) /\ Closing' /\ pc \in [Thread -> Label] /\ ctxt \in Context
      /\ at \in [Thread -> Local] /\ at[t] \in Local
      /\ S \in Slot /\ mt \in [Slot -> Table] /\ mt[S] \in Table
  BY <1>0, OthersStep, ClosingStep, Fields DEF Shape, Core, Kinds
<1>b. /\ pc[t] = "finalize" /\ pc'[t] = "process" /\ mt'[S].state = "FINALIZED"
      /\ mt'[S].refs = mt[S].refs /\ mt'[S].generation = mt[S].generation
      /\ \A s \in Slot : s # S => SameTable(s)
  BY <1>0, <1>a DEF ForceFinalize, At, Goto, Transition, SameTable
<1>c. /\ ctxt'.retired = ctxt.retired /\ ctxt'.generation = Generation + 1
      /\ ctxt'.to_incorporate = ctxt.to_incorporate /\ tasks' = tasks
      /\ at'[t].gen = Generation /\ at'[t].held = at[t].held
  <2>1. /\ ctxt'.retired = ctxt.retired /\ ctxt'.generation = Generation + 1
        /\ ctxt'.to_incorporate = ctxt.to_incorporate /\ tasks' = tasks
    BY <1>a DEF ForceFinalize, queue, Context, Generation
  <2>2. at'[t] = [at[t] EXCEPT !.gen = Generation]
    BY <1>a DEF ForceFinalize, Generation
  <2> QED
    BY <1>a, <2>1, <2>2 DEF Local
<1>d. t \in Closer /\ t \notin Reader
  BY <1>b, ThreadsDisjoint DEF Shape, Places, Working, Assigned, Retired, Recycling
<1>e. /\ tasks = <<>> /\ \A u \in Thread : ~Works(u)
      /\ \A u \in Inserter \cup Reader : pc[u] = "idle"
  BY <1>b, <1>d DEF Core, Closing, AtRest
<1>f. \A u \in Thread : u # t => pc[u] = "idle"
  <2> SUFFICES ASSUME NEW u \in Thread, u # t PROVE pc[u] = "idle"
    OBVIOUS
  <2>1. CASE u \in Inserter \cup Reader
    BY <1>e, <2>1
  <2>2. CASE u \in Closer
    BY <1>d, <2>2, ThreadsDisjoint
  <2>3. CASE u \in Worker
    BY <1>e, <2>3, ThreadsDisjoint DEF Shape, Places, Works
  <2> QED
    BY <2>1, <2>2, <2>3 DEF Thread
<1>g. mt[N].state = "READY"
  <2>1. Generation \in Nat /\ ctxt.retired \in Nat \cup {-1} /\ Generation + 1 \in Int
    BY <1>a, Fields DEF Generation
  <2>2. N \in Slot /\ mt[N].state \in States /\ mt[N].generation \in Int
    BY <1>0, <1>a, <2>1, SlotOf, Fields
  <2>3. ctxt.retired = Generation - 1
    BY <1>b, <1>e, <1>f, NothingWaits DEF Generation
  <2>4. Bounds(N) /\ Cared(N) /\ Counts(N)
    BY <2>2 DEF Core, Slots
  <2>5. mt[N].state \in {"READY", "INCORPORATED"}
    BY <2>1, <2>2, <2>3, <2>4 DEF Bounds
  <2>6. ASSUME mt[N].state = "INCORPORATED" PROVE FALSE
    <3>1. \A u \in Thread : ~Refers(u, N)
      <4> SUFFICES ASSUME NEW u \in Thread PROVE ~Refers(u, N)
        OBVIOUS
      <4>1. pc[u] \in {"idle", "finalize"} /\ (pc[u] = "idle" \/ u \notin Reader)
        BY <1>b, <1>d, <1>f
      <4>2. at[u].held = {} /\ Holding(u) = {}
        BY <4>1 DEF Core, Mind, Keeps, Holding
      <4> QED
        BY <4>1, <4>2 DEF Refers
    <3>2. mt[N].refs = 0
      <4>1. {u \in Thread : Refers(u, N)} = {}
        BY <3>1
      <4> QED
        BY <2>4, <2>6, <4>1, FS_EmptySet DEF Counts
    <3> QED
      BY <1>b, <1>f, <2>4, <2>6, <3>2 DEF Cared
  <2> QED
    BY <2>5, <2>6
<1> QED
  BY <1>0, <1>a, <1>b, <1>c, <1>d, <1>f, <1>g, FinalizeStep

LEMMA CoreInit == Init => Core
<1> SUFFICES ASSUME Init PROVE Core
  OBVIOUS
<1>a. Tables \in Int /\ Tables >= 2 /\ Slot = 0 .. Tables - 1
  BY MemtablesAssumption DEF Slot
<1>b. \A s \in Slot : s \in Int /\ 0 <= s /\ s < Tables /\ Of(s) = s
  BY <1>a DEF Of
<1>c. \A s \in Slot : mt[s].state = "READY" /\ mt[s].generation = s /\ mt[s].refs = 1
  BY DEF Init
<1>d. \A t \in Thread : pc[t] = "idle" /\ at[t] = Idle /\ at[t].held = {} /\ at[t].gen = 0
  BY DEF Init, Idle
<1>e. ctxt.generation = 0 /\ ctxt.to_incorporate = 0 /\ ctxt.retired = -1 /\ tasks = <<>>
  BY DEF Init
<1>f. 0 \in Slot /\ Of(0) = 0
  BY <1>a, <1>b
<1>2. Queue
  BY <1>e, <1>d DEF Handles, Queue, Queued
<1>3. Turn /\ Window
  BY <1>c, <1>e, <1>f DEF Turn, Window, Generation, Current
<1>4. Closing
  BY <1>d DEF Closing, Thread
<1>5. \A t \in Thread : Holding(t) = {}
  BY <1>d DEF Holding
<1>6. ASSUME NEW s \in Slot PROVE Slots(s)
  <2>1. Bounds(s) /\ Cared(s)
    BY <1>a, <1>b, <1>c, <1>e DEF Bounds, Cared, Generation
  <2>2. {t \in Thread : Refers(t, s)} = {}
    BY <1>d, <1>5 DEF Refers
  <2>3. Counts(s)
    <3>1. Cardinality({t \in Thread : Refers(t, s)}) = 0
      BY <2>2, FS_EmptySet
    <3>2. mt[s].refs = 1 /\ mt[s].state = "READY"
      BY <1>c
    <3> QED
      BY <3>1, <3>2 DEF Counts
  <2> QED
    BY <2>1, <2>3 DEF Slots
<1>7. ASSUME NEW t \in Thread PROVE Mind(t)
  <2>1. Tasks(t) /\ Reads(t)
    BY <1>d DEF Tasks, Reads, Handles, Assigns, Incorporates, Assigned, Retired, Recycling
  <2>2. Keeps(t)
    BY <1>d, <1>5 DEF Keeps
  <2> QED
    BY <2>1, <2>2 DEF Mind
<1>8. \A t, u \in Thread : t # u => Apart(t, u)
  BY <1>d DEF Apart, Handles, Incorporates, Assigned, Retired, Recycling
<1> QED
  BY <1>2, <1>3, <1>4, <1>6, <1>7, <1>8 DEF Core

\* A step without effect.
LEMMA CoreStutter ==
  ASSUME Core, UNCHANGED vars
  PROVE  Core'
<1>1. ctxt' = ctxt /\ mt' = mt /\ tasks' = tasks /\ pc' = pc /\ at' = at
  BY DEF vars, data, queue
<1>2. (Queue /\ Turn /\ Window /\ Closing)'
  BY <1>1 DEF Core, Queue, Queued, Turn, Window, Closing, AtRest, Works, Handles, Incorporates,
     Current, Generation
<1>3. \A s \in Slot : Slots(s)'
  <2> SUFFICES ASSUME NEW s \in Slot PROVE Slots(s)'
    OBVIOUS
  <2>1. Bounds(s)' /\ Cared(s)'
    BY <1>1 DEF Core, Slots, Bounds, Cared, Queued, Handles, Assigns, Mine, Generation
  <2>2. {t \in Thread : Refers(t, s)}' = {t \in Thread : Refers(t, s)}
    BY <1>1 DEF Refers, Holding, Mine
  <2>3. Counts(s)'
    BY <1>1, <2>2 DEF Core, Slots, Counts
  <2> QED
    BY <2>1, <2>3 DEF Slots
<1>4. \A t \in Thread : Mind(t)'
  <2> SUFFICES ASSUME NEW t \in Thread PROVE Mind(t)'
    OBVIOUS
  <2>1. Mind(t)
    BY DEF Core
  <2>2. Tasks(t)'
    BY <1>1, <2>1 DEF Mind, Tasks, Has, Mine, Handles, Assigns, Incorporates, Generation
  <2>3. Keeps(t)' /\ Reads(t)'
    BY <1>1, <2>1 DEF Mind, Keeps, Reads, Holding, Mine, Compacted, Generation
  <2> QED
    BY <2>2, <2>3 DEF Mind
<1>5. \A t, u \in Thread : t # u => Apart(t, u)'
  BY <1>1 DEF Core, Apart, Handles, Incorporates, Mine
<1> QED
  BY <1>2, <1>3, <1>4, <1>5 DEF Core

LEMMA CoreActs ==
  ASSUME ClosesIdle, Shape, Core, Shape', NEW t \in Thread, Acts(t)
  PROVE  Core'
<1>1. CASE \/ BeginInsert(t) \/ BeginAgain(t) \/ HasRoom(t) \/ Busy(t) \/ BusyWaits(t) \/ Rotating(t)
           \/ TreeInsert(t) \/ EndInsert(t) \/ AfterWaits(t) \/ TaskDone(t) \/ CopyRoot(t)
           \/ BlockLookups(t) \/ SwitchRoot(t) \/ UnblockLookups(t) \/ BeginLookup(t)
           \/ ReadGenerations(t) \/ PickTable(t) \/ ReadTable(t) \/ (KeepTable(t) /\ Compacted(Mine(t)))
           \/ ReadRoot(t) \/ Scan(t) \/ Found(t) \/ Release(t) \/ Close(t) \/ Closed(t)
  BY <1>1, AlikeActs
<1>2. CASE WorkerTakes(t) \/ BusyWorks(t) \/ AfterWorks(t) \/ DrainOne(t)
  <2>1. PICK back : Take(t, back)
    BY <1>2 DEF WorkerTakes, BusyWorks, AfterWorks, DrainOne
  <2>2. pc[t] \in {"idle", "busy", "after", "drain"}
    BY <1>2 DEF WorkerTakes, BusyWorks, AfterWorks, DrainOne, At
  <2>3. t \notin Reader
    BY <1>2, ThreadsDisjoint
    DEF WorkerTakes, BusyWorks, AfterWorks, DrainOne, At, Shape, Places, Recycling
  <2> QED
    BY <2>1, <2>2, <2>3, TakeStep
<1>3. CASE Compact(t) \/ EndCompact(t)
  BY <1>3, CompactStep
<1>4. CASE TryStart(t)
  BY <1>4, TryStartStep
<1>5. CASE Retire(t) \/ TryContinue(t)
  BY <1>5, RetireStep, TryContinueStep
<1>6. CASE DecRef(t)
  BY <1>6, DecRefStep
<1>7. CASE Recycle(t) \/ Ready(t)
  BY <1>7, RecycleStep, ReadyStep
<1>8. CASE KeepTable(t) /\ ~Compacted(Mine(t))
  BY <1>8, KeepTableStep
<1>9. CASE Rotate(t) \/ ForceFinalize(t)
  BY <1>9, RotateStep, ForceFinalizeStep
<1>10. CASE Process(t)
  BY <1>10, ProcessStep
<1> QED
  BY <1>1, <1>2, <1>3, <1>4, <1>5, <1>6, <1>7, <1>8, <1>9, <1>10
  DEF Acts, InsertStep, FlushStep, ReadStep, CloseStep

LEMMA CoreStep ==
  ASSUME ClosesIdle, Shape, Core, [Next]_vars
  PROVE  Core'
<1>1. Shape'
  BY ShapeStep
<1>2. CASE Next
  <2>1. PICK t \in Thread : Acts(t)
    BY <1>2 DEF Next, Step, Acts
  <2> QED
    BY <1>1, <2>1, CoreActs
<1>3. CASE UNCHANGED vars
  BY <1>3, CoreStutter
<1> QED
  BY <1>2, <1>3

-----------------------------------------------------------------------------
(* Contents: the steps that leave the trunk and the memtables as they are. *)

LEMMA ContentsInit == Init => Contents
<1> SUFFICES ASSUME Init PROVE Contents
  OBVIOUS
<1>1. /\ root = {} /\ inserted = 0 /\ ctxt.is_empty = TRUE
      /\ \A s \in Slot : mt[s].tree = {} /\ mt[s].state = "READY"
      /\ \A t \in Thread : pc[t] = "idle" /\ at[t].floor = 0
      /\ ctxt.generation = 0 /\ ctxt.retired = -1 /\ \A g \in Int : Of(g) \in Slot
  BY SlotOf DEF Init, Idle
<1>2. Ordered /\ Complete
  BY <1>1 DEF Ordered, Complete, Tree, Generation
<1>3. Emptied
  BY <1>1, ThreadsDisjoint DEF Emptied, Tree, Generation, Thread
<1>4. \A s \in Slot : Packed(s)
  BY <1>1 DEF Packed
<1>5. \A t \in Thread : Carries(t) /\ Sought(t)
  BY <1>1 DEF Carries, Sought, Seeks
<1> QED
  BY <1>2, <1>3, <1>4, <1>5 DEF Contents

\* The trunk, the generations and what the memtables have are as they were.
SameStore ==
  /\ ctxt'.generation = ctxt.generation /\ ctxt'.retired = ctxt.retired
  /\ root' = root /\ inserted' = inserted
  /\ \A s \in Slot : mt'[s].tree = mt[s].tree

\* What a thread does not see of a step that changes neither.
LEMMA SameSought ==
  ASSUME Kinds, NEW u \in Thread, pc'[u] = pc[u], at'[u] = at[u], SameStore, Sought(u)
  PROVE  Sought(u)'
<1>1. /\ \A g \in at[u].held : Of(g) \in Slot
      /\ \A g \in ctxt.retired + 1 .. at[u].gen : Of(g) \in Slot
  BY Fields, SlotOf
<1>2. /\ \A g \in at[u].held : Tree(g)' = Tree(g)
      /\ \A g \in ctxt.retired + 1 .. at[u].gen : Tree(g)' = Tree(g)
  BY <1>1 DEF Tree, SameStore
<1>3. at'[u].floor <= inserted'
  BY DEF Sought, SameStore
<1> SUFFICES ASSUME (Seeks(u) \/ pc[u] \in {"scan", "found"}) /\ at[u].floor > 0
             PROVE  \E n \in 1 .. inserted' :
                      /\ n >= at'[u].floor
                      /\ \/ n \in at'[u].seen
                         \/ pc'[u] # "found" /\ \E g \in at'[u].held : n \in Tree(g)'
                         \/ Seeks(u)' /\ n \in root'
                         \/ Seeks(u)' /\ \E g \in ctxt'.retired + 1 .. at'[u].gen : n \in Tree(g)'
  BY <1>3 DEF Sought, Seeks
<1>4. PICK n \in 1 .. inserted :
         /\ n >= at[u].floor
         /\ \/ n \in at[u].seen
            \/ pc[u] # "found" /\ \E g \in at[u].held : n \in Tree(g)
            \/ Seeks(u) /\ n \in root
            \/ Seeks(u) /\ \E g \in ctxt.retired + 1 .. at[u].gen : n \in Tree(g)
  BY DEF Sought
<1> QED
  BY <1>2, <1>4 DEF SameStore, Seeks

LEMMA StoreStep ==
  ASSUME Shape, Core, Contents, NEW t \in Thread, Others(t), SameStore,
         pc[t] # "switch", pc'[t] # "switch",
         \A s \in Slot : Packed(s)', Carries(t)', Sought(t)', Emptied'
  PROVE  Contents'
<1>a. /\ Kinds /\ ctxt.retired \in Int /\ ctxt.generation \in Int
      /\ \A u \in Thread : Mine(u) \in Slot
      /\ \A g \in ctxt.retired + 1 .. ctxt.generation : Of(g) \in Slot
  BY Fields, SlotOf DEF Shape
<1>b. \A g \in ctxt.retired + 1 .. ctxt.generation : Tree(g)' = Tree(g)
  BY <1>a DEF Tree, SameStore
<1>c. \A u \in Thread : u # t => pc'[u] = pc[u] /\ at'[u] = at[u]
  BY DEF Others
<1>d. \A u \in Thread : (pc'[u] = "switch" <=> pc[u] = "switch") /\ (pc[u] = "switch" => at'[u] = at[u])
  BY <1>c
<1>1. Ordered'
  <2>1. (\A x \in root, y \in 1 .. inserted : y < x => y \in root)'
    BY DEF Contents, Ordered, SameStore
  <2>2. ASSUME NEW g \in ctxt.retired + 1 .. ctxt.generation, NEW x \in Tree(g)
        PROVE  /\ \A y \in root : y < x
               /\ \A h \in g + 1 .. ctxt.generation : \A y \in Tree(h)' : x < y
               /\ \A u \in Thread : pc'[u] = "switch" => \A y \in at'[u].new : y < x
    <3>1. /\ \A y \in root : y < x
          /\ \A h \in g + 1 .. ctxt.generation : \A y \in Tree(h) : x < y
          /\ \A u \in Thread : pc[u] = "switch" => \A y \in at[u].new : y < x
      BY DEF Contents, Ordered, Generation
    <3>2. \A h \in g + 1 .. ctxt.generation : h \in ctxt.retired + 1 .. ctxt.generation
      BY <1>a
    <3> QED
      BY <1>b, <1>d, <3>1, <3>2
  <2> QED
    BY <1>b, <2>1, <2>2 DEF Ordered, SameStore, Generation
<1>2. Complete'
  <2>1. /\ root' \subseteq 1 .. inserted'
        /\ \A s \in Slot : mt'[s].tree \subseteq 1 .. inserted'
    BY DEF Contents, Complete, SameStore
  <2>2. ASSUME NEW x \in 1 .. inserted
        PROVE  \/ x \in root
               \/ \E g \in ctxt.retired + 1 .. ctxt.generation : x \in Tree(g)'
               \/ \E u \in Thread : pc'[u] = "switch" /\ x \in at'[u].new
    BY <1>b, <1>d DEF Contents, Complete, Generation
  <2> QED
    BY <2>1, <2>2 DEF Complete, SameStore, Generation
<1>3. ASSUME NEW u \in Thread PROVE Carries(u)' /\ Sought(u)'
  <2>1. CASE u = t
    BY <2>1
  <2>2. CASE u # t
    <3>1. Carries(u)'
      BY <1>a, <1>c, <2>2 DEF Contents, Carries, Mine, SameStore
    <3>2. Sought(u)'
      BY <1>a, <1>c, <2>2, SameSought DEF Contents
    <3> QED
      BY <3>1, <3>2
  <2> QED
    BY <2>1, <2>2
<1> QED
  BY <1>1, <1>2, <1>3 DEF Contents

\* The branches, and the part of a memtable's state that says which there are.
Copied == {"COMPACTING", "COMPACTED", "INCORPORATION_ASSIGNED"}
SameBranches ==
  /\ branch' = branch
  /\ \A s \in Slot : /\ mt'[s].generation = mt[s].generation
                     /\ mt'[s].state = "READY" => mt[s].state = "READY"
                     /\ mt'[s].state \in Copied => mt[s].state \in Copied
LEMMA SamePacked ==
  ASSUME Contents, SameStore, SameBranches
  PROVE  \A s \in Slot : Packed(s)'
BY DEF Contents, SameStore, SameBranches, Packed, Copied, Generation
LEMMA SameEmptied ==
  ASSUME Shape, Contents, NEW t \in Thread, Others(t), SameStore, ctxt'.is_empty = ctxt.is_empty,
         pc[t] # "inserted",
         t \in Closer => pc[t] \notin {"idle", "finalize"} /\ (pc'[t] = "closed" => pc[t] = "closed")
  PROVE  Emptied'
<1>1. Tree(Generation)' = Tree(Generation)
  BY Fields DEF Shape, Tree, SameStore, Generation, Current
<1>2. \A u \in Thread : u # t => pc'[u] = pc[u]
  BY DEF Others
<1>3. Tree(Generation) # {} => ~ctxt.is_empty \/ \E u \in Thread : pc'[u] = "inserted"
  BY <1>2 DEF Contents, Emptied
<1>4. ASSUME NEW c \in Closer
      PROVE  /\ pc'[c] \notin {"idle", "finalize"} => Tree(Generation) = {}
             /\ pc'[c] = "closed" => root = 1 .. inserted
  <2>1. /\ pc[c] \notin {"idle", "finalize"} => Tree(Generation) = {}
        /\ pc[c] = "closed" => root = 1 .. inserted
    BY DEF Contents, Emptied
  <2> QED
    BY <1>2, <2>1 DEF Thread
<1> QED
  BY <1>1, <1>3, <1>4 DEF Emptied, SameStore

\* A step that changes none of it and is no step of a reader that looks.
LEMMA PlainStep ==
  ASSUME Shape, Core, Contents, NEW t \in Thread, Others(t), SameStore, SameBranches,
         ctxt'.is_empty = ctxt.is_empty, pc[t] \notin {"switch", "inserted"},
         pc'[t] \notin {"ready", "block", "retire", "switch", "tables", "read", "scan", "found", "closed"},
         t \in Closer => pc[t] \notin {"idle", "finalize"},
         at'[t].floor <= inserted
  PROVE  Contents'
<1>1. Carries(t)'
  BY DEF Carries
<1>2. Sought(t)'
  BY DEF Sought, Seeks, SameStore
<1>3. Emptied'
  BY SameEmptied
<1> QED
  BY <1>1, <1>2, <1>3, SamePacked, StoreStep

LEMMA SameData ==
  ASSUME UNCHANGED data, inserted' = inserted
  PROVE  SameStore /\ SameBranches /\ ctxt'.is_empty = ctxt.is_empty
BY DEF data, SameStore, SameBranches, Copied

LEMMA ChangesState ==
  ASSUME Kinds, NEW s \in Slot, NEW from, NEW to, Transition(s, from, to), UNCHANGED <<ctxt, branch, root, inserted>>,
         to # "READY", to \in Copied => from \in Copied
  PROVE  SameStore /\ SameBranches /\ ctxt'.is_empty = ctxt.is_empty
<1>1. /\ \A x \in Slot : mt'[x].tree = mt[x].tree /\ mt'[x].generation = mt[x].generation
      /\ \A x \in Slot : x # s => mt'[x].state = mt[x].state
      /\ mt'[s].state = to /\ mt[s].state = from
  BY DEF Transition, Kinds, Table
<1> QED
  BY <1>1 DEF SameStore, SameBranches

LEMMA PlainActs ==
  ASSUME ClosesIdle, Shape, Core, Contents, NEW t \in Thread, Acts(t),
         \/ BeginInsert(t) \/ BeginAgain(t) \/ HasRoom(t) \/ Busy(t) \/ BusyWaits(t)
         \/ Rotating(t) \/ AfterWaits(t) \/ Process(t) \/ UnblockLookups(t) \/ TaskDone(t)
         \/ BeginLookup(t) \/ Found(t) \/ Release(t) \/ WorkerTakes(t) \/ BusyWorks(t)
         \/ AfterWorks(t) \/ DrainOne(t) \/ EndCompact(t) \/ TryStart(t) \/ DecRef(t)
         \/ TryContinue(t)
  PROVE  Contents'
<1>a. /\ Kinds /\ Others(t) /\ pc \in [Thread -> Label] /\ at \in [Thread -> Local] /\ at[t] \in Local
      /\ at[t].floor <= inserted /\ Idle.floor = 0 /\ Mine(t) \in Slot /\ inserted \in Nat /\ Places(t)
  BY OthersStep, Fields DEF Shape, Kinds, Contents, Sought, Idle
<1>1. CASE BeginInsert(t)
  <2>1. pc[t] = "idle" /\ pc'[t] \in {"check"}
    BY <1>a, <1>1 DEF BeginInsert, At, Goto
  <2>2. SameStore /\ SameBranches /\ ctxt'.is_empty = ctxt.is_empty
    BY <1>1, SameData DEF BeginInsert
  <2>3. at'[t].floor <= inserted
    BY <1>a, <1>1 DEF BeginInsert
  <2>4. t \notin Closer
    BY <1>1, ThreadsDisjoint DEF BeginInsert
  <2> QED
    BY <1>a, <2>1, <2>2, <2>3, <2>4, PlainStep
<1>2. CASE BeginAgain(t)
  <2>1. pc[t] = "begin" /\ pc'[t] \in {"check"}
    BY <1>a, <1>2 DEF BeginAgain, At, Goto
  <2>2. SameStore /\ SameBranches /\ ctxt'.is_empty = ctxt.is_empty
    BY <1>2, SameData DEF BeginAgain
  <2>3. at'[t].floor <= inserted
    BY <1>a, <1>2 DEF BeginAgain
  <2> QED
    BY <1>a, <2>1, <2>2, <2>3, PlainStep
<1>3. CASE HasRoom(t)
  <2>1. pc[t] = "check" /\ pc'[t] \in {"insert"}
    BY <1>a, <1>3 DEF HasRoom, At, Goto
  <2>2. SameStore /\ SameBranches /\ ctxt'.is_empty = ctxt.is_empty
    BY <1>3, SameData DEF HasRoom
  <2>3. at'[t].floor <= inserted
    BY <1>a, <1>3 DEF HasRoom, Local
  <2> QED
    BY <1>a, <2>1, <2>2, <2>3, PlainStep
<1>4. CASE Busy(t)
  <2>1. pc[t] = "check" /\ pc'[t] \in {"busy"}
    BY <1>a, <1>4 DEF Busy, At, Goto
  <2>2. SameStore /\ SameBranches /\ ctxt'.is_empty = ctxt.is_empty
    BY <1>4, SameData DEF Busy
  <2>3. at'[t].floor <= inserted
    BY <1>a, <1>4 DEF Busy
  <2> QED
    BY <1>a, <2>1, <2>2, <2>3, PlainStep
<1>5. CASE BusyWaits(t)
  <2>1. pc[t] = "busy" /\ pc'[t] \in {"begin"}
    BY <1>a, <1>5 DEF BusyWaits, At, Goto
  <2>2. SameStore /\ SameBranches /\ ctxt'.is_empty = ctxt.is_empty
    BY <1>5, SameData DEF BusyWaits
  <2>3. at'[t].floor <= inserted
    BY <1>a, <1>5 DEF BusyWaits
  <2> QED
    BY <1>a, <2>1, <2>2, <2>3, PlainStep
<1>6. CASE Rotating(t)
  <2>1. pc[t] = "check" /\ pc'[t] \in {"rotate", "begin"}
    BY <1>a, <1>6 DEF Rotating, At, Goto
  <2>2. SameStore /\ SameBranches /\ ctxt'.is_empty = ctxt.is_empty
    BY <1>6, SameData DEF Rotating
  <2>3. at'[t].floor <= inserted
    BY <1>a, <1>6 DEF Rotating, Local
  <2> QED
    BY <1>a, <2>1, <2>2, <2>3, PlainStep
<1>7. CASE AfterWaits(t)
  <2>1. pc[t] = "after" /\ pc'[t] \in {"idle"}
    BY <1>a, <1>7 DEF AfterWaits, At, Goto
  <2>2. SameStore /\ SameBranches /\ ctxt'.is_empty = ctxt.is_empty
    BY <1>7, SameData DEF AfterWaits
  <2>3. at'[t].floor <= inserted
    BY <1>a, <1>7 DEF AfterWaits
  <2> QED
    BY <1>a, <2>1, <2>2, <2>3, PlainStep
<1>8. CASE Process(t)
  <2>1. pc[t] = "process" /\ pc'[t] \in {"drain", "begin"}
    BY <1>a, <1>8 DEF Process, At, Goto
  <2>2. SameStore /\ SameBranches /\ ctxt'.is_empty = ctxt.is_empty
    BY <1>8, SameData DEF Process
  <2>3. at'[t].floor <= inserted
    BY <1>a, <1>8 DEF Process
  <2> QED
    BY <1>a, <2>1, <2>2, <2>3, PlainStep
<1>9. CASE UnblockLookups(t)
  <2>1. pc[t] = "unblock" /\ pc'[t] \in {"decref"}
    BY <1>a, <1>9 DEF UnblockLookups, At, Goto
  <2>2. SameStore /\ SameBranches /\ ctxt'.is_empty = ctxt.is_empty
    BY <1>9, SameData DEF UnblockLookups
  <2>3. at'[t].floor <= inserted
    BY <1>a, <1>9 DEF UnblockLookups
  <2> QED
    BY <1>a, <2>1, <2>2, <2>3, PlainStep
<1>10. CASE TaskDone(t)
  <2>1. pc[t] = "done" /\ pc'[t] \in {"idle", "begin", "drain"}
    BY <1>a, <1>10, LocalFields DEF TaskDone, At, Goto
  <2>2. SameStore /\ SameBranches /\ ctxt'.is_empty = ctxt.is_empty
    BY <1>10, SameData DEF TaskDone
  <2>3. at'[t].floor <= inserted
    <3>1. at'[t] = Idle
      BY <1>a, <1>10 DEF TaskDone
    <3> QED
      BY <1>a, <3>1
  <2> QED
    BY <1>a, <2>1, <2>2, <2>3, PlainStep
<1>11. CASE BeginLookup(t)
  <2>1. pc[t] = "idle" /\ pc'[t] = "gens"
    BY <1>a, <1>11 DEF BeginLookup, At, Goto
  <2>2. SameStore /\ SameBranches /\ ctxt'.is_empty = ctxt.is_empty
    BY <1>11, SameData DEF BeginLookup
  <2>3. at'[t].floor <= inserted
    <3>1. PICK scan \in BOOLEAN : at' = [at EXCEPT ![t] = [Idle EXCEPT !.floor = inserted, !.scan = scan]]
      BY <1>11 DEF BeginLookup
    <3>2. at'[t].floor = inserted
      BY <1>a, <3>1 DEF Idle
    <3> QED
      BY <1>a, <3>2
  <2>4. t \notin Closer
    BY <1>11, ThreadsDisjoint DEF BeginLookup
  <2> QED
    BY <1>a, <2>1, <2>2, <2>3, <2>4, PlainStep
<1>12. CASE Found(t)
  <2>1. pc[t] = "found" /\ pc'[t] = "release"
    BY <1>a, <1>12 DEF Found, At, Goto
  <2>2. SameStore /\ SameBranches /\ ctxt'.is_empty = ctxt.is_empty
    BY <1>12, SameData DEF Found
  <2>3. at'[t].floor <= inserted
    <3>1. at'[t] = [[at[t] EXCEPT !.seen = {}] EXCEPT !.floor = 0]
      BY <1>a, <1>12 DEF Found, Local
    <3>2. at'[t].floor = 0
      BY <1>a, <3>1 DEF Local
    <3> QED
      BY <1>a, <3>2
  <2> QED
    BY <1>a, <2>1, <2>2, <2>3, PlainStep
<1>13. CASE Release(t)
  <2>1. pc[t] = "release" /\ pc'[t] \in {"idle", "decref"}
    BY <1>a, <1>13 DEF Release, At, Goto
  <2>2. SameStore /\ SameBranches /\ ctxt'.is_empty = ctxt.is_empty
    BY <1>13, SameData DEF Release
  <2>3. at'[t].floor <= inserted
    <3>1. CASE at[t].held = {}
      <4>1. at'[t] = Idle
        BY <1>a, <1>13, <3>1 DEF Release
      <4> QED
        BY <1>a, <4>1
    <3>2. CASE at[t].held # {}
      <4>1. PICK g : at' = [at EXCEPT ![t].gen = g, ![t].held = @ \ {g}]
        BY <1>13, <3>2 DEF Release
      <4>2. at'[t] = [[at[t] EXCEPT !.gen = g] EXCEPT !.held = at[t].held \ {g}]
        BY <1>a, <4>1 DEF Local
      <4>3. at'[t].floor = at[t].floor
        BY <1>a, <4>2 DEF Local
      <4> QED
        BY <1>a, <4>3
    <3> QED
      BY <3>1, <3>2
  <2> QED
    BY <1>a, <2>1, <2>2, <2>3, PlainStep
<1>14. CASE WorkerTakes(t) \/ BusyWorks(t) \/ AfterWorks(t) \/ DrainOne(t)
  <2>1. PICK back : Take(t, back)
    BY <1>14 DEF WorkerTakes, BusyWorks, AfterWorks, DrainOne
  <2>2. /\ pc[t] \in {"idle", "busy", "after", "drain"} /\ pc'[t] = "compact"
        /\ t \in Closer => pc[t] # "idle"
    BY <1>a, <1>14, <2>1, ThreadsDisjoint DEF WorkerTakes, BusyWorks, AfterWorks, DrainOne, At, Take, Goto
  <2>3. SameStore /\ SameBranches /\ ctxt'.is_empty = ctxt.is_empty
    BY <2>1, SameData DEF Take
  <2>4. at'[t].floor <= inserted
    <3>1. at'[t] = [[at[t] EXCEPT !.gen = Head(tasks)] EXCEPT !.back = back]
      BY <1>a, <2>1 DEF Take, Local
    <3>2. at'[t].floor = at[t].floor
      BY <1>a, <3>1 DEF Local
    <3> QED
      BY <1>a, <3>2
  <2> QED
    BY <1>a, <2>2, <2>3, <2>4, PlainStep
<1>15. CASE EndCompact(t)
  <2>1. pc[t] = "packed" /\ pc'[t] = "start"
    BY <1>a, <1>15 DEF EndCompact, At, Goto
  <2>2. SameStore /\ SameBranches /\ ctxt'.is_empty = ctxt.is_empty
    BY <1>a, <1>15, ChangesState DEF EndCompact, Copied
  <2>3. at'[t].floor <= inserted
    BY <1>a, <1>15 DEF EndCompact
  <2> QED
    BY <1>a, <2>1, <2>2, <2>3, PlainStep
<1>16. CASE TryStart(t)
  <2>1. pc[t] = "start" /\ pc'[t] \in {"copy", "done"}
    BY <1>a, <1>16 DEF TryStart, At, Goto
  <2>2. SameStore /\ SameBranches /\ ctxt'.is_empty = ctxt.is_empty
    <3>1. CASE mt' = mt
      BY <1>16, <3>1, SameData DEF TryStart, data
    <3>2. CASE Transition(Mine(t), "COMPACTED", "INCORPORATION_ASSIGNED")
      BY <1>a, <1>16, <3>2, ChangesState DEF TryStart, Copied
    <3> QED
      BY <1>16, <3>1, <3>2 DEF TryStart
  <2>3. at'[t].floor <= inserted
    BY <1>a, <1>16 DEF TryStart
  <2> QED
    BY <1>a, <2>1, <2>2, <2>3, PlainStep
<1>17. CASE DecRef(t)
  <2>1. pc[t] = "decref" /\ pc'[t] \in {"recycle", "release", "continue"}
    BY <1>a, <1>17 DEF DecRef, At, Goto, After
  <2>2. SameStore /\ SameBranches /\ ctxt'.is_empty = ctxt.is_empty
    <3>1. /\ mt' = [mt EXCEPT ![Mine(t)].refs = @ - 1] /\ ctxt' = ctxt /\ branch' = branch
          /\ root' = root /\ inserted' = inserted
      BY <1>17 DEF DecRef
    <3>2. \A s \in Slot : /\ mt'[s].tree = mt[s].tree /\ mt'[s].generation = mt[s].generation
                          /\ mt'[s].state = mt[s].state
      BY <1>a, <3>1 DEF Kinds, Table
    <3> QED
      BY <3>1, <3>2 DEF SameStore, SameBranches
  <2>3. at'[t].floor <= inserted
    BY <1>a, <1>17 DEF DecRef
  <2> QED
    BY <1>a, <2>1, <2>2, <2>3, PlainStep
<1>18. CASE TryContinue(t)
  <2>1. pc[t] = "continue" /\ pc'[t] \in {"copy", "done"}
    BY <1>a, <1>18 DEF TryContinue, At, Goto
  <2>2. /\ ctxt'.generation = ctxt.generation /\ ctxt'.retired = ctxt.retired
        /\ ctxt'.is_empty = ctxt.is_empty
        /\ branch' = branch /\ root' = root /\ inserted' = inserted
    BY <1>a, <1>18 DEF TryContinue, Kinds, Context
  <2>3. SameStore /\ SameBranches
    <3>1. CASE mt' = mt
      BY <2>2, <3>1 DEF SameStore, SameBranches
    <3>2. CASE Transition(Of(at[t].gen + 1), "COMPACTED", "INCORPORATION_ASSIGNED")
      BY <1>a, <2>2, <3>2 DEF SameStore, SameBranches, Copied, Transition, Kinds, Table
    <3> QED
      BY <1>18, <3>1, <3>2 DEF TryContinue
  <2>4. at'[t].floor <= inserted
    <3>1. at' = at \/ at' = [at EXCEPT ![t].gen = at[t].gen + 1]
      BY <1>18 DEF TryContinue
    <3>2. at'[t].floor = at[t].floor
      BY <1>a, <3>1 DEF Local
    <3> QED
      BY <1>a, <3>2
  <2> QED
    BY <1>a, <2>1, <2>2, <2>3, <2>4, PlainStep
<1> QED
  BY <1>1, <1>2, <1>3, <1>4, <1>5, <1>6, <1>7, <1>8, <1>9, <1>10, <1>11, <1>12, <1>13, <1>14, <1>15,
     <1>16, <1>17, <1>18

\* When no task runs, nobody works on one.
LEMMA Resting ==
  ASSUME Shape, executing = 0, NEW t \in Thread
  PROVE  ~Works(t)
<1>1. IsFiniteSet({u \in Thread : Works(u)}) /\ Cardinality({u \in Thread : Works(u)}) = 0
  BY ThreadsDisjoint, FS_Subset DEF Shape, Counted
<1> QED
  BY <1>1, FS_EmptySet

\* The steps of an inserter, of a task and of a close that look at what is there.
LEMMA LookActs ==
  ASSUME ClosesIdle, Shape, Core, Contents, NEW t \in Thread, Acts(t),
         \/ EndInsert(t) \/ CopyRoot(t) \/ BlockLookups(t) \/ Close(t) \/ Closed(t)
         \/ Compact(t) \/ Ready(t)
  PROVE  Contents'
<1>a. /\ Kinds /\ Others(t) /\ pc \in [Thread -> Label] /\ at \in [Thread -> Local] /\ at[t] \in Local
      /\ mt \in [Slot -> Table] /\ branch \in [Slot -> SUBSET Insert] /\ ctxt \in Context
      /\ at[t].floor <= inserted /\ inserted \in Nat /\ Places(t) /\ Mine(t) \in Slot
      /\ Tasks(t) /\ Packed(Mine(t)) /\ Carries(t) /\ ctxt.retired < ctxt.generation
      /\ ctxt.retired \in Int /\ ctxt.generation \in Nat /\ Of(ctxt.generation) \in Slot
  BY OthersStep, Fields
  DEF Shape, Kinds, Contents, Sought, Core, Mind, Window, Generation, Current
<1>b. \A u \in Thread : u # t => pc'[u] = pc[u]
  BY <1>a DEF Others
<1>1. CASE EndInsert(t)
  <2>1. pc[t] = "inserted" /\ pc'[t] \in {"idle", "after"}
    BY <1>a, <1>1 DEF EndInsert, At, Goto
  <2>2. /\ ctxt'.generation = ctxt.generation /\ ctxt'.retired = ctxt.retired /\ ctxt'.is_empty = FALSE
        /\ mt' = mt /\ branch' = branch /\ root' = root /\ inserted' = inserted
    BY <1>a, <1>1 DEF EndInsert, Context
  <2>3. SameStore /\ SameBranches
    BY <2>2 DEF SameStore, SameBranches
  <2>4. t \notin Closer
    BY <1>a, <2>1, ThreadsDisjoint DEF Places, Working, Assigned, Retired, Recycling
  <2>5. Emptied'
    <3>1. \A c \in Closer : pc'[c] = pc[c]
      BY <1>b, <2>4 DEF Thread
    <3> QED
      BY <2>2, <3>1 DEF Contents, Emptied, Tree, Generation
  <2>6. Carries(t)' /\ Sought(t)'
    <3>1. at'[t].floor = 0
      BY <1>a, <1>1 DEF EndInsert, Idle
    <3> QED
      BY <1>a, <2>1, <2>2, <3>1 DEF Carries, Sought, Seeks
  <2> QED
    BY <1>a, <2>1, <2>3, <2>5, <2>6, SamePacked, StoreStep
<1>2. CASE CopyRoot(t)
  <2>1. pc[t] = "copy" /\ pc'[t] = "block"
    BY <1>a, <1>2 DEF CopyRoot, At, Goto
  <2>2. /\ ctxt' = ctxt /\ mt' = mt /\ branch' = branch /\ root' = root /\ inserted' = inserted
        /\ at'[t] = [at[t] EXCEPT !.new = root \cup branch[Mine(t)]]
    BY <1>a, <1>2 DEF CopyRoot
  <2>3. SameStore /\ SameBranches
    BY <2>2 DEF SameStore, SameBranches
  <2>4. at'[t].new = root \cup branch[Mine(t)] /\ at'[t].gen = at[t].gen /\ at'[t].floor = at[t].floor
    BY <1>a, <2>2 DEF Local
  <2>5. mt[Mine(t)].state = "INCORPORATION_ASSIGNED"
    BY <1>a, <2>1, WorkerHolds DEF Tasks, Has, Assigns, Assigned
  <2>6. Carries(t)'
    BY <1>a, <2>1, <2>2, <2>4, <2>5 DEF Carries, Packed, Mine
  <2>7. Sought(t)'
    BY <1>a, <2>1, <2>2, <2>4 DEF Sought, Seeks
  <2>8. Emptied'
    BY <1>a, <2>1, <2>2, <2>3, SameEmptied
  <2> QED
    BY <1>a, <2>1, <2>3, <2>6, <2>7, <2>8, SamePacked, StoreStep
<1>3. CASE BlockLookups(t)
  <2>1. pc[t] = "block" /\ pc'[t] = "retire"
    BY <1>a, <1>3 DEF BlockLookups, At, Goto
  <2>2. SameStore /\ SameBranches /\ ctxt'.is_empty = ctxt.is_empty /\ at' = at
    BY <1>3, SameData DEF BlockLookups
  <2>3. Carries(t)'
    BY <1>a, <2>1, <2>2 DEF Carries, Mine, SameStore
  <2>4. Sought(t)'
    BY <1>a, <2>1, <2>2 DEF Sought, Seeks, SameStore
  <2>5. Emptied'
    BY <1>a, <2>1, <2>2, SameEmptied
  <2> QED
    BY <1>a, <2>1, <2>2, <2>3, <2>4, <2>5, SamePacked, StoreStep
<1>4. CASE Close(t)
  <2>1. /\ pc[t] = "idle" /\ t \in Closer /\ pc'[t] = IF ctxt.is_empty THEN "drain" ELSE "finalize"
        /\ \A u \in Inserter \cup Reader : pc[u] = "idle"
        /\ at' = at
    BY <1>a, <1>4 DEF Close, At, Goto
  <2>2. SameStore /\ SameBranches /\ ctxt'.is_empty = ctxt.is_empty
    BY <1>4, SameData DEF Close
  <2>3. Carries(t)' /\ Sought(t)'
    BY <1>a, <2>1, <2>2 DEF Carries, Sought, Seeks, SameStore
  <2>4. Tree(Generation)' = Tree(Generation)
    BY <1>a, <2>2 DEF Tree, SameStore, Generation
  <2>5. \A u \in Thread : pc[u] # "inserted"
    BY <2>1, ThreadsDisjoint DEF Shape, Places, Working, Assigned, Retired, Recycling
  <2>6. Tree(Generation) # {} => ~ctxt.is_empty
    BY <2>5 DEF Contents, Emptied
  <2>7. Emptied'
    <3>1. \A c \in Closer : c = t
      BY <2>1, ThreadsDisjoint
    <3> QED
      BY <2>1, <2>2, <2>4, <2>6, <3>1 DEF Emptied
  <2> QED
    BY <1>a, <2>1, <2>2, <2>3, <2>7, SamePacked, StoreStep
<1>5. CASE Closed(t)
  <2>1. /\ pc[t] = "drain" /\ pc'[t] = "closed" /\ tasks = <<>> /\ executing = 0 /\ at' = at
    BY <1>a, <1>5 DEF Closed, At, Goto, Quiescent
  <2>2. SameStore /\ SameBranches /\ ctxt'.is_empty = ctxt.is_empty
    BY <1>5, SameData DEF Closed
  <2>3. Carries(t)' /\ Sought(t)'
    BY <1>a, <2>1, <2>2 DEF Carries, Sought, Seeks, SameStore
  <2>4. Tree(Generation)' = Tree(Generation)
    BY <1>a, <2>2 DEF Tree, SameStore, Generation
  <2>5. t \in Closer /\ \A u \in Inserter \cup Reader : pc[u] = "idle"
    BY <1>a, <2>1 DEF Places, Core, Closing, AtRest, Working, Assigned, Retired, Recycling
  <2>6. \A u \in Thread : ~Works(u) /\ pc[u] # "process"
    <3> SUFFICES ASSUME NEW u \in Thread PROVE ~Works(u) /\ pc[u] # "process"
      OBVIOUS
    <3>1. ~Works(u)
      BY <2>1, Resting
    <3>2. CASE u = t
      BY <2>1, <3>1, <3>2
    <3>3. CASE u \in Inserter \cup Reader
      BY <2>5, <3>1, <3>3
    <3>4. CASE u \in Worker
      BY <3>1, <3>4, ThreadsDisjoint DEF Shape, Places, Works
    <3>5. CASE u \in Closer
      BY <2>5, <3>2, <3>5, ThreadsDisjoint
    <3> QED
      BY <3>3, <3>4, <3>5 DEF Thread
  <2>7. ctxt.retired = ctxt.generation - 1
    BY <2>1, <2>6, NothingWaits
  <2>8. Tree(Generation) = {}
    BY <2>1, <2>5 DEF Contents, Emptied
  <2>9. root = 1 .. inserted
    <3>1. \A u \in Thread : pc[u] # "switch"
      BY <2>1, <2>5, <2>6, ThreadsDisjoint
      DEF Works, Working, Retired, Shape, Places, Recycling
    <3>2. ASSUME NEW x \in 1 .. inserted PROVE x \in root
      <4>1. \/ x \in root
            \/ \E g \in ctxt.retired + 1 .. ctxt.generation : x \in Tree(g)
        BY <3>1 DEF Contents, Complete, Generation
      <4>2. \A g \in ctxt.retired + 1 .. ctxt.generation : g = ctxt.generation
        BY <1>a, <2>7
      <4> QED
        BY <2>8, <4>1, <4>2 DEF Generation
    <3> QED
      BY <3>2 DEF Contents, Complete
  <2>10. Emptied'
    <3>1. \A c \in Closer : c = t
      BY <2>5, ThreadsDisjoint
    <3> QED
      BY <2>1, <2>2, <2>4, <2>8, <2>9, <3>1 DEF Emptied, SameStore
  <2> QED
    BY <1>a, <2>1, <2>2, <2>3, <2>10, SamePacked, StoreStep
<1>6. CASE Compact(t)
  <2>1. pc[t] = "compact" /\ pc'[t] = "packed" /\ at' = at
    BY <1>a, <1>6 DEF Compact, At, Goto
  <2>2. /\ mt[Mine(t)].state = "FINALIZED" /\ mt'[Mine(t)].state = "COMPACTING"
        /\ \A s \in Slot : mt'[s].tree = mt[s].tree /\ mt'[s].generation = mt[s].generation
        /\ \A s \in Slot : s # Mine(t) => mt'[s].state = mt[s].state /\ branch'[s] = branch[s]
        /\ branch'[Mine(t)] = mt[Mine(t)].tree
        /\ ctxt' = ctxt /\ root' = root /\ inserted' = inserted
    BY <1>a, <1>6 DEF Compact, Transition, Table
  <2>3. SameStore
    BY <2>2 DEF SameStore
  <2>4. \A s \in Slot : Packed(s)'
    <3> SUFFICES ASSUME NEW s \in Slot PROVE Packed(s)'
      OBVIOUS
    <3>1. CASE s = Mine(t)
      BY <2>2, <3>1 DEF Packed
    <3>2. CASE s # Mine(t)
      BY <2>2, <3>2 DEF Contents, Packed, Generation
    <3> QED
      BY <3>1, <3>2
  <2>5. Carries(t)' /\ Sought(t)'
    BY <1>a, <2>1, <2>2 DEF Carries, Sought, Seeks
  <2>6. Emptied'
    BY <1>a, <2>1, <2>2, <2>3, SameEmptied
  <2> QED
    BY <1>a, <2>1, <2>3, <2>4, <2>5, <2>6, StoreStep
<1>7. CASE Ready(t)
  <2>1. pc[t] = "ready" /\ pc'[t] \in {"release", "continue"} /\ at' = at
    BY <1>a, <1>7 DEF Ready, At, Goto, After
  <2>2. /\ mt[Mine(t)].state = "INCORPORATED" /\ mt'[Mine(t)].state = "READY"
        /\ \A s \in Slot : mt'[s].tree = mt[s].tree /\ mt'[s].generation = mt[s].generation
        /\ \A s \in Slot : s # Mine(t) => mt'[s].state = mt[s].state
        /\ ctxt' = ctxt /\ root' = root /\ inserted' = inserted /\ branch' = branch
    BY <1>a, <1>7 DEF Ready, Transition, Table
  <2>3. SameStore
    BY <2>2 DEF SameStore
  <2>4. \A s \in Slot : Packed(s)'
    <3> SUFFICES ASSUME NEW s \in Slot PROVE Packed(s)'
      OBVIOUS
    <3>1. CASE s = Mine(t)
      BY <1>a, <2>1, <2>2, <3>1 DEF Packed, Carries
    <3>2. CASE s # Mine(t)
      BY <2>2, <3>2 DEF Contents, Packed, Generation
    <3> QED
      BY <3>1, <3>2
  <2>5. Carries(t)' /\ Sought(t)'
    BY <1>a, <2>1, <2>2 DEF Carries, Sought, Seeks
  <2>6. Emptied'
    BY <1>a, <2>1, <2>2, <2>3, SameEmptied
  <2> QED
    BY <1>a, <2>1, <2>3, <2>4, <2>5, <2>6, StoreStep
<1> QED
  BY <1>1, <1>2, <1>3, <1>4, <1>5, <1>6, <1>7

\* The steps of a reader that looks: what it seeks is in what it has seen or
\* kept, or in what it goes on to look at.
LEMMA ReadActs ==
  ASSUME ClosesIdle, Shape, Core, Contents, NEW t \in Thread, Acts(t),
         \/ ReadGenerations(t) \/ PickTable(t) \/ ReadTable(t) \/ KeepTable(t) \/ ReadRoot(t) \/ Scan(t)
  PROVE  Contents'
<1>a. /\ Kinds /\ Others(t) /\ pc \in [Thread -> Label] /\ at \in [Thread -> Local] /\ at[t] \in Local
      /\ mt \in [Slot -> Table]
      /\ at[t].floor <= inserted /\ at[t].floor \in Nat /\ inserted \in Nat /\ Places(t) /\ Mine(t) \in Slot
      /\ Reads(t) /\ Packed(Mine(t)) /\ Sought(t) /\ ctxt.retired < ctxt.generation
      /\ ctxt.retired \in Int /\ ctxt.generation \in Nat /\ at[t].gen \in Int /\ at[t].held \subseteq Int
      /\ \A g \in at[t].held : Of(g) \in Slot
  <2>1. Kinds /\ Others(t) /\ Places(t)
    BY OthersStep DEF Shape
  <2>2. /\ pc \in [Thread -> Label] /\ at \in [Thread -> Local] /\ at[t] \in Local
        /\ mt \in [Slot -> Table] /\ inserted \in Nat
    BY <2>1 DEF Kinds
  <2>3. /\ at[t].floor \in Nat /\ Mine(t) \in Slot /\ ctxt.retired \in Int /\ ctxt.generation \in Nat
        /\ at[t].gen \in Int /\ at[t].held \subseteq Int
    BY <2>1, Fields
  <2>4. \A g \in at[t].held : Of(g) \in Slot
    BY <2>3, SlotOf
  <2>5. Reads(t) /\ ctxt.retired < ctxt.generation
    BY DEF Core, Mind, Window, Generation
  <2>6. Packed(Mine(t)) /\ Sought(t) /\ at[t].floor <= inserted
    BY <2>3 DEF Contents, Sought
  <2> QED
    BY <2>1, <2>2, <2>3, <2>4, <2>5, <2>6
<1>b. /\ \A s \in Slot : mt[s].tree \subseteq 1 .. inserted
      /\ root \subseteq 1 .. inserted
  BY DEF Contents, Complete
<1>c. /\ SameStore /\ SameBranches /\ ctxt'.is_empty = ctxt.is_empty /\ ctxt' = ctxt
      /\ \A s \in Slot : mt'[s].tree = mt[s].tree
  <2>1. CASE UNCHANGED data /\ inserted' = inserted
    BY <2>1, SameData DEF data
  <2>2. CASE KeepTable(t)
    <3>1. /\ mt' = mt \/ mt' = [mt EXCEPT ![Mine(t)].refs = @ + 1]
          /\ ctxt' = ctxt /\ branch' = branch /\ root' = root /\ inserted' = inserted
      BY <2>2 DEF KeepTable
    <3>2. \A s \in Slot : /\ mt'[s].tree = mt[s].tree /\ mt'[s].generation = mt[s].generation
                          /\ mt'[s].state = mt[s].state
      BY <1>a, <3>1 DEF Table
    <3> QED
      BY <3>1, <3>2 DEF SameStore, SameBranches
  <2> QED
    BY <2>1, <2>2 DEF ReadGenerations, PickTable, ReadTable, ReadRoot, Scan
<1>d. /\ pc[t] \in {"gens", "tables", "read", "scan"} /\ pc'[t] \in {"tables", "read", "scan", "found"}
      /\ t \in Reader
  <2>1. pc[t] \in {"gens", "tables", "read", "scan"} /\ pc'[t] \in {"tables", "read", "scan", "found"}
    BY <1>a DEF ReadGenerations, PickTable, ReadTable, KeepTable, ReadRoot, Scan, At, Goto
  <2> QED
    BY <1>a, <2>1 DEF Places, Working, Assigned, Retired
<1>e. /\ \A s \in Slot : Packed(s)'
      /\ Carries(t)'
      /\ Emptied'
  BY <1>a, <1>c, <1>d, SamePacked, SameEmptied, ThreadsDisjoint DEF Carries
<1>f. /\ \A g \in Int : Tree(g)' = Tree(g) /\ Tree(g) \subseteq 1 .. inserted
      /\ Tree(at[t].gen) = mt[Mine(t)].tree
  BY <1>a, <1>b, <1>c, SlotOf DEF Tree, Mine
\* The witness that t seeks.
<1> DEFINE Meets(n) == /\ n >= at[t].floor
                       /\ \/ n \in at[t].seen
                          \/ pc[t] # "found" /\ \E g \in at[t].held : n \in Tree(g)
                          \/ Seeks(t) /\ n \in root
                          \/ Seeks(t) /\ \E g \in ctxt.retired + 1 .. at[t].gen : n \in Tree(g)
           Meet(n) == /\ n >= at'[t].floor
                      /\ \/ n \in at'[t].seen
                         \/ pc'[t] # "found" /\ \E g \in at'[t].held : n \in Tree(g)
                         \/ Seeks(t)' /\ n \in root
                         \/ Seeks(t)' /\ \E g \in ctxt.retired + 1 .. at'[t].gen : n \in Tree(g)
<1>g. ASSUME at'[t].floor = at[t].floor, at'[t].held \subseteq Int, at'[t].gen \in Int,
             at[t].floor > 0 => \E n \in 1 .. inserted : Meet(n)
      PROVE  Contents'
  <2>1. /\ \A g \in at'[t].held : Tree(g)' = Tree(g)
        /\ \A g \in ctxt.retired + 1 .. at'[t].gen : Tree(g)' = Tree(g)
    BY <1>f, <1>g, <1>a
  <2>2. (Seeks(t)' \/ pc'[t] \in {"scan", "found"}) /\ at'[t].floor > 0 =>
          \E n \in 1 .. inserted' :
            /\ n >= at'[t].floor
            /\ \/ n \in at'[t].seen
               \/ pc'[t] # "found" /\ \E g \in at'[t].held : n \in Tree(g)'
               \/ Seeks(t)' /\ n \in root'
               \/ Seeks(t)' /\ \E g \in ctxt'.retired + 1 .. at'[t].gen : n \in Tree(g)'
    BY <1>c, <1>g, <2>1 DEF SameStore
  <2>3. at'[t].floor <= inserted'
    BY <1>a, <1>c, <1>g DEF SameStore
  <2>4. Sought(t)'
    BY <2>2, <2>3 DEF Sought
  <2> QED
    BY <1>a, <1>c, <1>d, <1>e, <2>4, StoreStep
<1>h. Seeks(t) \/ pc[t] = "scan" => (at[t].floor > 0 => \E n \in 1 .. inserted : Meets(n))
  BY <1>a DEF Sought
<1>1. CASE ReadGenerations(t)
  <2>1. /\ pc[t] = "gens" /\ pc'[t] = "tables"
        /\ at'[t] = [[at[t] EXCEPT !.gen = ctxt.generation] EXCEPT !.last = ctxt.retired]
    BY <1>a, <1>1 DEF ReadGenerations, At, Goto, Local
  <2>2. /\ at'[t].gen = ctxt.generation /\ at'[t].floor = at[t].floor /\ at'[t].held = at[t].held
    BY <1>a, <2>1 DEF Local
  <2>3. \A u \in Thread : pc[u] # "switch"
    BY <2>1 DEF Shape, LookupLock, Looking
  <2>4. at[t].floor > 0 => \E n \in 1 .. inserted : Meet(n)
    <3> SUFFICES ASSUME at[t].floor > 0 PROVE \E n \in 1 .. inserted : Meet(n)
      OBVIOUS
    <3>1. at[t].floor \in 1 .. inserted
      BY <1>a
    <3>2. \/ at[t].floor \in root
          \/ \E g \in ctxt.retired + 1 .. ctxt.generation : at[t].floor \in Tree(g)
      BY <2>3, <3>1 DEF Contents, Complete, Generation
    <3>3. Meet(at[t].floor)
      BY <1>a, <2>1, <2>2, <3>2 DEF Seeks
    <3> QED
      BY <3>1, <3>3
  <2> HIDE DEF Meet, Meets
  <2> QED
    BY <1>a, <1>g, <2>2, <2>4
<1>2. CASE PickTable(t)
  <2>1. pc[t] = "tables" /\ pc'[t] = "read"
    BY <1>a, <1>2 DEF PickTable, At, Goto
  <2>2. /\ at'[t].gen = at[t].gen /\ at'[t].floor = at[t].floor /\ at'[t].held = at[t].held
        /\ at'[t].seen = at[t].seen
    BY <1>a, <1>2 DEF PickTable, Local
  <2>3. \A n \in 1 .. inserted : Meets(n) => Meet(n)
    BY <2>1, <2>2 DEF Seeks
  <2>4. Seeks(t)
    BY <2>1 DEF Seeks
  <2> HIDE DEF Meet, Meets
  <2> QED
    BY <1>a, <1>g, <1>h, <2>2, <2>3, <2>4
<1>3. CASE ReadTable(t)
  <2>1. /\ pc[t] = "read" /\ Seeks(t) /\ ~at[t].scan /\ at[t].held = {} /\ at[t].seen = {}
        /\ ctxt.retired < at[t].gen /\ at[t].gen <= ctxt.generation
    BY <1>a, <1>3 DEF ReadTable, At, Reads, Seeks, Generation
  <2>2. (IF at[t].from = "branch" THEN branch[Mine(t)] ELSE mt[Mine(t)].tree) = Tree(at[t].gen)
    BY <1>a, <1>f, <2>1 DEF Reads, Compacted, Packed
  <2>3. CASE Tree(at[t].gen) # {}
    <3>1. /\ at' = [at EXCEPT ![t].seen = Tree(at[t].gen), ![t].from = ""] /\ pc'[t] = "found"
      BY <1>a, <1>3, <2>2, <2>3 DEF ReadTable, Goto
    <3>2. at'[t] = [[at[t] EXCEPT !.seen = Tree(at[t].gen)] EXCEPT !.from = ""]
      BY <1>a, <3>1 DEF Local
    <3>3. /\ at'[t].gen = at[t].gen /\ at'[t].floor = at[t].floor /\ at'[t].held = at[t].held
          /\ at'[t].seen = Tree(at[t].gen)
      BY <1>a, <3>2 DEF Local
    <3>4. PICK x \in Tree(at[t].gen) : TRUE
      BY <2>3
    <3>5. /\ x \in 1 .. inserted /\ at[t].gen \in ctxt.retired + 1 .. ctxt.generation
          /\ \A y \in root : y < x
          /\ \A h \in ctxt.retired + 1 .. at[t].gen : h # at[t].gen => \A y \in Tree(h) : y < x
      <4>1. x \in 1 .. inserted /\ at[t].gen \in ctxt.retired + 1 .. ctxt.generation
        BY <1>a, <1>f, <2>1, <3>4
      <4>2. \A y \in root : y < x
        BY <3>4, <4>1 DEF Contents, Ordered, Generation
      <4>3. ASSUME NEW h \in ctxt.retired + 1 .. at[t].gen, h # at[t].gen, NEW y \in Tree(h) PROVE y < x
        <5>1. h \in ctxt.retired + 1 .. ctxt.generation /\ at[t].gen \in h + 1 .. ctxt.generation
          BY <1>a, <2>1, <4>3
        <5> QED
          BY <3>4, <4>3, <5>1 DEF Contents, Ordered, Generation
      <4> QED
        BY <4>1, <4>2, <4>3
    <3>6. at[t].floor > 0 => \E n \in 1 .. inserted : Meet(n)
      <4> SUFFICES ASSUME at[t].floor > 0 PROVE \E n \in 1 .. inserted : Meet(n)
        OBVIOUS
      <4>1. PICK n \in 1 .. inserted : Meets(n)
        BY <1>h, <2>1
      <4>2. n >= at[t].floor /\ (n \in Tree(at[t].gen) \/ n < x)
        BY <2>1, <3>5, <4>1
      <4>3. Meet(n) \/ Meet(x)
        BY <1>a, <3>3, <3>4, <3>5, <4>1, <4>2
      <4> QED
        BY <3>5, <4>3
    <3> HIDE DEF Meet, Meets
    <3> QED
      BY <1>a, <1>g, <3>3, <3>6
  <2>4. CASE Tree(at[t].gen) = {}
    <3>1. /\ at' = [at EXCEPT ![t].gen = @ - 1, ![t].from = ""] /\ pc'[t] = "tables"
      BY <1>a, <1>3, <2>2, <2>4 DEF ReadTable, Goto
    <3>2. at'[t] = [[at[t] EXCEPT !.gen = at[t].gen - 1] EXCEPT !.from = ""]
      BY <1>a, <3>1 DEF Local
    <3>3. /\ at'[t].gen = at[t].gen - 1 /\ at'[t].floor = at[t].floor /\ at'[t].held = at[t].held
          /\ at'[t].seen = at[t].seen
      BY <1>a, <3>2 DEF Local
    <3>4. \A g \in ctxt.retired + 1 .. at[t].gen : g # at[t].gen => g \in ctxt.retired + 1 .. at'[t].gen
      BY <1>a, <3>3
    <3>5. \A n \in 1 .. inserted : Meets(n) => Meet(n)
      BY <2>1, <2>4, <3>1, <3>3, <3>4 DEF Seeks
    <3> HIDE DEF Meet, Meets
    <3> QED
      BY <1>a, <1>g, <1>h, <2>1, <3>3, <3>5
  <2> QED
    BY <2>3, <2>4
<1>4. CASE KeepTable(t)
  <2>1. pc[t] = "tables" /\ pc'[t] = "tables" /\ Seeks(t)
    BY <1>a, <1>4 DEF KeepTable, At, Seeks
  <2>2. CASE Compacted(Mine(t))
    <3>1. at' = [at EXCEPT ![t].gen = @ - 1, ![t].seen = @ \cup branch[Mine(t)]]
      BY <1>4, <2>2 DEF KeepTable
    <3>2. at'[t] = [[at[t] EXCEPT !.gen = at[t].gen - 1] EXCEPT !.seen = at[t].seen \cup branch[Mine(t)]]
      BY <1>a, <3>1 DEF Local
    <3>3. /\ at'[t].gen = at[t].gen - 1 /\ at'[t].floor = at[t].floor /\ at'[t].held = at[t].held
          /\ at'[t].seen = at[t].seen \cup branch[Mine(t)]
      BY <1>a, <3>2 DEF Local
    <3>4. branch[Mine(t)] = Tree(at[t].gen)
      BY <1>a, <1>f, <2>2 DEF Compacted, Packed
    <3>5. \A g \in ctxt.retired + 1 .. at[t].gen : g # at[t].gen => g \in ctxt.retired + 1 .. at'[t].gen
      BY <1>a, <3>3
    <3>6. \A n \in 1 .. inserted : Meets(n) => Meet(n)
      BY <2>1, <3>3, <3>4, <3>5 DEF Seeks
    <3> HIDE DEF Meet, Meets
    <3> QED
      BY <1>a, <1>g, <1>h, <2>1, <3>3, <3>6
  <2>3. CASE ~Compacted(Mine(t))
    <3>1. at' = [at EXCEPT ![t].gen = @ - 1, ![t].held = @ \cup {at[t].gen}]
      BY <1>4, <2>3 DEF KeepTable
    <3>2. at'[t] = [[at[t] EXCEPT !.gen = at[t].gen - 1] EXCEPT !.held = at[t].held \cup {at[t].gen}]
      BY <1>a, <3>1 DEF Local
    <3>3. /\ at'[t].gen = at[t].gen - 1 /\ at'[t].floor = at[t].floor
          /\ at'[t].held = at[t].held \cup {at[t].gen} /\ at'[t].seen = at[t].seen
      BY <1>a, <3>2 DEF Local
    <3>4. \A g \in ctxt.retired + 1 .. at[t].gen : g # at[t].gen => g \in ctxt.retired + 1 .. at'[t].gen
      BY <1>a, <3>3
    <3>5. \A n \in 1 .. inserted : Meets(n) => Meet(n)
      BY <2>1, <3>3, <3>4 DEF Seeks
    <3> HIDE DEF Meet, Meets
    <3> QED
      BY <1>a, <1>g, <1>h, <2>1, <3>3, <3>5
  <2> QED
    BY <2>2, <2>3
<1>5. CASE ReadRoot(t)
  <2>1. /\ pc[t] = "tables" /\ Seeks(t) /\ pc'[t] = IF at[t].scan THEN "scan" ELSE "found"
        /\ at[t].gen = at[t].last /\ at[t].last = ctxt.retired
        /\ ~at[t].scan => at[t].held = {}
    BY <1>a, <1>5 DEF ReadRoot, At, Goto, Seeks, Reads
  <2>2. /\ at'[t].gen = at[t].gen /\ at'[t].floor = at[t].floor /\ at'[t].held = at[t].held
        /\ at'[t].seen = at[t].seen \cup root
    BY <1>a, <1>5 DEF ReadRoot, Local
  <2>3. ctxt.retired + 1 .. at[t].gen = {}
    BY <1>a, <2>1
  <2>4. \A n \in 1 .. inserted : Meets(n) => Meet(n)
    BY <2>1, <2>2, <2>3 DEF Seeks
  <2> HIDE DEF Meet, Meets
  <2> QED
    BY <1>a, <1>g, <1>h, <2>1, <2>2, <2>4
<1>6. CASE Scan(t)
  <2>1. pc[t] = "scan" /\ pc'[t] = "found"
    BY <1>a, <1>6 DEF Scan, At, Goto
  <2>2. /\ at'[t].gen = at[t].gen /\ at'[t].floor = at[t].floor /\ at'[t].held = at[t].held
        /\ at'[t].seen = at[t].seen \cup UNION {Tree(g) : g \in at[t].held}
    BY <1>a, <1>6 DEF Scan, Local, Tree
  <2>3. \A n \in 1 .. inserted : Meets(n) => Meet(n)
    BY <2>1, <2>2 DEF Seeks
  <2> HIDE DEF Meet, Meets
  <2> QED
    BY <1>a, <1>g, <1>h, <2>1, <2>2, <2>3
<1> QED
  BY <1>1, <1>2, <1>3, <1>4, <1>5, <1>6

-----------------------------------------------------------------------------
(* Contents: the steps that change the trunk or the memtables.             *)

LEMMA InWindow ==
  ASSUME Shape, Core
  PROVE  /\ ctxt.retired \in Int /\ ctxt.generation \in Nat /\ ctxt.retired < ctxt.generation
         /\ \A g \in ctxt.retired + 1 .. ctxt.generation :
              g \in Int /\ Of(g) \in Slot /\ mt[Of(g)].generation = g /\ mt[Of(g)].state # "INCORPORATED"
         /\ ctxt.generation \in ctxt.retired + 1 .. ctxt.generation
<1>1. ctxt.retired \in Int /\ ctxt.generation \in Nat /\ ctxt.retired < ctxt.generation
  BY Fields DEF Shape, Core, Window, Generation
<1>2. \A g \in ctxt.retired + 1 .. ctxt.generation : g \in Int /\ Of(g) \in Slot
  BY <1>1, SlotOf
<1> QED
  BY <1>1, <1>2 DEF Core, Window, Generation

\* A new insert is the newest, and goes into the newest memtable.
LEMMA TreeInsertStep ==
  ASSUME ClosesIdle, Shape, Core, Contents, NEW t \in Thread, Acts(t), TreeInsert(t)
  PROVE  Contents'
<1>0. PICK S, G, N, R : S = Mine(t) /\ G = ctxt.generation /\ N = inserted + 1 /\ R = ctxt.retired
  OBVIOUS
<1>a. /\ Kinds /\ Others(t) /\ pc \in [Thread -> Label] /\ mt \in [Slot -> Table]
      /\ at \in [Thread -> Local] /\ Places(t) /\ inserted \in Nat /\ N \in Nat
  BY <1>0, OthersStep DEF Shape, Kinds
<1>b. /\ R \in Int /\ G \in Nat /\ R < G
      /\ \A g \in R + 1 .. G : g \in Int /\ Of(g) \in Slot /\ mt[Of(g)].generation = g
      /\ G \in R + 1 .. G
  BY <1>0, InWindow
<1>c. /\ pc[t] = "insert" /\ pc'[t] = "inserted" /\ at' = at
      /\ at[t].gen = G /\ S = Of(G) /\ S \in Slot /\ mt[S].state = "READY" /\ mt[S].generation = G
  <2>1. pc[t] = "insert" /\ pc'[t] = "inserted" /\ at' = at
    BY <1>a DEF TreeInsert, At, Goto
  <2>2. at[t].gen = G
    BY <1>0, <2>1 DEF Core, Mind, Keeps, Generation
  <2> QED
    BY <1>0, <1>b, <2>1, <2>2 DEF Mine, Core, Window, Current
<1>d. /\ ctxt' = ctxt /\ branch' = branch /\ root' = root /\ inserted' = N
      /\ mt'[S].tree = mt[S].tree \cup {N}
      /\ \A s \in Slot : /\ mt'[s].state = mt[s].state /\ mt'[s].generation = mt[s].generation
                         /\ s # S => mt'[s].tree = mt[s].tree
  <2>1. /\ ctxt' = ctxt /\ branch' = branch /\ root' = root /\ inserted' = N
        /\ mt' = [mt EXCEPT ![S].tree = @ \cup {N}]
    BY <1>0, <1>c DEF TreeInsert, Mine
  <2> QED
    BY <1>a, <1>c, <2>1 DEF Table
<1>e. \A u \in Thread : u # t => pc'[u] = pc[u]
  BY <1>a DEF Others
<1>f. /\ root \subseteq 1 .. inserted /\ \A s \in Slot : mt[s].tree \subseteq 1 .. inserted
  BY DEF Contents, Complete
<1>g. /\ Tree(G)' = Tree(G) \cup {N}
      /\ \A g \in R + 1 .. G : g # G => Tree(g)' = Tree(g)
      /\ \A g \in R + 1 .. G : Tree(g) \subseteq 1 .. inserted
      /\ \A g \in Int : Tree(g) \subseteq Tree(g)'
  <2>1. Tree(G)' = Tree(G) \cup {N}
    BY <1>c, <1>d DEF Tree
  <2>2. \A g \in R + 1 .. G : g # G => Tree(g)' = Tree(g)
    BY <1>b, <1>c, <1>d DEF Tree
  <2>3. \A g \in Int : Tree(g) \subseteq Tree(g)'
    BY <1>d, SlotOf DEF Tree
  <2> QED
    BY <1>b, <1>f, <2>1, <2>2, <2>3 DEF Tree
<1>h. \A u \in Thread : pc[u] = "switch" => \A y \in at[u].new : y \in 1 .. inserted
  <2> SUFFICES ASSUME NEW u \in Thread, pc[u] = "switch" PROVE at[u].new \subseteq 1 .. inserted
    OBVIOUS
  <2>1. at[u].new = root \cup mt[Mine(u)].tree /\ Mine(u) \in Slot
    BY <1>a, Fields DEF Contents, Carries
  <2> QED
    BY <1>f, <2>1
<1>1. Ordered'
  <2>1. \A x \in root, y \in 1 .. N : y < x => y \in root
    <3> SUFFICES ASSUME NEW x \in root, NEW y \in 1 .. N, y < x PROVE y \in root
      OBVIOUS
    <3>1. x \in 1 .. inserted /\ y \in 1 .. inserted
      BY <1>0, <1>a, <1>f
    <3> QED
      BY <3>1 DEF Contents, Ordered
  <2>2. ASSUME NEW g \in R + 1 .. G, NEW x \in Tree(g)'
        PROVE  /\ \A y \in root : y < x
               /\ \A h \in g + 1 .. G : \A y \in Tree(h)' : x < y
               /\ \A u \in Thread : pc'[u] = "switch" => \A y \in at[u].new : y < x
    <3>1. CASE x \in Tree(g)
      <4>1. /\ \A y \in root : y < x
            /\ \A h \in g + 1 .. G : \A y \in Tree(h) : x < y
            /\ \A u \in Thread : pc[u] = "switch" => \A y \in at[u].new : y < x
        BY <1>0, <3>1 DEF Contents, Ordered, Generation
      <4>2. ASSUME NEW h \in g + 1 .. G, NEW y \in Tree(h)' PROVE x < y
        <5>1. h \in R + 1 .. G
          BY <1>b, <4>2
        <5>2. CASE y \in Tree(h)
          BY <4>1, <5>2
        <5>3. CASE y \notin Tree(h)
          <6>1. y = N
            BY <1>g, <4>2, <5>1, <5>3
          <6>2. x \in 1 .. inserted
            BY <1>g, <3>1
          <6> QED
            BY <1>0, <1>a, <6>1, <6>2
        <5> QED
          BY <5>2, <5>3
      <4> QED
        BY <1>c, <1>e, <4>1, <4>2
    <3>2. CASE x \notin Tree(g)
      <4>1. x = N /\ g = G
        BY <1>g, <2>2, <3>2
      <4>2. g + 1 .. G = {}
        BY <1>b, <4>1
      <4>3. \A y \in 1 .. inserted : y < x
        BY <1>0, <1>a, <4>1
      <4> QED
        BY <1>c, <1>e, <1>f, <1>h, <4>2, <4>3
    <3> QED
      BY <3>1, <3>2
  <2> QED
    BY <1>0, <1>c, <1>d, <2>1, <2>2 DEF Ordered, Generation
<1>2. Complete'
  <2>1. root \subseteq 1 .. N /\ \A s \in Slot : mt'[s].tree \subseteq 1 .. N
    BY <1>0, <1>a, <1>d, <1>f
  <2>2. ASSUME NEW x \in 1 .. N
        PROVE  \/ x \in root
               \/ \E g \in R + 1 .. G : x \in Tree(g)'
               \/ \E u \in Thread : pc'[u] = "switch" /\ x \in at[u].new
    <3>1. CASE x = N
      BY <1>b, <1>g, <3>1
    <3>2. CASE x # N
      <4>1. x \in 1 .. inserted
        BY <1>0, <1>a, <3>2
      <4>2. \/ x \in root
            \/ \E g \in R + 1 .. G : x \in Tree(g)
            \/ \E u \in Thread : pc[u] = "switch" /\ x \in at[u].new
        BY <1>0, <4>1 DEF Contents, Complete, Generation
      <4>3. \A g \in R + 1 .. G : Tree(g) \subseteq Tree(g)'
        BY <1>b, <1>g
      <4> QED
        BY <1>c, <1>e, <4>2, <4>3
    <3> QED
      BY <3>1, <3>2
  <2> QED
    BY <1>0, <1>c, <1>d, <2>1, <2>2 DEF Complete, Generation
<1>3. Emptied'
  <2>1. t \in Inserter
    BY <1>a, <1>c, ThreadsDisjoint DEF Places, Working, Assigned, Retired, Recycling
  <2>2. \A c \in Closer : pc'[c] = "idle"
    <3> SUFFICES ASSUME NEW c \in Closer PROVE pc'[c] = "idle"
      OBVIOUS
    <3>1. pc[c] = "idle"
      BY <1>c, <2>1 DEF Core, Closing, AtRest
    <3> QED
      BY <1>e, <2>1, <3>1, ThreadsDisjoint DEF Thread
  <2> QED
    BY <1>c, <2>2 DEF Emptied
<1>4. \A s \in Slot : Packed(s)'
  <2> SUFFICES ASSUME NEW s \in Slot PROVE Packed(s)'
    OBVIOUS
  <2>1. CASE s = S
    BY <1>0, <1>b, <1>c, <1>d, <2>1 DEF Packed, Generation
  <2>2. CASE s # S
    BY <1>d, <2>2 DEF Contents, Packed, Generation
  <2> QED
    BY <2>1, <2>2
<1>5. ASSUME NEW u \in Thread PROVE Carries(u)'
  <2>1. CASE u = t
    BY <1>c, <2>1 DEF Carries
  <2>2. CASE u # t
    <3>1. Carries(u) /\ Tasks(u) /\ pc'[u] = pc[u] /\ Mine(u)' = Mine(u) /\ Mine(u) \in Slot
      BY <1>a, <1>c, <1>e, <2>2, Fields DEF Contents, Core, Mind, Mine
    <3>2. pc[u] \in {"ready", "block", "retire", "switch"} => Mine(u) # S
      <4>1. u \notin Reader \/ pc[u] \notin {"block", "retire", "switch"}
        BY ThreadsDisjoint DEF Shape, Places, Recycling
      <4> QED
        BY <1>c, <3>1, <4>1 DEF Tasks, Has, Assigns, Assigned, Recycling
    <3> QED
      BY <1>c, <1>d, <3>1, <3>2 DEF Carries
  <2> QED
    BY <2>1, <2>2
<1>6. ASSUME NEW u \in Thread PROVE Sought(u)'
  <2>1. CASE u = t
    BY <1>0, <1>a, <1>c, <1>d, <2>1, Fields DEF Contents, Sought, Seeks
  <2>2. CASE u # t
    <3>1. /\ pc'[u] = pc[u] /\ at[u].held \subseteq Int /\ at[u].gen \in Int /\ at[u].floor \in Nat
          /\ Sought(u)
      BY <1>a, <1>e, <2>2, Fields DEF Contents
    <3>2. /\ \A g \in at[u].held : Tree(g) \subseteq Tree(g)'
          /\ \A g \in R + 1 .. at[u].gen : Tree(g) \subseteq Tree(g)'
      BY <1>b, <1>g, <3>1
    <3>3. at[u].floor <= N
      BY <1>0, <1>a, <3>1 DEF Sought
    <3>4. ASSUME Seeks(u) \/ pc[u] \in {"scan", "found"}, at[u].floor > 0
          PROVE  \E n \in 1 .. N :
                   /\ n >= at[u].floor
                   /\ \/ n \in at[u].seen
                      \/ pc[u] # "found" /\ \E g \in at[u].held : n \in Tree(g)'
                      \/ Seeks(u) /\ n \in root
                      \/ Seeks(u) /\ \E g \in R + 1 .. at[u].gen : n \in Tree(g)'
      <4>1. PICK n \in 1 .. inserted :
                   /\ n >= at[u].floor
                   /\ \/ n \in at[u].seen
                      \/ pc[u] # "found" /\ \E g \in at[u].held : n \in Tree(g)
                      \/ Seeks(u) /\ n \in root
                      \/ Seeks(u) /\ \E g \in R + 1 .. at[u].gen : n \in Tree(g)
        BY <1>0, <3>1, <3>4 DEF Sought
      <4>2. n \in 1 .. N
        BY <1>0, <1>a
      <4> QED
        BY <3>2, <4>1, <4>2
    <3> QED
      BY <1>0, <1>c, <1>d, <3>1, <3>3, <3>4 DEF Sought, Seeks
  <2> QED
    BY <2>1, <2>2
<1> QED
  BY <1>1, <1>2, <1>3, <1>4, <1>5, <1>6 DEF Contents

\* The oldest memtable leaves the window for the root that is to come ...
LEMMA RetireContents ==
  ASSUME ClosesIdle, Shape, Core, Contents, NEW t \in Thread, Acts(t), Retire(t)
  PROVE  Contents'
<1>0. PICK S, G, R : S = Mine(t) /\ G = ctxt.generation /\ R = ctxt.retired
  OBVIOUS
<1>a. /\ Kinds /\ Others(t) /\ pc \in [Thread -> Label] /\ mt \in [Slot -> Table] /\ ctxt \in Context
      /\ Places(t) /\ S \in Slot /\ at[t].gen \in Int
  BY <1>0, OthersStep, Fields DEF Shape, Kinds
<1>b. /\ R \in Int /\ G \in Nat /\ R < G
      /\ \A g \in R + 1 .. G : g \in Int /\ Of(g) \in Slot /\ mt[Of(g)].generation = g
  BY <1>0, InWindow
<1>c. /\ pc[t] = "retire" /\ pc'[t] = "switch" /\ at' = at /\ root' = root /\ inserted' = inserted
      /\ branch' = branch
      /\ ctxt'.retired = R + 1 /\ ctxt'.generation = G /\ ctxt'.is_empty = ctxt.is_empty
      /\ mt[S].state = "INCORPORATION_ASSIGNED" /\ mt'[S].state = "INCORPORATED"
      /\ \A s \in Slot : /\ mt'[s].tree = mt[s].tree /\ mt'[s].generation = mt[s].generation
                         /\ s # S => mt'[s].state = mt[s].state
  <2>1. pc[t] = "retire" /\ pc'[t] = "switch" /\ at' = at /\ root' = root /\ inserted' = inserted /\ branch' = branch
    BY <1>a DEF Retire, At, Goto
  <2>2. ctxt'.retired = R + 1 /\ ctxt'.generation = G /\ ctxt'.is_empty = ctxt.is_empty
    BY <1>0, <1>a DEF Retire, Context
  <2>3. /\ mt[S].state = "INCORPORATION_ASSIGNED" /\ mt'[S].state = "INCORPORATED"
        /\ \A s \in Slot : /\ mt'[s].tree = mt[s].tree /\ mt'[s].generation = mt[s].generation
                           /\ s # S => mt'[s].state = mt[s].state
    BY <1>0, <1>a DEF Retire, Transition, Table
  <2> QED
    BY <2>1, <2>2, <2>3
<1>d. /\ at[t].gen = R + 1 /\ S = Of(R + 1) /\ R + 1 \in R + 1 .. G
      /\ at[t].new = root \cup Tree(R + 1)
      /\ \A u \in Thread : pc[u] = "switch" => FALSE
      /\ \A u \in Thread : ~Seeks(u)
  <2>1. t \notin Reader
    BY <1>c, WorkerHolds DEF Assigned
  <2>2. at[t].gen = R + 1
    BY <1>0, <1>c, <2>1 DEF Core, Mind, Tasks, Assigns, Incorporates, Assigned
  <2>3. at[t].new = root \cup Tree(R + 1) /\ S = Of(R + 1)
    BY <1>0, <1>c, <2>2 DEF Contents, Carries, Mine, Tree
  <2>4. \A u \in Thread : ~(pc[u] = "switch")
    <3> SUFFICES ASSUME NEW u \in Thread, pc[u] = "switch" PROVE FALSE
      OBVIOUS
    <3>1. u # t /\ u \notin Reader
      BY <1>c, WorkerHolds
    <3> QED
      BY <1>c, <2>1, <3>1 DEF Core, Apart, Incorporates, Assigned, Retired
  <2>5. \A u \in Thread : ~Seeks(u)
    BY DEF Retire, Shape, LookupLock, Looking, Seeks
  <2> QED
    BY <1>b, <2>2, <2>3, <2>4, <2>5
<1>e. \A u \in Thread : u # t => pc'[u] = pc[u]
  BY <1>a DEF Others
<1>f. \A u \in Thread : pc'[u] = "switch" => u = t
  BY <1>d, <1>e
<1>g. \A g \in Int : Tree(g)' = Tree(g)
  BY <1>c, SlotOf DEF Tree
<1>1. Ordered'
  <2>1. ASSUME NEW g \in R + 2 .. G, NEW x \in Tree(g)
        PROVE  /\ \A y \in root : y < x
               /\ \A h \in g + 1 .. G : \A y \in Tree(h) : x < y
               /\ \A u \in Thread : pc'[u] = "switch" => \A y \in at[u].new : y < x
    <3>1. g \in R + 1 .. G /\ g \in R + 1 + 1 .. G
      BY <1>b, <2>1
    <3>2. \A y \in Tree(R + 1) : y < x
      BY <1>0, <1>d, <2>1, <3>1 DEF Contents, Ordered, Generation
    <3>3. /\ \A y \in root : y < x
          /\ \A h \in g + 1 .. G : \A y \in Tree(h) : x < y
      BY <1>0, <2>1, <3>1 DEF Contents, Ordered, Generation
    <3> QED
      BY <1>d, <1>f, <3>2, <3>3
  <2>2. \A g \in ctxt'.retired + 1 .. ctxt'.generation : g \in R + 2 .. G /\ g \in Int
    BY <1>b, <1>c
  <2>3. \A g \in R + 2 .. G : \A h \in g + 1 .. G : h \in Int
    BY <1>b
  <2>4. \A x \in root', y \in 1 .. inserted' : y < x => y \in root'
    BY <1>c DEF Contents, Ordered
  <2> QED
    BY <1>c, <1>g, <2>1, <2>2, <2>3, <2>4 DEF Ordered, Generation
<1>2. Complete'
  <2>1. root' \subseteq 1 .. inserted' /\ \A s \in Slot : mt'[s].tree \subseteq 1 .. inserted'
    BY <1>c DEF Contents, Complete
  <2>2. ASSUME NEW x \in 1 .. inserted
        PROVE  \/ x \in root
               \/ \E g \in R + 2 .. G : x \in Tree(g)
               \/ \E u \in Thread : pc'[u] = "switch" /\ x \in at[u].new
    <3>1. x \in root \/ \E g \in R + 1 .. G : x \in Tree(g)
      BY <1>0, <1>d DEF Contents, Complete, Generation
    <3>2. \A g \in R + 1 .. G : g = R + 1 \/ g \in R + 2 .. G
      BY <1>b
    <3> QED
      BY <1>c, <1>d, <3>1, <3>2
  <2>3. ctxt'.retired + 1 = R + 2 /\ \A g \in R + 2 .. G : g \in Int
    BY <1>b, <1>c
  <2> QED
    BY <1>c, <1>g, <2>1, <2>2, <2>3 DEF Complete, Generation
<1>3. Emptied'
  <2>1. Tree(G)' = Tree(G)
    BY <1>b, <1>g
  <2>2. /\ pc[t] \notin {"idle", "finalize", "inserted", "closed"}
        /\ pc'[t] \notin {"idle", "finalize", "inserted", "closed"}
    BY <1>c
  <2>3. Tree(G) # {} => ~ctxt.is_empty \/ \E u \in Thread : pc'[u] = "inserted"
    BY <1>0, <1>e, <2>2 DEF Contents, Emptied, Generation
  <2>4. \A c \in Closer : /\ pc'[c] \notin {"idle", "finalize"} => Tree(G) = {}
                          /\ pc'[c] = "closed" => root = 1 .. inserted
    BY <1>0, <1>e, <2>2 DEF Contents, Emptied, Generation, Thread
  <2> QED
    BY <1>c, <2>1, <2>3, <2>4 DEF Emptied, Generation
<1>4. \A s \in Slot : Packed(s)'
  <2> SUFFICES ASSUME NEW s \in Slot PROVE Packed(s)'
    OBVIOUS
  <2>1. CASE s = S
    BY <1>c, <2>1 DEF Packed
  <2>2. CASE s # S
    BY <1>0, <1>c, <2>2 DEF Contents, Packed, Generation
  <2> QED
    BY <2>1, <2>2
<1>5. ASSUME NEW u \in Thread PROVE Carries(u)' /\ Sought(u)'
  <2>1. Mine(u) \in Slot /\ Mine(u)' = Mine(u) /\ Carries(u) /\ Sought(u) /\ at[u].held \subseteq Int
    BY <1>a, <1>c, Fields DEF Contents, Mine
  <2>2. Carries(u)'
    <3>1. pc'[u] \in {"ready", "block", "retire"} => pc[u] = pc'[u]
      BY <1>c, <1>e
    <3> QED
      BY <1>c, <1>e, <2>1, <3>1 DEF Carries
  <2>3. Sought(u)'
    <3>1. ~Seeks(u)' /\ (pc'[u] \in {"scan", "found"} => pc[u] = pc'[u])
      BY <1>c, <1>d, <1>e DEF Seeks
    <3>2. \A g \in at[u].held : Tree(g)' = Tree(g)
      BY <1>g, <2>1
    <3>3. at'[u].floor <= inserted'
      BY <1>c, <2>1 DEF Sought
    <3>4. ASSUME pc[u] \in {"scan", "found"}, at[u].floor > 0
          PROVE  \E n \in 1 .. inserted :
                   /\ n >= at[u].floor
                   /\ \/ n \in at[u].seen
                      \/ pc[u] # "found" /\ \E g \in at[u].held : n \in Tree(g)
      BY <1>d, <2>1, <3>4 DEF Sought
    <3> QED
      BY <1>c, <3>1, <3>2, <3>3, <3>4 DEF Sought
  <2> QED
    BY <2>2, <2>3
<1> QED
  BY <1>1, <1>2, <1>3, <1>4, <1>5 DEF Contents

\* ... which then takes the place of the old one.
LEMMA SwitchContents ==
  ASSUME ClosesIdle, Shape, Core, Contents, NEW t \in Thread, Acts(t), SwitchRoot(t)
  PROVE  Contents'
<1>0. PICK S, G, R : S = Mine(t) /\ G = ctxt.generation /\ R = ctxt.retired
  OBVIOUS
<1>a. /\ Kinds /\ Others(t) /\ pc \in [Thread -> Label] /\ S \in Slot
  BY <1>0, OthersStep, Fields DEF Shape, Kinds
<1>b. /\ R \in Int /\ G \in Nat /\ R < G
      /\ \A g \in R + 1 .. G : g \in Int
  BY <1>0, InWindow
<1>c. /\ pc[t] = "switch" /\ pc'[t] = "unblock" /\ at' = at /\ inserted' = inserted
      /\ branch' = branch /\ ctxt' = ctxt /\ mt' = mt /\ root' = at[t].new
  BY <1>a DEF SwitchRoot, At, Goto
<1>d. /\ root' = root \cup mt[S].tree
      /\ \A u \in Thread : pc[u] \in {"block", "retire", "switch"} => u = t
      /\ \A u \in Thread : ~Seeks(u)
  <2>1. root' = root \cup mt[S].tree
    BY <1>0, <1>c DEF Contents, Carries
  <2>2. \A u \in Thread : pc[u] \in {"block", "retire", "switch"} => u = t
    BY <1>c DEF Shape, RootClaim
  <2>3. \A u \in Thread : ~Seeks(u)
    BY <1>c DEF Shape, LookupLock, Looking, Seeks
  <2> QED
    BY <2>1, <2>2, <2>3
<1>e. \A u \in Thread : u # t => pc'[u] = pc[u]
  BY <1>a DEF Others
<1>f. \A u \in Thread : pc'[u] \notin {"block", "retire", "switch"}
  BY <1>c, <1>d, <1>e
<1>g. root' \subseteq 1 .. inserted /\ root \subseteq root'
  BY <1>a, <1>d DEF Contents, Complete
<1>1. Ordered'
  <2>1. \A g \in R + 1 .. G : \A x \in Tree(g) : \A y \in root' : y < x
    BY <1>0, <1>c DEF Contents, Ordered, Generation
  <2>2. ASSUME NEW x \in root', NEW y \in 1 .. inserted, y < x PROVE y \in root'
    <3>1. \/ y \in root
          \/ \E g \in R + 1 .. G : y \in Tree(g)
          \/ y \in root'
      BY <1>0, <1>c, <1>d DEF Contents, Complete, Generation
    <3>2. ~ \E g \in R + 1 .. G : y \in Tree(g)
      <4> SUFFICES ASSUME NEW g \in R + 1 .. G, y \in Tree(g) PROVE FALSE
        OBVIOUS
      <4>1. x < y
        BY <2>1
      <4>2. x \in 1 .. inserted
        BY <1>g
      <4> QED
        BY <2>2, <4>1, <4>2
    <3> QED
      BY <1>g, <3>1, <3>2
  <2>3. \A g \in R + 1 .. G : \A x \in Tree(g) : \A h \in g + 1 .. G : \A y \in Tree(h) : x < y
    BY <1>0 DEF Contents, Ordered, Generation
  <2> QED
    BY <1>0, <1>c, <1>f, <2>1, <2>2, <2>3 DEF Ordered, Generation, Tree
<1>2. Complete'
  <2>1. \A s \in Slot : mt[s].tree \subseteq 1 .. inserted
    BY DEF Contents, Complete
  <2>2. ASSUME NEW x \in 1 .. inserted
        PROVE  x \in root' \/ \E g \in R + 1 .. G : x \in Tree(g)
    BY <1>0, <1>c, <1>d, <1>g DEF Contents, Complete, Generation
  <2> QED
    BY <1>0, <1>c, <1>g, <2>1, <2>2 DEF Complete, Generation, Tree
<1>3. Emptied'
  <2>1. /\ pc[t] \notin {"idle", "finalize", "inserted", "closed"}
        /\ pc'[t] \notin {"idle", "finalize", "inserted", "closed"}
    BY <1>c
  <2>2. Tree(G) # {} => ~ctxt.is_empty \/ \E u \in Thread : pc'[u] = "inserted"
    BY <1>0, <1>e, <2>1 DEF Contents, Emptied, Generation
  <2>3. ASSUME NEW c \in Closer
        PROVE  /\ pc'[c] \notin {"idle", "finalize"} => Tree(G) = {}
               /\ pc'[c] = "closed" => root' = 1 .. inserted
    <3>1. pc'[c] \notin {"idle", "finalize"} => pc[c] \notin {"idle", "finalize"}
      BY <1>e, <2>1 DEF Thread
    <3>2. pc'[c] = "closed" => pc[c] = "closed"
      BY <1>e, <2>1 DEF Thread
    <3> QED
      BY <1>0, <1>g, <3>1, <3>2 DEF Contents, Emptied, Generation
  <2> QED
    BY <1>0, <1>c, <2>2, <2>3 DEF Emptied, Generation, Tree
<1>4. \A s \in Slot : Packed(s)'
  BY <1>c DEF Contents, Packed, Generation
<1>5. ASSUME NEW u \in Thread PROVE Carries(u)' /\ Sought(u)'
  <2>1. Carries(u) /\ Sought(u)
    BY DEF Contents
  <2>2. Carries(u)'
    BY <1>c, <1>e, <1>f, <2>1 DEF Carries, Mine
  <2>3. Sought(u)'
    <3>1. ~Seeks(u)' /\ (pc'[u] \in {"scan", "found"} => pc[u] = pc'[u])
      BY <1>c, <1>d, <1>e DEF Seeks
    <3> QED
      BY <1>c, <1>d, <2>1, <3>1 DEF Sought, Tree
  <2> QED
    BY <2>2, <2>3
<1> QED
  BY <1>1, <1>2, <1>3, <1>4, <1>5 DEF Contents

\* A memtable that nobody refers to is emptied and takes its next generation.
LEMMA RecycleContents ==
  ASSUME ClosesIdle, Shape, Core, Contents, NEW t \in Thread, Acts(t), Recycle(t)
  PROVE  Contents'
<1>0. PICK S, G, R : S = Mine(t) /\ G = ctxt.generation /\ R = ctxt.retired
  OBVIOUS
<1>a. /\ Kinds /\ Others(t) /\ pc \in [Thread -> Label] /\ mt \in [Slot -> Table] /\ S \in Slot
      /\ mt[S] \in Table /\ mt[S].generation \in Int /\ at[t].gen \in Int /\ Tables \in Int
      /\ Counts(S) /\ Tasks(t)
  BY <1>0, OthersStep, Fields, MemtablesAssumption DEF Shape, Kinds, Core, Slots, Mind
<1>b. /\ R \in Int /\ G \in Nat /\ R < G
      /\ \A g \in R + 1 .. G : g \in Int /\ Of(g) \in Slot /\ mt[Of(g)].generation = g
      /\ G \in R + 1 .. G
  BY <1>0, InWindow
<1>c. /\ pc[t] = "recycle" /\ pc'[t] = "ready" /\ at' = at /\ root' = root /\ inserted' = inserted
      /\ branch' = branch /\ ctxt' = ctxt
      /\ mt[S].state = "INCORPORATED" /\ mt'[S].state = "INCORPORATED" /\ mt'[S].tree = {}
      /\ \A s \in Slot : s # S => mt'[s] = mt[s]
  <2>1. mt' = [mt EXCEPT ![S] = [[[mt[S] EXCEPT !.tree = {}] EXCEPT !.refs = 1] EXCEPT !.generation = mt[S].generation + Tables]]
    BY <1>0, <1>a DEF Recycle, Table
  <2>2. mt'[S] = [[[mt[S] EXCEPT !.tree = {}] EXCEPT !.refs = 1] EXCEPT !.generation = mt[S].generation + Tables]
    BY <1>a, <2>1
  <2>3. mt'[S].tree = {} /\ mt'[S].state = mt[S].state
    BY <1>a, <2>2 DEF Table
  <2>4. \A s \in Slot : s # S => mt'[s] = mt[s]
    BY <1>a, <2>1
  <2> QED
    BY <1>0, <1>a, <2>3, <2>4 DEF Recycle, At, Goto
<1>d. /\ mt[S].refs = 0 /\ mt[S].generation <= R
      /\ \A u \in Thread : ~Refers(u, S)
  <2>1. mt[S].refs = 0 /\ mt[S].generation <= R
    BY <1>0, <1>a, <1>c DEF Tasks
  <2> QED
    BY <1>a, <2>1, NoneRefers
<1>e. \A u \in Thread : u # t => pc'[u] = pc[u]
  BY <1>a DEF Others
<1>g. /\ \A g \in R + 1 .. G : Tree(g)' = Tree(g)
      /\ \A u \in Thread : \A g \in at[u].held : Tree(g)' = Tree(g)
      /\ \A s \in Slot : mt'[s].tree \subseteq mt[s].tree
  <2>1. \A g \in R + 1 .. G : Of(g) # S
    BY <1>a, <1>b, <1>d
  <2>2. \A g \in R + 1 .. G : Tree(g)' = Tree(g)
    BY <1>b, <1>c, <2>1 DEF Tree
  <2>3. ASSUME NEW u \in Thread, NEW g \in at[u].held PROVE Tree(g)' = Tree(g)
    <3>1. g \in Int /\ Of(g) \in Slot
      BY <1>a, Fields, SlotOf
    <3>2. Of(g) # S
      BY <1>d DEF Refers, Holding
    <3> QED
      BY <1>c, <3>1, <3>2 DEF Tree
  <2>4. \A s \in Slot : mt'[s].tree \subseteq mt[s].tree
    BY <1>c
  <2> QED
    BY <2>2, <2>3, <2>4
<1>1. Ordered'
  <2>1. \A u \in Thread : (pc'[u] = "switch" <=> pc[u] = "switch")
    BY <1>c, <1>e
  <2>2. \A x \in root, y \in 1 .. inserted : y < x => y \in root
    BY DEF Contents, Ordered
  <2>3. ASSUME NEW g \in R + 1 .. G, NEW x \in Tree(g)
        PROVE  /\ \A y \in root : y < x
               /\ \A h \in g + 1 .. G : \A y \in Tree(h)' : x < y
               /\ \A u \in Thread : pc'[u] = "switch" => \A y \in at[u].new : y < x
    <3>1. /\ \A y \in root : y < x
          /\ \A h \in g + 1 .. G : \A y \in Tree(h) : x < y
          /\ \A u \in Thread : pc[u] = "switch" => \A y \in at[u].new : y < x
      BY <1>0, <2>3 DEF Contents, Ordered, Generation
    <3>2. \A h \in g + 1 .. G : h \in R + 1 .. G
      BY <1>b
    <3> QED
      BY <1>g, <2>1, <3>1, <3>2
  <2> QED
    BY <1>0, <1>c, <1>g, <2>2, <2>3 DEF Ordered, Generation
<1>2. Complete'
  <2>1. root \subseteq 1 .. inserted /\ \A s \in Slot : mt'[s].tree \subseteq 1 .. inserted
    BY <1>g DEF Contents, Complete
  <2>2. ASSUME NEW x \in 1 .. inserted
        PROVE  \/ x \in root
               \/ \E g \in R + 1 .. G : x \in Tree(g)'
               \/ \E u \in Thread : pc'[u] = "switch" /\ x \in at[u].new
    BY <1>0, <1>c, <1>e, <1>g DEF Contents, Complete, Generation
  <2> QED
    BY <1>0, <1>c, <2>1, <2>2 DEF Complete, Generation
<1>3. Emptied'
  <2>1. Tree(G)' = Tree(G)
    BY <1>b, <1>g
  <2>2. /\ pc[t] \notin {"idle", "finalize", "inserted", "closed"}
        /\ pc'[t] \notin {"idle", "finalize", "inserted", "closed"}
    BY <1>c
  <2>3. Tree(G) # {} => ~ctxt.is_empty \/ \E u \in Thread : pc'[u] = "inserted"
    BY <1>0, <1>e, <2>2 DEF Contents, Emptied, Generation
  <2>4. \A c \in Closer : /\ pc'[c] \notin {"idle", "finalize"} => Tree(G) = {}
                          /\ pc'[c] = "closed" => root = 1 .. inserted
    BY <1>0, <1>e, <2>2 DEF Contents, Emptied, Generation, Thread
  <2> QED
    BY <1>0, <1>c, <2>1, <2>3, <2>4 DEF Emptied, Generation
<1>4. \A s \in Slot : Packed(s)'
  <2> SUFFICES ASSUME NEW s \in Slot PROVE Packed(s)'
    OBVIOUS
  <2>1. CASE s = S
    BY <1>c, <2>1 DEF Packed
  <2>2. CASE s # S
    BY <1>c, <2>2 DEF Contents, Packed, Generation
  <2> QED
    BY <2>1, <2>2
<1>5. ASSUME NEW u \in Thread PROVE Carries(u)' /\ Sought(u)'
  <2>1. /\ Mine(u) \in Slot /\ Mine(u)' = Mine(u) /\ Carries(u) /\ Sought(u) /\ Tasks(u) /\ Reads(u)
        /\ at[u].gen \in Int
    BY <1>a, <1>c, Fields DEF Contents, Core, Mind, Mine
  <2>2. Carries(u)'
    <3>1. CASE u = t
      BY <1>0, <1>c, <2>1, <3>1 DEF Carries
    <3>2. CASE u # t
      <4>1. pc[u] \in {"block", "retire", "switch"} => Mine(u) # S
        <5>1. pc[u] \in {"block", "retire", "switch"} => u \notin Reader
          BY WorkerHolds DEF Assigned
        <5>2. pc[u] = "switch" => Mine(u) # S
          BY <1>d, <5>1 DEF Refers
        <5>3. pc[u] \in {"block", "retire"} => Mine(u) # S
          BY <1>c, <2>1, <5>1 DEF Tasks, Has, Assigns, Assigned
        <5> QED
          BY <5>2, <5>3
      <4>2. pc[u] = "ready" => mt'[Mine(u)].tree = {}
        BY <1>c, <2>1 DEF Carries
      <4> QED
        BY <1>c, <1>e, <2>1, <3>2, <4>1, <4>2 DEF Carries
    <3> QED
      BY <3>1, <3>2
  <2>3. Sought(u)'
    <3>1. CASE u = t
      BY <1>c, <2>1, <3>1 DEF Sought, Seeks
    <3>2. CASE u # t
      <4>1. pc'[u] = pc[u] /\ at'[u].floor <= inserted'
        BY <1>c, <1>e, <2>1, <3>2 DEF Sought
      <4>2. Seeks(u) => \A g \in R + 1 .. at[u].gen : Tree(g)' = Tree(g)
        <5>1. Seeks(u) => at[u].gen <= G
          BY <1>0, <2>1 DEF Reads, Seeks, Generation
        <5> QED
          BY <1>b, <1>g, <2>1, <5>1
      <4>3. ASSUME Seeks(u) \/ pc[u] \in {"scan", "found"}, at[u].floor > 0
            PROVE  \E n \in 1 .. inserted :
                     /\ n >= at[u].floor
                     /\ \/ n \in at[u].seen
                        \/ pc[u] # "found" /\ \E g \in at[u].held : n \in Tree(g)
                        \/ Seeks(u) /\ n \in root
                        \/ Seeks(u) /\ \E g \in R + 1 .. at[u].gen : n \in Tree(g)
        BY <1>0, <2>1, <4>3 DEF Sought
      <4> QED
        BY <1>0, <1>c, <1>g, <4>1, <4>2, <4>3 DEF Sought, Seeks
    <3> QED
      BY <3>1, <3>2
  <2> QED
    BY <2>2, <2>3
<1> QED
  BY <1>1, <1>2, <1>3, <1>4, <1>5 DEF Contents

\* The window grows by a memtable that is empty.
LEMMA FinalizeContents ==
  ASSUME ClosesIdle, Shape, Core, Contents, Core', NEW t \in Thread, Acts(t), Rotate(t) \/ ForceFinalize(t)
  PROVE  Contents'
<1>0. PICK S, G, R : S = Current /\ G = ctxt.generation /\ R = ctxt.retired
  OBVIOUS
<1>a. /\ Kinds /\ Others(t) /\ pc \in [Thread -> Label] /\ mt \in [Slot -> Table] /\ S \in Slot
      /\ ctxt \in Context /\ at \in [Thread -> Local] /\ at[t] \in Local
  BY <1>0, OthersStep, Fields DEF Shape, Kinds
<1>b. /\ R \in Int /\ G \in Nat /\ R < G /\ S = Of(G)
      /\ \A g \in R + 1 .. G : g \in Int
  BY <1>0, InWindow DEF Current
<1>c. /\ pc[t] \in {"rotate", "finalize"} /\ pc'[t] = "process"
      /\ at'[t].floor = at[t].floor /\ at'[t].held = at[t].held
      /\ root' = root /\ inserted' = inserted /\ branch' = branch
      /\ ctxt'.retired = R /\ ctxt'.generation = G + 1 /\ ctxt'.is_empty = TRUE
      /\ mt[S].state = "READY" /\ mt'[S].state = "FINALIZED"
      /\ \A s \in Slot : /\ mt'[s].tree = mt[s].tree /\ mt'[s].generation = mt[s].generation
                         /\ s # S => mt'[s].state = mt[s].state
  <2>1. pc[t] \in {"rotate", "finalize"} /\ pc'[t] = "process" /\ root' = root /\ inserted' = inserted /\ branch' = branch
    BY <1>a DEF Rotate, ForceFinalize, At, Goto
  <2>2. ctxt' = [ctxt EXCEPT !.generation = @ + 1, !.is_empty = TRUE]
    BY DEF Rotate, ForceFinalize
  <2>3. ctxt'.retired = R /\ ctxt'.generation = G + 1 /\ ctxt'.is_empty = TRUE
    BY <1>0, <1>a, <2>2 DEF Context
  <2>4. Transition(S, "READY", "FINALIZED")
    BY <1>0 DEF Rotate, ForceFinalize
  <2>5. /\ mt[S].state = "READY" /\ mt'[S].state = "FINALIZED"
        /\ \A s \in Slot : /\ mt'[s].tree = mt[s].tree /\ mt'[s].generation = mt[s].generation
                           /\ s # S => mt'[s].state = mt[s].state
    BY <1>a, <2>4 DEF Transition, Table
  <2>6. at'[t].floor = at[t].floor /\ at'[t].held = at[t].held
    <3>1. at' = at \/ at' = [at EXCEPT ![t].gen = ctxt.generation]
      BY DEF Rotate, ForceFinalize
    <3> QED
      BY <1>a, <3>1 DEF Local
  <2> QED
    BY <2>1, <2>3, <2>5, <2>6
<1>e. \A u \in Thread : u # t => pc'[u] = pc[u] /\ at'[u] = at[u]
  BY <1>a DEF Others
<1>g. \A g \in Int : Tree(g)' = Tree(g)
  BY <1>c, SlotOf DEF Tree
<1>h. Tree(G + 1) = {}
  <2>1. G + 1 \in Int /\ Of(G + 1) \in Slot /\ G + 1 \in R + 1 .. G + 1
    BY <1>b, SlotOf
  <2>2. mt'[Of(G + 1)].generation = G + 1 /\ mt'[Of(G + 1)].state = "READY"
    BY <1>c, <2>1 DEF Core, Window, Generation, Current
  <2>3. mt[Of(G + 1)].generation = G + 1 /\ mt[Of(G + 1)].state = "READY"
    BY <1>c, <2>1, <2>2
  <2> QED
    BY <1>0, <1>b, <2>1, <2>3 DEF Contents, Packed, Tree, Generation
<1>i. \A u \in Thread : pc'[u] = "switch" => pc[u] = "switch" /\ at'[u] = at[u]
  BY <1>c, <1>e
<1>1. Ordered'
  <2>1. \A x \in root, y \in 1 .. inserted : y < x => y \in root
    BY DEF Contents, Ordered
  <2>2. ASSUME NEW g \in R + 1 .. G + 1, NEW x \in Tree(g)
        PROVE  /\ \A y \in root : y < x
               /\ \A h \in g + 1 .. G + 1 : \A y \in Tree(h) : x < y
               /\ \A u \in Thread : pc'[u] = "switch" => \A y \in at'[u].new : y < x
    <3>1. g \in R + 1 .. G
      BY <1>b, <1>h, <2>2
    <3>2. /\ \A y \in root : y < x
          /\ \A h \in g + 1 .. G : \A y \in Tree(h) : x < y
          /\ \A u \in Thread : pc[u] = "switch" => \A y \in at[u].new : y < x
      BY <1>0, <2>2, <3>1 DEF Contents, Ordered, Generation
    <3>3. \A h \in g + 1 .. G + 1 : h \in g + 1 .. G \/ h = G + 1
      BY <1>b, <3>1
    <3> QED
      BY <1>h, <1>i, <3>2, <3>3
  <2>3. \A g \in R + 1 .. G + 1 : g \in Int /\ \A h \in g + 1 .. G + 1 : h \in Int
    BY <1>b
  <2> QED
    BY <1>c, <1>g, <2>1, <2>2, <2>3 DEF Ordered, Generation
<1>2. Complete'
  <2>1. root \subseteq 1 .. inserted /\ \A s \in Slot : mt'[s].tree \subseteq 1 .. inserted
    BY <1>c DEF Contents, Complete
  <2>2. ASSUME NEW x \in 1 .. inserted
        PROVE  \/ x \in root
               \/ \E g \in R + 1 .. G + 1 : x \in Tree(g)'
               \/ \E u \in Thread : pc'[u] = "switch" /\ x \in at'[u].new
    <3>1. \/ x \in root
          \/ \E g \in R + 1 .. G : x \in Tree(g)
          \/ \E u \in Thread : pc[u] = "switch" /\ x \in at[u].new
      BY <1>0 DEF Contents, Complete, Generation
    <3>2. \A g \in R + 1 .. G : g \in R + 1 .. G + 1 /\ Tree(g)' = Tree(g)
      BY <1>b, <1>g
    <3>3. \A u \in Thread : pc[u] = "switch" => pc'[u] = "switch" /\ at'[u] = at[u]
      BY <1>c, <1>e
    <3> QED
      BY <3>1, <3>2, <3>3
  <2> QED
    BY <1>c, <2>1, <2>2 DEF Complete, Generation
<1>3. Emptied'
  <2>1. Tree(G + 1)' = {}
    BY <1>b, <1>g, <1>h
  <2>2. \A c \in Closer : pc'[c] = "closed" => root = 1 .. inserted
    BY <1>c, <1>e DEF Contents, Emptied, Thread
  <2> QED
    BY <1>c, <2>1, <2>2 DEF Emptied, Generation
<1>4. \A s \in Slot : Packed(s)'
  <2> SUFFICES ASSUME NEW s \in Slot PROVE Packed(s)'
    OBVIOUS
  <2>1. CASE s = S
    BY <1>c, <2>1 DEF Packed
  <2>2. CASE s # S
    <3>1. mt[s].generation \in Int
      BY <1>a, Fields
    <3> QED
      BY <1>0, <1>b, <1>c, <2>2, <3>1 DEF Contents, Packed, Generation
  <2> QED
    BY <2>1, <2>2
<1>5. ASSUME NEW u \in Thread PROVE Carries(u)' /\ Sought(u)'
  <2>1. Mine(u) \in Slot /\ Carries(u) /\ Sought(u) /\ at[u].held \subseteq Int /\ at[u].gen \in Int
    BY <1>a, Fields DEF Contents
  <2>2. CASE u = t
    BY <1>c, <2>1, <2>2 DEF Carries, Sought, Seeks
  <2>3. CASE u # t
    <3>1. pc'[u] = pc[u] /\ at'[u] = at[u] /\ Mine(u)' = Mine(u)
      BY <1>e, <2>3 DEF Mine
    <3>2. Carries(u)'
      BY <1>c, <2>1, <3>1 DEF Carries
    <3>3. /\ \A g \in at[u].held : Tree(g)' = Tree(g)
          /\ \A g \in R + 1 .. at[u].gen : Tree(g)' = Tree(g)
      BY <1>b, <1>g, <2>1
    <3>4. at'[u].floor <= inserted'
      BY <1>c, <2>1, <3>1 DEF Sought
    <3>5. ASSUME Seeks(u) \/ pc[u] \in {"scan", "found"}, at[u].floor > 0
          PROVE  \E n \in 1 .. inserted :
                   /\ n >= at[u].floor
                   /\ \/ n \in at[u].seen
                      \/ pc[u] # "found" /\ \E g \in at[u].held : n \in Tree(g)
                      \/ Seeks(u) /\ n \in root
                      \/ Seeks(u) /\ \E g \in R + 1 .. at[u].gen : n \in Tree(g)
      BY <1>0, <2>1, <3>5 DEF Sought
    <3>6. Sought(u)'
      BY <1>c, <3>1, <3>3, <3>4, <3>5 DEF Sought, Seeks
    <3> QED
      BY <3>2, <3>6
  <2> QED
    BY <2>2, <2>3
<1> QED
  BY <1>1, <1>2, <1>3, <1>4, <1>5 DEF Contents

\* A step without effect.
LEMMA ContentsStutter ==
  ASSUME Contents, UNCHANGED vars
  PROVE  Contents'
<1>1. /\ ctxt' = ctxt /\ mt' = mt /\ branch' = branch /\ root' = root /\ pc' = pc /\ at' = at
      /\ inserted' = inserted
  BY DEF vars, data, queue
<1>2. Ordered' /\ Complete' /\ Emptied'
  BY <1>1 DEF Contents, Ordered, Complete, Emptied, Tree, Generation
<1>3. \A s \in Slot : Packed(s)'
  BY <1>1 DEF Contents, Packed, Generation
<1>4. \A t \in Thread : Carries(t)' /\ Sought(t)'
  <2> SUFFICES ASSUME NEW t \in Thread PROVE Carries(t)' /\ Sought(t)'
    OBVIOUS
  <2>1. Carries(t) /\ Sought(t)
    BY DEF Contents
  <2>2. Carries(t)'
    BY <1>1, <2>1 DEF Carries, Mine
  <2>3. Sought(t)'
    BY <1>1, <2>1 DEF Sought, Seeks, Tree
  <2> QED
    BY <2>2, <2>3
<1> QED
  BY <1>2, <1>3, <1>4 DEF Contents

LEMMA ContentsActs ==
  ASSUME ClosesIdle, Shape, Core, Contents, Core', NEW t \in Thread, Acts(t)
  PROVE  Contents'
<1>1. CASE \/ BeginInsert(t) \/ BeginAgain(t) \/ HasRoom(t) \/ Busy(t) \/ BusyWaits(t)
           \/ Rotating(t) \/ AfterWaits(t) \/ Process(t) \/ UnblockLookups(t) \/ TaskDone(t)
           \/ BeginLookup(t) \/ Found(t) \/ Release(t) \/ WorkerTakes(t) \/ BusyWorks(t)
           \/ AfterWorks(t) \/ DrainOne(t) \/ EndCompact(t) \/ TryStart(t) \/ DecRef(t)
           \/ TryContinue(t)
  BY <1>1, PlainActs
<1>2. CASE \/ EndInsert(t) \/ CopyRoot(t) \/ BlockLookups(t) \/ Close(t) \/ Closed(t)
           \/ Compact(t) \/ Ready(t)
  BY <1>2, LookActs
<1>3. CASE \/ ReadGenerations(t) \/ PickTable(t) \/ ReadTable(t) \/ KeepTable(t) \/ ReadRoot(t) \/ Scan(t)
  BY <1>3, ReadActs
<1>4. CASE TreeInsert(t)
  BY <1>4, TreeInsertStep
<1>5. CASE Retire(t) \/ SwitchRoot(t)
  BY <1>5, RetireContents, SwitchContents
<1>6. CASE Recycle(t)
  BY <1>6, RecycleContents
<1>7. CASE Rotate(t) \/ ForceFinalize(t)
  BY <1>7, FinalizeContents
<1> QED
  BY <1>1, <1>2, <1>3, <1>4, <1>5, <1>6, <1>7 DEF Acts, InsertStep, FlushStep, ReadStep, CloseStep

LEMMA ContentsStep ==
  ASSUME ClosesIdle, Shape, Core, Contents, [Next]_vars
  PROVE  Contents'
<1>1. Core'
  BY CoreStep
<1>2. CASE Next
  <2>1. PICK t \in Thread : Acts(t)
    BY <1>2 DEF Next, Step, Acts
  <2> QED
    BY <1>1, <2>1, ContentsActs
<1>3. CASE UNCHANGED vars
  BY <1>3, ContentsStutter
<1> QED
  BY <1>2, <1>3

-----------------------------------------------------------------------------
(* What the invariant says of the properties.                              *)

Inv == Shape /\ Core /\ Contents

LEMMA InvTypes == Inv => TypeOK
<1> SUFFICES ASSUME Inv PROVE TypeOK
  OBVIOUS
<1>a. Shape /\ Core /\ Kinds
  BY DEF Inv, Shape
<1>1. ctxt \in [generation : Nat, to_incorporate : Nat, retired : Nat \cup {-1}, is_empty : BOOLEAN]
  <2>1. ctxt \in Context /\ ctxt.to_incorporate >= 0
    BY <1>a DEF Kinds, Core, Turn
  <2> QED
    BY <2>1 DEF Context
<1>2. mt \in [Slot -> [state : States, generation : Nat, tree : SUBSET Insert, refs : Nat]]
  <2>1. ASSUME NEW s \in Slot
        PROVE  mt[s] \in [state : States, generation : Nat, tree : SUBSET Insert, refs : Nat]
    <3>1. mt[s] \in Table
      BY <1>a DEF Kinds
    <3>2. Cardinality({t \in Thread : Refers(t, s)}) \in Nat
      BY RefersFinite, FS_CardinalityType
    <3>3. PICK n : n = Cardinality({t \in Thread : Refers(t, s)})
      OBVIOUS
    <3>4. n \in Nat /\ mt[s].refs = n + IF mt[s].state = "INCORPORATED" THEN 0 ELSE 1
      BY <1>a, <3>2, <3>3 DEF Core, Slots, Counts
    <3>5. mt[s].refs \in Nat
      BY <3>4
    <3> QED
      BY <3>1, <3>5 DEF Table
  <2> QED
    BY <1>a, <2>1 DEF Kinds
<1>3. tasks \in Seq(Nat) /\ executing \in Nat
  <2>1. \A i \in DOMAIN tasks : tasks[i] \in Nat
    <3> SUFFICES ASSUME NEW i \in DOMAIN tasks PROVE tasks[i] \in Nat
      OBVIOUS
    <3>1. mt[Of(tasks[i])].generation = tasks[i] /\ Of(tasks[i]) \in Slot
      BY <1>a, SlotOf DEF Core, Queue, Kinds
    <3> QED
      BY <1>2, <3>1
  <2>2. tasks \in Seq(Nat)
    <3>1. tasks \in Seq(Int)
      BY <1>a DEF Kinds
    <3>2. Len(tasks) \in Nat /\ DOMAIN tasks = 1 .. Len(tasks) /\ tasks = [i \in 1 .. Len(tasks) |-> tasks[i]]
      BY <3>1
    <3>3. tasks \in [1 .. Len(tasks) -> Nat]
      BY <2>1, <3>2
    <3> QED
      BY <3>2, <3>3
  <2>3. IsFiniteSet({t \in Thread : Works(t)})
    BY ThreadsDisjoint, FS_Subset
  <2>4. executing \in Nat
    BY <1>a, <2>3, FS_CardinalityType DEF Shape, Counted
  <2> QED
    BY <2>2, <2>4
<1>4. at \in [Thread -> [gen : Nat \cup {-1}, last : Nat \cup {-1}, new : SUBSET Insert,
                         seen : SUBSET Insert, floor : Nat, from : {"", "branch", "memtable"},
                         held : SUBSET Nat, scan : BOOLEAN, back : {"idle", "begin", "drain"}]]
  <2>1. ASSUME NEW t \in Thread
        PROVE  at[t] \in [gen : Nat \cup {-1}, last : Nat \cup {-1}, new : SUBSET Insert,
                          seen : SUBSET Insert, floor : Nat, from : {"", "branch", "memtable"},
                          held : SUBSET Nat, scan : BOOLEAN, back : {"idle", "begin", "drain"}]
    <3>1. at[t] \in Local /\ Keeps(t)
      BY <1>a DEF Kinds, Core, Mind
    <3>2. at[t].gen \in Int /\ at[t].held \subseteq Int
      BY <3>1 DEF Local
    <3>3. at[t].gen \in Nat \cup {-1}
      BY <3>1, <3>2 DEF Keeps
    <3>4. ASSUME NEW g \in at[t].held PROVE g \in Nat
      <4>1. mt[Of(g)].generation = g /\ Of(g) \in Slot
        BY <3>1, <3>2, SlotOf DEF Keeps, Holding
      <4> QED
        BY <1>2, <4>1
    <3>5. at[t].held \in SUBSET Nat
      BY <3>4
    <3> QED
      BY <3>1, <3>3, <3>5 DEF Local
  <2> QED
    BY <1>a, <2>1 DEF Kinds
<1> QED
  BY <1>a, <1>1, <1>2, <1>3, <1>4 DEF Kinds, TypeOK, RwLock

LEMMA InvFresh == Inv => ReadsFresh
<1> SUFFICES ASSUME Inv PROVE ReadsFresh
  OBVIOUS
<1>a. Shape /\ Core /\ Contents
  BY DEF Inv
<1>1. WindowThere
  <2> SUFFICES ASSUME NEW r \in Reader, At(r, "tables"), NEW g \in (at[r].last + 1) .. at[r].gen
               PROVE  mt[Of(g)].generation = g /\ mt[Of(g)].state \notin {"INCORPORATING", "INCORPORATED"}
    BY DEF WindowThere
  <2>1. r \in Thread /\ at[r].gen \in Int /\ at[r].last = ctxt.retired /\ at[r].gen <= Generation
    BY <1>a, Fields DEF Thread, Core, Mind, Reads, At, Shape
  <2>2. g \in ctxt.retired + 1 .. ctxt.generation
    BY <1>a, <2>1, InWindow DEF Generation
  <2>3. /\ Of(g) \in Slot /\ mt[Of(g)].generation = g /\ mt[Of(g)].state # "INCORPORATED"
    BY <1>a, <2>2, InWindow
  <2> QED
    BY <1>a, <2>3 DEF Core, Slots, Bounds
<1>2. ASSUME NEW r \in Reader, At(r, "found"), at[r].floor > 0
      PROVE  \E n \in at[r].seen : n >= at[r].floor
  <2>1. r \in Thread /\ Sought(r) /\ pc[r] = "found"
    BY <1>a, <1>2 DEF Thread, Contents, At
  <2> QED
    BY <1>2, <2>1 DEF Sought, Seeks
<1> QED
  BY <1>1, <1>2 DEF ReadsFresh

\* The order of the numbers, which is well founded.
Less == OpToRel(<, Nat)
LEMMA LessWellFounded == IsWellFoundedOn(Less, Nat)
  BY NatLessThanWellFounded DEF Less

LEMMA SmallestMember ==
  ASSUME NEW S \in SUBSET Nat, S # {}
  PROVE  \E m \in S : \A n \in S : m <= n
<1>1. PICK m \in S : \A n \in S : <<n, m>> \notin Less
  BY WFMin, LessWellFounded, Zenon
<1>2. ASSUME NEW a \in Nat, NEW b \in Nat, <<a, b>> \notin Less
      PROVE  ~(a < b)
  BY <1>2, Zenon DEF Less, OpToRel
<1>3. \A n \in S : ~(n < m)
  BY <1>1, <1>2
<1> QED
  BY <1>3

\* A set of the first numbers that leaves none out is as long as it is large.
LEMMA FirstNumbers ==
  ASSUME NEW n \in Nat, NEW S \in SUBSET (1 .. n), \A x \in S, y \in 1 .. n : y < x => y \in S
  PROVE  S = 1 .. Cardinality(S)
<1> DEFINE Ends == {i \in Nat : i + 1 \notin S}
<1>1. Ends \in SUBSET Nat /\ n \in Ends
  OBVIOUS
<1>2. PICK m \in Ends : \A i \in Ends : m <= i
  BY <1>1, SmallestMember
<1>3. m \in Nat /\ m + 1 \notin S
  OBVIOUS
<1>4. ASSUME NEW x \in 1 .. m PROVE x \in S
  <2>1. x - 1 \in Nat /\ (x - 1) + 1 = x /\ ~(m <= x - 1)
    BY <1>3
  <2> QED
    BY <1>2, <2>1
<1>5. ASSUME NEW x \in S PROVE x \in 1 .. m
  <2>1. x \in 1 .. n
    OBVIOUS
  <2>2. ~(m + 1 < x)
    <3> SUFFICES ASSUME m + 1 < x PROVE FALSE
      OBVIOUS
    <3>1. m + 1 \in 1 .. n
      BY <1>3, <2>1
    <3> QED
      BY <1>3, <3>1
  <2>3. x # m + 1
    BY <1>3
  <2> QED
    BY <1>3, <2>1, <2>2, <2>3
<1>6. S = 1 .. m
  BY <1>4, <1>5
<1>7. Cardinality(1 .. m) = m
  <2>1. Cardinality(1 .. m) = IF 1 > m THEN 0 ELSE m - 1 + 1
    BY <1>3, FS_Interval
  <2> QED
    BY <1>3, <2>1
<1> QED
  BY <1>6, <1>7

LEMMA InvNothingLost == Inv => NothingLost
<1> SUFFICES ASSUME Inv PROVE NothingLost
  OBVIOUS
<1>a. Shape /\ Core /\ Contents /\ TypeOK
  BY InvTypes DEF Inv
<1>b. /\ ctxt.retired \in Int /\ ctxt.generation \in Nat /\ ctxt.retired < ctxt.generation
      /\ \A g \in ctxt.retired + 1 .. ctxt.generation :
           g \in Int /\ Of(g) \in Slot /\ mt[Of(g)].generation = g
  BY <1>a, InWindow
<1>1. WindowFits
  <2>1. PICK g : g = ctxt.retired + 1
    OBVIOUS
  <2>2. Of(g) \in Slot /\ mt[Of(g)].generation = g /\ g \in Int
    BY <1>b, <2>1
  <2>3. Generation - Tables < g
    BY <1>a, <2>2 DEF Core, Slots, Bounds
  <2> QED
    BY <1>b, <2>1, <2>3, MemtablesAssumption DEF WindowFits, Generation
<1>2. CurrentReady
  BY <1>a DEF CurrentReady, Core, Window
<1>3. root = 1 .. Cardinality(root)
  <2>1. inserted \in Nat /\ root \in SUBSET (1 .. inserted)
    BY <1>a DEF TypeOK, Contents, Complete
  <2>2. \A x \in root, y \in 1 .. inserted : y < x => y \in root
    BY <1>a DEF Contents, Ordered
  <2> QED
    BY <2>1, <2>2, FirstNumbers
<1>4. ASSUME \A t \in Thread : ~At(t, "switch")
      PROVE  root \cup UNION {mt[Of(g)].tree : g \in (ctxt.retired + 1) .. ctxt.generation} = 1 .. inserted
  <2>1. /\ root \subseteq 1 .. inserted
        /\ \A g \in ctxt.retired + 1 .. ctxt.generation : mt[Of(g)].tree \subseteq 1 .. inserted
        /\ \A x \in 1 .. inserted :
             x \in root \/ \E g \in ctxt.retired + 1 .. ctxt.generation : x \in mt[Of(g)].tree
    BY <1>a, <1>b, <1>4 DEF Contents, Complete, Tree, Generation, At
  <2> QED
    BY <2>1
<1> QED
  BY <1>a, <1>1, <1>2, <1>3, <1>4 DEF NothingLost

LEMMA InvHandedOn == Inv => HandedOn
<1> SUFFICES ASSUME Inv PROVE HandedOn
  OBVIOUS
<1>a. Shape /\ Core /\ Contents
  BY DEF Inv
<1>1. ASSUME Quiescent, \A t \in Thread : ~At(t, "process")
      PROVE  ctxt.retired = ctxt.generation - 1
  <2>1. \A t \in Thread : ~Works(t) /\ pc[t] # "process"
    BY <1>a, <1>1, Resting DEF Quiescent, At
  <2> QED
    BY <1>a, <1>1, <2>1, NothingWaits DEF Quiescent
<1>2. ASSUME NEW t \in Closer, At(t, "closed") PROVE root = 1 .. inserted
  BY <1>a, <1>2 DEF Contents, Emptied, At
<1> QED
  BY <1>1, <1>2 DEF HandedOn

-----------------------------------------------------------------------------
(* The theorems.  ClosesIdle is what the application owes: without it      *)
(* trunk_prepare_for_shutdown finalizes a memtable whose successor may not *)
(* be ready (memtable.c:266 reads no state of it).                         *)

\* The memtables, their queue, the locks and the trunk go together as Inv says
\* in every state of every run, whatever the threads, the memtables and their
\* capacity are.
THEOREM Invariance == ClosesIdle => (Spec => []Inv)
<1> SUFFICES ASSUME ClosesIdle PROVE Spec => []Inv
  OBVIOUS
<1>1. Init => Inv
  BY ShapeInit, CoreInit, ContentsInit DEF Inv
<1>2. Inv /\ [Next]_vars => Inv'
  <2> SUFFICES ASSUME Inv, [Next]_vars PROVE Inv'
    OBVIOUS
  <2>1. Shape' /\ Core' /\ Contents'
    BY ShapeStep, CoreStep, ContentsStep DEF Inv
  <2> QED
    BY <2>1 DEF Inv
<1> QED
  BY <1>1, <1>2, PTL DEF Spec

\* Every variable of the memtables keeps its type; the counts, those of
\* references and of running tasks among them, do not fall below zero.
THEOREM TypeCorrectness == ClosesIdle => (Spec => []TypeOK)
<1> SUFFICES ASSUME ClosesIdle PROVE Spec => []TypeOK
  OBVIOUS
<1>1. Spec => []Inv
  BY Invariance
<1> QED
  BY <1>1, InvTypes, PTL

\* What trunk_get_memtable and trunk_memtable_root_addr_for_lookup assert holds
\* of every memtable a lookup or an iterator looks at, and neither misses the
\* newest insert there was when it began.
THEOREM ReadsAreFresh == ClosesIdle => (Spec => []ReadsFresh)
<1> SUFFICES ASSUME ClosesIdle PROVE Spec => []ReadsFresh
  OBVIOUS
<1>1. Spec => []Inv
  BY Invariance
<1> QED
  BY <1>1, InvFresh, PTL

\* The window of the memtables fits in their array (the assertion of
\* memtable.c:276), the current one is ready, the trunk has the oldest inserts
\* without a gap and between them nothing is lost.
THEOREM InsertsKept == ClosesIdle => (Spec => []NothingLost)
<1> SUFFICES ASSUME ClosesIdle PROVE Spec => []NothingLost
  OBVIOUS
<1>1. Spec => []Inv
  BY Invariance
<1> QED
  BY <1>1, InvNothingLost, PTL

\* No finalized memtable is forgotten: when no task waits or runs all have been
\* incorporated, and a closed database has all its inserts in the trunk.
THEOREM TurnsHandedOn == ClosesIdle => (Spec => []HandedOn)
<1> SUFFICES ASSUME ClosesIdle PROVE Spec => []HandedOn
  OBVIOUS
<1>1. Spec => []Inv
  BY Invariance
<1> QED
  BY <1>1, InvHandedOn, PTL
=============================================================================
