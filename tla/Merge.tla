-------------------------------- MODULE Merge --------------------------------
(***************************************************************************)
(* The merge iterator of merge.c: it walks over several sorted iterators   *)
(* as if over one, in either direction, and merges the messages they have  *)
(* for the same key.  Its inputs are in the order of their age, the oldest *)
(* first, and none has a key twice.  A call of next or prev is a loop of   *)
(* steps here (pc), of which the caller sees the end ("idle").             *)
(*                                                                         *)
(* A message is its class and the inputs that went into it, newest first.  *)
(***************************************************************************)
EXTENDS Messages, Integers, FiniteSets, SequencesExt

CONSTANTS
  Turns,     \* where the caller may change direction: "everywhere";
             \* "single": where one input has the key, or none is left; or
             \* "unmarked": there, and if the turn leaves no old flag behind
  MaxCalls   \* the bound on calls of next and prev

ASSUME MergeAssumption == Turns \in {"everywhere", "single", "unmarked"} /\ MaxCalls \in Nat

VARIABLES
  inputs,      \* the input iterators' pairs: sequences of [key, class]
  mode,        \* the merge_behavior: "raw", "intermediate" or "full"
  pos,         \* where each input iterator is; 0 and beyond its length: dead
  order,       \* ordered_iterators: the inputs, the live ones sorted
  remaining,   \* num_remaining
  equal,       \* next_key_equal of each
  heads,       \* curr_key and curr_data of each; the dead may keep old ones
  forwards, can_prev, can_next,
  curr,        \* curr_key and curr_data
  pc,          \* "idle" or the step the call has come to
  place,       \* history: where the caller should be in Reference
  calls

mergeVars == <<inputs, mode, pos, order, remaining, equal, heads, forwards, can_prev,
               can_next, curr, pc, place, calls>>

Nothing == [key |-> -1, class |-> "none", from |-> <<>>]

Live(i, p) == p \in DOMAIN inputs[i]
KeyAt(i, p) == inputs[i][p].key
Item(ins, i, p) == [key |-> ins[i][p].key, class |-> ins[i][p].class, from |-> <<i>>]

-----------------------------------------------------------------------------
(* What the iterator promises: the merged pairs in order, defined without  *)
(* its loops.                                                              *)

\* The elements of a set in this order.
Sorted(S, Less(_, _)) ==
  [n \in 1 .. Cardinality(S) |-> CHOOSE x \in S : Cardinality({y \in S : Less(y, x)}) = n - 1]

KeysOf(seq) == {seq[j].key : j \in DOMAIN seq}
Keys(ins)   == UNION {KeysOf(ins[i]) : i \in DOMAIN ins}
ClassOf(seq, k)  == seq[CHOOSE j \in DOMAIN seq : seq[j].key = k].class
Holders(ins, k)  == {i \in DOMAIN ins : k \in KeysOf(ins[i])}
Newest(ins, k)   == Sorted(Holders(ins, k), LAMBDA a, b : a > b)
Ascending(S)     == Sorted(S, LAMBDA a, b : a < b)

\* The updates newer than the newest insert or delete apply to it.
MergedPair(ins, k) ==
  LET h == Newest(ins, k)
      class(n) == ClassOf(ins[h[n]], k)
      base == {n \in DOMAIN h : class(n) # "update"}
      n == IF base = {} THEN Len(h) ELSE CHOOSE x \in base : \A y \in base : x <= y
      onDelete == class(n) = "delete" /\ n > 1
  IN [key |-> k,
      class |-> IF onDelete THEN "insert" ELSE class(n),
      from |-> SubSeq(h, 1, IF onDelete THEN n - 1 ELSE n)]

\* Every copy of a key by itself, the newest first.
RawPairs(ins, k) ==
  [m \in DOMAIN Newest(ins, k) |->
     LET i == Newest(ins, k)[m] IN [key |-> k, class |-> ClassOf(ins[i], k), from |-> <<i>>]]

Reference(ins, how) ==
  LET all == Ascending(Keys(ins))
      pairs == [n \in DOMAIN all |-> MergedPair(ins, all[n])]
  IN IF how = "raw" THEN FlattenSeq([n \in DOMAIN all |-> RawPairs(ins, all[n])])
     ELSE IF how = "intermediate" THEN pairs
     ELSE SelectSeq([n \in DOMAIN pairs |-> Finalized(pairs[n])],
                    LAMBDA p : p.class # "delete")

-----------------------------------------------------------------------------
(* The array of ordered iterators.                                         *)

\* Mutant: of two equal keys the older input comes first.
BeforeOldest(ins, at, f, i, j) ==
  LET a == ins[i][at[i]].key
      b == ins[j][at[j]].key
  IN (IF f THEN a < b ELSE a > b) \/ (a = b /\ i < j)

\* bsearch_comp, with the iterators at these positions: by key in the
\* direction of travel, the newest first among equal keys.
Before(ins, at, f, i, j) ==
  LET a == ins[i][at[i]].key
      b == ins[j][at[j]].key
  IN (IF f THEN a < b ELSE a > b) \/ (a = b /\ i > j)

Ahead(p) == IF forwards THEN p + 1 ELSE p - 1

\* advance_and_resort_min_ritor: the first iterator goes on; at its end it is
\* put behind the live ones, else where it belongs among them.
AdvanceFirst ==
  LET i == order[1]
      p == Ahead(pos[i])
      at == [pos EXCEPT ![i] = p]
      others == SubSeq(order, 2, remaining)
      dead == SubSeq(order, remaining + 1, Len(order))
  IN
  /\ pos' = at
  /\ heads' = [heads EXCEPT ![i] = IF Live(i, p) THEN Item(inputs, i, p) ELSE Nothing]
  /\ UNCHANGED <<inputs, forwards>>
  /\ IF ~Live(i, p)
     THEN /\ remaining' = remaining - 1
          /\ order' = others \o <<i>> \o dead
          /\ equal' = [equal EXCEPT ![i] = FALSE]
     ELSE LET n == Cardinality({j \in DOMAIN others : Before(inputs, at, forwards, others[j], i)})
              same(j) == KeyAt(others[j], at[others[j]]) = KeyAt(i, p)
          IN /\ remaining' = remaining
             /\ order' = SubSeq(others, 1, n) \o <<i>> \o SubSeq(others, n + 1, Len(others)) \o dead
             /\ equal' = [j \in DOMAIN equal |->
                  IF j = i THEN n < Len(others) /\ same(n + 1)
                  ELSE IF n > 0 /\ j = others[n] THEN same(n)
                  ELSE equal[j]]

\* Every dead iterator changes places with the last one not yet looked at.
LiveFirst(ord, live) ==
  FoldLeft(LAMBDA s, x :
             IF s.ord[s.i] \in live THEN [s EXCEPT !.i = @ + 1]
             ELSE [s EXCEPT !.ord[s.i] = s.ord[s.n], !.ord[s.n] = s.ord[s.i], !.n = @ - 1],
           [ord |-> ord, i |-> 1, n |-> Len(ord)], ord).ord

\* setup_ordered_iterators, up to its first advance_one_loop, of iterators that
\* were in this order with these flags and heads.  The last live iterator and
\* the dead ones keep their flags, the dead ones also their heads.
SetUp(ins, at, f, ord, flags, held) ==
  LET live == {i \in DOMAIN ins : at[i] \in DOMAIN ins[i]}
      sorted == Sorted(live, LAMBDA i, j : Before(ins, at, f, i, j))
      key(n) == ins[sorted[n]][at[sorted[n]]].key
      rank(i) == CHOOSE n \in DOMAIN sorted : sorted[n] = i
  IN
  /\ pos' = at /\ forwards' = f
  /\ can_prev' = \E i \in DOMAIN ins : at[i] > 0
  /\ can_next' = \E i \in DOMAIN ins : at[i] <= Len(ins[i])
  /\ remaining' = Len(sorted)
  /\ order' = sorted \o SubSeq(LiveFirst(ord, live), Len(sorted) + 1, Len(ord))
  /\ heads' = [i \in DOMAIN ins |-> IF i \in live THEN Item(ins, i, at[i]) ELSE held[i]]
  /\ equal' = [i \in DOMAIN ins |->
       IF i \in live /\ rank(i) < Len(sorted) THEN key(rank(i)) = key(rank(i) + 1)
       ELSE flags[i]]
  /\ pc' = "loop"

-----------------------------------------------------------------------------
(* The calls.                                                              *)

MergeInit ==
  /\ pos = <<>> /\ order = <<>> /\ remaining = 0 /\ equal = <<>> /\ heads = <<>>
  /\ forwards = TRUE /\ can_prev = FALSE /\ can_next = FALSE
  /\ curr = Nothing /\ pc = "new" /\ place = 1 /\ calls = 0

\* merge_iterator_create, over iterators that have been positioned: it will
\* walk forwards.
Create(ins, at) ==
  /\ inputs' = ins
  /\ SetUp(ins, at, TRUE, [i \in DOMAIN ins |-> i], [i \in DOMAIN ins |-> FALSE],
           [i \in DOMAIN ins |-> Nothing])
  /\ curr' = Nothing

\* Where the iterators are that were told to start at the first key that is
\* not less, or at the last that is less.
FirstNotLess(ins, k) == [i \in DOMAIN ins |-> 1 + Cardinality({x \in KeysOf(ins[i]) : x < k})]
LastLess(ins, k)     == [i \in DOMAIN ins |-> Cardinality({x \in KeysOf(ins[i]) : x < k})]

\* Mutant: the dead iterators are not stepped.
SetDirectionLive(f) ==
  SetUp(inputs, [i \in DOMAIN inputs |->
           IF ~Live(i, pos[i]) THEN pos[i] ELSE IF f THEN pos[i] + 1 ELSE pos[i] - 1],
        f, order, equal, heads)

\* merge_iterator_set_direction: every iterator that can, dead ones too, steps
\* in the new direction.
SetDirection(f) ==
  SetUp(inputs, [i \in DOMAIN inputs |->
           IF f /\ pos[i] <= Len(inputs[i]) THEN pos[i] + 1
           ELSE IF ~f /\ pos[i] > 0 THEN pos[i] - 1 ELSE pos[i]],
        f, order, equal, heads)

\* Where the caller turns.  An old flag is one that says that there is a next
\* key, and that it is equal, of an iterator that has no live one behind it.
OldFlags == \E n \in DOMAIN order : n >= remaining /\ equal[order[n]]
MayTurn ==
  Turns # "everywhere" =>
    /\ Cardinality(Holders(inputs, curr.key)) <= 1
    /\ Turns = "unmarked" => ~OldFlags'

\* merge_next and merge_prev; merge_advance_helper forgets the current pair.
Move(f) ==
  /\ pc = "idle"
  /\ IF f THEN can_next ELSE can_prev
  /\ place' = IF f THEN place + 1 ELSE place - 1
  /\ curr' = Nothing
  /\ IF forwards = f
     THEN /\ pc' = "advance"
          /\ UNCHANGED <<inputs, mode, pos, order, remaining, equal, heads, forwards,
                         can_prev, can_next>>
     ELSE SetDirection(f) /\ MayTurn /\ UNCHANGED <<inputs, mode>>

Call(f) == calls < MaxCalls /\ calls' = calls + 1 /\ Move(f)

MergeNext == Call(TRUE)
\* Nobody walks a raw merge backwards.
MergePrev == mode # "raw" /\ Call(FALSE)

\* With none left the code would go beyond its array; only after a turn that
\* "unmarked" leaves out.
Advance ==
  /\ pc = "advance" /\ remaining > 0
  /\ AdvanceFirst
  /\ pc' = "loop"
  /\ UNCHANGED <<mode, can_prev, can_next, curr, place, calls>>

\* advance_one_loop
Loop ==
  /\ pc = "loop"
  /\ IF remaining = 0
     THEN /\ can_next' = (can_next /\ ~forwards)
          /\ can_prev' = (can_prev /\ forwards)
          /\ curr' = Nothing
          /\ pc' = "idle"
     ELSE /\ curr' = heads[order[1]]
          /\ pc' = CASE mode = "raw" -> "idle"
                     [] mode # "raw" /\ equal[order[1]] -> "resolve"
                     [] OTHER -> "finalize"
          /\ UNCHANGED <<can_prev, can_next>>
  /\ UNCHANGED <<inputs, mode, pos, order, remaining, equal, heads, forwards, place, calls>>

\* One turn of merge_resolve_equal_keys, whether or not the second is alive.
Resolve ==
  /\ pc = "resolve"
  /\ curr' = [MergeTuples(heads[order[2]], curr) EXCEPT !.key = heads[order[2]].key]
  /\ AdvanceFirst
  /\ pc' = IF equal'[order'[1]] THEN "resolve" ELSE "finalize"
  /\ UNCHANGED <<mode, can_prev, can_next, place, calls>>

\* merge_finalize_updates_and_discard_deletes
Finalize ==
  /\ pc = "finalize"
  /\ LET msg == IF mode = "full" THEN Finalized(curr) ELSE curr
         discarded == mode = "full" /\ msg.class = "delete"
     IN /\ curr' = IF discarded THEN Nothing ELSE msg
        /\ pc' = IF discarded THEN "advance" ELSE "idle"
  /\ UNCHANGED <<inputs, mode, pos, order, remaining, equal, heads, forwards, can_prev,
                 can_next, place, calls>>

MergeStep == Advance \/ Loop \/ Resolve \/ Finalize

-----------------------------------------------------------------------------
(* Property.                                                               *)

\* Whatever a caller that keeps to next and prev has done, it is where it
\* should be in the merged pairs, with all that the inputs have for the key
\* merged, and can move exactly where there is something to move to or from.
WalksReference ==
  LET merged == Reference(inputs, mode) IN
  pc = "idle" =>
    /\ curr = IF place \in DOMAIN merged THEN merged[place] ELSE Nothing
    /\ IF merged = <<>> THEN ~(can_next /\ can_prev)
       ELSE (can_next <=> place <= Len(merged)) /\ (can_prev <=> place > 0)
=============================================================================
