----------------------------- MODULE RcAllocator -----------------------------
(***************************************************************************)
(* The allocator of extents (rc_allocator.c): a count of references for    *)
(* every extent and a hand that goes round.  A count of 0 is a free        *)
(* extent, 1 one that is allocated and not referenced, 2 one reference.    *)
(*                                                                         *)
(* An allocation is a loop over the extents under the hand, each taken     *)
(* with a compare-and-swap.  Its local variables are a record              *)
(*    [first, hand, ext, ret]                                              *)
(* with "ret" the place its caller goes on at.                             *)
(***************************************************************************)
EXTENDS Integers, FiniteSets

CONSTANT Capacity        \* extents of the disk

CapacityAssumption == Capacity \in Nat \ {0}

Extent == 0 .. Capacity - 1

FREE == 0
NO_REFS == 1
ONE_REF == 2

VARIABLES
  ref,     \* [Extent -> count of references]
  hand,    \* the next extent to look at
  alloc,   \* [thread -> the allocation it is in]
  unused   \* history: [thread -> extents that were free, and under nobody's
           \*          hand, all the time since its allocation began]

Idle == [pc |-> "idle", first |-> 0, hand |-> 0, ext |-> 0]

\* Extents nobody has and nobody is about to take.
Available(refs, allocs) ==
  {e \in Extent : refs[e] = FREE /\ \A t \in DOMAIN allocs :
                    ~(allocs[t].pc = "try" /\ allocs[t].hand = e)}

BeginAlloc(t) ==
  /\ alloc[t].pc = "idle"
  /\ alloc' = [alloc EXCEPT ![t].pc = "probe", ![t].first = hand]
  /\ UNCHANGED <<ref, hand>>

Probe(t) ==
  /\ alloc[t].pc = "probe"
  /\ alloc' = [alloc EXCEPT ![t].pc = "try", ![t].hand = hand]
  /\ hand' = (hand + 1) % Capacity
  /\ UNCHANGED ref

\* The extent is taken if it is still free.  When the hand has come to where
\* the allocation began the disk is taken to be full.
Try(t) ==
  LET h == alloc[t].hand
  IN /\ alloc[t].pc = "try"
     /\ IF ref[h] = FREE
        THEN /\ ref' = [ref EXCEPT ![h] = ONE_REF]
             /\ alloc' = [alloc EXCEPT ![t].pc = "done", ![t].ext = h]
        ELSE /\ UNCHANGED ref
             /\ alloc' = [alloc EXCEPT ![t].pc =
                  IF (h + 1) % Capacity = alloc[t].first THEN "full" ELSE "probe"]
     /\ UNCHANGED hand

IncRef(e) == ref' = [ref EXCEPT ![e] = @ + 1]
DecRef(e) == ref' = [ref EXCEPT ![e] = @ - 1]

\* What "unused" is after a step of any thread.
Watch ==
  unused' = [t \in DOMAIN unused |->
    IF alloc'[t].pc \notin {"probe", "try", "full"} THEN {}
    ELSE IF alloc[t].pc = "idle" THEN Available(ref', alloc')
    ELSE unused[t] \cap Available(ref', alloc')]

(***************************************************************************)
(* An allocation fails only when no extent was to be had: whatever is free *)
(* now was taken by someone meanwhile, or is just being taken.             *)
(***************************************************************************)
FullWhenItSaysSo == \A t \in DOMAIN alloc : alloc[t].pc = "full" => unused[t] = {}
=============================================================================
