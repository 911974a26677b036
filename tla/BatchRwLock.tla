----------------------------- MODULE BatchRwLock -----------------------------
(***************************************************************************)
(* One lock of a platform_batch_rwlock (platform_linux/platform.c): every  *)
(* thread counts itself in a counter of its own to read; a thread that     *)
(* reads may claim the lock, which ends its reading and keeps other        *)
(* claims out, and then lock it, which waits for every counter in turn.    *)
(* One action per access to the shared words.                              *)
(***************************************************************************)
CONSTANT Thread

VARIABLES
  claim,    \* write_lock[lock_idx].claim
  lock,     \* write_lock[lock_idx].lock
  counter,  \* read_counter[t][lock_idx]
  pc,       \* where each thread is
  passed    \* the threads whose counters the drain of a locker has found zero

vars == <<claim, lock, counter, pc, passed>>

Counted  == {"counted", "reading", "backing", "claiming", "unclaiming"}
Claimers == {"claiming", "claimed", "draining", "writing", "unclaiming"}
Lockers  == {"draining", "writing"}
Labels   == {"out", "seen"} \cup Counted \cup Claimers

TypeOK ==
  /\ claim \in BOOLEAN /\ lock \in BOOLEAN
  /\ counter \in [Thread -> {0, 1}]
  /\ pc \in [Thread -> Labels]
  /\ passed \in [Thread -> SUBSET Thread]

Init ==
  /\ claim = FALSE /\ lock = FALSE
  /\ counter = [t \in Thread |-> 0]
  /\ pc = [t \in Thread |-> "out"]
  /\ passed = [t \in Thread |-> {}]

Move(t, from, to) == pc[t] = from /\ pc' = [pc EXCEPT ![t] = to]
Add(t)      == counter' = [counter EXCEPT ![t] = 1]
Subtract(t) == counter' = [counter EXCEPT ![t] = 0]

\* platform_batch_rwlock_get: wait for the lock to be free, count, look again.
See(t)    == Move(t, "out", "seen") /\ ~lock /\ UNCHANGED <<claim, lock, counter, passed>>
Count(t)  == Move(t, "seen", "counted") /\ Add(t) /\ UNCHANGED <<claim, lock, passed>>
Enter(t)  == Move(t, "counted", "reading") /\ ~lock /\ UNCHANGED <<claim, lock, counter, passed>>
Refuse(t) == Move(t, "counted", "backing") /\ lock /\ UNCHANGED <<claim, lock, counter, passed>>
Back(t)   == Move(t, "backing", "out") /\ Subtract(t) /\ UNCHANGED <<claim, lock, passed>>

Unget(t)  == Move(t, "reading", "out") /\ Subtract(t) /\ UNCHANGED <<claim, lock, passed>>

\* platform_batch_rwlock_try_claim, when it succeeds: take the claim, then
\* stop reading.  A refused claim changes nothing.
TryClaim(t) ==
  /\ Move(t, "reading", "claiming")
  /\ ~claim
  /\ claim' = TRUE
  /\ UNCHANGED <<lock, counter, passed>>
StopReading(t) == Move(t, "claiming", "claimed") /\ Subtract(t) /\ UNCHANGED <<claim, lock, passed>>

\* platform_batch_rwlock_lock: the counters are looked at one by one; the
\* order, which is that of the thread ids, makes no difference.
Lock(t) ==
  /\ Move(t, "claimed", "draining")
  /\ lock' = TRUE
  /\ passed' = [passed EXCEPT ![t] = {}]
  /\ UNCHANGED <<claim, counter>>
Pass(t, u) ==
  /\ pc[t] = "draining" /\ u \notin passed[t]
  /\ counter[u] = 0
  /\ passed' = [passed EXCEPT ![t] = @ \cup {u}]
  /\ UNCHANGED <<claim, lock, counter, pc>>
Drained(t) ==
  /\ Move(t, "draining", "writing")
  /\ passed[t] = Thread
  /\ UNCHANGED <<claim, lock, counter, passed>>

Unlock(t) == Move(t, "writing", "claimed") /\ lock' = FALSE /\ UNCHANGED <<claim, counter, passed>>

\* platform_batch_rwlock_unclaim: read again, then give the claim up.
ReadAgain(t) == Move(t, "claimed", "unclaiming") /\ Add(t) /\ UNCHANGED <<claim, lock, passed>>
Unclaim(t)   == Move(t, "unclaiming", "reading") /\ claim' = FALSE /\ UNCHANGED <<lock, counter, passed>>

Step(t) ==
  \/ See(t) \/ Count(t) \/ Enter(t) \/ Refuse(t) \/ Back(t) \/ Unget(t)
  \/ TryClaim(t) \/ StopReading(t) \/ Lock(t) \/ (\E u \in Thread : Pass(t, u))
  \/ Drained(t) \/ Unlock(t) \/ ReadAgain(t) \/ Unclaim(t)

Next == \E t \in Thread : Step(t)
Spec == Init /\ [][Next]_vars
-----------------------------------------------------------------------------
\* Who has the lock, as the callers see it.
mode == [k \in {"lock"} |-> [t \in Thread |->
           IF pc[t] = "writing" THEN "write"
           ELSE IF pc[t] \in {"reading", "claiming", "unclaiming"} THEN "read" ELSE "free"]]

Held == INSTANCE SharedExclusive WITH Key <- {"lock"}, Owner <- Thread

\* The lock is a shared-exclusive lock: whatever the threads do with it, its
\* steps are those of SharedExclusive or leave mode as it is.
ImplementsSharedExclusive == Held!Spec

\* A thread that has locked is alone: no other reads, claims or writes.
WriterAlone ==
  \A t, u \in Thread : pc[t] = "writing" /\ t # u => pc[u] \notin Claimers \cup {"reading"}
-----------------------------------------------------------------------------
(* The strengthening of WriterAlone that every step preserves.             *)

CountersTrue == \A t \in Thread : counter[t] = IF pc[t] \in Counted THEN 1 ELSE 0
ClaimTrue ==
  /\ \A t \in Thread : pc[t] \in Claimers => claim
  /\ \A t, u \in Thread : pc[t] \in Claimers /\ pc[u] \in Claimers => t = u
LockTrue   == lock <=> \E t \in Thread : pc[t] \in Lockers
\* A thread that the locker has passed does not read until the lock is freed.
PassedOut ==
  \A t, u \in Thread :
    \/ pc[t] = "draining" /\ u \in passed[t]
    \/ pc[t] = "writing"
    => pc[u] # "reading"

IInv == TypeOK /\ CountersTrue /\ ClaimTrue /\ LockTrue /\ PassedOut

=============================================================================
