----------------------------- MODULE LockTable -----------------------------
(***************************************************************************)
(* The lock table of src/splinterdb/src/lock_table.c: a key is locked when *)
(* an iceberg table without references has an entry for it.  A caller      *)
(* passes a lock_table_entry of its own, whose is_locked flag says that it *)
(* took the lock.  Each operation of the iceberg table runs under the lock *)
(* of the key's block and is one step.                                     *)
(***************************************************************************)
EXTENDS Integers

CONSTANTS
  Thread,
  Key        \* user keys, as numbers in data_key_compare order

ASSUME LockTableAssumption == Key \subseteq Nat

VARIABLES
  locked,    \* the keys the table has an entry for
  mine       \* the keys whose lock_table_entry says is_locked, by thread

lockVars == <<locked, mine>>

LockInit == locked = {} /\ mine = [t \in Thread |-> {}]

\* What lock_table_try_acquire_entry_lock returns.
AcquireRc(t, k) == CASE k \in mine[t] -> "deadlk"
                     [] k \in locked \ mine[t] -> "busy"
                     [] OTHER -> "ok"

\* lock_table_try_acquire_entry_lock: it inserts the key or changes nothing.
TryAcquire(t, k) ==
  IF AcquireRc(t, k) = "ok"
  THEN locked' = locked \cup {k} /\ mine' = [mine EXCEPT ![t] = @ \cup {k}]
  ELSE UNCHANGED lockVars

\* lock_table_release_entry_lock, after its two assertions.
Releasable(t, k) == k \in mine[t] /\ k \in locked
ReleaseLock(t, k) ==
  /\ Releasable(t, k)
  /\ locked' = locked \ {k}
  /\ mine' = [mine EXCEPT ![t] = @ \ {k}]

\* lock_table_get_entry_lock_state
Busy(k) == k \in locked

LockTypeOK ==
  /\ locked \in SUBSET Key
  /\ mine \in [Thread -> SUBSET Key]
=============================================================================
