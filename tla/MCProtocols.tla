----------------------------- MODULE MCProtocols -----------------------------
(***************************************************************************)
(* The protocols that synchronise by timestamps or by validation alone:    *)
(* STO, MVCC and Kung-Robinson, one of which a build selects.  The same     *)
(* threads run transactions of two keys over each.  What is the same in    *)
(* all of them is one variable here; a variable another protocol has is    *)
(* "off".                                                                  *)
(***************************************************************************)
EXTENDS Integers, Sequences, FiniteSets

CONSTANTS
  t1, t2, t3,   \* threads
  Protocols     \* subset of {"sto", "mvcc", "kr_occ"}

VARIABLES
  protocol,
  build, refs, db, pc, count, calls, todo, reads, hist,
  global_ts, counter, ts, order, writes,               \* STO and MVCC
  stamp, dirty, cached, header,                        \* STO
  chain, latest, at, excused,                          \* MVCC
  lock, all, active, gone, start, rs, ws, finish, cursor, since, aborted   \* KR-OCC

shared    == <<build, refs, db, pc, count, calls, todo, reads, hist>>
stampVars == <<global_ts, counter, ts, order, writes>>
stoVars   == <<stamp, dirty, cached, header>>
mvccVars  == <<chain, latest, at, excused>>
krVars    == <<lock, all, active, gone, start, rs, ws, finish, cursor, since, aborted>>
vars == <<protocol, shared, stampVars, stoVars, mvccVars, krVars>>

Threads == {t1, t2, t3}
Keys    == {1, 2}

Op(what, k) == [op |-> what, key |-> k]
R(k) == Op("lookup", k)
W(k) == Op("write", k)
I(k) == Op("insert", k)
D(k) == Op("delete", k)

Runs(one, two, three) ==
  [t \in Threads |-> <<CASE t = t1 -> one [] t = t2 -> two [] t = t3 -> three>>]

\* A reader of both keys, a transaction that reads one key and writes the
\* other or both, and writers in the opposite orders.
StoPrograms ==
  Runs({<<R(1), R(2)>>, <<W(1), W(2)>>}, {<<R(1), W(2), R(2)>>, <<W(2), W(1)>>},
       {<<W(1), R(2)>>})

\* Each transaction reads a key that another writes, before or after it writes
\* one itself.
MvccPrograms == Runs({<<W(2), R(1)>>}, {<<R(1), W(2)>>}, {<<W(1), R(2)>>})

\* Transactions that read one key and write the other, in both orders, and one
\* that deletes and reads back; two threads then read what was written.
KrPrograms ==
  [Runs({<<R(1), I(2)>>}, {<<R(2), I(1)>>, <<D(1), R(1), I(2)>>},
        {<<I(1), I(2)>>, <<R(2), R(1)>>})
     EXCEPT ![t1] = Append(@, {<<R(2)>>}), ![t2] = Append(@, {<<R(1)>>})]

Sto == INSTANCE Sto
  WITH Thread <- Threads, Key <- Keys, MayAbort <- {t1}, Programs <- StoPrograms,
       Builds <- {"memory", "counter", "cache"}
Mvcc == INSTANCE Mvcc
  WITH Thread <- Threads, Key <- Keys, MayAbort <- {t1}, Programs <- MvccPrograms,
       Builds <- {"memory", "counter", "cache", "disk"}, Inf <- 9
KrOcc == INSTANCE KrOcc
  WITH Thread <- Threads, Key <- Keys, MayAbort <- {t1}, Programs <- KrPrograms,
       Builds <- {"serial", "parallel"}, Loaded <- Keys

ASSUME ProtocolsAssumption ==
  /\ Protocols \subseteq {"sto", "mvcc", "kr_occ"}
  /\ Sto!StoAssumption /\ Mvcc!MvccAssumption /\ KrOcc!KrOccAssumption

Init ==
  /\ protocol \in Protocols
  /\ \/ protocol = "sto" /\ Sto!Init
        /\ chain = "off" /\ latest = "off" /\ at = "off" /\ excused = "off"
     \/ protocol = "mvcc" /\ Mvcc!Init
        /\ stamp = "off" /\ dirty = "off" /\ cached = "off" /\ header = "off"
     \/ protocol = "kr_occ" /\ KrOcc!Init
        /\ stamp = "off" /\ dirty = "off" /\ cached = "off" /\ header = "off"
        /\ chain = "off" /\ latest = "off" /\ at = "off" /\ excused = "off"
        /\ global_ts = "off" /\ counter = "off" /\ ts = "off" /\ order = "off" /\ writes = "off"
  /\ \/ protocol = "kr_occ"
     \/ /\ lock = "off" /\ all = "off" /\ active = "off" /\ gone = "off" /\ start = "off"
        /\ rs = "off" /\ ws = "off" /\ finish = "off" /\ cursor = "off" /\ since = "off"
        /\ aborted = "off"

StoNext   == protocol = "sto" /\ Sto!Next /\ UNCHANGED <<protocol, mvccVars, krVars>>
MvccNext  == protocol = "mvcc" /\ Mvcc!Next /\ UNCHANGED <<protocol, stoVars, krVars>>
KrOccNext == protocol = "kr_occ" /\ KrOcc!Next /\ UNCHANGED <<protocol, stampVars, stoVars, mvccVars>>

Next == StoNext \/ MvccNext \/ KrOccNext

\* A thread's calls take their next step, whichever protocol there is.
Step(t) ==
  \/ protocol = "sto" /\ Sto!Step(t) /\ UNCHANGED <<protocol, mvccVars, krVars>>
  \/ protocol = "mvcc" /\ Mvcc!Step(t) /\ UNCHANGED <<protocol, stoVars, krVars>>
  \/ protocol = "kr_occ" /\ KrOcc!Step(t) /\ UNCHANGED <<protocol, stampVars, stoVars, mvccVars>>

Spec == Init /\ [][Next]_vars

-----------------------------------------------------------------------------
(* Properties.                                                             *)

\* What commits is serializable: under STO and MVCC in the order of the
\* timestamps taken at the beginning (Sto!SerialByTimestamp,
\* Mvcc!SerialByTimestamp), under KR-OCC in some order.
CommitsSerializable ==
  CASE protocol = "sto" -> Sto!SerialByTimestamp
    [] protocol = "mvcc" -> Mvcc!SerialByTimestamp
    [] protocol = "kr_occ" -> KrOcc!FoundSerializable

\* Dirty bits, version locks, references to entries and the nodes a validation
\* will go over belong to transactions that still run, one way and the other.
HoldingsOwned ==
  CASE protocol = "sto" -> Sto!DirtyOwned /\ Sto!PinsOwned
    [] protocol = "mvcc" -> Mvcc!LocksOwned /\ Mvcc!PinsOwned
    [] protocol = "kr_occ" -> KrOcc!StartsKept

\* Under STO no transaction finds smaller timestamps than an earlier one did,
\* though they move to a sketch or a tuple and back.
TimestampsKept == [][protocol = "sto" => Sto!KeepsTimestamps]_vars

\* Under MVCC the versions of a key divide time between them.
VersionsPartitionTime == protocol = "mvcc" => Mvcc!VersionsPartitionTime

\* No deadlock: as long as transactions run, one of them can do more than turn
\* in the loop that waits for a lock.  Waiting is only ever for an older one, for
\* a lookup, or for the mutex of KR-OCC.
SomebodyProceeds ==
  (\E t \in Threads : pc[t] # "idle") =>
    \E t \in Threads : pc[t] # "idle" /\ ENABLED <<Step(t)>>_vars
=============================================================================
