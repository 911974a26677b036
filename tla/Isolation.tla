----------------------------- MODULE Isolation -----------------------------
(***************************************************************************)
(* Isolation of the transactions that committed, over the history the      *)
(* models of the protocols keep: db[k] is the sequence of the transactions *)
(* that wrote k, and hist the set of those that committed, each with its   *)
(* commit timestamp and what its lookups delivered: of a key, the version  *)
(* numbered by its place in db[k], 0 being what was there at the start.    *)
(***************************************************************************)
EXTENDS Integers, Sequences

CONSTANT Key
VARIABLES db, hist

\* The commit timestamp of a transaction that committed.
TsOf(id) == (CHOOSE h \in hist : h.id = id).cts

\* The writes of a key are stored in commit-timestamp order.
InCommitOrder ==
  \A k \in Key : \A i, j \in DOMAIN db[k] :
    i < j => TsOf(db[k][i]) < TsOf(db[k][j])

\* The version r was written no later than h committed, and overwritten by
\* another transaction only later.
ValidAt(h, r) ==
  /\ r.ver > 0 => TsOf(db[r.key][r.ver]) <= h.cts
  /\ \A j \in DOMAIN db[r.key] :
       j > r.ver /\ db[r.key][j] # h.id => TsOf(db[r.key][j]) > h.cts

\* Direct conflicts among committed transactions, over the reads in R(h):
\* write-write, write-read and read-write.
Conflict(a, b, R(_)) ==
  \/ \E k \in Key : \E i, j \in DOMAIN db[k] :
       i < j /\ db[k][i] = a.id /\ db[k][j] = b.id
  \/ \E r \in R(b) : \E i \in DOMAIN db[r.key] :
       i <= r.ver /\ db[r.key][i] = a.id
  \/ \E r \in R(a) : \E j \in DOMAIN db[r.key] :
       j > r.ver /\ db[r.key][j] = b.id

\* No set of committed transactions conflicts in a cycle.
Acyclic(R(_)) ==
  ~\E S \in SUBSET hist :
    /\ S # {}
    /\ \A a \in S : \E b \in S \ {a} : Conflict(a, b, R)
=============================================================================
