----------------------------- MODULE MCMemtables -----------------------------
(* Values of Memtables' constants for the runs.                            *)
EXTENDS Memtables

CONSTANTS i1, i2, w1, r1, c1   \* threads

\* One inserter fills three memtables, another comes in its way once.
FewCalls == [t \in Inserter \cup Reader |-> IF t = i1 THEN 3 ELSE 1]
=============================================================================
