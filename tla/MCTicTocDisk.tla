---------------------------- MODULE MCTicTocDisk ----------------------------
(* Values of TicTocDisk's constants for the runs.                          *)
EXTENDS TicTocDisk, TLC

CONSTANTS t1, t2, t3   \* threads

R(k) == [op |-> "lookup", key |-> k]
W(k) == [op |-> "write", key |-> k]
D(k) == [op |-> "delete", key |-> k]

\* Every key has been loaded; or key 2 has also been read at timestamp 2.
Loaded == [k \in Key |-> [kind |-> "value", wts |-> 0, rts |-> 0]]
LoadedRead ==
  [k \in Key |-> [kind |-> "value", wts |-> 0, rts |-> IF k = 2 THEN 2 ELSE 0]]

\* Transactions that read one key and write the other, or do both to both, and
\* one that reads what it has written.  The last one's validation extends the
\* key it will overwrite, as in ExtendedPrograms; with LoadedRead none of the
\* others can see key 2 at the same timestamp.
Mixed == {<<R(1), W(2)>>, <<R(2), W(1)>>, <<R(1), R(2)>>, <<W(1), W(2)>>,
          <<W(1), R(1)>>}
MixedPrograms == [t \in Thread |-> <<Mixed>>]

\* A reader of two keys, and a transaction that writes both and reads one.
ExtendedPrograms ==
  [t \in Thread |-> IF t = t1 THEN << {<<R(1), R(2)>>} >>
                    ELSE << {<<R(1), W(1), W(2)>>} >>]

\* A reader of a key that another deletes, and of what the other writes.
DeletedPrograms ==
  [t \in Thread |-> IF t = t1 THEN << {<<R(1), R(2)>>} >> ELSE << {<<D(1), W(2)>>} >>]

Threads123 == Permutations({t1, t2, t3})
=============================================================================
