------------------------------ MODULE MCTicToc ------------------------------
(* Values of TicToc's constants for the runs.                              *)
EXTENDS TicToc

CONSTANTS t1, t2   \* threads

R(k) == [op |-> "lookup", key |-> k]
W(k) == [op |-> "write", key |-> k]

OneRow  == {1}
TwoRows == {1, 2}

\* A counter: one cell for every key (TICTOC_COUNTER).
SharedHash == [r \in {1} |-> [k \in Key |-> 1]]
\* Two rows: the first separates the keys, the second does not.
MixedHash  == [r \in {1, 2} |-> [k \in Key |-> IF r = 1 THEN k ELSE 1]]

\* Transactions that read one key and write the other, or do both to both.
Mixed == {<<R(1), W(2)>>, <<R(2), W(1)>>, <<R(1), R(2)>>, <<W(1), W(2)>>}
\* One that reads what it has written twice, and a second transaction of a thread,
\* after the entries of its first were given back.
Again            == <<W(1), R(1), R(1)>>
MixedProgramsTwo ==
  [t \in Thread |-> IF t = t1 THEN <<Mixed \cup {Again}, Mixed>>
                             ELSE <<Mixed \cup {Again}>>]

\* Write sets given in opposite orders, with readers of both keys, and then
\* transactions of other keys for which an entry has to be evicted.  At most
\* three keys are used at a time, and no transaction reads a key below one that
\* it writes: see TransactionEnds.
CrossPrograms ==
  [t \in Thread |->
     IF t = t1 THEN << {<<W(1), W(2)>>, <<R(1), R(2)>>}, {<<R(3)>>, <<W(3)>>} >>
     ELSE << {<<R(2), W(1)>>, <<W(2), W(1)>>}, {<<R(4)>>, <<W(4)>>}, {<<R(3)>>} >>]

\* Earlier readers of key 2 have moved its read timestamp to 2.
NoRts     == [k \in Key |-> 0]
SecondRts == [k \in Key |-> IF k = 2 THEN 2 ELSE 0]
=============================================================================
