-------------------------- MODULE MCTwoPhaseLocking --------------------------
(* Values of TwoPhaseLocking's constants for the runs.                     *)
EXTENDS TwoPhaseLocking

CONSTANTS t1, t2, t3   \* threads

R(k) == [op |-> "lookup", key |-> k]
W(k) == [op |-> "write", key |-> k]

\* Readers of key 1 that want to become its writers, readers of one key that
\* write the other, in both orders, and own writes used again.
UpgradePrograms ==
  [t \in Thread |->
     CASE t = t1 -> << {<<R(1), W(1)>>, <<R(2), W(1), R(1)>>} >>
       [] t = t2 -> << {<<R(1), W(1)>>, <<R(1), W(2)>>} >>
       [] t = t3 -> << {<<W(2), R(1)>>} >>]
=============================================================================
