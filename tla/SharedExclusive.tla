--------------------------- MODULE SharedExclusive ---------------------------
(***************************************************************************)
(* What the lock entries of transaction_2pl.h promise, whatever the policy *)
(* that decides who waits: owners of a key share it for reading, or one of *)
(* them has it for writing, a reader that is alone may become the writer,  *)
(* and only an owner gives up what it has.                                 *)
(***************************************************************************)
CONSTANTS Key, Owner

VARIABLE mode   \* how each owner holds each key

Free(k)      == {o \in Owner : mode[k][o] = "free"}
Others(k, o) == Owner \ (Free(k) \cup {o})

Init == mode = [k \in Key |-> [o \in Owner |-> "free"]]

Share(k, o) ==
  /\ mode[k][o] = "free"
  /\ \A p \in Others(k, o) : mode[k][p] = "read"
  /\ mode' = [mode EXCEPT ![k][o] = "read"]

Exclude(k, o) ==
  /\ mode[k][o] # "write"
  /\ Others(k, o) = {}
  /\ mode' = [mode EXCEPT ![k][o] = "write"]

Give(k, o) ==
  /\ mode[k][o] # "free"
  /\ mode' = [mode EXCEPT ![k][o] = "free"]

Next == \E k \in Key, o \in Owner : Share(k, o) \/ Exclude(k, o) \/ Give(k, o)

Spec == Init /\ [][Next]_mode

\* A key that one owner has for writing no other owner has at all.
Exclusion ==
  \A k \in Key : \A o, p \in Owner :
    mode[k][o] = "write" /\ o # p => mode[k][p] = "free"
=============================================================================
