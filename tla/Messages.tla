------------------------------ MODULE Messages -------------------------------
(***************************************************************************)
(* Messages and how they are merged (data_internal.h).  A message is its   *)
(* class and, newest first, the messages that went into it.                *)
(***************************************************************************)
EXTENDS Sequences

Class == {"insert", "update", "delete"}

\* Nothing older can change it.
Definitive(msg) == msg.class \in {"insert", "delete"}

\* data_merge_tuples: a newer message over an older one.
MergeTuples(old, new) ==
  IF new.class # "update" THEN new
  ELSE IF old.class = "delete" THEN [new EXCEPT !.class = "insert"]
  ELSE [new EXCEPT !.class = old.class, !.from = @ \o old.from]

\* data_merge_tuples_final, for the oldest message of a key.
Finalized(msg) == IF msg.class = "update" THEN [msg EXCEPT !.class = "insert"] ELSE msg
=============================================================================
