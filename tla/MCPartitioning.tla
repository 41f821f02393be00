--------------------------- MODULE MCPartitioning ---------------------------
(* Two callers, two partitions and two keys, one in each; the first caller
   has two events.  *)
EXTENDS Partitioning

MCHashKey == [k \in Keys |-> IF k = "k1" THEN 1 ELSE 2]
MCMaxCalls == [c \in Callers |-> IF c = "c1" THEN 2 ELSE 1]
=============================================================================
