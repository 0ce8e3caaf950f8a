----------------------------- MODULE MCOrmaRead -----------------------------
(* Instances of OrmaRead: t1 and t2 share c1, t3 has c2 to itself.         *)
EXTENDS OrmaRead

CONSTANTS t1, t2, t3, c1, c2

Mixed ==
  [t \in Threads |->
     CASE t = t1 -> {"toList"}
       [] t = t2 -> {"count", "insert", "begin", "commit"}
       [] t = t3 -> {"toList", "delete", "begin", "commit", "rollback"}]

TwoAndOne == [t \in Threads |-> IF t = t3 THEN c2 ELSE c1]
=============================================================================
