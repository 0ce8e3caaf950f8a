----------------------------- MODULE MCOrmaExec -----------------------------
(* Instances of OrmaExec: how the application spreads its threads over     *)
(* connections.                                                            *)
EXTENDS OrmaExec, TLC

CONSTANTS t1, t2, t3, c1, c2, c3

Shared == [t \in Threads |-> Conns]
Private == (t1 :> {c1}) @@ (t2 :> {c2}) @@ (t3 :> {c3})
Contended == [t \in Threads |-> IF t = t3 THEN {c2} ELSE {c1}]

(* How many calls each thread makes, opening a connection included. *)
TwoCalls == [t \in Threads |-> 2]
TwoTwoOne == [t \in Threads |-> IF t = t3 THEN 1 ELSE 2]
TwoTwoFour == [t \in Threads |-> IF t = t3 THEN 4 ELSE 2]
ThreeThreeOne == (t1 :> 3) @@ (t2 :> 3) @@ (t3 :> 1)

(* t1 and t2 share c1 in every assignment with three threads. *)
Symmetry == Permutations({t1, t2})
=============================================================================
