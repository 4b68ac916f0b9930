------------------------------- MODULE MCNode -------------------------------
(* Two or three processes that claim one node id, on one machine or two.   *)
EXTENDS NodeRegistry

OneMachine == [i \in Instances |-> "m1"]
TwoMachines == [i \in Instances |-> IF i = 2 THEN "m2" ELSE "m1"]
=============================================================================
