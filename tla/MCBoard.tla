------------------------------ MODULE MCBoard ------------------------------
(* Small boards for TaskBoard.  Two tasks and two nodes with one slot each *)
(* are the least in which lanes, slots, recoveries and dependencies can    *)
(* get in each other's way; the configurations choose the lanes, the       *)
(* dependency lists, the endpoints used and the threads that run.          *)
EXTENDS TaskBoard

TwoTasks == 1..2
TwoNodes == {"n1", "n2"}
OneNode == {"n1"}
OneLane == {"a"}

SharedLane == <<"a", "a">>
NoLanes == <<"none", "none">>

SameBand == <<3, 3>>
InOrder == <<1, 2>>
NoRequires == <<{}, {}>>
NoCaps == [n \in Nodes |-> {}]
OneSlot == [n \in Nodes |-> 1]

NoDeps == {{}}
OnFirst == {{}, {1}}
OnEither == {{}, {1}, {2}}
=============================================================================
