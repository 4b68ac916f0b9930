----------------------------- MODULE MCExecutor -----------------------------
(* Small instances of Executor: tasks of one lane, and a task of another   *)
(* lane or of none that competes for the slots.                            *)
EXTENDS Executor

TwoTasks == 1..2
ThreeTasks == 1..3
OneLane == {"a"}
Shared == <<"a", "a">>
SharedAndFree == <<"a", "a", "none">>
AllShared == <<"a", "a", "a">>
Mixed == <<"a", "none">>
=============================================================================
