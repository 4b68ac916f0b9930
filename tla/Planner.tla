------------------------------ MODULE Planner ------------------------------
(***************************************************************************)
(* The pure scheduling rules of core/scheduler.py and core/lane_affinity.py *)
(* as operators: which ready task may be placed, in which order, and on    *)
(* which node.  A task's lane, band, age and required capabilities and a   *)
(* node's capabilities and max_concurrent are fixed; what changes (status, *)
(* assignment, node health, lane pins) is passed in.                       *)
(*                                                                         *)
(* Scheduler.tla executes the rules one loop iteration at a time, with the *)
(* round-robin cursor.  TaskBoard.tla uses Plans, the set of outcomes a    *)
(* whole pass may have, in which the cursor's tie-break is left open;      *)
(* Scheduler.tla checks that the loop's outcome is always one of Plans.    *)
(***************************************************************************)
EXTENDS Integers, FiniteSets

CONSTANTS
    Tasks, Nodes, Lanes,
    NoNode,         \* assigned_to IS NULL, or a lane without a node
    NoLane,         \* the empty lane_key
    Lane,           \* lane_key of each task
    Priority,       \* the band of each task, 0 is the most urgent
    Created,        \* the rank of each task in created_at order
    Requires,       \* capabilities each task needs
    Caps,           \* capabilities each node declares
    MaxConcurrent   \* slots of each node, 0 = unlimited

ASSUME PlannerAssumption ==
    /\ IsFiniteSet(Tasks)
    /\ NoNode \notin Nodes
    /\ NoLane \notin Lanes
    /\ Lane \in [Tasks -> Lanes \cup {NoLane}]
    /\ Priority \in [Tasks -> 0..5]
    /\ Created \in [Tasks -> Nat]
    /\ \A t, u \in Tasks : Created[t] = Created[u] => t = u
    /\ MaxConcurrent \in [Nodes -> Nat]

----------------------------------------------------------------------------
(* models: TaskStatus, and the two groups of statuses the scheduler names. *)

Status == {"absent", "pending", "ready", "assigned", "running", "blocked",
           "completed", "failed", "cancel_requested", "cancelled"}

ACTIVE_TASK_STATUSES == {"running", "assigned"}

TERMINAL_TASK_STATUSES == {"completed", "failed", "cancelled", "cancel_requested"}

NodeStatus == {"online", "degraded", "offline"}

----------------------------------------------------------------------------
(* core/scheduler.py *)

node_at_capacity(n, active) == MaxConcurrent[n] > 0 /\ active >= MaxConcurrent[n]

node_can_run(t, n, drained) == n \notin drained /\ Requires[t] \subseteq Caps[n]

SameLane(t, u) == Lane[t] # NoLane /\ Lane[t] = Lane[u]

(* The (priority, created_at) order in which a lane's queued tasks sit.    *)
LaneBefore(t, u) ==
    \/ Priority[t] < Priority[u]
    \/ Priority[t] = Priority[u] /\ Created[t] < Created[u]

(* Mutant: only ready siblings hold a task back, not a running one. *)
Mut_lane_blocked_ready_ids(status) ==
    {t \in Tasks : /\ status[t] = "ready"
                   /\ \E u \in Tasks \ {t} :
                        SameLane(t, u) /\ status[u] = "ready" /\ LaneBefore(u, t)}

lane_blocked_ready_ids(status) ==
    {t \in Tasks : /\ status[t] = "ready"
                   /\ \E u \in Tasks \ {t} :
                        /\ SameLane(t, u)
                        /\ \/ status[u] \in ACTIVE_TASK_STATUSES
                           \/ status[u] = "ready" /\ LaneBefore(u, t)}

(* The order of the pass: band first, then newest first within the band.   *)
SchedBefore(t, u) ==
    \/ Priority[t] < Priority[u]
    \/ Priority[t] = Priority[u] /\ Created[t] > Created[u]

(* Mutant: ready tasks under a live lease are scheduled as well. *)
Mut_Schedulable(status, leased) ==
    {t \in Tasks : status[t] = "ready"} \ lane_blocked_ready_ids(status)

(* The ready tasks one pass goes through.                                  *)
Schedulable(status, leased) ==
    {t \in Tasks : status[t] = "ready"} \ (leased \cup lane_blocked_ready_ids(status))

ActiveOn(status, assigned, n) ==
    {t \in Tasks : status[t] \in ACTIVE_TASK_STATUSES /\ assigned[t] = n}

----------------------------------------------------------------------------
(* core/lane_affinity.py: the nodes a task may be handed to, given the     *)
(* online nodes and their loads.  A pinned task has its lane's node or     *)
(* nothing; any other task has the least loaded of the nodes with room.    *)

PinOf(t, pin) == IF Lane[t] = NoLane THEN NoNode ELSE pin[Lane[t]]

WithRoom(t, online, drained, load) ==
    {n \in online : node_can_run(t, n, drained) /\ ~node_at_capacity(n, load[n])}

LeastLoaded(S, load) == {n \in S : \A m \in S : load[n] <= load[m]}

(* Mutant: a pinned task whose node has no room is given to another. *)
Mut_Candidates(t, online, drained, pin, load) ==
    LET room == WithRoom(t, online, drained, load)
    IN  IF PinOf(t, pin) \in room THEN {PinOf(t, pin)} ELSE LeastLoaded(room, load)

Candidates(t, online, drained, pin, load) ==
    LET room == WithRoom(t, online, drained, load)
    IN  IF PinOf(t, pin) = NoNode THEN LeastLoaded(room, load)
                                  ELSE room \cap {PinOf(t, pin)}

(* What one pass may do: a function from the schedulable tasks to the node *)
(* each is handed to, or NoNode for a task left ready.  The load a task    *)
(* meets counts the tasks placed before it in the pass.                    *)
LoadBefore(t, plan, status, assigned) ==
    [n \in Nodes |->
        Cardinality(ActiveOn(status, assigned, n)) +
        Cardinality({u \in DOMAIN plan : SchedBefore(u, t) /\ plan[u] = n})]

Fits(plan, t, status, assigned, online, drained, pin) ==
    LET C == Candidates(t, online, drained, pin, LoadBefore(t, plan, status, assigned))
    IN  IF C = {} THEN plan[t] = NoNode ELSE plan[t] \in C

Plans(status, assigned, leased, online, drained, pin) ==
    {plan \in [Schedulable(status, leased) -> Nodes \cup {NoNode}] :
        \A t \in DOMAIN plan : Fits(plan, t, status, assigned, online, drained, pin)}

Placed(plan) == {t \in DOMAIN plan : plan[t] # NoNode}
=============================================================================
