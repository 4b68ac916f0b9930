----------------------------- MODULE Scheduler -----------------------------
(***************************************************************************)
(* One scheduling pass, schedule_pending_detailed, run the way the store   *)
(* runs it: the lock (the transaction) is taken, nodes, loads, leases and  *)
(* lane pins are read once, and the ready tasks are gone through one by    *)
(* one, each assignment adding to the loads and advancing the round-robin  *)
(* cursor.  Between passes tasks arrive, finish and come back, leases      *)
(* lapse, nodes change health and lanes are pinned.                        *)
(*                                                                         *)
(* The cursor of FairScheduler (a counter and the round each node was last *)
(* picked in) only ever matters by comparison, so it is kept as `since`:   *)
(* how many nodes were picked after each one, and more than that for a     *)
(* node never picked.                                                      *)
(***************************************************************************)
EXTENDS Planner

CONSTANTS
    NodeRank,   \* the order in which the node rows are read
    Flaky,      \* the nodes that go offline and come back
    Drainable   \* the nodes the operator drains

ASSUME SchedulerAssumption ==
    /\ NodeRank \in [Nodes -> Nat]
    /\ \A n, m \in Nodes : NodeRank[n] = NodeRank[m] => n = m
    /\ Flaky \subseteq Nodes /\ Drainable \subseteq Nodes
    /\ IsFiniteSet(Nodes)

VARIABLES
    status, assigned,   \* the task rows
    leased,             \* tasks holding a lease that is active and not past its TTL
    health,             \* node status
    drained,            \* nodes the operator has drained
    pin,                \* lanes table: the node that owns each lane's session
    since,              \* FairScheduler's cursor
    pass                \* the running pass, or Idle

vars == <<status, assigned, leased, health, drained, pin, since, pass>>

Idle == [running |-> FALSE]

Online == {n \in Nodes : health[n] = "online"}

Init ==
    /\ status = [t \in Tasks |-> "absent"]
    /\ assigned = [t \in Tasks |-> NoNode]
    /\ leased = {}
    /\ health = [n \in Nodes |-> "online"]
    /\ drained = {}
    /\ pin = [l \in Lanes |-> NoNode]
    /\ since = [n \in Nodes |-> Cardinality(Nodes)]
    /\ pass = Idle

----------------------------------------------------------------------------
(* The pass *)

(* Mutant: the cursor is compared before the load. *)
Mut_Preferred(n, m, load) ==
    \/ since[n] > since[m]
    \/ since[n] = since[m] /\ load[n] < load[m]
    \/ since[n] = since[m] /\ load[n] = load[m] /\ NodeRank[n] <= NodeRank[m]

(* FairScheduler.choose keeps the first of the online nodes whose          *)
(* (active, last_picked) key is smallest.                                  *)
Preferred(n, m, load) ==
    \/ load[n] < load[m]
    \/ load[n] = load[m] /\ since[n] > since[m]
    \/ load[n] = load[m] /\ since[n] = since[m] /\ NodeRank[n] <= NodeRank[m]

choose(S, load) ==
    IF S = {} THEN NoNode ELSE CHOOSE n \in S : \A m \in S : Preferred(n, m, load)

(* Mutant: a pinned task whose node has no room is given to another. *)
Mut_choose_pinned(t, p) ==
    LET room == WithRoom(t, p.online, p.drained, p.load)
    IN  IF PinOf(t, p.pin) \in room THEN PinOf(t, p.pin) ELSE choose(room, p.load)

(* AffinityScheduler.choose_pinned: a pinned task gets its lane's node or  *)
(* is parked.                                                              *)
choose_pinned(t, p) ==
    LET room == WithRoom(t, p.online, p.drained, p.load)
    IN  IF PinOf(t, p.pin) = NoNode THEN choose(room, p.load)
        ELSE IF PinOf(t, p.pin) \in room THEN PinOf(t, p.pin) ELSE NoNode

(* The picked node becomes the latest; those picked after it are one pick  *)
(* further back.                                                           *)
mark_picked(n) ==
    [m \in Nodes |-> IF m = n THEN 0
                     ELSE IF since[m] < since[n] THEN since[m] + 1 ELSE since[m]]

(* Nothing is done when no node is online; otherwise everything the pass   *)
(* reads is read now, under the lock it keeps until it ends.  `before` is  *)
(* kept for the properties only.                                           *)
BeginPass ==
    /\ ~pass.running
    /\ Online # {}
    /\ pass' = [running |-> TRUE,
                todo    |-> Schedulable(status, leased),
                load    |-> [n \in Nodes |-> Cardinality(ActiveOn(status, assigned, n))],
                online  |-> Online, drained |-> drained, pin |-> pin,
                before  |-> [status |-> status, assigned |-> assigned, leased |-> leased]]
    /\ UNCHANGED <<status, assigned, leased, health, drained, pin, since>>

(* ready_tasks.sort: the task the loop takes up next. *)
IsNext(t, todo) == \A u \in todo \ {t} : SchedBefore(t, u)

(* `continue`: the task stays ready. *)
Skip(t) == pass' = [pass EXCEPT !.todo = @ \ {t}]

(* One iteration of `for task in ready_tasks`: assign and lease the task,  *)
(* or leave it ready.                                                      *)
PassStep ==
    /\ pass.running
    /\ \E t \in pass.todo :
        /\ IsNext(t, pass.todo)
        /\ LET n == choose_pinned(t, pass) IN
             IF n = NoNode
             THEN Skip(t) /\ UNCHANGED <<status, assigned, leased, since>>
             ELSE /\ status' = [status EXCEPT ![t] = "running"]
                  /\ assigned' = [assigned EXCEPT ![t] = n]
                  /\ leased' = leased \cup {t}
                  /\ since' = mark_picked(n)
                  /\ pass' = [pass EXCEPT !.todo = @ \ {t}, !.load[n] = @ + 1]
    /\ UNCHANGED <<health, drained, pin>>

EndPass ==
    /\ pass.running /\ pass.todo = {}
    /\ pass' = Idle
    /\ UNCHANGED <<status, assigned, leased, health, drained, pin, since>>

----------------------------------------------------------------------------
(* The other calls of the store, which wait for its lock.  The pass that a *)
(* handler asks for afterwards is the next BeginPass.                      *)

(* create_task without dependencies. *)
Submit(t) ==
    /\ status[t] = "absent"
    /\ status' = [status EXCEPT ![t] = "ready"]
    /\ UNCHANGED <<assigned, leased>>

(* set_task_status on a running task: complete_task closes it,             *)
(* manual_advance makes it ready again, still assigned and still leased.   *)
SetStatus(t) ==
    /\ status[t] = "running"
    /\ \E s \in {"completed", "ready"} : status' = [status EXCEPT ![t] = s]
    /\ UNCHANGED <<assigned, leased>>

(* requeue_task: back to ready, unassigned, lease revoked. *)
Requeue(t) ==
    /\ status[t] = "running"
    /\ status' = [status EXCEPT ![t] = "ready"]
    /\ assigned' = [assigned EXCEPT ![t] = NoNode]
    /\ leased' = leased \ {t}

(* The lease is revoked, or passes its expires_at. *)
EndLease(t) ==
    /\ t \in leased
    /\ leased' = leased \ {t}
    /\ UNCHANGED <<status, assigned>>

TaskEvent ==
    /\ ~pass.running
    /\ \E t \in Tasks : Submit(t) \/ SetStatus(t) \/ Requeue(t) \/ EndLease(t)
    /\ UNCHANGED <<health, drained, pin, since, pass>>

(* set_node_status.  The pass only asks whether a node is online, so       *)
(* degraded is left out.                                                   *)
SetNodeStatus ==
    /\ ~pass.running
    /\ \E n \in Flaky, s \in {"online", "offline"} :
        /\ s # health[n]
        /\ health' = [health EXCEPT ![n] = s]
    /\ UNCHANGED <<status, assigned, leased, drained, pin, since, pass>>

(* set_drained *)
ToggleDrain ==
    /\ ~pass.running
    /\ \E n \in Drainable :
        drained' = IF n \in drained THEN drained \ {n} ELSE drained \cup {n}
    /\ UNCHANGED <<status, assigned, leased, health, pin, since, pass>>

(* record_lane *)
RecordLane ==
    /\ ~pass.running
    /\ \E l \in Lanes, n \in Nodes : pin[l] # n /\ pin' = [pin EXCEPT ![l] = n]
    /\ UNCHANGED <<status, assigned, leased, health, drained, since, pass>>

Next ==
    \/ BeginPass \/ PassStep \/ EndPass
    \/ TaskEvent \/ SetNodeStatus \/ ToggleDrain \/ RecordLane

Spec == Init /\ [][Next]_vars

----------------------------------------------------------------------------
(* Properties *)

AtEnd == pass.running /\ pass.todo = {}

(* The tasks this pass went through, and where each one ended up. *)
Outcome ==
    [t \in Schedulable(pass.before.status, pass.before.leased) |->
        IF status[t] = "running" THEN assigned[t] ELSE NoNode]

(* The loop, with its running loads and its cursor, computes one of the    *)
(* outcomes Planner!Plans allows for the state the pass started in: this   *)
(* is the contract TaskBoard relies on when it takes a pass as one step.   *)
PassMeetsPlan ==
    AtEnd => Outcome \in Plans(pass.before.status, pass.before.assigned, pass.before.leased,
                               pass.online, pass.drained, pass.pin)

(* scheduler.py, rule 3: no node ever has more active tasks than its       *)
(* max_concurrent, however many tasks one pass places.                     *)
CapacityRespected ==
    \A n \in Nodes : MaxConcurrent[n] > 0 =>
        Cardinality(ActiveOn(status, assigned, n)) <= MaxConcurrent[n]

(* No idle capacity: when a pass ends, a task it went through and left     *)
(* ready is pinned, or no online node that can run it has a free slot.     *)
WorkConserving ==
    AtEnd => \A t \in DOMAIN Outcome :
        \/ Outcome[t] # NoNode
        \/ PinOf(t, pass.pin) # NoNode
        \/ WithRoom(t, pass.online, pass.drained, pass.load) = {}

(* Order of the pass: no task takes a slot that a task ahead of it (lower  *)
(* band, or newer in the same band) could have had and did not get.        *)
PriorityHonoured ==
    AtEnd => \A t, u \in DOMAIN Outcome :
        /\ SchedBefore(u, t)
        /\ Outcome[t] # NoNode
        /\ Outcome[u] = NoNode
        => \/ ~node_can_run(u, Outcome[t], pass.drained)
           \/ PinOf(u, pass.pin) \notin {NoNode, Outcome[t]}

(* The 2/2/2 spread of scheduler.py: a node that received load-balanced    *)
(* tasks in a pass ends at most one above any other node that could have   *)
(* taken them and still has a slot.                                        *)
BalancedSpread ==
    AtEnd => \A n, m \in pass.online :
        LET got == {t \in DOMAIN Outcome : Outcome[t] = n}
        IN  /\ got # {}
            /\ \A t \in got : PinOf(t, pass.pin) = NoNode /\ node_can_run(t, m, pass.drained)
            /\ ~node_at_capacity(m, pass.load[m])
            => pass.load[n] <= pass.load[m] + 1

(* One task after the other, on loads and a cursor that change as it goes, *)
(* the pass overfills no node, wastes no slot, jumps no queue and spreads   *)
(* what it places.                                                         *)
FairPass == CapacityRespected /\ WorkConserving /\ PriorityHonoured /\ BalancedSpread
=============================================================================
