----------------------------- MODULE TaskBoard -----------------------------
(***************************************************************************)
(* The main node's task board on the SQLite store: the task, lease and     *)
(* lane rows, the HTTP handlers of routers/tasks.py, schedule.py, lanes.py *)
(* and recovery.py, and the two background threads that work on the same   *)
(* rows, the lease scanner and auto-recovery.                              *)
(*                                                                         *)
(* Handlers are coroutines that never await, so the event loop runs one at *)
(* a time; but every store call is a transaction of its own, so the other  *)
(* threads run between any two store calls of a handler.  A step of this   *)
(* model is one store call.  A thread's record holds its place in the      *)
(* handler and the locals that outlive a call.                             *)
(*                                                                         *)
(* Clocks are abstracted: a lease is `live` until Lapse, which stands for  *)
(* the clock passing expires_at.  A revoked row nobody refers to may be    *)
(* used again for a new lease, so LeaseIds bounds the leases in play and   *)
(* not the leases ever created.                                            *)
(***************************************************************************)
EXTENDS Planner

CONSTANTS
    LeaseIds,
    RetryLimit,     \* task_retry_limit
    Threads,        \* "loop" and the background threads that run
    Calls,          \* the endpoints clients use
    DepChoices,     \* dependency lists clients send
    Flaky,          \* nodes that go offline and come back
    MaxRestarts,    \* bound on process restarts
    NoTask, NoLease

ASSUME BoardAssumption ==
    /\ IsFiniteSet(LeaseIds)
    /\ RetryLimit \in Nat
    /\ MaxRestarts \in Nat
    /\ Flaky \subseteq Nodes
    /\ "loop" \in Threads /\ Threads \subseteq {"loop", "auto", "scanner"}
    /\ DepChoices \subseteq SUBSET Tasks
    /\ NoTask \notin Tasks
    /\ NoLease \notin LeaseIds

VARIABLES
    status, assigned, attempts, deps, ballot,   \* task rows
    lease,      \* lease rows
    pin,        \* lanes table
    health,     \* node status
    th,         \* threads
    restarts    \* restarts so far

taskRows == <<status, assigned, attempts, deps, ballot>>
vars == <<taskRows, lease, pin, health, th, restarts>>

LeaseStatus == {"active", "expired", "revoked"}

Lease == [task : Tasks \cup {NoTask}, node : Nodes \cup {NoNode},
          st : LeaseStatus, live : BOOLEAN]

NoRow == [task |-> NoTask, node |-> NoNode, st |-> "revoked", live |-> FALSE]

PCs == {"idle",
        "promote_new", "trigger", "schedule",              \* submit, triggers
        "lookup", "revoke", "requeue",                     \* task handlers
        "veto_lookup", "veto_requeue",
        "ballot", "write", "dependents", "victims", "unblock_to_ready",
        "extend_create", "extend_revoke", "stuck",         \* LeaseManager.extend
        "mark", "expired", "nodes",                        \* expiry scan
        "rec_mark", "rec_expired", "rec_revoke",           \* Revoker
        "rec_task", "rec_schedule", "rec_check", "rec_fail"}  \* Rescheduler

Thens == {"idle", "schedule", "write", "ballot", "veto_lookup", "veto_requeue", "expired"}
Tails == {"idle", "schedule", "downstream", "dependents", "cascade", "victims"}

Thread == [pc    : PCs,
           task  : Tasks \cup {NoTask},
           lid   : LeaseIds \cup {NoLease},
           to    : Status \cup {"cancel"},   \* status to write; "cancel" is
                                             \* settled by the lease lookup
           then  : Thens,                    \* where to go after the lease step
           tail  : Tails,                    \* and after the write
           todo  : SUBSET Tasks,             \* tasks still to visit
           nodes : SUBSET Nodes,             \* nodes still to recover
           node  : Nodes \cup {NoNode},      \* node being recovered
           rows  : SUBSET LeaseIds,          \* lapsed rows read, to be marked expired
           keep  : SUBSET LeaseIds]          \* rows of the node to be revoked

IdleThread == [pc |-> "idle", task |-> NoTask, lid |-> NoLease, to |-> "absent",
               then |-> "idle", tail |-> "idle", todo |-> {}, nodes |-> {},
               node |-> NoNode, rows |-> {}, keep |-> {}]

TypeOK ==
    /\ status \in [Tasks -> Status]
    /\ assigned \in [Tasks -> Nodes \cup {NoNode}]
    /\ attempts \in [Tasks -> 0..RetryLimit]
    /\ deps \in [Tasks -> SUBSET Tasks]
    /\ ballot \in [Tasks -> {"none", "open", "answered"}]
    /\ lease \in [LeaseIds -> Lease]
    /\ pin \in [Lanes -> Nodes \cup {NoNode}]
    /\ health \in [Nodes -> NodeStatus]
    /\ th \in [Threads -> Thread]
    /\ restarts \in 0..MaxRestarts

Init ==
    /\ status = [t \in Tasks |-> "absent"]
    /\ assigned = [t \in Tasks |-> NoNode]
    /\ attempts = [t \in Tasks |-> 0]
    /\ deps = [t \in Tasks |-> {}]
    /\ ballot = [t \in Tasks |-> "none"]
    /\ lease = [l \in LeaseIds |-> NoRow]
    /\ pin = [k \in Lanes |-> NoNode]
    /\ health = [n \in Nodes |-> "online"]
    /\ th = [p \in Threads |-> IdleThread]
    /\ restarts = 0

----------------------------------------------------------------------------
(* Reads of the store *)

ActiveLeases == {l \in LeaseIds : lease[l].st = "active"}
LiveLeases == {l \in ActiveLeases : lease[l].live}
LapsedLeases == ActiveLeases \ LiveLeases
ExpiredLeases == {l \in LeaseIds : lease[l].st = "expired"}
LeasesOf(t) == {l \in ActiveLeases : lease[l].task = t}     \* get_lease_by_task

LeasedTasks == {lease[l].task : l \in LiveLeases}

Online == {n \in Nodes : health[n] = "online"}
DepsMet(t) == \A d \in deps[t] : status[d] = "completed"
get_dependents(t) == {d \in Tasks : status[d] # "absent" /\ t \in deps[d]}

(* The transitive dependents (max_depth 10 is more than any chain here). *)
get_trigger_chain(t) ==
    {d \in Tasks : \A S \in SUBSET Tasks :
        /\ get_dependents(t) \subseteq S
        /\ \A u \in S : get_dependents(u) \subseteq S
        => d \in S}

(* Lease rows a new lease may use. *)
Held(p) == th[p].rows \cup th[p].keep \cup {th[p].lid}
FreeRows == {l \in LeaseIds : lease[l].st = "revoked" /\ \A p \in Threads : l \notin Held(p)}
Seats(S) == {f \in [S -> FreeRows] : \A t, u \in S : f[t] = f[u] => t = u}

----------------------------------------------------------------------------
(* Writes of the store (state/cluster_store.py), each one transaction *)

(* set_task_status: the SQLite UPDATE has no guard. *)
set_task_status(t, s) == status' = [status EXCEPT ![t] = s]

(* revoke_lease, whatever status the row has.  The rest of a revoked row   *)
(* is forgotten unless another thread has read the row and will still act  *)
(* on it.                                                                  *)
revoke_lease(p, S) ==
    lease' = [l \in LeaseIds |->
        IF l \notin S THEN lease[l]
        ELSE IF \E q \in Threads \ {p} : l \in Held(q)
             THEN [lease[l] EXCEPT !.st = "revoked"]
             ELSE NoRow]

(* The second transaction of get_active_leases: UPDATE .. WHERE id IN, no  *)
(* condition on the status the row has by now.                             *)
mark_expired(S) ==
    lease' = [l \in LeaseIds |-> IF l \in S THEN [lease[l] EXCEPT !.st = "expired"]
                                            ELSE lease[l]]

create_lease(seat, owner) ==
    lease' = [l \in LeaseIds |->
        IF \E t \in DOMAIN seat : seat[t] = l
        THEN LET t == CHOOSE t \in DOMAIN seat : seat[t] = l
             IN  [task |-> t, node |-> owner[t], st |-> "active", live |-> TRUE]
        ELSE lease[l]]

(* Mutant: a closed task may be unassigned. *)
Mut_unassignable(t) == status[t] # "absent" /\ t \notin LeasedTasks

unassignable(t) ==
    status[t] \notin TERMINAL_TASK_STATUSES \cup {"absent"} /\ t \notin LeasedTasks

(* Mutant: one delivery more than the cap. *)
Mut_requeueable(t) ==
    status[t] \notin TERMINAL_TASK_STATUSES \cup {"absent"} /\ attempts[t] <= RetryLimit

requeueable(t) ==
    status[t] \notin TERMINAL_TASK_STATUSES \cup {"absent"} /\ attempts[t] < RetryLimit

(* Mutant: a task is promoted when its dependencies are over, however they *)
(* ended.                                                                  *)
Mut_promotable(t) ==
    status[t] = "pending" /\ \A d \in deps[t] : status[d] \in TERMINAL_TASK_STATUSES

promotable(t) == status[t] = "pending" /\ DepsMet(t)

(* Mutant: the assignment without its lease (the defect #916 fixed). *)
Mut_schedule_pending(plan) ==
    LET placed == Placed(plan)
    IN  /\ status' = [t \in Tasks |-> IF t \in placed THEN "running" ELSE status[t]]
        /\ assigned' = [t \in Tasks |-> IF t \in placed THEN plan[t] ELSE assigned[t]]
        /\ UNCHANGED lease

(* schedule_pending_detailed, one transaction: some plan of Planner!Plans  *)
(* is carried out, each placed task becoming running under a new lease.    *)
schedule_pending(plan) ==
    LET placed == Placed(plan)
        owner  == [t \in placed |-> plan[t]]
    IN  /\ Seats(placed) # {}
        /\ create_lease(CHOOSE f \in Seats(placed) : TRUE, owner)
        /\ status' = [t \in Tasks |-> IF t \in placed THEN "running" ELSE status[t]]
        /\ assigned' = [t \in Tasks |-> IF t \in placed THEN owner[t] ELSE assigned[t]]

PlansNow == Plans(status, assigned, LeasedTasks, Online, {}, pin)

----------------------------------------------------------------------------
(* Threads *)

Goto(p, r) == th' = [th EXCEPT ![p] = r]
Step(p, pc) == Goto(p, [th[p] EXCEPT !.pc = pc])
Done(p) == Goto(p, IdleThread)

(* Return to a caller's place: locals nobody needs any more are dropped.   *)
Return(p, pc) == IF pc = "idle" THEN Done(p) ELSE Step(p, pc)

Serve(call, r) == /\ call \in Calls
                  /\ th["loop"].pc = "idle"
                  /\ Goto("loop", r)

At(p, pc) == p \in Threads /\ th[p].pc = pc

(* LeaseManager.extend keeps the manager's lock; the expiry callback that  *)
(* runs between the two transactions of get_active_leases needs it.        *)
ManagerLockFree == th["loop"].pc \notin {"extend_create", "extend_revoke", "stuck"}

----------------------------------------------------------------------------
(* Handlers that begin and end with one store call, or begin with one *)

(* submit_task: create_task inserts the row as pending and, in a second    *)
(* transaction, makes a row without dependencies ready.  The dependencies  *)
(* must exist.  Then trigger_pending_tasks; no node is assigned.           *)
Submit(t, D) ==
    /\ status[t] = "absent"
    /\ \A d \in D : status[d] # "absent"
    /\ Serve("submit", [IdleThread EXCEPT !.pc = "promote_new", !.task = t])
    /\ set_task_status(t, "pending")
    /\ deps' = [deps EXCEPT ![t] = D]
    /\ UNCHANGED <<assigned, attempts, ballot, lease, pin, health, restarts>>

PromoteNew(p) ==
    /\ At(p, "promote_new")
    /\ LET t == th[p].task IN
         status' = IF deps[t] = {} /\ status[t] = "pending"
                   THEN [status EXCEPT ![t] = "ready"] ELSE status
    /\ Goto(p, [IdleThread EXCEPT !.pc = "trigger"])
    /\ UNCHANGED <<assigned, attempts, deps, ballot, lease, pin, health, restarts>>

(* schedule_trigger: trigger_pending_tasks, then schedule_pending. *)
ScheduleTrigger ==
    /\ Serve("trigger", [IdleThread EXCEPT !.pc = "trigger", !.then = "schedule"])
    /\ UNCHANGED <<taskRows, lease, pin, health, restarts>>

(* report_lane: the node that runs a lane's delivery pins the lane to      *)
(* itself; scheduling is triggered at once.                                *)
ReportLane(k, n) ==
    /\ pin[k] # n
    /\ Serve("report_lane", [IdleThread EXCEPT !.pc = "trigger", !.then = "schedule"])
    /\ pin' = [pin EXCEPT ![k] = n]
    /\ UNCHANGED <<taskRows, lease, health, restarts>>

Trigger(p) ==
    /\ At(p, "trigger")
    /\ status' = [t \in Tasks |-> IF promotable(t) THEN "ready" ELSE status[t]]
    /\ Return(p, th[p].then)
    /\ UNCHANGED <<assigned, attempts, deps, ballot, lease, pin, health, restarts>>

Schedule(p) ==
    /\ At(p, "schedule")
    /\ \E plan \in PlansNow : schedule_pending(plan)
    /\ Done(p)
    /\ UNCHANGED <<attempts, deps, ballot, pin, health, restarts>>

(* unblock_task: blocked goes back to pending, for a later trigger. *)
UnblockTask(t) ==
    /\ status[t] = "blocked"
    /\ Serve("unblock", IdleThread)
    /\ set_task_status(t, "pending")
    /\ UNCHANGED <<assigned, attempts, deps, ballot, lease, pin, health, restarts>>

(* set_dependencies: any list is accepted; a ready task with dependencies  *)
(* goes back to pending.                                                   *)
SetDependencies(t, D) ==
    /\ status[t] # "absent"
    /\ deps[t] # D
    /\ Serve("set_dependencies", IdleThread)
    /\ deps' = [deps EXCEPT ![t] = D]
    /\ status' = IF D # {} /\ status[t] = "ready"
                 THEN [status EXCEPT ![t] = "pending"] ELSE status
    /\ UNCHANGED <<assigned, attempts, ballot, lease, pin, health, restarts>>

----------------------------------------------------------------------------
(* Handlers that work through the lease of a task, then write its status.  *)
(* Each reads the row first and decides on what it read.                   *)

Closed == {"completed", "failed", "cancelled"}
Exists(t) == status[t] # "absent"

(* complete_task *)
Complete(t) ==
    /\ Exists(t) /\ status[t] \notin Closed
    /\ Serve("complete",
          [IdleThread EXCEPT !.pc = "lookup", !.task = t, !.then = "write",
             !.to   = IF status[t] = "cancel_requested" THEN "cancelled" ELSE "completed",
             !.tail = IF status[t] = "cancel_requested" THEN "idle" ELSE "downstream"])
    /\ UNCHANGED <<taskRows, lease, pin, health, restarts>>

(* complete_task of a reviewer whose result carries no verdict (#919): the *)
(* lease is looked for a second time before the task is re-queued.         *)
CompleteVetoed(t) ==
    /\ Exists(t) /\ status[t] \notin Closed \cup {"cancel_requested"}
    /\ Serve("veto",
          [IdleThread EXCEPT !.pc = "lookup", !.task = t, !.then = "veto_lookup",
             !.to = "failed", !.tail = "cascade"])
    /\ UNCHANGED <<taskRows, lease, pin, health, restarts>>

(* fail_task: the acknowledgement of a cancel, a request to re-queue       *)
(* (#870), or a consuming failure.                                         *)
Fail(t, requeue) ==
    /\ Exists(t) /\ status[t] \notin Closed
    /\ Serve(IF requeue THEN "fail_requeue" ELSE "fail",
          IF status[t] = "cancel_requested"
          THEN [IdleThread EXCEPT !.pc = "write", !.task = t, !.to = "cancelled"]
          ELSE [IdleThread EXCEPT !.pc = IF requeue THEN "requeue" ELSE "lookup",
                  !.task = t, !.then = "write", !.to = "failed", !.tail = "cascade"])
    /\ UNCHANGED <<taskRows, lease, pin, health, restarts>>

(* cancel_task: which status is written depends on the lease found next. *)
Cancel(t) ==
    /\ Exists(t) /\ status[t] \notin TERMINAL_TASK_STATUSES
    /\ Serve("cancel", [IdleThread EXCEPT !.pc = "lookup", !.task = t,
                          !.then = "write", !.to = "cancel", !.tail = "cascade"])
    /\ UNCHANGED <<taskRows, lease, pin, health, restarts>>

(* block_task: the ballot is recorded before the status is written. *)
Block(t) ==
    /\ Exists(t) /\ status[t] \notin TERMINAL_TASK_STATUSES \cup {"blocked"}
    /\ Serve("block", [IdleThread EXCEPT !.pc = "lookup", !.task = t,
                         !.then = "ballot", !.to = "blocked"])
    /\ UNCHANGED <<taskRows, lease, pin, health, restarts>>

(* answer_task: the answer is recorded, then the task unblocked to ready. *)
Answer(t) ==
    /\ status[t] = "blocked" /\ ballot[t] = "open"
    /\ Serve("answer", [IdleThread EXCEPT !.pc = "unblock_to_ready", !.task = t])
    /\ ballot' = [ballot EXCEPT ![t] = "answered"]
    /\ UNCHANGED <<status, assigned, attempts, deps, lease, pin, health, restarts>>

(* manual_advance: any open task with its dependencies met, a running one  *)
(* too, is written ready; then schedule_pending.                           *)
Advance(t) ==
    /\ Exists(t) /\ status[t] \notin TERMINAL_TASK_STATUSES
    /\ DepsMet(t)
    /\ Serve("advance", [IdleThread EXCEPT !.pc = "write", !.task = t,
                           !.to = "ready", !.tail = "schedule"])
    /\ UNCHANGED <<taskRows, lease, pin, health, restarts>>

(* claim_task and release_task.  After set_task_status both reach for      *)
(* _state._tasks_lock, which ClusterStore does not have: the request ends  *)
(* in an error there, before the assignment is changed or a lease made.    *)
Claim(t) ==
    /\ status[t] = "ready" /\ assigned[t] = NoNode
    /\ Serve("claim", [IdleThread EXCEPT !.pc = "write", !.task = t, !.to = "running"])
    /\ UNCHANGED <<taskRows, lease, pin, health, restarts>>

Release(t) ==
    /\ Exists(t) /\ assigned[t] # NoNode
    /\ Serve("release", [IdleThread EXCEPT !.pc = "lookup", !.task = t,
                           !.then = "write", !.to = "ready"])
    /\ UNCHANGED <<taskRows, lease, pin, health, restarts>>

----------------------------------------------------------------------------
(* Steps the task handlers share *)

(* get_lease_by_task.  A cancel becomes immediate or two-phase here. *)
Lookup(p) ==
    /\ p \in Threads /\ th[p].pc \in {"lookup", "veto_lookup"}
    /\ LET r == IF th[p].pc = "lookup" THEN th[p]
                ELSE [th[p] EXCEPT !.then = "veto_requeue"]
           to(found) == IF r.to # "cancel" THEN r.to
                        ELSE IF found THEN "cancel_requested" ELSE "cancelled"
       IN  \/ /\ LeasesOf(r.task) = {}
              /\ Goto(p, [r EXCEPT !.pc = r.then, !.to = to(FALSE)])
           \/ \E l \in LeasesOf(r.task) :
                Goto(p, [r EXCEPT !.pc = "revoke", !.lid = l, !.to = to(TRUE)])
    /\ UNCHANGED <<taskRows, lease, pin, health, restarts>>

Revoke(p) ==
    /\ At(p, "revoke")
    /\ revoke_lease(p, {th[p].lid})
    /\ Goto(p, [th[p] EXCEPT !.pc = th[p].then, !.lid = NoLease])
    /\ UNCHANGED <<taskRows, pin, health, restarts>>

(* requeue_task, one transaction: live leases revoked whatever follows;    *)
(* back to ready below the cap, else the failure is consumed.              *)
Requeue(p) ==
    /\ p \in Threads /\ th[p].pc \in {"requeue", "veto_requeue"}
    /\ LET t == th[p].task IN
         /\ revoke_lease(p, {l \in LiveLeases : lease[l].task = t})
         /\ IF requeueable(t)
            THEN /\ status' = [status EXCEPT ![t] = "ready"]
                 /\ assigned' = [assigned EXCEPT ![t] = NoNode]
                 /\ attempts' = [attempts EXCEPT ![t] = @ + 1]
                 /\ Goto(p, [IdleThread EXCEPT !.pc = "schedule"])
            ELSE /\ Step(p, IF th[p].pc = "requeue" THEN "lookup" ELSE "write")
                 /\ UNCHANGED <<status, assigned, attempts>>
    /\ UNCHANGED <<deps, ballot, pin, health, restarts>>

(* Mutant: the question is not recorded. *)
Mut_RecordBallot(p) ==
    /\ At(p, "ballot")
    /\ Step(p, "write")
    /\ UNCHANGED <<taskRows, lease, pin, health, restarts>>

RecordBallot(p) ==
    /\ At(p, "ballot")
    /\ ballot' = [ballot EXCEPT ![th[p].task] = "open"]
    /\ Step(p, "write")
    /\ UNCHANGED <<status, assigned, attempts, deps, lease, pin, health, restarts>>

(* A thread walking over tasks; with none left it goes on at once. *)
AtDependents(S) == IF S = {} THEN [IdleThread EXCEPT !.pc = "schedule"]
                   ELSE [IdleThread EXCEPT !.pc = "dependents", !.todo = S]
AtVictims(S) == IF S = {} THEN IdleThread
                ELSE [IdleThread EXCEPT !.pc = "victims", !.todo = S]

(* set_task_status, then the handler's tail: nothing more, a schedule, or  *)
(* a walk over the dependents.  The tasks to walk are read here, since     *)
(* only this thread changes dependencies.                                  *)
Write(p) ==
    /\ At(p, "write")
    /\ LET r == th[p] IN
         /\ set_task_status(r.task, r.to)
         /\ CASE r.tail = "idle" -> Done(p)
              [] r.tail = "schedule" -> Goto(p, [IdleThread EXCEPT !.pc = "schedule"])
              [] r.tail = "downstream" -> Goto(p, AtDependents(get_dependents(r.task)))
              [] r.tail = "dependents" -> Goto(p, AtDependents(r.todo))
              [] r.tail = "cascade" -> Goto(p, AtVictims(get_trigger_chain(r.task)))
              [] r.tail = "victims" -> Goto(p, AtVictims(r.todo))
    /\ UNCHANGED <<assigned, attempts, deps, ballot, lease, pin, health, restarts>>

(* Mutant: a dependent that is not ready to run is looked at again and     *)
(* again.                                                                  *)
Mut_Dependents(p) ==
    /\ At(p, "dependents")
    /\ \E d \in th[p].todo :
        Goto(p, IF promotable(d)
                THEN [th[p] EXCEPT !.pc = "write", !.task = d, !.todo = @ \ {d},
                                   !.to = "ready", !.tail = "dependents"]
                ELSE AtDependents(th[p].todo))
    /\ UNCHANGED <<taskRows, lease, pin, health, restarts>>

(* _trigger_downstream: a dependent read as pending with its dependencies  *)
(* completed is written ready; at the end, schedule_pending.               *)
Dependents(p) ==
    /\ At(p, "dependents")
    /\ \E d \in th[p].todo :
        LET rest == th[p].todo \ {d}
        IN  Goto(p, IF promotable(d)
                    THEN [th[p] EXCEPT !.pc = "write", !.task = d, !.todo = rest,
                                       !.to = "ready", !.tail = "dependents"]
                    ELSE AtDependents(rest))
    /\ UNCHANGED <<taskRows, lease, pin, health, restarts>>

(* Mutant: dependents are cancelled whatever their status. *)
Mut_Victims(p) ==
    /\ At(p, "victims")
    /\ \E d \in th[p].todo :
        Goto(p, [th[p] EXCEPT !.pc = "lookup", !.task = d, !.then = "write",
                              !.todo = @ \ {d}, !.to = "cancel", !.tail = "victims"])
    /\ UNCHANGED <<taskRows, lease, pin, health, restarts>>

(* _cascade_cancel_dependents: an open dependent is cancelled the way      *)
(* cancel_task cancels, without a cascade of its own.                      *)
Victims(p) ==
    /\ At(p, "victims")
    /\ \E d \in th[p].todo :
        LET rest == th[p].todo \ {d}
        IN  Goto(p, IF status[d] \in TERMINAL_TASK_STATUSES THEN AtVictims(rest)
                    ELSE [th[p] EXCEPT !.pc = "lookup", !.task = d, !.then = "write",
                                       !.todo = rest, !.to = "cancel", !.tail = "victims"])
    /\ UNCHANGED <<taskRows, lease, pin, health, restarts>>

(* unblock_to_ready: guarded on the status still being blocked; the old    *)
(* assignment stays on the row.                                            *)
UnblockToReady(p) ==
    /\ At(p, "unblock_to_ready")
    /\ LET t == th[p].task IN
         status' = IF status[t] = "blocked" THEN [status EXCEPT ![t] = "ready"] ELSE status
    /\ Done(p)
    /\ UNCHANGED <<assigned, attempts, deps, ballot, lease, pin, health, restarts>>

----------------------------------------------------------------------------
(* LeaseManager.extend, called by extend_lease.  get_active_leases runs    *)
(* under the manager's lock: if any lease has lapsed, its expiry callback  *)
(* asks for that same lock and the thread waits for itself.                *)

Extend(l) ==
    /\ lease[l].st = "active"
    /\ Serve("extend", IF LapsedLeases # {} THEN [IdleThread EXCEPT !.pc = "stuck"]
                       ELSE [IdleThread EXCEPT !.pc = "extend_create", !.lid = l])
    /\ UNCHANGED <<taskRows, lease, pin, health, restarts>>

(* create_lease with the task and node of the lease as it was read. *)
ExtendCreate(p) ==
    /\ At(p, "extend_create")
    /\ \E l \in FreeRows :
        lease' = [lease EXCEPT ![l] = [task |-> lease[th[p].lid].task,
                                       node |-> lease[th[p].lid].node,
                                       st |-> "active", live |-> TRUE]]
    /\ Step(p, "extend_revoke")
    /\ UNCHANGED <<taskRows, pin, health, restarts>>

ExtendRevoke(p) ==
    /\ At(p, "extend_revoke")
    /\ revoke_lease(p, {th[p].lid})
    /\ Done(p)
    /\ UNCHANGED <<taskRows, pin, health, restarts>>

----------------------------------------------------------------------------
(* A thread with nodes to recover. *)
AtNodes(S) == IF S = {} THEN IdleThread ELSE [IdleThread EXCEPT !.pc = "nodes", !.nodes = S]

(* The expiry scan: get_active_leases reads the lapsed rows in one         *)
(* transaction and marks them in another.  The lease scanner only scans;   *)
(* detect_expired_leases (auto-recovery, or POST /recovery/detect-expired) *)
(* goes on to recover every node that has an expired lease.                *)

Scan(p, r) ==
    Goto(p, IF LapsedLeases = {} THEN [r EXCEPT !.pc = r.then]
            ELSE [r EXCEPT !.rows = LapsedLeases])

ScannerScan ==
    /\ At("scanner", "idle")
    /\ LapsedLeases # {}
    /\ Scan("scanner", [IdleThread EXCEPT !.pc = "mark"])
    /\ UNCHANGED <<taskRows, lease, pin, health, restarts>>

AutoScan ==
    /\ At("auto", "idle")
    /\ LapsedLeases \cup ExpiredLeases # {}
    /\ Scan("auto", [IdleThread EXCEPT !.pc = "mark", !.then = "expired"])
    /\ UNCHANGED <<taskRows, lease, pin, health, restarts>>

DetectExpired ==
    /\ LapsedLeases \cup ExpiredLeases # {}
    /\ "detect_expired" \in Calls /\ th["loop"].pc = "idle"
    /\ Scan("loop", [IdleThread EXCEPT !.pc = "mark", !.then = "expired"])
    /\ UNCHANGED <<taskRows, lease, pin, health, restarts>>

Mark(p) ==
    /\ At(p, "mark")
    /\ ManagerLockFree
    /\ mark_expired(th[p].rows)
    /\ IF th[p].then = "idle" THEN Done(p)
       ELSE Goto(p, [th[p] EXCEPT !.pc = th[p].then, !.rows = {}])
    /\ UNCHANGED <<taskRows, pin, health, restarts>>

(* get_expired_leases: the nodes to recover. *)
ExpiredNodes(p) ==
    /\ At(p, "expired")
    /\ Goto(p, AtNodes({lease[l].node : l \in ExpiredLeases}))
    /\ UNCHANGED <<taskRows, lease, pin, health, restarts>>

----------------------------------------------------------------------------
(* RecoveryManager.trigger_recovery *)

(* POST /recovery/trigger *)
RecoveryTrigger(n) ==
    /\ Serve("recover", AtNodes({n}))
    /\ UNCHANGED <<taskRows, lease, pin, health, restarts>>

(* Revoker.revoke_all_for_node: the live leases of the node (which marks   *)
(* lapsed ones), then the expired ones, then one revocation after another. *)
RecRead(p) ==
    /\ At(p, "nodes")
    /\ \E n \in th[p].nodes :
        Goto(p, [th[p] EXCEPT
                   !.pc    = IF LapsedLeases = {} THEN "rec_expired" ELSE "rec_mark",
                   !.nodes = @ \ {n},
                   !.node  = n,
                   !.rows  = LapsedLeases,
                   !.keep  = {l \in LiveLeases : lease[l].node = n}])
    /\ UNCHANGED <<taskRows, lease, pin, health, restarts>>

RecMark(p) ==
    /\ At(p, "rec_mark")
    /\ ManagerLockFree
    /\ mark_expired(th[p].rows)
    /\ Goto(p, [th[p] EXCEPT !.pc = "rec_expired", !.rows = {}])
    /\ UNCHANGED <<taskRows, pin, health, restarts>>

(* Mutant: only leases that are still live are revoked. *)
Mut_RecExpired(p) ==
    /\ At(p, "rec_expired")
    /\ Goto(p, IF th[p].keep = {} THEN AtNodes(th[p].nodes)
               ELSE [th[p] EXCEPT !.pc = "rec_revoke", !.node = NoNode])
    /\ UNCHANGED <<taskRows, lease, pin, health, restarts>>

RecExpired(p) ==
    /\ At(p, "rec_expired")
    /\ LET all == th[p].keep \cup {l \in ExpiredLeases : lease[l].node = th[p].node}
       IN  Goto(p, IF all = {} THEN AtNodes(th[p].nodes)
                   ELSE [th[p] EXCEPT !.pc = "rec_revoke", !.node = NoNode, !.keep = all])
    /\ UNCHANGED <<taskRows, lease, pin, health, restarts>>

RecRevoke(p) ==
    /\ At(p, "rec_revoke")
    /\ \E l \in th[p].keep :
        /\ revoke_lease(p, {l})
        /\ Goto(p, [th[p] EXCEPT !.pc   = IF th[p].keep = {l} THEN "rec_task" ELSE "rec_revoke",
                                 !.keep = @ \ {l},
                                 !.todo = @ \cup {lease[l].task}])
    /\ UNCHANGED <<taskRows, pin, health, restarts>>

(* Rescheduler.reschedule_orphaned, one task after another; then the next  *)
(* node.                                                                   *)
AtOrphans(S, nodes) ==
    IF S = {} THEN AtNodes(nodes)
    ELSE [IdleThread EXCEPT !.pc = "rec_task", !.todo = S, !.nodes = nodes]

(* unassign_task refuses a closed task and a task under a live lease. *)
RecTask(p) ==
    /\ At(p, "rec_task")
    /\ \E t \in th[p].todo :
        LET rest == th[p].todo \ {t}
        IN  IF unassignable(t)
            THEN /\ status' = [status EXCEPT ![t] = "ready"]
                 /\ assigned' = [assigned EXCEPT ![t] = NoNode]
                 /\ Goto(p, [th[p] EXCEPT !.pc = "rec_schedule", !.task = t, !.todo = rest])
            ELSE /\ Goto(p, AtOrphans(rest, th[p].nodes))
                 /\ UNCHANGED <<status, assigned>>
    /\ UNCHANGED <<attempts, deps, ballot, lease, pin, health, restarts>>

(* schedule_pending; with nothing scheduled at all the task is failed,     *)
(* otherwise its assignment is looked at.                                  *)
RecSchedule(p) ==
    /\ At(p, "rec_schedule")
    /\ \E plan \in PlansNow :
        /\ schedule_pending(plan)
        /\ Step(p, IF Placed(plan) = {} THEN "rec_fail" ELSE "rec_check")
    /\ UNCHANGED <<attempts, deps, ballot, pin, health, restarts>>

NextOrphan(p) == Goto(p, AtOrphans(th[p].todo, th[p].nodes))

RecCheck(p) ==
    /\ At(p, "rec_check")
    /\ IF assigned[th[p].task] # NoNode THEN NextOrphan(p) ELSE Step(p, "rec_fail")
    /\ UNCHANGED <<taskRows, lease, pin, health, restarts>>

RecFail(p) ==
    /\ At(p, "rec_fail")
    /\ set_task_status(th[p].task, "failed")
    /\ NextOrphan(p)
    /\ UNCHANGED <<assigned, attempts, deps, ballot, lease, pin, health, restarts>>

----------------------------------------------------------------------------
(* The environment *)

(* The clock passes a lease's expires_at: its holder did not renew it. *)
Lapse(l) ==
    /\ l \in LiveLeases
    /\ lease' = [lease EXCEPT ![l].live = FALSE]
    /\ UNCHANGED <<taskRows, pin, health, th, restarts>>

(* Watchdog and heartbeats: only online nodes receive work, so degraded    *)
(* is left out.  The offline event reaches a queue nobody reads.           *)
SetNodeStatus(n, s) ==
    /\ health[n] # s
    /\ health' = [health EXCEPT ![n] = s]
    /\ UNCHANGED <<taskRows, lease, pin, th, restarts>>

(* The process dies between any two transactions and starts again on the   *)
(* rows it committed; startup promotes and schedules once (#878).          *)
Restart ==
    /\ restarts < MaxRestarts
    /\ restarts' = restarts + 1
    /\ th' = [p \in Threads |->
                IF p = "loop" THEN [IdleThread EXCEPT !.pc = "trigger", !.then = "schedule"]
                              ELSE IdleThread]
    /\ UNCHANGED <<taskRows, lease, pin, health>>

----------------------------------------------------------------------------
Request ==
    \/ \E t \in Tasks : \/ \E D \in DepChoices : Submit(t, D) \/ SetDependencies(t, D)
                         \/ Complete(t) \/ CompleteVetoed(t)
                         \/ Fail(t, TRUE) \/ Fail(t, FALSE)
                         \/ Cancel(t) \/ Block(t) \/ Answer(t) \/ UnblockTask(t)
                         \/ Advance(t) \/ Claim(t) \/ Release(t)
    \/ \E l \in LeaseIds : Extend(l)
    \/ \E k \in Lanes, n \in Nodes : ReportLane(k, n)
    \/ \E n \in Nodes : RecoveryTrigger(n)
    \/ ScheduleTrigger \/ DetectExpired

Continue(p) ==
    \/ PromoteNew(p) \/ Trigger(p) \/ Schedule(p)
    \/ Lookup(p) \/ Revoke(p) \/ Requeue(p) \/ RecordBallot(p) \/ Write(p)
    \/ Dependents(p) \/ Victims(p) \/ UnblockToReady(p)
    \/ ExtendCreate(p) \/ ExtendRevoke(p)
    \/ Mark(p) \/ ExpiredNodes(p)
    \/ RecRead(p) \/ RecMark(p) \/ RecExpired(p) \/ RecRevoke(p)
    \/ RecTask(p) \/ RecSchedule(p) \/ RecCheck(p) \/ RecFail(p)

Environment ==
    \/ \E l \in LeaseIds : Lapse(l)
    \/ \E n \in Flaky, s \in {"online", "offline"} : SetNodeStatus(n, s)
    \/ Restart

Next ==
    \/ Request
    \/ \E p \in Threads : Continue(p)
    \/ ScannerScan \/ AutoScan
    \/ Environment

Spec == Init /\ [][Next]_vars

(* Threads keep running: the event loop finishes the request it serves,    *)
(* and auto-recovery scans again and again and finishes every scan.        *)
Fairness ==
    /\ \A p \in Threads : WF_vars(Continue(p))
    /\ WF_vars(AutoScan)

FairSpec == Spec /\ Fairness

----------------------------------------------------------------------------
(* Safety *)

(* scheduler.py, lane serialization: however handlers, recoveries and      *)
(* passes of different threads interleave, at most one task of a lane is   *)
(* active.                                                                 *)
LaneExclusive ==
    \A t, u \in Tasks :
        /\ status[t] \in ACTIVE_TASK_STATUSES
        /\ status[u] \in ACTIVE_TASK_STATUSES
        /\ SameLane(t, u)
        => t = u

(* A lease is exclusive ownership (#833): while no client renews leases,   *)
(* a task has at most one live lease, through advance, requeue, lapses and *)
(* concurrent recoveries.                                                  *)
SingleLiveLease ==
    \A l, m \in LiveLeases : lease[l].task = lease[m].task => l = m

(* The same, as far as it can hold while leases are renewed: two live      *)
(* leases of one task never name different nodes.                          *)
OneOwnerNode ==
    \A l, m \in LiveLeases : lease[l].task = lease[m].task => lease[l].node = lease[m].node

(* Nothing is lost (#916): whenever no thread is in the middle of a        *)
(* request or a recovery, every running task has a lease that is active or *)
(* expired on the node it is assigned to, so recovery can reclaim it.      *)
NoStranded ==
    (\A p \in Threads : th[p].pc = "idle") =>
        \A t \in Tasks : status[t] = "running" =>
            \E l \in ActiveLeases \cup ExpiredLeases :
                lease[l].task = t /\ lease[l].node = assigned[t]

(* A delivered task is never worked on again: once completed, no step of   *)
(* any thread makes it open.  (Recovery may still write failed over it.)   *)
CompletedNotReopened ==
    [][\A t \in Tasks : status[t] = "completed" => status'[t] \in {"completed", "failed"}]_vars

(* The dependency gate (#905): a task that was never blocked starts only   *)
(* when every task it depends on is completed.                             *)
StartsAfterDeps ==
    [][\A t \in Tasks :
        status[t] # "running" /\ status'[t] = "running" => DepsMet(t) \/ ballot[t] # "none"]_vars

(* Lane affinity (#858): a task of a pinned lane starts on the lane's node *)
(* or not at all, whichever thread's pass starts it.                       *)
LaneNotRehomed ==
    [][\A t \in Tasks : /\ status[t] # "running" /\ status'[t] = "running"
                        /\ PinOf(t, pin) # NoNode
                        => assigned'[t] = PinOf(t, pin)]_vars

(* Ballots (#894): a blocked task can be answered.  Whenever the event     *)
(* loop is between requests, its question is still open.                   *)
BlockedAnswerable ==
    th["loop"].pc = "idle" => \A t \in Tasks : status[t] = "blocked" => ballot[t] = "open"

(* The two-phase cancel: a task closed by cancel, complete or fail has no  *)
(* live lease left once its request is over, so no worker still owns it.   *)
ClosedUnleased ==
    (\A p \in Threads : th[p].pc = "idle") =>
        \A t \in LeasedTasks : status[t] \notin TERMINAL_TASK_STATUSES

----------------------------------------------------------------------------
(* What comments and docstrings of the repository say.  The first holds    *)
(* while no recovery runs and nothing is released; the code on this store  *)
(* keeps none of the others (README, divergences).                         *)

(* Terminal-state invariant (B1): a closed task keeps its status, except   *)
(* that a requested cancel is acknowledged.                                *)
TerminalFinal ==
    [][\A t \in Tasks : status[t] \in TERMINAL_TASK_STATUSES =>
        \/ status'[t] = status[t]
        \/ status[t] = "cancel_requested" /\ status'[t] = "cancelled"]_vars

(* Rescheduler: a task is marked failed when no node is available for it,  *)
(* never while it runs under a live lease.                                 *)
FailsOnlyUnplaced ==
    \A p \in Threads : th[p].pc = "rec_fail" =>
        ~(status[th[p].task] = "running" /\ th[p].task \in LeasedTasks)

(* lane_affinity.py: a task of a pinned lane whose node is away is parked, *)
(* recovery does not fail it.                                              *)
ParkedNotFailed ==
    \A p \in Threads : th[p].pc = "rec_fail" => PinOf(th[p].task, pin) = NoNode

(* block_task: it is the answer (or an operator) that resumes a blocked    *)
(* task; a recovery of some node does not.                                 *)
BlockedUntilAnswered ==
    [][\A t \in Tasks : status[t] = "blocked" /\ status'[t] # "blocked" =>
        th["loop"].pc \in {"idle", "write", "unblock_to_ready"}]_vars

----------------------------------------------------------------------------
(* Liveness *)

(* Recovery reclaims (#916): a running task whose lease has lapsed does    *)
(* not stay so: it is closed, handed back, or running under a new lease.   *)
Reclaimed ==
    \A t \in Tasks :
        (status[t] = "running" /\ t \notin LeasedTasks)
            ~> (status[t] # "running" \/ t \in LeasedTasks)

(* Every request the event loop serves comes to an end. *)
RequestsEnd == th["loop"].pc # "idle" ~> th["loop"].pc = "idle"
=============================================================================
