------------------------------ MODULE MemStore ------------------------------
(***************************************************************************)
(* The in-memory store (state/__init__.py, ClusterState), which serves     *)
(* when no database is configured.  Every table has a lock of its own, so  *)
(* what is one transaction of the other stores is several critical         *)
(* sections here; a step is one of them, and threads (the event loop's,    *)
(* the scanner's, the intake poller's, a recovery's) come in between.      *)
(*                                                                         *)
(* Which node a pass picks among those with room, and pins, is Planner's.  *)
(* "cancelled" stands for failed too: the sections treat both alike.       *)
(***************************************************************************)
EXTENDS Naturals, FiniteSets

CONSTANTS MemTasks, MemNodes, MemCap, MemLane, MemDeps, MemThreads, MemRetryLimit,
          MemLeases, MemMaxCalls

(* Ids are never the empty value, capacities are numbers, and tasks depend *)
(* on tasks.                                                               *)
ASSUME MemAssumption ==
    /\ "nobody" \notin MemTasks
    /\ IsFiniteSet(MemTasks) /\ MemCap \in [MemNodes -> Nat]
    /\ MemDeps \in [MemTasks -> SUBSET MemTasks]
    /\ MemLeases \in Nat

VARIABLES
    memTask,    \* _tasks
    memLease,   \* the leases whose status is active
    memIndex,   \* _task_lease_index: slot of the last lease made, 0 for none
    memUp,      \* nodes that are online
    memAt,      \* where each thread is between two critical sections
    memClaimed, \* history: tasks written "running" since a pass last did
    memCalls    \* calls, lapses and flips so far (bound MemMaxCalls)

memVars == <<memTask, memLease, memIndex, memUp, memAt, memClaimed, memCalls>>

MemNobody == "nobody"
MemTerminal == {"completed", "cancel_requested", "cancelled"}
MemSlots == 1..MemLeases
MemFree == [task |-> MemNobody, node |-> MemNobody, live |-> FALSE]
MemIdle == [pc |-> "idle", task |-> MemNobody, node |-> MemNobody, slot |-> 0,
            nodes |-> {}, leased |-> {}]

MemInit ==
    /\ memTask = [t \in MemTasks |->
                    [st |-> "none", node |-> MemNobody, deps |-> {}, attempts |-> 0]]
    /\ memLease = [l \in MemSlots |-> MemFree]
    /\ memIndex = [t \in MemTasks |-> 0]
    /\ memUp = MemNodes
    /\ memAt = [h \in MemThreads |-> MemIdle]
    /\ memClaimed = {}
    /\ memCalls = 0

MemCall == memCalls < MemMaxCalls /\ memCalls' = memCalls + 1
MemGoto(h, rec) == memAt' = [memAt EXCEPT ![h] = rec]
MemOf(t) == {l \in MemSlots : memLease[l].task = t}
MemLive(t) == {l \in MemOf(t) : memLease[l].live}

(* get_lease_by_task: the indexed lease if it is active, else any active   *)
(* one, lapsed or not.                                                     *)
mem_get_lease_by_task(t) ==
    IF memIndex[t] \in MemOf(t) THEN {memIndex[t]} ELSE MemOf(t)

----------------------------------------------------------------------------
(* Calls of one critical section *)

(* create_task: pending, whatever it depends on. *)
mem_create_task(t) ==
    /\ memTask[t].st = "none"
    /\ memTask' = [memTask EXCEPT ![t].st = "pending", ![t].deps = MemDeps[t]]
    /\ MemCall
    /\ UNCHANGED <<memLease, memIndex, memUp, memAt, memClaimed>>

(* set_task_status: closed tasks stay closed, but for the acknowledgement  *)
(* of a cancel.                                                            *)
MemAccepts(t, s) ==
    /\ memTask[t].st # "none"
    /\ memTask[t].st \in MemTerminal => memTask[t].st = "cancel_requested" /\ s = "cancelled"

mem_set_task_status(t, s) ==
    /\ MemAccepts(t, s)
    /\ memTask' = [memTask EXCEPT ![t].st = s]
    /\ memClaimed' = IF s = "running" THEN memClaimed \cup {t} ELSE memClaimed
    /\ MemCall
    /\ UNCHANGED <<memLease, memIndex, memUp, memAt>>

(* unassign_task: refused while any lease of the task is active (#833). *)
mem_unassign_task(t) ==
    /\ memTask[t].st \notin MemTerminal \cup {"none"}
    /\ mem_get_lease_by_task(t) = {}
    /\ memTask' = [memTask EXCEPT ![t].st = "ready", ![t].node = MemNobody]
    /\ MemCall
    /\ UNCHANGED <<memLease, memIndex, memUp, memAt, memClaimed>>

(* unblock_task, unblock_to_ready. *)
mem_unblock(t, s) ==
    /\ memTask[t].st = "blocked"
    /\ memTask' = [memTask EXCEPT ![t].st = s]
    /\ MemCall
    /\ UNCHANGED <<memLease, memIndex, memUp, memAt, memClaimed>>

(* set_dependencies: a ready task stays ready, whatever is added. *)
mem_set_dependencies(t, D) ==
    /\ memTask[t].st # "none"
    /\ memTask' = [memTask EXCEPT ![t].deps = D]
    /\ MemCall
    /\ UNCHANGED <<memLease, memIndex, memUp, memAt, memClaimed>>

(* trigger_pending_tasks: one section for all of them. *)
mem_trigger_pending_tasks ==
    LET met(t) == /\ memTask[t].st = "pending"
                  /\ \A d \in memTask[t].deps : memTask[d].st = "completed"
    IN  /\ \E t \in MemTasks : met(t)
        /\ memTask' = [t \in MemTasks |-> IF met(t) THEN [memTask[t] EXCEPT !.st = "ready"]
                                          ELSE memTask[t]]
        /\ MemCall
        /\ UNCHANGED <<memLease, memIndex, memUp, memAt, memClaimed>>

(* create_lease, whatever leases the task has: POST /leases, and extend's  *)
(* copy, whose original is revoked in a section of its own.                *)
MemLend(t, n) ==
    \E l \in MemSlots :
        /\ memLease[l] = MemFree /\ \A k \in MemSlots : memLease[k] = MemFree => l <= k
        /\ memLease' = [memLease EXCEPT ![l] = [task |-> t, node |-> n, live |-> TRUE]]
        /\ memIndex' = [memIndex EXCEPT ![t] = l]

mem_create_lease(t, n) ==
    /\ memTask[t].st # "none"
    /\ MemLend(t, n)
    /\ MemCall
    /\ UNCHANGED <<memTask, memUp, memAt, memClaimed>>

(* revoke_lease: the index of the task goes with it, whichever lease it    *)
(* names.                                                                  *)
MemDrop(L) ==
    /\ memLease' = [l \in MemSlots |-> IF l \in L THEN MemFree ELSE memLease[l]]
    /\ memIndex' = [t \in MemTasks |-> IF \E l \in L : memLease[l].task = t THEN 0 ELSE memIndex[t]]

mem_revoke_lease(l) ==
    /\ memLease[l] # MemFree
    /\ MemDrop({l})
    /\ MemCall
    /\ UNCHANGED <<memTask, memUp, memAt, memClaimed>>

(* get_active_leases marks what has lapsed and tells the lease manager. *)
mem_get_active_leases ==
    LET lapsed == {l \in MemSlots : memLease[l] # MemFree /\ ~memLease[l].live}
    IN  /\ lapsed # {}
        /\ MemDrop(lapsed)
        /\ MemCall
        /\ UNCHANGED <<memTask, memUp, memAt, memClaimed>>

----------------------------------------------------------------------------
(* claim_task (routers/tasks.py): the row is read, then set_task_status,   *)
(* then assigned_to, then the lease, each under its lock.  What            *)
(* set_task_status says is not looked at.                                  *)
mem_claim_read(h, t, n) ==
    /\ memAt[h].pc = "idle"
    /\ memTask[t].st = "ready" /\ memTask[t].node = MemNobody
    /\ MemGoto(h, [MemIdle EXCEPT !.pc = "claim", !.task = t, !.node = n])
    /\ MemCall
    /\ UNCHANGED <<memTask, memLease, memIndex, memUp, memClaimed>>

mem_claim_status(h) ==
    LET t == memAt[h].task
        taken == MemAccepts(t, "running")
    IN  /\ memAt[h].pc = "claim"
        /\ memTask' = IF taken THEN [memTask EXCEPT ![t].st = "running"] ELSE memTask
        /\ memClaimed' = IF taken THEN memClaimed \cup {t} ELSE memClaimed
        /\ MemGoto(h, [memAt[h] EXCEPT !.pc = "take"])
        /\ UNCHANGED <<memLease, memIndex, memUp, memCalls>>

mem_claim_assign(h) ==
    /\ memAt[h].pc = "take"
    /\ memTask' = [memTask EXCEPT ![memAt[h].task].node = memAt[h].node]
    /\ MemGoto(h, [memAt[h] EXCEPT !.pc = "lend"])
    /\ UNCHANGED <<memLease, memIndex, memUp, memCalls, memClaimed>>

mem_claim_lease(h) ==
    /\ memAt[h].pc = "lend"
    /\ MemLend(memAt[h].task, memAt[h].node)
    /\ MemGoto(h, MemIdle)
    /\ UNCHANGED <<memTask, memUp, memCalls, memClaimed>>

----------------------------------------------------------------------------
(* requeue_task: the task under its lock, then the lease is looked up, and *)
(* then revoked.                                                           *)
mem_requeue_task(h, t) ==
    /\ memAt[h].pc = "idle"
    /\ memTask[t].st \notin MemTerminal \cup {"none"} /\ memTask[t].attempts < MemRetryLimit
    /\ memTask' = [memTask EXCEPT ![t].st = "ready", ![t].node = MemNobody, ![t].attempts = @ + 1]
    /\ MemGoto(h, [MemIdle EXCEPT !.pc = "lookup", !.task = t])
    /\ MemCall
    /\ UNCHANGED <<memLease, memIndex, memUp, memClaimed>>

mem_requeue_lookup(h) ==
    LET found == mem_get_lease_by_task(memAt[h].task)
    IN  /\ memAt[h].pc = "lookup"
        /\ IF found = {} THEN MemGoto(h, MemIdle)
           ELSE \E l \in found : MemGoto(h, [memAt[h] EXCEPT !.pc = "revoke", !.slot = l])
        /\ UNCHANGED <<memTask, memLease, memIndex, memUp, memCalls, memClaimed>>

mem_requeue_revoke(h) ==
    /\ memAt[h].pc = "revoke"
    /\ IF memLease[memAt[h].slot].task = memAt[h].task THEN MemDrop({memAt[h].slot})
       ELSE UNCHANGED <<memLease, memIndex>>
    /\ MemGoto(h, MemIdle)
    /\ UNCHANGED <<memTask, memUp, memCalls, memClaimed>>

----------------------------------------------------------------------------
(* schedule_pending_detailed: the nodes, the leased tasks and the lanes    *)
(* are read each under its lock; the rest is one section of the task lock. *)
mem_online_nodes(h) ==
    /\ memAt[h].pc = "idle" /\ memUp # {}
    /\ MemGoto(h, [MemIdle EXCEPT !.pc = "leased", !.nodes = memUp])
    /\ MemCall
    /\ UNCHANGED <<memTask, memLease, memIndex, memUp, memClaimed>>

mem_active_leased_task_ids(h) ==
    /\ memAt[h].pc = "leased"
    /\ MemGoto(h, [memAt[h] EXCEPT !.pc = "place", !.leased = {t \in MemTasks : MemLive(t) # {}}])
    /\ UNCHANGED <<memTask, memLease, memIndex, memUp, memCalls, memClaimed>>

MemSiblings(t) == {u \in MemTasks \ {t} : MemLane[u] = MemLane[t]}
MemRunning(n) == Cardinality({t \in MemTasks : memTask[t].st = "running" /\ memTask[t].node = n})

(* Mutant: the lanes that are busy are not looked at. *)
Mut_MemPlaceable(h, S) ==
    /\ \A t \in S : memTask[t].st = "ready" /\ t \notin memAt[h].leased
    /\ \A t \in S : MemSiblings(t) \cap S = {}

(* What a pass may start: ready tasks that were not leased, one a lane and *)
(* none where one runs (lane_blocked_ready_ids).                           *)
MemPlaceable(h, S) ==
    /\ \A t \in S : memTask[t].st = "ready" /\ t \notin memAt[h].leased
    /\ \A t \in S : \A u \in MemSiblings(t) : u \notin S /\ memTask[u].st # "running"

(* Mutant: the running loads are not counted up during the pass. *)
Mut_MemRoom(h, S, f) ==
    \A t \in S : f[t] \in memAt[h].nodes /\ MemRunning(f[t]) < MemCap[f[t]]

MemRoom(h, S, f) ==
    /\ \A t \in S : f[t] \in memAt[h].nodes
    /\ \A n \in MemNodes :
          LET k == Cardinality({t \in S : f[t] = n}) IN k > 0 => MemRunning(n) + k <= MemCap[n]

mem_schedule_pending_detailed(h) ==
    /\ memAt[h].pc = "place"
    /\ \E S \in SUBSET MemTasks : \E f \in [S -> MemNodes] :
          /\ MemPlaceable(h, S) /\ MemRoom(h, S, f)
          /\ memTask' = [t \in MemTasks |-> IF t \in S
                THEN [memTask[t] EXCEPT !.st = "running", !.node = f[t]] ELSE memTask[t]]
          /\ \E slot \in [S -> {l \in MemSlots : memLease[l] = MemFree}] :
                /\ \A t, u \in S : t # u => slot[t] # slot[u]
                /\ memIndex' = [t \in MemTasks |-> IF t \in S THEN slot[t] ELSE memIndex[t]]
                /\ memLease' = [l \in MemSlots |->
                      IF \E t \in S : slot[t] = l
                      THEN LET t == CHOOSE u \in S : slot[u] = l
                           IN  [task |-> t, node |-> f[t], live |-> TRUE]
                      ELSE memLease[l]]
          /\ memClaimed' = memClaimed \ S
    /\ MemGoto(h, MemIdle)
    /\ UNCHANGED <<memUp, memCalls>>

----------------------------------------------------------------------------
(* Time and the nodes *)
MemLapse(l) ==
    /\ memLease[l].live
    /\ memLease' = [memLease EXCEPT ![l].live = FALSE]
    /\ MemCall
    /\ UNCHANGED <<memTask, memIndex, memUp, memAt, memClaimed>>

MemNodeFlips(n) ==
    /\ memUp' = IF n \in memUp THEN memUp \ {n} ELSE memUp \cup {n}
    /\ MemCall
    /\ UNCHANGED <<memTask, memLease, memIndex, memAt, memClaimed>>

MemNext ==
    \/ mem_trigger_pending_tasks \/ mem_get_active_leases
    \/ \E t \in MemTasks :
        \/ mem_create_task(t) \/ mem_unassign_task(t)
        \/ \E s \in {"running", "completed", "cancel_requested", "cancelled", "blocked", "ready",
                    "pending"} :
              mem_set_task_status(t, s)
        \/ \E n \in MemNodes : mem_create_lease(t, n) \/ \E h \in MemThreads : mem_claim_read(h, t, n)
        \/ \E s \in {"ready", "pending"} : mem_unblock(t, s)
        \/ mem_set_dependencies(t, {}) \/ mem_set_dependencies(t, MemDeps[t])
        \/ \E h \in MemThreads : mem_requeue_task(h, t)
    \/ \E h \in MemThreads :
        \/ mem_claim_status(h) \/ mem_claim_assign(h) \/ mem_claim_lease(h)
        \/ mem_requeue_lookup(h) \/ mem_requeue_revoke(h)
        \/ mem_online_nodes(h) \/ mem_active_leased_task_ids(h)
        \/ mem_schedule_pending_detailed(h)
    \/ \E l \in MemSlots : mem_revoke_lease(l) \/ MemLapse(l)
    \/ \E n \in MemNodes : MemNodeFlips(n)

MemSpec == MemInit /\ [][MemNext]_memVars

----------------------------------------------------------------------------
MemAbstract == INSTANCE Store WITH
    Tasks <- MemTasks, Nodes <- MemNodes, Cap <- MemCap,
    st <- [t \in MemTasks |-> memTask[t].st],
    owner <- [t \in MemTasks |-> memTask[t].node],
    held <- [t \in MemTasks |-> {memLease[l].node : l \in MemLive(t)}],
    claimed <- memClaimed

(* Critical sections that interleave are steps of the atomic store: loads  *)
(* are read and written in one section, so two passes on stale lists of    *)
(* nodes and leases never overfill a node by what they place, nor start a  *)
(* task that was closed or claimed in between.                             *)
MemImplementsStore == MemAbstract!Spec

(* Passes, and a requeue between their sections, never start two tasks of  *)
(* a lane (LFP-1): of two that run, one was not started by a pass but      *)
(* written "running" by set_task_status, as a claim does.                  *)
MemLanesSerial ==
    \A t \in MemTasks \ memClaimed : \A u \in MemSiblings(t) \ memClaimed :
        ~(memTask[t].st = "running" /\ memTask[u].st = "running")
=============================================================================
