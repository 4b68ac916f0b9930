------------------------------- MODULE PgStore -------------------------------
(***************************************************************************)
(* The Postgres store (state/postgres_store.py).  Its callers (handlers,   *)
(* the scanner's, poller's and recovery's threads of one or more mains)    *)
(* are bridged onto an event loop, where each await lets the others run; a *)
(* step is one statement, at READ COMMITTED: it sees what was committed    *)
(* when it began, waits for a row another transaction has written, and     *)
(* then looks at that row, and at no other, again.                         *)
(*                                                                         *)
(* Which node a pass picks among those with room, and pins, is Planner's.  *)
(* "cancel_requested" stands for cancelled and failed too, which the       *)
(* statements treat alike.                                                 *)
(***************************************************************************)
EXTENDS Naturals, FiniteSets

CONSTANTS PgTasks, PgNodes, PgCap, PgLane, PgDeps, PgCallers, PgRetryLimit, PgLeases, PgMaxCalls

(* Ids are never the empty value, and tasks depend on tasks. *)
ASSUME PgAssumption ==
    /\ IsFiniteSet(PgTasks) /\ "nobody" \notin PgTasks
    /\ PgDeps \in [PgTasks -> SUBSET PgTasks]
    /\ PgCap \in [PgNodes -> Nat]
    /\ PgLeases \in Nat

VARIABLES
    pgRow,      \* the committed row of each task
    pgLease,    \* the active rows of the lease table (slots; a slot is free
                \* once its row is revoked or expired)
    pgUp,       \* nodes that are online
    pgTx,       \* what each caller is in the middle of
    pgClaimed,  \* history: tasks written "running" since a pass last did
    pgCalls     \* calls, lapses and flips so far (bound PgMaxCalls)

pgVars == <<pgRow, pgLease, pgUp, pgTx, pgClaimed, pgCalls>>

PgNobody == "nobody"
PgTerminal == {"completed", "cancel_requested", "cancelled"}
PgSlots == 1..PgLeases

(* A lease: "passed" by a pass or made by a call (history).                *)
PgFree == [task |-> PgNobody, node |-> PgNobody, live |-> FALSE, passed |-> FALSE]

(* lent: tasks that calls made leases of since this pass read the leases   *)
(* (history).                                                              *)
PgIdle == [pc |-> "idle", task |-> PgNobody, nodes |-> {}, counts |-> [n \in PgNodes |-> 0],
           set |-> {}, barred |-> {}, put |-> [t \in {} |-> PgNobody], lent |-> {}]

PgInit ==
    /\ pgRow = [t \in PgTasks |->
                  [st |-> "none", node |-> PgNobody, deps |-> {}, attempts |-> 0]]
    /\ pgLease = [l \in PgSlots |-> PgFree]
    /\ pgUp = PgNodes
    /\ pgTx = [c \in PgCallers |-> PgIdle]
    /\ pgClaimed = {}
    /\ pgCalls = 0

PgGoto(c, tx) == pgTx' = [pgTx EXCEPT ![c] = tx]
PgCall == pgCalls < PgMaxCalls /\ pgCalls' = pgCalls + 1
PgLive(t) == {l \in PgSlots : pgLease[l].task = t /\ pgLease[l].live}

(* Rows an open transaction has written. *)
PgRowLocked(t) == \E c \in PgCallers : t \in DOMAIN pgTx[c].put
PgLeaseLocked(l) == \E c \in PgCallers : pgTx[c].pc = "requeue" /\ l \in pgTx[c].set

----------------------------------------------------------------------------
(* Calls of one statement, or of several on rows nobody else sees *)

(* create_task, and a plan of create_tasks_batch: inserted pending, and    *)
(* promoted in the same transaction when it has no dependencies.           *)
pg_create_task(c, t) ==
    /\ pgTx[c].pc = "idle" /\ pgRow[t].st = "none"
    /\ pgRow' = [pgRow EXCEPT ![t].st = IF PgDeps[t] = {} THEN "ready" ELSE "pending",
                              ![t].deps = PgDeps[t]]
    /\ PgCall
    /\ UNCHANGED <<pgLease, pgUp, pgTx, pgClaimed>>

(* set_task_status: unconditional.  What its caller checked (claim_task: a *)
(* ready task that nobody has) it read in a call of its own, and the       *)
(* federation's copies check nothing.  After its write of running a claim  *)
(* raises: it reaches for _tasks_lock, which only the in-memory store has. *)
pg_set_task_status(c, t, s) ==
    /\ pgTx[c].pc = "idle" /\ pgRow[t].st # "none" /\ ~PgRowLocked(t)
    /\ pgRow' = [pgRow EXCEPT ![t].st = s]
    /\ pgClaimed' = IF s = "running" THEN pgClaimed \cup {t} ELSE pgClaimed
    /\ PgCall
    /\ UNCHANGED <<pgLease, pgUp, pgTx>>

(* unblock_task and unblock_to_ready, guarded by the row's own status. *)
pg_unblock(c, t, s) ==
    /\ pgTx[c].pc = "idle" /\ ~PgRowLocked(t)
    /\ pgRow[t].st = "blocked"
    /\ pgRow' = [pgRow EXCEPT ![t].st = s]
    /\ PgCall
    /\ UNCHANGED <<pgLease, pgUp, pgTx, pgClaimed>>

(* set_dependencies: new ones take a ready task back to pending. *)
pg_set_dependencies(c, t, D) ==
    /\ pgTx[c].pc = "idle" /\ pgRow[t].st # "none" /\ ~PgRowLocked(t)
    /\ pgRow' = [pgRow EXCEPT ![t].deps = D,
                   ![t].st = IF D # {} /\ @ = "ready" THEN "pending" ELSE @]
    /\ PgCall
    /\ UNCHANGED <<pgLease, pgUp, pgTx, pgClaimed>>

(* create_lease: an INSERT that asks nothing.  extend makes its copy with  *)
(* it, and revokes the old lease in a call after that; POST /leases names  *)
(* any task and node.                                                      *)
PgReadLeases == {"lanes", "ready", "assign"}

pg_create_lease(c, t, n) ==
    /\ pgTx[c].pc = "idle" /\ pgRow[t].st # "none"
    /\ \E l \in PgSlots :
          /\ pgLease[l] = PgFree /\ \A k \in PgSlots : pgLease[k] = PgFree => l <= k
          /\ pgLease' = [pgLease EXCEPT ![l] =
                [task |-> t, node |-> n, live |-> TRUE, passed |-> FALSE]]
    /\ pgTx' = [d \in PgCallers |-> IF pgTx[d].pc \in PgReadLeases
                   THEN [pgTx[d] EXCEPT !.lent = @ \cup {t}] ELSE pgTx[d]]
    /\ PgCall
    /\ UNCHANGED <<pgRow, pgUp, pgClaimed>>

(* revoke_lease; get_active_leases marks what has lapsed. *)
pg_revoke_lease(c, l) ==
    /\ pgTx[c].pc = "idle" /\ pgLease[l] # PgFree /\ ~PgLeaseLocked(l)
    /\ pgLease' = [pgLease EXCEPT ![l] = PgFree]
    /\ PgCall
    /\ UNCHANGED <<pgRow, pgUp, pgTx, pgClaimed>>

pg_get_active_leases(c) ==
    LET lapsed == {l \in PgSlots : pgLease[l] # PgFree /\ ~pgLease[l].live}
    IN  /\ pgTx[c].pc = "idle" /\ lapsed # {} /\ \A l \in lapsed : ~PgLeaseLocked(l)
        /\ pgLease' = [l \in PgSlots |-> IF l \in lapsed THEN PgFree ELSE pgLease[l]]
        /\ PgCall
        /\ UNCHANGED <<pgRow, pgUp, pgTx, pgClaimed>>

----------------------------------------------------------------------------
(* unassign_task: one UPDATE whose subquery reads the leases; when the row *)
(* has to be waited for, only the row is looked at again.                  *)
pg_unassign_scan(c, t) ==
    /\ pgTx[c].pc = "idle"
    /\ pgRow[t].st \notin PgTerminal \cup {"none"} /\ PgLive(t) = {}
    /\ PgGoto(c, [PgIdle EXCEPT !.pc = "unassign", !.task = t])
    /\ PgCall
    /\ UNCHANGED <<pgRow, pgLease, pgUp, pgClaimed>>

pg_unassign_task(c) ==
    LET t == pgTx[c].task
    IN  /\ pgTx[c].pc = "unassign" /\ ~PgRowLocked(t)
        /\ pgRow' = IF pgRow[t].st \in PgTerminal THEN pgRow
                    ELSE [pgRow EXCEPT ![t].st = "ready", ![t].node = PgNobody]
        /\ PgGoto(c, PgIdle)
        /\ UNCHANGED <<pgLease, pgUp, pgCalls, pgClaimed>>

(* requeue_task: the live leases of the task are revoked, then the guarded *)
(* UPDATE of its row, in one transaction.                                  *)
pg_requeue_scan(c, t) ==
    /\ pgTx[c].pc = "idle" /\ pgRow[t].st # "none"
    /\ \A l \in PgLive(t) : ~PgLeaseLocked(l)
    /\ PgGoto(c, [PgIdle EXCEPT !.pc = "requeue", !.task = t, !.set = PgLive(t)])
    /\ PgCall
    /\ UNCHANGED <<pgRow, pgLease, pgUp, pgClaimed>>

pg_requeue_task(c) ==
    LET t == pgTx[c].task
    IN  /\ pgTx[c].pc = "requeue" /\ ~PgRowLocked(t)
        /\ pgLease' = [l \in PgSlots |-> IF l \in pgTx[c].set THEN PgFree ELSE pgLease[l]]
        /\ pgRow' = IF pgRow[t].st \in PgTerminal \/ pgRow[t].attempts >= PgRetryLimit THEN pgRow
                    ELSE [pgRow EXCEPT ![t].st = "ready", ![t].node = PgNobody, ![t].attempts = @ + 1]
        /\ PgGoto(c, PgIdle)
        /\ UNCHANGED <<pgUp, pgCalls, pgClaimed>>

----------------------------------------------------------------------------
(* trigger_pending_tasks: the pending rows, then for each the statuses of  *)
(* the dependencies it had, then an UPDATE guarded by pending.             *)
pg_trigger_read(c) ==
    /\ pgTx[c].pc = "idle" /\ \E t \in PgTasks : pgRow[t].st = "pending"
    /\ PgGoto(c, [PgIdle EXCEPT !.pc = "trigger",
                    !.set = {<<t, pgRow[t].deps>> : t \in {u \in PgTasks : pgRow[u].st = "pending"}}])
    /\ PgCall
    /\ UNCHANGED <<pgRow, pgLease, pgUp, pgClaimed>>

pg_trigger_row(c) ==
    /\ pgTx[c].pc = "trigger"
    /\ \E p \in pgTx[c].set :
          LET rest == pgTx[c].set \ {p}
              met == \A d \in p[2] : pgRow[d].st = "completed"
          IN  PgGoto(c, IF met THEN [pgTx[c] EXCEPT !.pc = "promote", !.task = p[1], !.set = rest]
                        ELSE IF rest = {} THEN PgIdle
                        ELSE [pgTx[c] EXCEPT !.set = rest])
    /\ UNCHANGED <<pgRow, pgLease, pgUp, pgCalls, pgClaimed>>

pg_trigger_pending_tasks(c) ==
    LET t == pgTx[c].task
    IN  /\ pgTx[c].pc = "promote" /\ ~PgRowLocked(t)
        /\ pgRow' = IF pgRow[t].st = "pending" THEN [pgRow EXCEPT ![t].st = "ready"] ELSE pgRow
        /\ PgGoto(c, IF pgTx[c].set = {} THEN PgIdle ELSE [pgTx[c] EXCEPT !.pc = "trigger"])
        /\ UNCHANGED <<pgLease, pgUp, pgCalls, pgClaimed>>

----------------------------------------------------------------------------
(* schedule_pending_detailed: one pass at a time, by the advisory lock;    *)
(* five reads, one guarded UPDATE and one lease a task, one commit.        *)
PgScheduling == {"counts", "leased", "lanes", "ready", "assign"}

(* Mutant: no advisory lock. *)
Mut_pg_schedule_lock(c) ==
    /\ pgTx[c].pc = "idle" /\ pgUp # {}
    /\ PgGoto(c, [PgIdle EXCEPT !.pc = "counts", !.nodes = pgUp])
    /\ PgCall
    /\ UNCHANGED <<pgRow, pgLease, pgUp, pgClaimed>>

pg_schedule_lock(c) ==
    /\ pgTx[c].pc = "idle" /\ pgUp # {}
    /\ \A d \in PgCallers : pgTx[d].pc \notin PgScheduling
    /\ PgGoto(c, [PgIdle EXCEPT !.pc = "counts", !.nodes = pgUp])
    /\ PgCall
    /\ UNCHANGED <<pgRow, pgLease, pgUp, pgClaimed>>

pg_active_counts(c) ==
    /\ pgTx[c].pc = "counts"
    /\ PgGoto(c, [pgTx[c] EXCEPT !.pc = "leased", !.counts =
                    [n \in PgNodes |-> Cardinality({t \in PgTasks :
                        pgRow[t].st = "running" /\ pgRow[t].node = n})]])
    /\ UNCHANGED <<pgRow, pgLease, pgUp, pgCalls, pgClaimed>>

pg_leased(c) ==
    /\ pgTx[c].pc = "leased"
    /\ PgGoto(c, [pgTx[c] EXCEPT !.pc = "lanes", !.barred = {t \in PgTasks : PgLive(t) # {}}])
    /\ UNCHANGED <<pgRow, pgLease, pgUp, pgCalls, pgClaimed>>

(* lane_blocked_ready_ids: all but one of the ready tasks of a lane, and   *)
(* every one of them while the lane has a running task.                    *)
pg_lane_blocked(c) ==
    LET siblings(t) == {u \in PgTasks \ {t} : PgLane[u] = PgLane[t]}
        ready == {t \in PgTasks : pgRow[t].st = "ready"}
        busy == {t \in ready : \E u \in siblings(t) : pgRow[u].st = "running"}
    IN  /\ pgTx[c].pc = "lanes"
        /\ \E first \in SUBSET (ready \ busy) :
              /\ \A t \in first : siblings(t) \cap first = {}
              /\ \A t \in (ready \ busy) \ first : siblings(t) \cap first # {}
              /\ PgGoto(c, [pgTx[c] EXCEPT !.pc = "ready", !.barred = @ \cup (ready \ first)])
        /\ UNCHANGED <<pgRow, pgLease, pgUp, pgCalls, pgClaimed>>

pg_ready_tasks(c) ==
    /\ pgTx[c].pc = "ready"
    /\ PgGoto(c, [pgTx[c] EXCEPT !.pc = "assign",
                    !.set = {t \in PgTasks : pgRow[t].st = "ready"} \ pgTx[c].barred])
    /\ UNCHANGED <<pgRow, pgLease, pgUp, pgCalls, pgClaimed>>

(* Mutant: the UPDATE is not guarded by the status. *)
Mut_pg_assign(c, t, n) ==
    /\ pgTx[c].pc = "assign" /\ t \in pgTx[c].set
    /\ n \in pgTx[c].nodes /\ pgTx[c].counts[n] < PgCap[n] /\ ~PgRowLocked(t)
    /\ PgGoto(c, [pgTx[c] EXCEPT !.set = @ \ {t}, !.counts[n] = @ + 1,
                    !.put = [u \in DOMAIN @ \cup {t} |-> IF u = t THEN n ELSE @[u]]])
    /\ UNCHANGED <<pgRow, pgLease, pgUp, pgCalls, pgClaimed>>

(* A task's turn: a node with room takes it if it is still ready. *)
pg_assign(c, t, n) ==
    /\ pgTx[c].pc = "assign" /\ t \in pgTx[c].set
    /\ n \in pgTx[c].nodes /\ pgTx[c].counts[n] < PgCap[n] /\ ~PgRowLocked(t)
    /\ PgGoto(c, IF pgRow[t].st # "ready" THEN [pgTx[c] EXCEPT !.set = @ \ {t}]
                 ELSE [pgTx[c] EXCEPT !.set = @ \ {t}, !.counts[n] = @ + 1,
                         !.put = [u \in DOMAIN @ \cup {t} |-> IF u = t THEN n ELSE @[u]]])
    /\ UNCHANGED <<pgRow, pgLease, pgUp, pgCalls, pgClaimed>>

(* No node has room, or its lane is pinned to one that has not. *)
pg_park(c, t) ==
    /\ pgTx[c].pc = "assign" /\ t \in pgTx[c].set
    /\ PgGoto(c, [pgTx[c] EXCEPT !.set = @ \ {t}])
    /\ UNCHANGED <<pgRow, pgLease, pgUp, pgCalls, pgClaimed>>

pg_schedule_commit(c) ==
    LET put == pgTx[c].put
        free == {l \in PgSlots : pgLease[l] = PgFree}
    IN  /\ pgTx[c].pc = "assign" /\ pgTx[c].set = {}
        /\ Cardinality(DOMAIN put) <= Cardinality(free)
        /\ pgRow' = [t \in PgTasks |-> IF t \in DOMAIN put
                        THEN [pgRow[t] EXCEPT !.st = "running", !.node = put[t]] ELSE pgRow[t]]
        /\ LET slot == CHOOSE s \in [DOMAIN put -> free] : \A t, u \in DOMAIN put : t # u => s[t] # s[u]
           IN  pgLease' = [l \in PgSlots |->
                   IF \E t \in DOMAIN put : slot[t] = l
                   THEN LET t == CHOOSE u \in DOMAIN put : slot[u] = l
                        IN  [task |-> t, node |-> put[t], live |-> TRUE, passed |-> TRUE]
                   ELSE pgLease[l]]
        /\ PgGoto(c, PgIdle)
        /\ pgClaimed' = pgClaimed \ DOMAIN put
        /\ UNCHANGED <<pgUp, pgCalls>>

(* The connection breaks: the open transaction is rolled back. *)
pg_rollback(c) ==
    /\ pgTx[c].pc # "idle"
    /\ PgGoto(c, PgIdle)
    /\ UNCHANGED <<pgRow, pgLease, pgUp, pgCalls, pgClaimed>>

----------------------------------------------------------------------------
(* Time and the nodes *)
PgLapse(l) ==
    /\ pgLease[l].live
    /\ pgLease' = [pgLease EXCEPT ![l].live = FALSE]
    /\ PgCall
    /\ UNCHANGED <<pgRow, pgUp, pgTx, pgClaimed>>

PgNodeFlips(n) ==
    /\ pgUp' = IF n \in pgUp THEN pgUp \ {n} ELSE pgUp \cup {n}
    /\ PgCall
    /\ UNCHANGED <<pgRow, pgLease, pgTx, pgClaimed>>

PgNext ==
    \/ \E c \in PgCallers :
        \/ pg_unassign_task(c) \/ pg_requeue_task(c)
        \/ pg_trigger_read(c) \/ pg_trigger_row(c) \/ pg_trigger_pending_tasks(c)
        \/ pg_schedule_lock(c) \/ pg_active_counts(c) \/ pg_leased(c)
        \/ pg_lane_blocked(c) \/ pg_ready_tasks(c) \/ pg_schedule_commit(c)
        \/ pg_get_active_leases(c) \/ pg_rollback(c)
        \/ \E l \in PgSlots : pg_revoke_lease(c, l)
        \/ \E t \in PgTasks :
            \/ pg_create_task(c, t) \/ pg_unassign_scan(c, t) \/ pg_requeue_scan(c, t)
            \/ pg_park(c, t)
            \/ \E s \in {"running", "completed", "cancel_requested", "blocked", "ready", "pending"} :
                  pg_set_task_status(c, t, s)
            \/ \E s \in {"ready", "pending"} : pg_unblock(c, t, s)
            \/ pg_set_dependencies(c, t, {}) \/ pg_set_dependencies(c, t, PgDeps[t])
            \/ \E n \in PgNodes : pg_assign(c, t, n) \/ pg_create_lease(c, t, n)
    \/ \E l \in PgSlots : PgLapse(l)
    \/ \E n \in PgNodes : PgNodeFlips(n)

PgSpec == PgInit /\ [][PgNext]_pgVars

----------------------------------------------------------------------------
PgAbstract == INSTANCE Store WITH
    Tasks <- PgTasks, Nodes <- PgNodes, Cap <- PgCap,
    st <- [t \in PgTasks |-> pgRow[t].st],
    owner <- [t \in PgTasks |-> pgRow[t].node],
    held <- [t \in PgTasks |-> {pgLease[l].node : l \in PgLive(t)}],
    claimed <- pgClaimed

(* Statements that interleave, stale reads and rollbacks included, are     *)
(* steps of the atomic store: a pass never resurrects a task that was      *)
(* cancelled, claimed or taken back after it read it, starts each with its *)
(* lease and gives no node more than it takes, what was claimed aside,     *)
(* although the writers of a status do not take the scheduler's lock.      *)
PgImplementsStore == PgAbstract!Spec

(* A pass does not lease a task whose lease is still alive, not even when  *)
(* a requeue or an unassign that overtook the pass made it ready: one live *)
(* lease a task, but for those of create_lease, whose overlaps (extend's   *)
(* copy and its original) the code expects; and a pass about to commit     *)
(* leases over one of these only when it came after the leases were read.  *)
PgOneLiveLease ==
    /\ \A t \in PgTasks : Cardinality({l \in PgLive(t) : pgLease[l].passed}) <= 1
    /\ \A c \in PgCallers : \A t \in DOMAIN pgTx[c].put : PgLive(t) # {} => t \in pgTx[c].lent
=============================================================================
