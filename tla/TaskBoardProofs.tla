-------------------------- MODULE TaskBoardProofs --------------------------
(***************************************************************************)
(* Type correctness of the task board, for any number of tasks, nodes and  *)
(* leases, any endpoints in use and any threads.                           *)
(*                                                                         *)
(* TypeOK is not inductive.  A recovery puts the task of a lease row it    *)
(* holds into its work list, and extend copies the row's task and node, so *)
(* rows that are in use must name a task (RowsNamed, HeldNamed); and a     *)
(* status is written that an earlier step put into a local, so the marker  *)
(* "cancel" must be gone by then (InOrder).  TypeInv adds the three.       *)
(***************************************************************************)
EXTENDS TaskBoard, TLAPS

(* A row that names a task and a node. *)
Named(l) == lease[l].task \in Tasks /\ lease[l].node \in Nodes

(* Every lease row that is not revoked names a task and a node, and so     *)
(* does every row a thread still refers to.                                *)
RowsNamed == \A l \in LeaseIds : lease[l].st # "revoked" => Named(l)
HeldNamed == \A p \in Threads : \A l \in LeaseIds : l \in Held(p) => Named(l)

(* What a thread's locals tell about its place: "cancel" is settled by the *)
(* lease lookup before anything is written, and a thread has lease rows in *)
(* hand only between the read of a row and the step that writes it.        *)
Orderly(r) ==
    /\ r.to = "cancel" => r.pc = "lookup"
    /\ r.pc = "extend_create" => r.lid \in LeaseIds /\ "extend" \in Calls
    /\ r.lid # NoLease => r.pc \in {"revoke", "extend_create", "extend_revoke"}
    /\ r.rows # {} => r.pc \in {"mark", "rec_mark"}
    /\ r.keep # {} => r.pc \in {"rec_mark", "rec_expired", "rec_revoke"}

InOrder == \A p \in Threads : Orderly(th[p])

TypeInv == TypeOK /\ RowsNamed /\ HeldNamed /\ InOrder

USE BoardAssumption, PlannerAssumption

(* The record of an idle thread is a thread record. *)
LEMMA IdleIsThread == IdleThread \in Thread
BY DEF IdleThread, Thread, PCs, Status, Thens, Tails

(* The invariant holds initially. *)
LEMMA InitTypeInv == Init => TypeInv
<1> SUFFICES ASSUME Init PROVE TypeInv
  OBVIOUS
<1>1. TypeOK
  BY IdleIsThread DEF Init, TypeOK, Status, Lease, NoRow, LeaseStatus, NodeStatus
<1>2. RowsNamed /\ HeldNamed
  BY DEF Init, RowsNamed, HeldNamed, NoRow, Held, IdleThread
<1>3. InOrder
  BY DEF Init, InOrder, Orderly, IdleThread
<1> QED BY <1>1, <1>2, <1>3 DEF TypeInv

(* What a thread may move to. *)
Holds(r) == r.rows \cup r.keep \cup {r.lid}
Fine(r) == /\ r \in Thread
           /\ Orderly(r)
           /\ \A l \in LeaseIds : l \in Holds(r) => Named(l)

(* A step of one thread that leaves the lease rows alone. *)
LEMMA MoveKeeps ==
  ASSUME TypeInv, NEW p \in Threads, NEW r, Fine(r), Goto(p, r), lease' = lease
  PROVE  th' \in [Threads -> Thread] /\ RowsNamed' /\ HeldNamed' /\ InOrder'
<1>1. /\ th' \in [Threads -> Thread]
      /\ th'[p] = r
      /\ \A q \in Threads \ {p} : th'[q] = th[q]
  BY DEF TypeInv, TypeOK, Goto, Fine
<1>2. \A l \in LeaseIds : Named(l)' <=> Named(l)
  BY DEF Named
<1>3. RowsNamed'
  BY <1>2 DEF TypeInv, RowsNamed
<1>4. HeldNamed'
  BY <1>1, <1>2 DEF TypeInv, HeldNamed, Held, Fine, Holds
<1>5. InOrder'
  BY <1>1 DEF TypeInv, InOrder, Fine
<1> QED BY <1>1, <1>3, <1>4, <1>5

(* A record with no lease rows in hand. *)
LEMMA FreshFine ==
  ASSUME NEW r \in Thread, r.lid = NoLease, r.rows = {}, r.keep = {},
         r.to = "cancel" => r.pc = "lookup", r.pc # "extend_create"
  PROVE  Fine(r)
BY DEF Fine, Orderly, Holds

(* A step that only moves a thread. *)
LEMMA StepType ==
  ASSUME TypeInv, NEW p \in Threads, NEW r, Fine(r), Goto(p, r),
         UNCHANGED <<taskRows, lease, pin, health, restarts>>
  PROVE  TypeInv'
<1>1. th' \in [Threads -> Thread] /\ RowsNamed' /\ HeldNamed' /\ InOrder'
  BY MoveKeeps
<1>2. TypeOK'
  BY <1>1 DEF TypeInv, TypeOK, taskRows
<1> QED BY <1>1, <1>2 DEF TypeInv

(* A thread may always become idle. *)
LEMMA IdleFine == Fine(IdleThread)
BY IdleIsThread, FreshFine DEF IdleThread

(* The read of an expiry scan: the rows it will mark are active rows. *)
LEMMA ScanType ==
  ASSUME TypeInv, NEW p \in Threads, NEW c \in Thens,
         Scan(p, [IdleThread EXCEPT !.pc = "mark", !.then = c]),
         UNCHANGED <<taskRows, lease, pin, health, restarts>>
  PROVE  TypeInv'
<1> DEFINE i == [IdleThread EXCEPT !.pc = "mark", !.then = c]
           r == IF LapsedLeases = {} THEN [i EXCEPT !.pc = i.then]
                                     ELSE [i EXCEPT !.rows = LapsedLeases]
<1>1. LapsedLeases \subseteq LeaseIds /\ \A l \in LapsedLeases : Named(l)
  BY DEF LapsedLeases, LiveLeases, ActiveLeases, TypeInv, RowsNamed
<1>2. /\ i \in Thread /\ i.pc = "mark" /\ i.then = c /\ i.to = "absent"
      /\ i.lid = NoLease /\ i.rows = {} /\ i.keep = {}
  BY DEF IdleThread, Thread, PCs, Status, Thens, Tails
<1> HIDE DEF i
<1>3. r \in Thread
  <2>1. [i EXCEPT !.pc = i.then] \in Thread
    BY <1>2 DEF Thread, PCs, Thens
  <2>2. [i EXCEPT !.rows = LapsedLeases] \in Thread
    BY <1>1, <1>2 DEF Thread
  <2> QED BY <2>1, <2>2
<1>4. /\ r.to = "absent" /\ r.pc \in {c, "mark"} /\ r.lid = NoLease /\ r.keep = {}
      /\ r.rows \in SUBSET LapsedLeases /\ (r.rows # {} => r.pc = "mark")
  BY <1>2 DEF Thread
<1>5. Fine(r)
  BY <1>1, <1>3, <1>4 DEF Fine, Orderly, Holds, Thens
<1> HIDE DEF r
<1> QED BY <1>5, StepType DEF Scan, r, i

(* Every request that comes in keeps the invariant. *)
LEMMA RequestType ==
  ASSUME TypeInv, Request
  PROVE  TypeInv'
<1> USE DEF Serve
<1>1. ASSUME NEW t \in Tasks, NEW D \in DepChoices, Submit(t, D)
      PROVE  TypeInv'
  <2> DEFINE r == [IdleThread EXCEPT !.pc = "promote_new", !.task = t]
  <2>1. Fine(r)
    BY FreshFine DEF IdleThread, Thread, PCs, Status, Thens, Tails
  <2>2. th' \in [Threads -> Thread] /\ RowsNamed' /\ HeldNamed' /\ InOrder'
    BY <1>1, <2>1, MoveKeeps DEF Submit
  <2>3. TypeOK'
    BY <1>1, <2>2 DEF Submit, TypeInv, TypeOK, set_task_status, Status
  <2> QED BY <2>2, <2>3 DEF TypeInv
<1>2. ASSUME NEW t \in Tasks, NEW D \in DepChoices, SetDependencies(t, D)
      PROVE  TypeInv'
  <2> DEFINE r == IdleThread
  <2>1. Fine(r)
    BY FreshFine DEF IdleThread, Thread, PCs, Status, Thens, Tails
  <2>2. th' \in [Threads -> Thread] /\ RowsNamed' /\ HeldNamed' /\ InOrder'
    BY <1>2, <2>1, MoveKeeps DEF SetDependencies
  <2>3. TypeOK'
    BY <1>2, <2>2 DEF SetDependencies, TypeInv, TypeOK, taskRows, Status
  <2> QED BY <2>2, <2>3 DEF TypeInv
<1>3. ASSUME NEW t \in Tasks, UnblockTask(t)
      PROVE  TypeInv'
  <2> DEFINE r == IdleThread
  <2>1. Fine(r)
    BY FreshFine DEF IdleThread, Thread, PCs, Status, Thens, Tails
  <2>2. th' \in [Threads -> Thread] /\ RowsNamed' /\ HeldNamed' /\ InOrder'
    BY <1>3, <2>1, MoveKeeps DEF UnblockTask
  <2>3. TypeOK'
    BY <1>3, <2>2 DEF UnblockTask, TypeInv, TypeOK, taskRows, set_task_status, Status
  <2> QED BY <2>2, <2>3 DEF TypeInv
<1>4. ASSUME NEW t \in Tasks, Answer(t)
      PROVE  TypeInv'
  <2> DEFINE r == [IdleThread EXCEPT !.pc = "unblock_to_ready", !.task = t]
  <2>1. Fine(r)
    BY FreshFine DEF IdleThread, Thread, PCs, Status, Thens, Tails
  <2>2. th' \in [Threads -> Thread] /\ RowsNamed' /\ HeldNamed' /\ InOrder'
    BY <1>4, <2>1, MoveKeeps DEF Answer
  <2>3. TypeOK'
    BY <1>4, <2>2 DEF Answer, TypeInv, TypeOK, taskRows
  <2> QED BY <2>2, <2>3 DEF TypeInv
<1>5. ASSUME NEW k \in Lanes, NEW n \in Nodes, ReportLane(k, n)
      PROVE  TypeInv'
  <2> DEFINE r == [IdleThread EXCEPT !.pc = "trigger", !.then = "schedule"]
  <2>1. Fine(r)
    BY FreshFine DEF IdleThread, Thread, PCs, Status, Thens, Tails
  <2>2. th' \in [Threads -> Thread] /\ RowsNamed' /\ HeldNamed' /\ InOrder'
    BY <1>5, <2>1, MoveKeeps DEF ReportLane
  <2>3. TypeOK'
    BY <1>5, <2>2 DEF ReportLane, TypeInv, TypeOK, taskRows
  <2> QED BY <2>2, <2>3 DEF TypeInv
<1>6. ASSUME NEW t \in Tasks, Complete(t)
      PROVE  TypeInv'
  <2> DEFINE r == [IdleThread EXCEPT !.pc = "lookup", !.task = t, !.then = "write",
             !.to   = IF status[t] = "cancel_requested" THEN "cancelled" ELSE "completed",
             !.tail = IF status[t] = "cancel_requested" THEN "idle" ELSE "downstream"]
  <2>1. Fine(r)
    BY FreshFine DEF IdleThread, Thread, PCs, Status, Thens, Tails
  <2> QED BY <1>6, <2>1, StepType DEF Complete
<1>7. ASSUME NEW t \in Tasks, CompleteVetoed(t)
      PROVE  TypeInv'
  <2> DEFINE r == [IdleThread EXCEPT !.pc = "lookup", !.task = t, !.then = "veto_lookup",
             !.to = "failed", !.tail = "cascade"]
  <2>1. Fine(r)
    BY FreshFine DEF IdleThread, Thread, PCs, Status, Thens, Tails
  <2> QED BY <1>7, <2>1, StepType DEF CompleteVetoed
<1>8. ASSUME NEW t \in Tasks, NEW q \in BOOLEAN, Fail(t, q)
      PROVE  TypeInv'
  <2> DEFINE r == IF status[t] = "cancel_requested"
          THEN [IdleThread EXCEPT !.pc = "write", !.task = t, !.to = "cancelled"]
          ELSE [IdleThread EXCEPT !.pc = IF q THEN "requeue" ELSE "lookup",
                  !.task = t, !.then = "write", !.to = "failed", !.tail = "cascade"]
  <2>1. Fine(r)
    BY FreshFine DEF IdleThread, Thread, PCs, Status, Thens, Tails
  <2> QED BY <1>8, <2>1, StepType DEF Fail
<1>9. ASSUME NEW t \in Tasks, Cancel(t)
      PROVE  TypeInv'
  <2> DEFINE r == [IdleThread EXCEPT !.pc = "lookup", !.task = t,
                          !.then = "write", !.to = "cancel", !.tail = "cascade"]
  <2>1. Fine(r)
    BY FreshFine DEF IdleThread, Thread, PCs, Status, Thens, Tails
  <2> QED BY <1>9, <2>1, StepType DEF Cancel
<1>10. ASSUME NEW t \in Tasks, Block(t)
      PROVE  TypeInv'
  <2> DEFINE r == [IdleThread EXCEPT !.pc = "lookup", !.task = t,
                         !.then = "ballot", !.to = "blocked"]
  <2>1. Fine(r)
    BY FreshFine DEF IdleThread, Thread, PCs, Status, Thens, Tails
  <2> QED BY <1>10, <2>1, StepType DEF Block
<1>11. ASSUME NEW t \in Tasks, Advance(t)
      PROVE  TypeInv'
  <2> DEFINE r == [IdleThread EXCEPT !.pc = "write", !.task = t,
                           !.to = "ready", !.tail = "schedule"]
  <2>1. Fine(r)
    BY FreshFine DEF IdleThread, Thread, PCs, Status, Thens, Tails
  <2> QED BY <1>11, <2>1, StepType DEF Advance
<1>12. ASSUME NEW t \in Tasks, Claim(t)
      PROVE  TypeInv'
  <2> DEFINE r == [IdleThread EXCEPT !.pc = "write", !.task = t, !.to = "running"]
  <2>1. Fine(r)
    BY FreshFine DEF IdleThread, Thread, PCs, Status, Thens, Tails
  <2> QED BY <1>12, <2>1, StepType DEF Claim
<1>13. ASSUME NEW t \in Tasks, Release(t)
      PROVE  TypeInv'
  <2> DEFINE r == [IdleThread EXCEPT !.pc = "lookup", !.task = t,
                           !.then = "write", !.to = "ready"]
  <2>1. Fine(r)
    BY FreshFine DEF IdleThread, Thread, PCs, Status, Thens, Tails
  <2> QED BY <1>13, <2>1, StepType DEF Release
<1>14. ASSUME NEW l \in LeaseIds, Extend(l)
      PROVE  TypeInv'
  <2> DEFINE r == IF LapsedLeases # {} THEN [IdleThread EXCEPT !.pc = "stuck"]
                       ELSE [IdleThread EXCEPT !.pc = "extend_create", !.lid = l]
  <2>1. Fine(r)
    BY <1>14 DEF Fine, Orderly, Holds, Extend, TypeInv, RowsNamed, IdleThread, Thread, PCs, Status, Thens, Tails
  <2> QED BY <1>14, <2>1, StepType DEF Extend
<1>15. ASSUME NEW n \in Nodes, RecoveryTrigger(n)
      PROVE  TypeInv'
  <2> DEFINE r == AtNodes({n})
  <2>1. Fine(r)
    BY FreshFine, IdleFine DEF AtNodes, IdleThread, Thread, PCs, Status, Thens, Tails
  <2> QED BY <1>15, <2>1, StepType DEF RecoveryTrigger
<1>16. ASSUME ScheduleTrigger
      PROVE  TypeInv'
  <2> DEFINE r == [IdleThread EXCEPT !.pc = "trigger", !.then = "schedule"]
  <2>1. Fine(r)
    BY FreshFine DEF IdleThread, Thread, PCs, Status, Thens, Tails
  <2> QED BY <1>16, <2>1, StepType DEF ScheduleTrigger
<1>17. ASSUME DetectExpired
      PROVE  TypeInv'
  BY <1>17, ScanType DEF DetectExpired, Thens
<1> QED
  BY <1>1, <1>2, <1>3, <1>4, <1>5, <1>6, <1>7, <1>8, <1>9, <1>10, <1>11, <1>12, <1>13, <1>14, <1>15, <1>16, <1>17 DEF Request
----------------------------------------------------------------------------
(* Steps that write lease rows *)

(* A step of thread p after which p's own rows and those of the other      *)
(* threads are named.                                                      *)
LEMMA RowsKeep ==
  ASSUME TypeInv, NEW p \in Threads, NEW r \in Thread, Goto(p, r),
         Orderly(r),
         lease' \in [LeaseIds -> Lease], RowsNamed',
         \A l \in LeaseIds : l \in Holds(r) => Named(l)',
         \A q \in Threads \ {p}, l \in LeaseIds : l \in Held(q) => Named(l)'
  PROVE  th' \in [Threads -> Thread] /\ HeldNamed' /\ InOrder'
<1>1. /\ th' \in [Threads -> Thread]
      /\ th'[p] = r
      /\ \A q \in Threads \ {p} : th'[q] = th[q]
  BY DEF TypeInv, TypeOK, Goto
<1>2. HeldNamed'
  BY <1>1 DEF HeldNamed, Held, Holds
<1>3. InOrder'
  BY <1>1 DEF TypeInv, InOrder
<1> QED BY <1>1, <1>2, <1>3

(* A revoked row keeps its task and node while another thread refers to it. *)
LEMMA RevokeKeeps ==
  ASSUME TypeInv, NEW p \in Threads, NEW S, revoke_lease(p, S)
  PROVE  /\ lease' \in [LeaseIds -> Lease] /\ RowsNamed'
         /\ \A q \in Threads \ {p}, l \in LeaseIds : l \in Held(q) => Named(l)'
         /\ \A l \in LeaseIds \ S : Named(l) => Named(l)'
<1>1. NoRow \in Lease /\ \A x \in Lease : [x EXCEPT !.st = "revoked"] \in Lease
  BY DEF NoRow, Lease, LeaseStatus
<1>2. \A l \in LeaseIds : lease[l] \in Lease
  BY DEF TypeInv, TypeOK
<1>3. lease' \in [LeaseIds -> Lease]
  BY <1>1, <1>2 DEF revoke_lease
<1>4. \A l \in LeaseIds \ S : lease'[l] = lease[l]
  BY DEF revoke_lease
<1>5. \A l \in LeaseIds \cap S : lease'[l].st = "revoked"
  BY <1>2 DEF revoke_lease, NoRow, Lease
<1>6. RowsNamed'
  BY <1>4, <1>5 DEF TypeInv, RowsNamed, Named
<1>7. ASSUME NEW q \in Threads \ {p}, NEW l \in LeaseIds, l \in Held(q)
      PROVE  Named(l)'
  <2>1. lease'[l].task = lease[l].task /\ lease'[l].node = lease[l].node
    BY <1>2, <1>7 DEF revoke_lease, Lease
  <2>2. Named(l)
    BY <1>7 DEF TypeInv, HeldNamed
  <2> QED BY <2>1, <2>2 DEF Named
<1> QED BY <1>3, <1>4, <1>6, <1>7 DEF Named

(* Marking rows expired leaves their task and node alone. *)
LEMMA MarkKeeps ==
  ASSUME TypeInv, NEW p \in Threads, mark_expired(th[p].rows)
  PROVE  /\ lease' \in [LeaseIds -> Lease] /\ RowsNamed'
         /\ \A l \in LeaseIds : Named(l) => Named(l)'
<1>1. \A l \in LeaseIds : lease[l] \in Lease
  BY DEF TypeInv, TypeOK
<1>2. \A x \in Lease : [x EXCEPT !.st = "expired"] \in Lease
  BY DEF Lease, LeaseStatus
<1>3. lease' \in [LeaseIds -> Lease]
  BY <1>1, <1>2 DEF mark_expired
<1>4. \A l \in LeaseIds : Named(l)' <=> Named(l)
  BY <1>1 DEF mark_expired, Named, Lease
<1>5. \A l \in LeaseIds : l \in th[p].rows => Named(l)
  BY DEF TypeInv, HeldNamed, Held
<1>6. RowsNamed'
  BY <1>4, <1>5 DEF mark_expired, TypeInv, RowsNamed
<1> QED BY <1>3, <1>4, <1>6

(* A scheduling pass: the new leases name a task and a node, and take rows *)
(* nobody refers to.                                                       *)
LEMMA ScheduleKeeps ==
  ASSUME TypeInv, NEW plan \in PlansNow, schedule_pending(plan)
  PROVE  /\ lease' \in [LeaseIds -> Lease] /\ RowsNamed'
         /\ \A q \in Threads, l \in LeaseIds : l \in Held(q) => Named(l)'
         /\ status' \in [Tasks -> Status]
         /\ assigned' \in [Tasks -> Nodes \cup {NoNode}]
<1> DEFINE placed == Placed(plan)
           owner == [t \in placed |-> plan[t]]
           seat == CHOOSE f \in Seats(placed) : TRUE
<1>1. placed \subseteq Tasks /\ \A t \in placed : plan[t] \in Nodes
  BY DEF Placed, PlansNow, Plans, Schedulable
<1>2. seat \in Seats(placed) /\ create_lease(seat, owner)
  BY DEF schedule_pending
<1>3. seat \in [placed -> FreeRows]
  BY <1>2 DEF Seats
<1> HIDE DEF seat
<1>4. ASSUME NEW l \in LeaseIds, \E t \in placed : seat[t] = l
      PROVE  /\ l \in FreeRows
             /\ lease'[l] \in Lease /\ Named(l)'
  <2> DEFINE t == CHOOSE t \in DOMAIN seat : seat[t] = l
  <2>1. t \in placed /\ seat[t] = l
    BY <1>3, <1>4
  <2>2. lease'[l] = [task |-> t, node |-> owner[t], st |-> "active", live |-> TRUE]
    BY <1>2, <1>3, <1>4 DEF create_lease
  <2> HIDE DEF t
  <2>3. t \in Tasks /\ owner[t] \in Nodes /\ l \in FreeRows
    BY <1>1, <1>3, <2>1
  <2> QED BY <2>2, <2>3 DEF Lease, LeaseStatus, Named
<1>5. ASSUME NEW l \in LeaseIds, ~ \E t \in placed : seat[t] = l
      PROVE  lease'[l] = lease[l]
  BY <1>2, <1>3, <1>5 DEF create_lease
<1>6. lease' \in [LeaseIds -> Lease]
  <2>1. \A l \in LeaseIds : lease'[l] \in Lease
    BY <1>4, <1>5 DEF TypeInv, TypeOK
  <2>2. lease' = [l \in LeaseIds |-> lease'[l]]
    BY <1>2 DEF create_lease
  <2> QED BY <2>1, <2>2
<1>7. RowsNamed'
  BY <1>4, <1>5 DEF TypeInv, RowsNamed, Named
<1>8. \A q \in Threads, l \in LeaseIds : l \in Held(q) => Named(l)'
  BY <1>4, <1>5 DEF TypeInv, HeldNamed, Named, FreeRows
<1>9. status' \in [Tasks -> Status] /\ assigned' \in [Tasks -> Nodes \cup {NoNode}]
  BY <1>1 DEF schedule_pending, TypeInv, TypeOK, Status
<1> QED BY <1>6, <1>7, <1>8, <1>9

(* A thread with no rows in hand moves to another place of its handler. *)
LEMMA StepFine ==
  ASSUME TypeInv, NEW p \in Threads, NEW c \in PCs \ {"extend_create"}, th[p].to # "cancel",
         th[p].pc \notin {"revoke", "extend_create", "extend_revoke", "mark", "rec_mark",
                         "rec_expired", "rec_revoke"}
  PROVE  Fine([th[p] EXCEPT !.pc = c])
<1>1. th[p] \in Thread /\ Orderly(th[p])
  BY DEF TypeInv, TypeOK, InOrder
<1>2. [th[p] EXCEPT !.pc = c] \in Thread
  BY <1>1 DEF Thread
<1> QED BY <1>1, <1>2, FreshFine DEF Orderly, Thread

(* Task rows may change in any way their type allows. *)
LEMMA BoardType ==
  ASSUME TypeInv, NEW p \in Threads, NEW r, Fine(r), Goto(p, r),
         status' \in [Tasks -> Status], assigned' \in [Tasks -> Nodes \cup {NoNode}],
         ballot' \in [Tasks -> {"none", "open", "answered"}],
         UNCHANGED <<attempts, deps, lease, pin, health, restarts>>
  PROVE  TypeInv'
<1>1. th' \in [Threads -> Thread] /\ RowsNamed' /\ HeldNamed' /\ InOrder'
  BY MoveKeeps
<1>2. TypeOK'
  BY <1>1 DEF TypeInv, TypeOK
<1> QED BY <1>1, <1>2 DEF TypeInv

(* The records in which a thread starts a list of tasks or nodes. *)
LEMMA FreshRecords ==
  /\ \A S \in SUBSET Tasks : Fine(AtDependents(S)) /\ Fine(AtVictims(S))
  /\ \A S \in SUBSET Nodes : Fine(AtNodes(S))
  /\ \A S \in SUBSET Tasks, N \in SUBSET Nodes : Fine(AtOrphans(S, N))
  /\ \A c \in PCs \ {"extend_create"} : Fine([IdleThread EXCEPT !.pc = c])
<1>1. ASSUME NEW c \in PCs \ {"extend_create"}, NEW S \in SUBSET Tasks, NEW N \in SUBSET Nodes
      PROVE  /\ Fine([IdleThread EXCEPT !.pc = c, !.todo = S])
             /\ Fine([IdleThread EXCEPT !.pc = c, !.nodes = N])
             /\ Fine([IdleThread EXCEPT !.pc = c, !.todo = S, !.nodes = N])
             /\ Fine([IdleThread EXCEPT !.pc = c])
  <2>1. /\ [IdleThread EXCEPT !.pc = c, !.todo = S] \in Thread
        /\ [IdleThread EXCEPT !.pc = c, !.nodes = N] \in Thread
        /\ [IdleThread EXCEPT !.pc = c, !.todo = S, !.nodes = N] \in Thread
        /\ [IdleThread EXCEPT !.pc = c] \in Thread
    BY IdleIsThread DEF Thread
  <2> QED BY <2>1, FreshFine DEF IdleThread
<1>2. {"schedule", "dependents", "victims", "nodes", "rec_task"} \subseteq PCs \ {"extend_create"}
  BY DEF PCs
<1> QED
  BY <1>1, <1>2, IdleFine DEF AtDependents, AtVictims, AtNodes, AtOrphans

(* The steps that promote and place tasks. *)
LEMMA PromoteType ==
  ASSUME TypeInv, NEW p \in Threads, PromoteNew(p) \/ Trigger(p) \/ UnblockToReady(p)
  PROVE  TypeInv'
<1>1. status' \in [Tasks -> Status] /\ UNCHANGED <<assigned, attempts, deps, ballot, lease, pin, health, restarts>>
  BY DEF PromoteNew, Trigger, UnblockToReady, TypeInv, TypeOK, Status
<1>2. CASE PromoteNew(p)
  <2>1. Fine([IdleThread EXCEPT !.pc = "trigger"])
    BY FreshRecords DEF PCs
  <2> QED BY <1>1, <1>2, <2>1, BoardType DEF PromoteNew, TypeInv, TypeOK
<1>3. CASE Trigger(p)
  <2>1. th[p].then \in PCs \ {"extend_create"} /\ th[p].to # "cancel"
    BY <1>3 DEF Trigger, At, TypeInv, TypeOK, Thread, Thens, PCs, InOrder, Orderly
  <2>2. Fine([th[p] EXCEPT !.pc = th[p].then])
    BY <1>3, <2>1, StepFine DEF Trigger, At
  <2>3. Done(p) \/ Step(p, th[p].then)
    BY <1>3 DEF Trigger, Return
  <2> QED BY <1>1, <2>2, <2>3, BoardType, IdleFine DEF Done, Step, TypeInv, TypeOK
<1>4. CASE UnblockToReady(p)
  BY <1>1, <1>4, BoardType, IdleFine DEF UnblockToReady, Done, TypeInv, TypeOK
<1> QED BY <1>2, <1>3, <1>4

(* The steps of the handlers, one lemma each. *)
LEMMA LookupType ==
  ASSUME TypeInv, NEW p \in Threads, Lookup(p)
  PROVE  TypeInv'
<1> DEFINE r == IF th[p].pc = "lookup" THEN th[p] ELSE [th[p] EXCEPT !.then = "veto_requeue"]
           to(found) == IF r.to # "cancel" THEN r.to
                        ELSE IF found THEN "cancel_requested" ELSE "cancelled"
<1>0. UNCHANGED <<taskRows, lease, pin, health, restarts>>
  BY DEF Lookup
<1>1. r \in Thread /\ r.lid = NoLease /\ r.rows = {} /\ r.keep = {}
  <2>1. th[p] \in Thread /\ th[p].lid = NoLease /\ th[p].rows = {} /\ th[p].keep = {}
    BY DEF Lookup, TypeInv, TypeOK, InOrder, Orderly
  <2>2. [th[p] EXCEPT !.then = "veto_requeue"] \in Thread
    BY <2>1 DEF Thread, Thens
  <2> QED BY <2>1, <2>2 DEF Thread
<1>2. \A b \in BOOLEAN : to(b) \in Status
  BY <1>1 DEF Thread, Status
<1> HIDE DEF r
<1>4. CASE Goto(p, [r EXCEPT !.pc = r.then, !.to = to(FALSE)])
  <2> DEFINE x == [r EXCEPT !.pc = r.then, !.to = to(FALSE)]
  <2>1. r.then \in PCs \ {"extend_create"} /\ to(FALSE) \in Status
    BY <1>1, <1>2 DEF Thread, Thens, PCs
  <2> HIDE DEF to
  <2>2. x \in Thread
    BY <1>1, <2>1 DEF Thread
  <2>3. /\ x.lid = NoLease /\ x.rows = {} /\ x.keep = {}
        /\ x.to \in Status /\ x.pc # "extend_create"
    BY <1>1, <2>1 DEF Thread
  <2> HIDE DEF x
  <2>4. Fine(x)
    BY <2>2, <2>3, FreshFine DEF Status
  <2> QED BY <1>0, <1>4, <2>4, StepType DEF x
<1>5. ASSUME NEW l \in LeasesOf(r.task),
             Goto(p, [r EXCEPT !.pc = "revoke", !.lid = l, !.to = to(TRUE)])
      PROVE  TypeInv'
  <2> DEFINE x == [r EXCEPT !.pc = "revoke", !.lid = l, !.to = to(TRUE)]
  <2>1. l \in LeaseIds /\ Named(l) /\ to(TRUE) \in Status
    BY <1>2, <1>5 DEF LeasesOf, ActiveLeases, TypeInv, RowsNamed
  <2> HIDE DEF to
  <2>2. x \in Thread
    BY <1>1, <2>1 DEF Thread, PCs
  <2>3. /\ x.lid = l /\ x.rows = {} /\ x.keep = {}
        /\ x.to \in Status /\ x.pc = "revoke"
    BY <1>1, <2>1 DEF Thread
  <2> HIDE DEF x
  <2>4. Fine(x)
    BY <2>1, <2>2, <2>3 DEF Fine, Orderly, Holds, Status
  <2> QED BY <1>0, <1>5, <2>4, StepType DEF x
<1> QED BY <1>4, <1>5 DEF Lookup, r

(* The other steps of the task handlers. *)
LEMMA HandlerType ==
  ASSUME TypeInv, NEW p \in Threads,
         RecordBallot(p) \/ Write(p) \/ Dependents(p) \/ Victims(p)
  PROVE  TypeInv'
<1>0. th[p] \in Thread /\ Orderly(th[p])
  BY DEF TypeInv, TypeOK, InOrder
<1>1. CASE RecordBallot(p)
  <2>1. Fine([th[p] EXCEPT !.pc = "write"])
    BY <1>1, StepFine DEF RecordBallot, At, TypeInv, InOrder, Orderly, PCs
  <2>2. ballot' \in [Tasks -> {"none", "open", "answered"}]
    BY <1>1 DEF RecordBallot, TypeInv, TypeOK
  <2> QED BY <1>1, <2>1, <2>2, BoardType DEF RecordBallot, Step, TypeInv, TypeOK
<1>2. CASE Write(p)
  <2> DEFINE t == th[p].task
  <2>1. th[p].to \in Status
    BY <1>0, <1>2 DEF Write, At, Thread, Orderly
  <2>2. status' \in [Tasks -> Status]
    BY <1>2, <2>1 DEF Write, set_task_status, TypeInv, TypeOK
  <2>3. /\ get_dependents(t) \in SUBSET Tasks /\ get_trigger_chain(t) \in SUBSET Tasks
        /\ th[p].todo \in SUBSET Tasks
    BY <1>0 DEF get_dependents, get_trigger_chain, Thread
  <2>4. /\ Fine([IdleThread EXCEPT !.pc = "schedule"])
        /\ Fine(AtDependents(get_dependents(t))) /\ Fine(AtDependents(th[p].todo))
        /\ Fine(AtVictims(get_trigger_chain(t))) /\ Fine(AtVictims(th[p].todo))
    BY <2>3, FreshRecords DEF PCs
  <2>5. \E r : Fine(r) /\ Goto(p, r)
    <3>1. th[p].tail \in Tails
      BY <1>0 DEF Thread
    <3>2. \/ Done(p) \/ Goto(p, [IdleThread EXCEPT !.pc = "schedule"])
          \/ Goto(p, AtDependents(get_dependents(t))) \/ Goto(p, AtDependents(th[p].todo))
          \/ Goto(p, AtVictims(get_trigger_chain(t))) \/ Goto(p, AtVictims(th[p].todo))
      BY <1>2, <3>1 DEF Write, Tails
    <3> QED BY <2>4, <3>2, IdleFine DEF Done
  <2> QED BY <1>2, <2>2, <2>5, BoardType DEF Write, TypeInv, TypeOK
<1>3. CASE Dependents(p)
  <2> PICK d \in th[p].todo :
        Goto(p, IF promotable(d)
                THEN [th[p] EXCEPT !.pc = "write", !.task = d, !.todo = th[p].todo \ {d},
                                   !.to = "ready", !.tail = "dependents"]
                ELSE AtDependents(th[p].todo \ {d}))
    BY <1>3 DEF Dependents
  <2> DEFINE x == [th[p] EXCEPT !.pc = "write", !.task = d, !.todo = th[p].todo \ {d},
                                !.to = "ready", !.tail = "dependents"]
  <2>1. d \in Tasks /\ th[p].todo \ {d} \in SUBSET Tasks
    BY <1>0 DEF Thread
  <2>2. x \in Thread
    <3>1. "write" \in PCs /\ "ready" \in Status \cup {"cancel"} /\ "dependents" \in Tails
      BY DEF PCs, Status, Tails
    <3> QED BY <1>0, <2>1, <3>1 DEF Thread
  <2>3. x.lid = NoLease /\ x.rows = {} /\ x.keep = {} /\ x.to = "ready" /\ x.pc = "write"
    BY <1>0, <1>3 DEF Dependents, At, Orderly, Thread
  <2>4. Fine(x)
    BY <2>2, <2>3, FreshFine
  <2> HIDE DEF x
  <2>5. Fine(AtDependents(th[p].todo \ {d}))
    BY <2>1, FreshRecords
  <2>6. Goto(p, x) \/ Goto(p, AtDependents(th[p].todo \ {d}))
    BY DEF x
  <2>7. UNCHANGED <<taskRows, lease, pin, health, restarts>>
    BY <1>3 DEF Dependents
  <2> QED BY <2>4, <2>5, <2>6, <2>7, StepType
<1>4. CASE Victims(p)
  <2> DEFINE x(d) == [th[p] EXCEPT !.pc = "lookup", !.task = d, !.then = "write",
                                   !.todo = th[p].todo \ {d}, !.to = "cancel", !.tail = "victims"]
  <2> PICK d \in th[p].todo :
        Goto(p, IF status[d] \in TERMINAL_TASK_STATUSES THEN AtVictims(th[p].todo \ {d})
                ELSE x(d))
    BY <1>4 DEF Victims
  <2>1. d \in Tasks /\ th[p].todo \ {d} \in SUBSET Tasks
    BY <1>0 DEF Thread
  <2>2. x(d) \in Thread
    <3>1. "lookup" \in PCs /\ "write" \in Thens /\ "victims" \in Tails
      BY DEF PCs, Thens, Tails
    <3> QED BY <1>0, <2>1, <3>1 DEF Thread
  <2>3. x(d).lid = NoLease /\ x(d).rows = {} /\ x(d).keep = {} /\ x(d).pc = "lookup"
    BY <1>0, <1>4 DEF Victims, At, Orderly, Thread
  <2>4. Fine(x(d))
    BY <2>2, <2>3, FreshFine
  <2> HIDE DEF x
  <2>5. Fine(AtVictims(th[p].todo \ {d}))
    BY <2>1, FreshRecords
  <2>6. Goto(p, x(d)) \/ Goto(p, AtVictims(th[p].todo \ {d}))
    OBVIOUS
  <2>7. UNCHANGED <<taskRows, lease, pin, health, restarts>>
    BY <1>4 DEF Victims
  <2> QED BY <2>4, <2>5, <2>6, <2>7, StepType
<1> QED BY <1>1, <1>2, <1>3, <1>4

(* A step that writes lease rows and status, assignment and attempts. *)
LEMMA LeaseType ==
  ASSUME TypeInv, NEW p \in Threads, NEW r \in Thread, Goto(p, r),
         Orderly(r),
         lease' \in [LeaseIds -> Lease], RowsNamed',
         \A l \in LeaseIds : l \in Holds(r) => Named(l)',
         \A q \in Threads \ {p}, l \in LeaseIds : l \in Held(q) => Named(l)',
         status' \in [Tasks -> Status], assigned' \in [Tasks -> Nodes \cup {NoNode}],
         attempts' \in [Tasks -> 0..RetryLimit],
         UNCHANGED <<deps, ballot, pin, health, restarts>>
  PROVE  TypeInv'
<1>1. th' \in [Threads -> Thread] /\ HeldNamed' /\ InOrder'
  BY RowsKeep
<1>2. TypeOK'
  BY <1>1 DEF TypeInv, TypeOK
<1> QED BY <1>1, <1>2 DEF TypeInv

(* Steps of thread p that revoke lease rows. *)
LEMMA RevokeType ==
  ASSUME TypeInv, NEW p \in Threads,
         Revoke(p) \/ Requeue(p) \/ ExtendRevoke(p) \/ RecRevoke(p)
  PROVE  TypeInv'
<1>0. th[p] \in Thread /\ Orderly(th[p]) /\ \A l \in LeaseIds : l \in Held(p) => Named(l)
  BY DEF TypeInv, TypeOK, HeldNamed, InOrder
<1>t. /\ status \in [Tasks -> Status] /\ assigned \in [Tasks -> Nodes \cup {NoNode}]
      /\ attempts \in [Tasks -> 0..RetryLimit]
  BY DEF TypeInv, TypeOK
<1>1. CASE Revoke(p)
  <2> DEFINE r == [th[p] EXCEPT !.pc = th[p].then, !.lid = NoLease]
  <2>1. r \in Thread
    BY <1>0 DEF Thread, Thens, PCs
  <2>2. /\ r.to # "cancel" /\ r.pc \in Thens
        /\ r.lid = NoLease /\ r.rows = {} /\ r.keep = {}
    BY <1>0, <1>1 DEF Revoke, At, Orderly, Thread
  <2> HIDE DEF r
  <2>3. Fine(r)
    BY <2>1, <2>2, FreshFine DEF Thens
  <2>4. Holds(r) = {NoLease}
    BY <2>2 DEF Holds
  <2> QED
    BY <1>1, <1>t, <2>1, <2>3, <2>4, RevokeKeeps, LeaseType DEF Revoke, Fine, taskRows, r
<1>2. CASE Requeue(p)
  <2> DEFINE t == th[p].task
             S == {l \in LiveLeases : lease[l].task = t}
  <2>1. revoke_lease(p, S) /\ UNCHANGED <<deps, ballot, pin, health, restarts>>
    BY <1>2 DEF Requeue
  <2>2. CASE requeueable(t)
    <3> DEFINE r == [IdleThread EXCEPT !.pc = "schedule"]
    <3>1. Fine(r) /\ Holds(r) = {NoLease}
      BY FreshRecords DEF PCs, Holds, IdleThread
    <3>2. /\ status' \in [Tasks -> Status] /\ assigned' \in [Tasks -> Nodes \cup {NoNode}]
          /\ Goto(p, r)
      BY <1>2, <1>t, <2>2 DEF Requeue, Status
    <3>3. attempts' \in [Tasks -> 0..RetryLimit]
      <4>1. attempts' = [attempts EXCEPT ![t] = @ + 1] /\ attempts[t] < RetryLimit
        BY <1>2, <2>2 DEF Requeue, requeueable
      <4>2. t \in Tasks => attempts[t] + 1 \in 0..RetryLimit
        BY <1>t, <4>1
      <4> HIDE DEF t
      <4> QED BY <1>t, <4>1, <4>2
    <3> HIDE DEF r
    <3> QED BY <2>1, <3>1, <3>2, <3>3, RevokeKeeps, LeaseType DEF Fine
  <2>3. CASE ~requeueable(t)
    <3> DEFINE c == IF th[p].pc = "requeue" THEN "lookup" ELSE "write"
               r == [th[p] EXCEPT !.pc = c]
    <3>1. Goto(p, r) /\ UNCHANGED <<status, assigned, attempts>>
      BY <1>2, <2>3 DEF Requeue, Step
    <3>2. Fine(r)
      BY <1>0, <1>2, StepFine DEF Requeue, Orderly, PCs
    <3>3. Holds(r) = {NoLease}
      BY <1>0, <1>2 DEF Requeue, Orderly, Holds, Thread
    <3> HIDE DEF r
    <3> QED BY <1>t, <2>1, <3>1, <3>2, <3>3, RevokeKeeps, LeaseType DEF Fine
  <2> QED BY <2>2, <2>3
<1>3. CASE ExtendRevoke(p)
  <2>1. Fine(IdleThread) /\ Holds(IdleThread) = {NoLease}
    BY IdleFine DEF Holds, IdleThread
  <2>2. /\ revoke_lease(p, {th[p].lid}) /\ Goto(p, IdleThread)
        /\ UNCHANGED <<status, assigned, attempts, deps, ballot, pin, health, restarts>>
    BY <1>3 DEF ExtendRevoke, Done, taskRows
  <2> QED
    BY <1>t, <2>1, <2>2, RevokeKeeps, LeaseType DEF Fine
<1>4. CASE RecRevoke(p)
  <2> DEFINE r(l) == [th[p] EXCEPT
                        !.pc   = IF th[p].keep = {l} THEN "rec_task" ELSE "rec_revoke",
                        !.keep = th[p].keep \ {l},
                        !.todo = th[p].todo \cup {lease[l].task}]
  <2>1. PICK l \in th[p].keep : revoke_lease(p, {l}) /\ Goto(p, r(l))
    BY <1>4 DEF RecRevoke
  <2>2. l \in LeaseIds /\ lease[l].task \in Tasks
    BY <1>0, <2>1 DEF Thread, Held, Named
  <2>3. r(l) \in Thread
    <3>1. "rec_task" \in PCs /\ "rec_revoke" \in PCs
      BY DEF PCs
    <3> QED BY <1>0, <2>2, <3>1 DEF Thread
  <2>4. /\ r(l).to = th[p].to /\ r(l).lid = NoLease /\ r(l).rows = {}
        /\ r(l).keep = th[p].keep \ {l}
        /\ r(l).pc = IF th[p].keep = {l} THEN "rec_task" ELSE "rec_revoke"
    BY <1>0, <1>4 DEF RecRevoke, At, Orderly, Thread
  <2> HIDE DEF r
  <2>5. Orderly(r(l))
    BY <1>0, <1>4, <2>4 DEF RecRevoke, At, Orderly
  <2>6. \A m \in LeaseIds : m \in Holds(r(l)) => Named(m)'
    BY <1>0, <2>1, <2>4, RevokeKeeps DEF Holds, Held
  <2> QED
    BY <1>4, <1>t, <2>1, <2>3, <2>5, <2>6, RevokeKeeps, LeaseType DEF RecRevoke, taskRows
<1> QED BY <1>1, <1>2, <1>3, <1>4

(* Steps that run a scheduling pass. *)
LEMMA PassType ==
  ASSUME TypeInv, NEW p \in Threads, Schedule(p) \/ RecSchedule(p)
  PROVE  TypeInv'
<1>0. /\ th[p].to # "cancel" /\ attempts \in [Tasks -> 0..RetryLimit]
      /\ th[p].pc \in {"schedule", "rec_schedule"}
  BY DEF Schedule, RecSchedule, At, TypeInv, TypeOK, InOrder, Orderly
<1>1. PICK plan \in PlansNow :
        /\ schedule_pending(plan)
        /\ Done(p) \/ Step(p, IF Placed(plan) = {} THEN "rec_fail" ELSE "rec_check")
  BY DEF Schedule, RecSchedule
<1>2. UNCHANGED <<attempts, deps, ballot, pin, health, restarts>>
  BY DEF Schedule, RecSchedule
<1>3. PICK r : Fine(r) /\ Goto(p, r)
  <2>1. Fine([th[p] EXCEPT !.pc = "rec_fail"]) /\ Fine([th[p] EXCEPT !.pc = "rec_check"])
    BY <1>0, StepFine DEF PCs
  <2> QED BY <1>1, <2>1, IdleFine DEF Done, Step
<1>4. \A l \in LeaseIds : l \in Holds(r) => Named(l)'
  <2>1. Holds(r) \subseteq {NoLease} \cup Held(p)
    <3>1. th[p] \in Thread
      BY DEF TypeInv, TypeOK
    <3>2. th' = [th EXCEPT ![p] = r] /\ th \in [Threads -> Thread]
      BY <1>3 DEF Goto, TypeInv, TypeOK
    <3>3. \/ r = IdleThread
          \/ \E c \in PCs : r = [th[p] EXCEPT !.pc = c]
      <4>1. th'[p] = r
        BY <3>2
      <4>2. "rec_fail" \in PCs /\ "rec_check" \in PCs
        BY DEF PCs
      <4>3. th'[p] = IdleThread \/ \E c \in PCs : th'[p] = [th[p] EXCEPT !.pc = c]
        BY <1>1, <3>2, <4>2 DEF Done, Step, Goto
      <4> QED BY <4>1, <4>3
    <3> QED BY <3>1, <3>3 DEF Holds, Held, IdleThread, Thread
  <2> QED BY <1>1, <2>1, ScheduleKeeps
<1> QED
  BY <1>0, <1>1, <1>2, <1>3, <1>4, ScheduleKeeps, LeaseType DEF Fine

(* The new row of an extension copies the task and node of a named row. *)
LEMMA ExtendType ==
  ASSUME TypeInv, NEW p \in Threads, ExtendCreate(p)
  PROVE  TypeInv'
<1> DEFINE m == th[p].lid
           r == [th[p] EXCEPT !.pc = "extend_revoke"]
<1>0. th[p] \in Thread /\ Orderly(th[p]) /\ th[p].pc = "extend_create"
  BY DEF ExtendCreate, At, TypeInv, TypeOK, InOrder
<1>1. m \in LeaseIds /\ Named(m)
  BY <1>0 DEF Orderly, TypeInv, HeldNamed, Held
<1>2. PICK l \in FreeRows :
        lease' = [lease EXCEPT ![l] = [task |-> lease[m].task, node |-> lease[m].node,
                                       st |-> "active", live |-> TRUE]]
  BY DEF ExtendCreate
<1>3. /\ l \in LeaseIds /\ \A q \in Threads : l \notin Held(q)
      /\ lease \in [LeaseIds -> Lease]
  BY DEF FreeRows, TypeInv, TypeOK
<1>4. [task |-> lease[m].task, node |-> lease[m].node, st |-> "active", live |-> TRUE] \in Lease
  BY <1>1 DEF Named, Lease, LeaseStatus
<1>5. lease' \in [LeaseIds -> Lease] /\ \A k \in LeaseIds \ {l} : lease'[k] = lease[k]
  BY <1>2, <1>3, <1>4
<1>6. Named(l)'
  BY <1>1, <1>2, <1>3 DEF Named
<1>7. RowsNamed' /\ \A q \in Threads, k \in LeaseIds : k \in Held(q) => Named(k)'
  BY <1>5, <1>6 DEF TypeInv, RowsNamed, HeldNamed, Named
<1>8. r \in Thread
  <2>1. "extend_revoke" \in PCs
    BY DEF PCs
  <2> QED BY <1>0, <2>1 DEF Thread
<1>9. Holds(r) = Held(p) /\ Orderly(r)
  BY <1>0 DEF Holds, Held, Thread, Orderly
<1>10. Goto(p, r) /\ UNCHANGED <<status, assigned, attempts, deps, ballot, pin, health, restarts>>
  BY DEF ExtendCreate, Step, taskRows
<1>11. /\ status \in [Tasks -> Status] /\ assigned \in [Tasks -> Nodes \cup {NoNode}]
       /\ attempts \in [Tasks -> 0..RetryLimit]
  BY DEF TypeInv, TypeOK
<1> HIDE DEF r
<1> QED BY <1>5, <1>7, <1>8, <1>9, <1>10, <1>11, LeaseType

(* The second transaction of an expiry scan. *)
LEMMA MarkType ==
  ASSUME TypeInv, NEW p \in Threads, Mark(p) \/ RecMark(p)
  PROVE  TypeInv'
<1>0. /\ th[p] \in Thread /\ Orderly(th[p]) /\ th[p].pc \in {"mark", "rec_mark"}
      /\ mark_expired(th[p].rows)
  BY DEF Mark, RecMark, At, TypeInv, TypeOK, InOrder
<1>1. PICK r \in Thread : /\ Goto(p, r) /\ Orderly(r)
                          /\ Holds(r) \subseteq th[p].keep \cup {NoLease}
  <2>1. CASE Mark(p) /\ th[p].then = "idle"
    <3>1. Goto(p, IdleThread)
      BY <2>1 DEF Mark, Done
    <3> QED BY <3>1, IdleFine DEF Fine, Holds, IdleThread
  <2>2. CASE Mark(p) /\ th[p].then # "idle"
    <3> DEFINE r == [th[p] EXCEPT !.pc = th[p].then, !.rows = {}]
    <3>1. th[p].then \in PCs \ {"extend_create"}
      BY <1>0 DEF Thread, Thens, PCs
    <3>2. r \in Thread
      BY <1>0, <3>1 DEF Thread
    <3>3. /\ r.to = th[p].to /\ r.lid = NoLease /\ r.rows = {} /\ r.keep = {}
          /\ r.pc # "extend_create"
      BY <1>0, <2>2, <3>1 DEF Mark, At, Thread, Orderly
    <3>4. Goto(p, r)
      BY <2>2 DEF Mark
    <3> HIDE DEF r
    <3>5. Orderly(r) /\ Holds(r) = {NoLease}
      BY <1>0, <3>3 DEF Orderly, Holds
    <3> QED BY <3>2, <3>4, <3>5
  <2>3. CASE RecMark(p)
    <3> DEFINE r == [th[p] EXCEPT !.pc = "rec_expired", !.rows = {}]
    <3>1. "rec_expired" \in PCs
      BY DEF PCs
    <3>2. r \in Thread
      BY <1>0, <3>1 DEF Thread
    <3>3. /\ r.to = th[p].to /\ r.lid = NoLease /\ r.rows = {} /\ r.keep = th[p].keep
          /\ r.pc = "rec_expired"
      BY <1>0 DEF Thread, Orderly
    <3>4. Goto(p, r)
      BY <2>3 DEF RecMark
    <3> HIDE DEF r
    <3>5. Orderly(r) /\ Holds(r) = th[p].keep \cup {NoLease}
      BY <1>0, <3>3 DEF Orderly, Holds
    <3> QED BY <3>2, <3>4, <3>5
  <2> QED BY <2>1, <2>2, <2>3
<1>2. UNCHANGED <<status, assigned, attempts, deps, ballot, pin, health, restarts>>
  BY DEF Mark, RecMark, taskRows
<1>3. /\ status \in [Tasks -> Status] /\ assigned \in [Tasks -> Nodes \cup {NoNode}]
      /\ attempts \in [Tasks -> 0..RetryLimit]
  BY DEF TypeInv, TypeOK
<1>4. \A l \in LeaseIds : l \in Holds(r) => Named(l)
  BY <1>1 DEF TypeInv, HeldNamed, Held
<1>5. \A q \in Threads, l \in LeaseIds : l \in Held(q) => Named(l)'
  BY <1>0, MarkKeeps DEF TypeInv, HeldNamed
<1> QED BY <1>0, <1>1, <1>2, <1>3, <1>4, <1>5, MarkKeeps, LeaseType

(* Steps of a recovery that leave the lease rows alone. *)
LEMMA RecoveryType ==
  ASSUME TypeInv, NEW p \in Threads,
         \/ ExpiredNodes(p) \/ RecRead(p) \/ RecExpired(p)
         \/ RecTask(p) \/ RecCheck(p) \/ RecFail(p)
  PROVE  TypeInv'
<1>0. th[p] \in Thread /\ Orderly(th[p]) /\ \A l \in LeaseIds : l \in Held(p) => Named(l)
  BY DEF TypeInv, TypeOK, HeldNamed, InOrder
<1>1. /\ LapsedLeases \subseteq LeaseIds /\ LiveLeases \subseteq LeaseIds
      /\ ExpiredLeases \subseteq LeaseIds
      /\ \A l \in LapsedLeases \cup LiveLeases \cup ExpiredLeases : Named(l)
  BY DEF LapsedLeases, LiveLeases, ActiveLeases, ExpiredLeases, TypeInv, RowsNamed
<1>2. th[p].todo \in SUBSET Tasks /\ th[p].nodes \in SUBSET Nodes
  BY <1>0 DEF Thread
<1>t. status \in [Tasks -> Status] /\ assigned \in [Tasks -> Nodes \cup {NoNode}]
  BY DEF TypeInv, TypeOK
<1>3. CASE ExpiredNodes(p)
  <2>1. {lease[l].node : l \in ExpiredLeases} \in SUBSET Nodes
    BY <1>1 DEF Named
  <2>2. Fine(AtNodes({lease[l].node : l \in ExpiredLeases}))
    BY <2>1, FreshRecords
  <2> QED BY <1>3, <2>2, StepType DEF ExpiredNodes
<1>4. CASE RecRead(p)
  <2> DEFINE c == IF LapsedLeases = {} THEN "rec_expired" ELSE "rec_mark"
             K(n) == {l \in LiveLeases : lease[l].node = n}
             r(n) == [th[p] EXCEPT !.pc = c, !.nodes = th[p].nodes \ {n}, !.node = n,
                                   !.rows = LapsedLeases, !.keep = K(n)]
  <2>1. PICK n \in th[p].nodes : Goto(p, r(n))
    BY <1>4 DEF RecRead
  <2>2. n \in Nodes /\ c \in PCs /\ K(n) \in SUBSET LiveLeases
    BY <1>2 DEF PCs
  <2>3. c = "rec_expired" => LapsedLeases = {}
    OBVIOUS
  <2>4. c \in {"rec_expired", "rec_mark"}
    OBVIOUS
  <2> HIDE DEF c, K
  <2>5. r(n) \in Thread
    <3>1. K(n) \in SUBSET LeaseIds /\ LapsedLeases \in SUBSET LeaseIds
      BY <1>1, <2>2
    <3>2. n \in Nodes \cup {NoNode} /\ th[p].nodes \ {n} \in SUBSET Nodes
      BY <1>2, <2>2
    <3> QED BY <1>0, <2>2, <3>1, <3>2 DEF Thread
  <2>6. /\ r(n).to = th[p].to /\ r(n).pc = c /\ r(n).lid = NoLease
        /\ r(n).rows = LapsedLeases /\ r(n).keep = K(n)
    BY <1>0, <1>4 DEF RecRead, At, Thread, Orderly
  <2> HIDE DEF r
  <2>7. Orderly(r(n))
    BY <1>0, <1>4, <2>3, <2>4, <2>6 DEF RecRead, At, Orderly
  <2>8. \A l \in LeaseIds : l \in Holds(r(n)) => Named(l)
    BY <1>1, <2>2, <2>6 DEF Holds
  <2>9. Fine(r(n))
    BY <2>5, <2>7, <2>8 DEF Fine
  <2> QED BY <1>4, <2>1, <2>9, StepType DEF RecRead
<1>5. CASE RecExpired(p)
  <2> DEFINE all == th[p].keep \cup {l \in ExpiredLeases : lease[l].node = th[p].node}
             r == [th[p] EXCEPT !.pc = "rec_revoke", !.node = NoNode, !.keep = all]
  <2>1. Goto(p, AtNodes(th[p].nodes)) \/ Goto(p, r)
    BY <1>5 DEF RecExpired
  <2>2. all \in SUBSET LeaseIds /\ \A l \in all : Named(l)
    BY <1>0, <1>1 DEF Thread, Held
  <2> HIDE DEF all
  <2>3. r \in Thread
    <3>1. "rec_revoke" \in PCs
      BY DEF PCs
    <3> QED BY <1>0, <2>2, <3>1 DEF Thread
  <2>4. /\ r.to = th[p].to /\ r.pc = "rec_revoke" /\ r.lid = NoLease
        /\ r.rows = {} /\ r.keep = all
    BY <1>0, <1>5 DEF RecExpired, At, Thread, Orderly
  <2> HIDE DEF r
  <2>5. Orderly(r)
    BY <1>0, <1>5, <2>4 DEF RecExpired, At, Orderly
  <2>6. Fine(r)
    BY <2>2, <2>3, <2>4, <2>5 DEF Fine, Holds
  <2>7. Fine(AtNodes(th[p].nodes))
    BY <1>2, FreshRecords
  <2> QED BY <1>5, <2>1, <2>6, <2>7, StepType DEF RecExpired
<1>6. CASE RecTask(p)
  <2> DEFINE r(t) == [th[p] EXCEPT !.pc = "rec_schedule", !.task = t, !.todo = th[p].todo \ {t}]
  <2>1. PICK t \in th[p].todo :
          \/ /\ status' = [status EXCEPT ![t] = "ready"]
             /\ assigned' = [assigned EXCEPT ![t] = NoNode]
             /\ Goto(p, r(t))
          \/ Goto(p, AtOrphans(th[p].todo \ {t}, th[p].nodes)) /\ UNCHANGED <<status, assigned>>
    BY <1>6 DEF RecTask
  <2>2. t \in Tasks /\ th[p].todo \ {t} \in SUBSET Tasks
    BY <1>2
  <2>3. r(t) \in Thread
    <3>1. "rec_schedule" \in PCs
      BY DEF PCs
    <3> QED BY <1>0, <2>2, <3>1 DEF Thread
  <2>4. /\ r(t).lid = NoLease /\ r(t).rows = {} /\ r(t).keep = {}
        /\ r(t).to # "cancel" /\ r(t).pc # "extend_create"
    BY <1>0, <1>6 DEF RecTask, At, Thread, Orderly
  <2> HIDE DEF r
  <2>5. Fine(r(t)) /\ Fine(AtOrphans(th[p].todo \ {t}, th[p].nodes))
    BY <1>2, <2>2, <2>3, <2>4, FreshFine, FreshRecords
  <2>6. status' \in [Tasks -> Status] /\ assigned' \in [Tasks -> Nodes \cup {NoNode}]
    BY <1>t, <2>1 DEF Status
  <2>7. ballot' \in [Tasks -> {"none", "open", "answered"}]
    BY <1>6 DEF RecTask, TypeInv, TypeOK
  <2>8. UNCHANGED <<attempts, deps, lease, pin, health, restarts>>
    BY <1>6 DEF RecTask
  <2>9. \E x : Fine(x) /\ Goto(p, x)
    BY <2>1, <2>5
  <2> QED BY <2>6, <2>7, <2>8, <2>9, BoardType
<1>7. CASE RecCheck(p)
  <2>1. Fine([th[p] EXCEPT !.pc = "rec_fail"])
    BY <1>0, <1>7, StepFine DEF RecCheck, At, Orderly, PCs
  <2>2. Fine(AtOrphans(th[p].todo, th[p].nodes))
    BY <1>2, FreshRecords
  <2> QED BY <1>7, <2>1, <2>2, StepType DEF RecCheck, Step, NextOrphan
<1>8. CASE RecFail(p)
  <2>1. Fine(AtOrphans(th[p].todo, th[p].nodes))
    BY <1>2, FreshRecords
  <2>2. status' \in [Tasks -> Status]
    BY <1>8, <1>t DEF RecFail, set_task_status, Status
  <2> QED BY <1>8, <1>t, <2>1, <2>2, BoardType DEF RecFail, NextOrphan, TypeInv, TypeOK
<1> QED BY <1>3, <1>4, <1>5, <1>6, <1>7, <1>8

(* Lapses, node outages and restarts keep the invariant. *)
LEMMA EnvironmentType ==
  ASSUME TypeInv, Environment
  PROVE  TypeInv'
<1>1. ASSUME NEW l \in LeaseIds, Lapse(l)
      PROVE  TypeInv'
  <2>1. \A k \in LeaseIds : /\ lease'[k] \in Lease /\ lease'[k].st = lease[k].st
                            /\ lease'[k].task = lease[k].task /\ lease'[k].node = lease[k].node
    <3>1. lease \in [LeaseIds -> Lease] /\ lease' = [lease EXCEPT ![l].live = FALSE]
      BY <1>1 DEF Lapse, TypeInv, TypeOK
    <3>2. \A x \in Lease : LET y == [x EXCEPT !.live = FALSE]
                           IN  y \in Lease /\ y.st = x.st /\ y.task = x.task /\ y.node = x.node
      BY DEF Lease
    <3>3. \A k \in LeaseIds : lease'[k] = IF k = l THEN [lease[k] EXCEPT !.live = FALSE] ELSE lease[k]
      BY <3>1
    <3> QED BY <3>1, <3>2, <3>3
  <2>2. lease' \in [LeaseIds -> Lease]
    BY <1>1, <2>1 DEF Lapse, TypeInv, TypeOK
  <2>3. RowsNamed' /\ HeldNamed' /\ InOrder'
    BY <1>1, <2>1 DEF Lapse, TypeInv, RowsNamed, HeldNamed, InOrder, Orderly, Named, Held
  <2>4. TypeOK'
    BY <1>1, <2>2 DEF Lapse, TypeInv, TypeOK, taskRows
  <2> QED BY <2>3, <2>4 DEF TypeInv
<1>2. ASSUME NEW n \in Flaky, NEW s \in {"online", "offline"}, SetNodeStatus(n, s)
      PROVE  TypeInv'
  <2>1. RowsNamed' /\ HeldNamed' /\ InOrder'
    BY <1>2 DEF SetNodeStatus, TypeInv, RowsNamed, HeldNamed, InOrder, Orderly, Named, Held
  <2>2. TypeOK'
    BY <1>2 DEF SetNodeStatus, TypeInv, TypeOK, taskRows, NodeStatus
  <2> QED BY <2>1, <2>2 DEF TypeInv
<1>3. ASSUME Restart
      PROVE  TypeInv'
  <2> DEFINE boot == [IdleThread EXCEPT !.pc = "trigger", !.then = "schedule"]
  <2>1. boot \in Thread
    <3>1. "trigger" \in PCs /\ "schedule" \in Thens
      BY DEF PCs, Thens
    <3> QED BY <3>1, IdleIsThread DEF Thread
  <2>2. Fine(boot) /\ Fine(IdleThread)
    BY <2>1, FreshFine, IdleFine DEF IdleThread
  <2>3. Holds(boot) = {NoLease} /\ Holds(IdleThread) = {NoLease}
    BY DEF Holds, IdleThread
  <2> HIDE DEF boot
  <2>4. /\ th' \in [Threads -> Thread]
        /\ \A p \in Threads : th'[p] \in {boot, IdleThread}
    BY <1>3, <2>2 DEF Restart, Fine, boot
  <2>5. InOrder'
    BY <2>2, <2>4 DEF InOrder, Fine
  <2>6. HeldNamed'
    BY <2>3, <2>4 DEF HeldNamed, Held, Holds
  <2>7. RowsNamed'
    BY <1>3 DEF Restart, TypeInv, RowsNamed, Named
  <2>8. TypeOK'
    BY <1>3, <2>4 DEF Restart, TypeInv, TypeOK, taskRows
  <2> QED BY <2>5, <2>6, <2>7, <2>8 DEF TypeInv
<1> QED BY <1>1, <1>2, <1>3 DEF Environment

(* So does a step that changes nothing. *)
LEMMA StutterType ==
  ASSUME TypeInv, UNCHANGED vars
  PROVE  TypeInv'
BY DEF TypeInv, TypeOK, RowsNamed, HeldNamed, InOrder, Orderly, Named, Held, vars, taskRows

(* The invariant is inductive. *)
LEMMA NextType ==
  ASSUME TypeInv, [Next]_vars
  PROVE  TypeInv'
<1>1. CASE Request
  BY <1>1, RequestType
<1>2. ASSUME NEW p \in Threads, Continue(p)
      PROVE  TypeInv'
  BY <1>2, PromoteType, PassType, LookupType, RevokeType, HandlerType, ExtendType, MarkType,
     RecoveryType DEF Continue
<1>3. CASE ScannerScan
  <2>1. "scanner" \in Threads /\ "idle" \in Thens
    BY <1>3 DEF ScannerScan, At, Thens
  <2>2. [IdleThread EXCEPT !.pc = "mark"] = [IdleThread EXCEPT !.pc = "mark", !.then = "idle"]
    <3>1. IdleThread \in Thread /\ IdleThread.then = "idle"
      BY IdleIsThread DEF IdleThread
    <3> QED BY <3>1 DEF Thread
  <2> QED BY <1>3, <2>1, <2>2, ScanType DEF ScannerScan
<1>4. CASE AutoScan
  BY <1>4, ScanType DEF AutoScan, At, Thens
<1>5. CASE Environment
  BY <1>5, EnvironmentType
<1>6. CASE UNCHANGED vars
  BY <1>6, StutterType
<1> QED BY <1>1, <1>2, <1>3, <1>4, <1>5, <1>6 DEF Next

(* The rows and the threads' locals keep their types in every behaviour:   *)
(* in particular no lease row a thread still refers to is reused under it, *)
(* and "cancel" is never written as a status.                              *)
THEOREM TypeCorrect == Spec => []TypeOK
<1>1. Init => TypeInv
  BY InitTypeInv
<1>2. TypeInv /\ [Next]_vars => TypeInv'
  BY NextType
<1>3. TypeInv => TypeOK
  BY DEF TypeInv
<1> QED BY <1>1, <1>2, <1>3, PTL DEF Spec
=============================================================================
