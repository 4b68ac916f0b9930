-------------------------- MODULE TaskBoardSafety --------------------------
(***************************************************************************)
(* What the task board guarantees for any number of tasks, nodes, lanes    *)
(* and leases, on top of the typing invariant of TaskBoardProofs.  The     *)
(* heart is StartsByPass: while claim_task is not called, a task becomes   *)
(* active only inside a scheduling pass, so what Planner says of a plan    *)
(* holds of every start.                                                   *)
(***************************************************************************)
EXTENDS TaskBoardProofs

USE BoardAssumption, PlannerAssumption

(* No handler is about to write an active status. *)
Claimless == \A p \in Threads : th[p].to \notin ACTIVE_TASK_STATUSES

(* No step of one thread brings an active status into its locals. *)
LEMMA MoveClaimless ==
  ASSUME TypeInv, Claimless, NEW p \in Threads, NEW r, Goto(p, r),
         r.to \notin ACTIVE_TASK_STATUSES
  PROVE  Claimless'
BY DEF Claimless, Goto, TypeInv, TypeOK

(* The status the records a thread moves to carry. *)
LEMMA RecordTo ==
  /\ IdleThread.to = "absent"
  /\ \A S : AtDependents(S).to = "absent" /\ AtVictims(S).to = "absent" /\ AtNodes(S).to = "absent"
  /\ \A S, N : AtOrphans(S, N).to = "absent"
BY DEF IdleThread, AtDependents, AtVictims, AtNodes, AtOrphans

(* Every request that may come in leaves the statuses that are not active  *)
(* not active, and announces no active status.                             *)
LEMMA RequestClaimless ==
  ASSUME TypeInv, Claimless, "claim" \notin Calls, Request
  PROVE  /\ Claimless'
         /\ \A t \in Tasks : status'[t] \in ACTIVE_TASK_STATUSES => status'[t] = status[t]
<1> DEFINE Quiet == \A t \in Tasks : status'[t] \in ACTIVE_TASK_STATUSES
                                       => status'[t] = status[t]
           Moved == th'["loop"].to \notin ACTIVE_TASK_STATUSES
                    /\ \A q \in Threads \ {"loop"} : th'[q] = th[q]
<1>0. th \in [Threads -> Thread] /\ status \in [Tasks -> Status]
  BY DEF TypeInv, TypeOK
<1> USE <1>0 DEF Serve, Goto, ACTIVE_TASK_STATUSES
<1>1. ASSUME NEW t \in Tasks, NEW D \in DepChoices, Submit(t, D)
      PROVE  Quiet /\ Moved
  <2>1. Moved
    BY <1>1 DEF Submit, IdleThread
  <2>2. Quiet
    BY <1>1 DEF Submit, set_task_status
  <2> QED BY <2>1, <2>2
<1>2. ASSUME NEW t \in Tasks, NEW D \in DepChoices, SetDependencies(t, D)
      PROVE  Quiet /\ Moved
  <2>1. Moved
    BY <1>2 DEF SetDependencies, IdleThread
  <2>2. Quiet
    BY <1>2 DEF SetDependencies, set_task_status
  <2> QED BY <2>1, <2>2
<1>3. ASSUME NEW t \in Tasks, Answer(t)
      PROVE  Quiet /\ Moved
  <2>1. Moved
    BY <1>3 DEF Answer, IdleThread
  <2>2. Quiet
    BY <1>3 DEF Answer, set_task_status
  <2> QED BY <2>1, <2>2
<1>4. ASSUME NEW t \in Tasks, UnblockTask(t)
      PROVE  Quiet /\ Moved
  <2>1. Moved
    BY <1>4 DEF UnblockTask, IdleThread
  <2>2. Quiet
    BY <1>4 DEF UnblockTask, set_task_status
  <2> QED BY <2>1, <2>2
<1>5. ASSUME NEW t \in Tasks, Complete(t)
      PROVE  Quiet /\ Moved
  BY <1>5 DEF Complete, IdleThread, taskRows
<1>6. ASSUME NEW t \in Tasks, CompleteVetoed(t)
      PROVE  Quiet /\ Moved
  BY <1>6 DEF CompleteVetoed, IdleThread, taskRows
<1>7. ASSUME NEW t \in Tasks, NEW q \in BOOLEAN, Fail(t, q)
      PROVE  Quiet /\ Moved
  BY <1>7 DEF Fail, IdleThread, taskRows
<1>8. ASSUME NEW t \in Tasks, Cancel(t)
      PROVE  Quiet /\ Moved
  BY <1>8 DEF Cancel, IdleThread, taskRows
<1>9. ASSUME NEW t \in Tasks, Block(t)
      PROVE  Quiet /\ Moved
  BY <1>9 DEF Block, IdleThread, taskRows
<1>10. ASSUME NEW t \in Tasks, Advance(t)
      PROVE  Quiet /\ Moved
  BY <1>10 DEF Advance, IdleThread, taskRows
<1>11. ASSUME NEW t \in Tasks, Claim(t)
      PROVE  Quiet /\ Moved
  BY <1>11 DEF Claim, IdleThread, taskRows
<1>12. ASSUME NEW t \in Tasks, Release(t)
      PROVE  Quiet /\ Moved
  BY <1>12 DEF Release, IdleThread, taskRows
<1>13. ASSUME NEW l \in LeaseIds, Extend(l)
      PROVE  Quiet /\ Moved
  BY <1>13 DEF Extend, IdleThread, taskRows
<1>14. ASSUME NEW k \in Lanes, NEW n \in Nodes, ReportLane(k, n)
      PROVE  Quiet /\ Moved
  BY <1>14 DEF ReportLane, IdleThread, taskRows
<1>15. ASSUME NEW n \in Nodes, RecoveryTrigger(n)
      PROVE  Quiet /\ Moved
  BY <1>15, RecordTo DEF RecoveryTrigger, taskRows
<1>16. ASSUME ScheduleTrigger
      PROVE  Quiet /\ Moved
  BY <1>16 DEF ScheduleTrigger, IdleThread, taskRows
<1>17. ASSUME DetectExpired
      PROVE  Quiet /\ Moved
  BY <1>17 DEF DetectExpired, IdleThread, Scan, taskRows
<1>18. Quiet /\ Moved
  <2> HIDE DEF Quiet, Moved
  <2> QED BY <1>1, <1>2, <1>3, <1>4, <1>5, <1>6, <1>7, <1>8, <1>9,
            <1>10, <1>11, <1>12, <1>13, <1>14, <1>15, <1>16, <1>17 DEF Request
<1> QED BY <1>18 DEF Claimless

(* The steps of a handler or a recovery that are not a scheduling pass. *)
LEMMA ContinueClaimless ==
  ASSUME TypeInv, Claimless, NEW p \in Threads, Continue(p), ~Schedule(p), ~RecSchedule(p)
  PROVE  /\ Claimless'
         /\ \A t \in Tasks : status'[t] \in ACTIVE_TASK_STATUSES => status'[t] = status[t]
<1> DEFINE Quiet == \A t \in Tasks : status'[t] \in ACTIVE_TASK_STATUSES
                                       => status'[t] = status[t]
           Moved == th'[p].to \notin ACTIVE_TASK_STATUSES
                    /\ \A q \in Threads \ {p} : th'[q] = th[q]
<1>0. /\ th \in [Threads -> Thread] /\ status \in [Tasks -> Status]
      /\ th[p] \in Thread /\ th[p].to \notin ACTIVE_TASK_STATUSES
  BY DEF TypeInv, TypeOK, Claimless
<1> USE <1>0 DEF Goto, ACTIVE_TASK_STATUSES
<1>1. ASSUME PromoteNew(p)
      PROVE  Quiet /\ Moved
  <2>1. Moved
    BY <1>1, RecordTo DEF PromoteNew, Thread, IdleThread
  <2>2. Quiet
    BY <1>1 DEF PromoteNew
  <2> QED BY <2>1, <2>2
<1>2. ASSUME Trigger(p)
      PROVE  Quiet /\ Moved
  <2>1. Moved
    BY <1>2, RecordTo DEF Trigger, Return, Done, Step, Thread, IdleThread
  <2>2. Quiet
    BY <1>2 DEF Trigger, promotable
  <2> QED BY <2>1, <2>2
<1>3. ASSUME Lookup(p)
      PROVE  Quiet /\ Moved
  <2>1. Moved
    <3> DEFINE r == IF th[p].pc = "lookup" THEN th[p]
                    ELSE [th[p] EXCEPT !.then = "veto_requeue"]
               to(found) == IF r.to # "cancel" THEN r.to
                            ELSE IF found THEN "cancel_requested" ELSE "cancelled"
    <3>1. r \in Thread /\ r.to = th[p].to
      BY DEF Thread, Thens
    <3>2. to(TRUE) \notin ACTIVE_TASK_STATUSES /\ to(FALSE) \notin ACTIVE_TASK_STATUSES
      BY <3>1
    <3>3. \/ Goto(p, [r EXCEPT !.pc = r.then, !.to = to(FALSE)])
          \/ \E l : Goto(p, [r EXCEPT !.pc = "revoke", !.lid = l, !.to = to(TRUE)])
      BY <1>3 DEF Lookup
    <3> HIDE DEF r, to
    <3> DEFINE x == [r EXCEPT !.pc = r.then, !.to = to(FALSE)]
               y(l) == [r EXCEPT !.pc = "revoke", !.lid = l, !.to = to(TRUE)]
    <3>4. x.to = to(FALSE) /\ \A l : y(l).to = to(TRUE)
      BY <3>1 DEF Thread
    <3>5. Goto(p, x) \/ \E l : Goto(p, y(l))
      BY <3>3
    <3> HIDE DEF x, y
    <3> QED BY <3>2, <3>4, <3>5
  <2>2. Quiet
    BY <1>3 DEF Lookup, taskRows
  <2> QED BY <2>1, <2>2
<1>4. ASSUME Revoke(p)
      PROVE  Quiet /\ Moved
  <2>1. Moved
    BY <1>4, RecordTo DEF Revoke, Thread, IdleThread
  <2>2. Quiet
    BY <1>4 DEF Revoke, taskRows
  <2> QED BY <2>1, <2>2
<1>5. ASSUME Requeue(p)
      PROVE  Quiet /\ Moved
  <2>1. Moved
    BY <1>5, RecordTo DEF Requeue, Step, Thread, IdleThread
  <2>2. Quiet
    BY <1>5 DEF Requeue
  <2> QED BY <2>1, <2>2
<1>6. ASSUME RecordBallot(p)
      PROVE  Quiet /\ Moved
  <2>1. Moved
    BY <1>6, RecordTo DEF RecordBallot, Step, Thread, IdleThread
  <2>2. Quiet
    BY <1>6 DEF RecordBallot, taskRows
  <2> QED BY <2>1, <2>2
<1>7. ASSUME Write(p)
      PROVE  Quiet /\ Moved
  <2>1. Moved
    <3>1. th[p].tail \in Tails
      BY DEF Thread
    <3>2. \/ Goto(p, IdleThread) \/ Goto(p, [IdleThread EXCEPT !.pc = "schedule"])
          \/ \E S : Goto(p, AtDependents(S)) \/ Goto(p, AtVictims(S))
      BY <1>7, <3>1 DEF Write, Tails, Done
    <3>3. [IdleThread EXCEPT !.pc = "schedule"].to = "absent"
      BY DEF IdleThread
    <3>4. PICK r : Goto(p, r) /\ r.to = "absent"
      BY <3>2, <3>3, RecordTo, Zenon
    <3>5. "absent" \notin ACTIVE_TASK_STATUSES
      BY DEF ACTIVE_TASK_STATUSES
    <3> QED BY <3>4, <3>5
  <2>2. Quiet
    BY <1>7 DEF Write, set_task_status
  <2> QED BY <2>1, <2>2
<1>8. ASSUME Dependents(p)
      PROVE  Quiet /\ Moved
  <2>1. Moved
    BY <1>8, RecordTo DEF Dependents, Thread, IdleThread
  <2>2. Quiet
    BY <1>8 DEF Dependents, taskRows
  <2> QED BY <2>1, <2>2
<1>9. ASSUME Victims(p)
      PROVE  Quiet /\ Moved
  <2>1. Moved
    BY <1>9, RecordTo DEF Victims, Thread, IdleThread
  <2>2. Quiet
    BY <1>9 DEF Victims, taskRows
  <2> QED BY <2>1, <2>2
<1>10. ASSUME UnblockToReady(p)
      PROVE  Quiet /\ Moved
  <2>1. Moved
    BY <1>10, RecordTo DEF UnblockToReady, Done, Thread, IdleThread
  <2>2. Quiet
    BY <1>10 DEF UnblockToReady
  <2> QED BY <2>1, <2>2
<1>11. ASSUME ExtendCreate(p)
      PROVE  Quiet /\ Moved
  <2>1. Moved
    BY <1>11, RecordTo DEF ExtendCreate, Step, Thread, IdleThread
  <2>2. Quiet
    BY <1>11 DEF ExtendCreate, taskRows
  <2> QED BY <2>1, <2>2
<1>12. ASSUME ExtendRevoke(p)
      PROVE  Quiet /\ Moved
  <2>1. Moved
    BY <1>12, RecordTo DEF ExtendRevoke, Done, Thread, IdleThread
  <2>2. Quiet
    BY <1>12 DEF ExtendRevoke, taskRows
  <2> QED BY <2>1, <2>2
<1>13. ASSUME Mark(p)
      PROVE  Quiet /\ Moved
  <2>1. Moved
    <3>1. Goto(p, IdleThread) \/ Goto(p, [th[p] EXCEPT !.pc = th[p].then, !.rows = {}])
      BY <1>13 DEF Mark, Done
    <3> DEFINE x == [th[p] EXCEPT !.pc = th[p].then, !.rows = {}]
    <3>2. x.to = th[p].to
      BY DEF Thread
    <3> HIDE DEF x
    <3> QED BY <3>1, <3>2, RecordTo DEF x
  <2>2. Quiet
    BY <1>13 DEF Mark, taskRows
  <2> QED BY <2>1, <2>2
<1>14. ASSUME ExpiredNodes(p)
      PROVE  Quiet /\ Moved
  <2>1. Moved
    BY <1>14, RecordTo DEF ExpiredNodes, Thread, IdleThread
  <2>2. Quiet
    BY <1>14 DEF ExpiredNodes, taskRows
  <2> QED BY <2>1, <2>2
<1>15. ASSUME RecRead(p)
      PROVE  Quiet /\ Moved
  <2>1. Moved
    BY <1>15, RecordTo DEF RecRead, Thread, IdleThread
  <2>2. Quiet
    BY <1>15 DEF RecRead, taskRows
  <2> QED BY <2>1, <2>2
<1>16. ASSUME RecMark(p)
      PROVE  Quiet /\ Moved
  <2>1. Moved
    BY <1>16, RecordTo DEF RecMark, Thread, IdleThread
  <2>2. Quiet
    BY <1>16 DEF RecMark, taskRows
  <2> QED BY <2>1, <2>2
<1>17. ASSUME RecExpired(p)
      PROVE  Quiet /\ Moved
  <2>1. Moved
    BY <1>17, RecordTo DEF RecExpired, Thread, IdleThread
  <2>2. Quiet
    BY <1>17 DEF RecExpired, taskRows
  <2> QED BY <2>1, <2>2
<1>18. ASSUME RecRevoke(p)
      PROVE  Quiet /\ Moved
  <2>1. Moved
    BY <1>18, RecordTo DEF RecRevoke, Thread, IdleThread
  <2>2. Quiet
    BY <1>18 DEF RecRevoke, taskRows
  <2> QED BY <2>1, <2>2
<1>19. ASSUME RecTask(p)
      PROVE  Quiet /\ Moved
  <2>1. Moved
    <3>1. PICK t \in th[p].todo :
            \/ Goto(p, [th[p] EXCEPT !.pc = "rec_schedule", !.task = t, !.todo = th[p].todo \ {t}])
            \/ Goto(p, AtOrphans(th[p].todo \ {t}, th[p].nodes))
      BY <1>19 DEF RecTask
    <3> DEFINE x == [th[p] EXCEPT !.pc = "rec_schedule", !.task = t, !.todo = th[p].todo \ {t}]
               y == AtOrphans(th[p].todo \ {t}, th[p].nodes)
    <3>2. x.to = th[p].to /\ y.to = "absent"
      BY RecordTo DEF Thread
    <3>3. Goto(p, x) \/ Goto(p, y)
      BY <3>1
    <3> HIDE DEF x, y
    <3> QED BY <3>2, <3>3
  <2>2. Quiet
    BY <1>19 DEF RecTask
  <2> QED BY <2>1, <2>2
<1>20. ASSUME RecCheck(p)
      PROVE  Quiet /\ Moved
  <2>1. Moved
    BY <1>20, RecordTo DEF RecCheck, Step, NextOrphan, Thread, IdleThread
  <2>2. Quiet
    BY <1>20 DEF RecCheck, taskRows
  <2> QED BY <2>1, <2>2
<1>21. ASSUME RecFail(p)
      PROVE  Quiet /\ Moved
  <2>1. Moved
    BY <1>21, RecordTo DEF RecFail, NextOrphan, Thread, IdleThread
  <2>2. Quiet
    BY <1>21 DEF RecFail, set_task_status
  <2> QED BY <2>1, <2>2
<1>22. Quiet /\ Moved
  <2> HIDE DEF Quiet, Moved
  <2> QED BY <1>1, <1>2, <1>3, <1>4, <1>5, <1>6, <1>7, <1>8, <1>9, <1>10, <1>11,
            <1>12, <1>13, <1>14, <1>15, <1>16, <1>17, <1>18, <1>19, <1>20, <1>21 DEF Continue
<1> QED BY <1>22 DEF Claimless

(* While claim_task is not called, a step makes a task active only as part *)
(* of a scheduling pass.                                                   *)
LEMMA StartsByPass ==
  ASSUME TypeInv, Claimless, "claim" \notin Calls, [Next]_vars
  PROVE  /\ Claimless'
         /\ \/ \A t \in Tasks : status'[t] \in ACTIVE_TASK_STATUSES => status'[t] = status[t]
            \/ \E plan \in PlansNow : schedule_pending(plan)
<1>1. CASE Request
  BY <1>1, RequestClaimless
<1>2. ASSUME NEW p \in Threads, Schedule(p) \/ RecSchedule(p)
      PROVE  Claimless' /\ \E plan \in PlansNow : schedule_pending(plan)
  <2>1. \E plan \in PlansNow : schedule_pending(plan)
    BY <1>2 DEF Schedule, RecSchedule
  <2>2. th \in [Threads -> Thread] /\ th[p] \in Thread
    BY DEF TypeInv, TypeOK
  <2>3. \E c : Goto(p, IdleThread) \/ Goto(p, [th[p] EXCEPT !.pc = c])
    BY <1>2 DEF Schedule, RecSchedule, Done, Step
  <2>4. \A c : [th[p] EXCEPT !.pc = c].to = th[p].to
    BY <2>2 DEF Thread
  <2>5. th[p].to \notin ACTIVE_TASK_STATUSES /\ IdleThread.to \notin ACTIVE_TASK_STATUSES
    BY RecordTo DEF Claimless, ACTIVE_TASK_STATUSES
  <2>6. Claimless'
    <3>1. PICK c : Goto(p, IdleThread) \/ Goto(p, [th[p] EXCEPT !.pc = c])
      BY <2>3
    <3> DEFINE x == [th[p] EXCEPT !.pc = c]
    <3>2. x.to = th[p].to
      BY <2>4
    <3>3. Goto(p, IdleThread) \/ Goto(p, x)
      BY <3>1
    <3> HIDE DEF x
    <3> QED BY <2>5, <3>2, <3>3, MoveClaimless
  <2> QED BY <2>1, <2>6
<1>3. ASSUME NEW p \in Threads, Continue(p)
      PROVE  /\ Claimless'
             /\ \/ \A t \in Tasks : status'[t] \in ACTIVE_TASK_STATUSES => status'[t] = status[t]
                \/ \E plan \in PlansNow : schedule_pending(plan)
  BY <1>2, <1>3, ContinueClaimless
<1>4. CASE ScannerScan \/ AutoScan
  <2>1. PICK p \in Threads : \E r : Goto(p, r) /\ r.to = "absent"
    <3>1. CASE ScannerScan
      <4>1. /\ [[IdleThread EXCEPT !.pc = "mark"] EXCEPT !.pc = "idle"].to = "absent"
            /\ [[IdleThread EXCEPT !.pc = "mark"] EXCEPT !.rows = LapsedLeases].to = "absent"
        BY DEF IdleThread
      <4>2. \/ Goto("scanner", [[IdleThread EXCEPT !.pc = "mark"] EXCEPT !.pc = "idle"])
            \/ Goto("scanner", [[IdleThread EXCEPT !.pc = "mark"] EXCEPT !.rows = LapsedLeases])
        BY <3>1 DEF ScannerScan, Scan
      <4> QED BY <3>1, <4>1, <4>2 DEF ScannerScan, At
    <3>2. CASE AutoScan
      <4> DEFINE x == [IdleThread EXCEPT !.pc = "mark", !.then = "expired"]
      <4>1. [x EXCEPT !.pc = x.then].to = "absent" /\ [x EXCEPT !.rows = LapsedLeases].to = "absent"
        BY DEF IdleThread
      <4>2. Goto("auto", [x EXCEPT !.pc = x.then]) \/ Goto("auto", [x EXCEPT !.rows = LapsedLeases])
        BY <3>2 DEF AutoScan, Scan
      <4> HIDE DEF x
      <4> QED BY <3>2, <4>1, <4>2 DEF AutoScan, At
    <3> QED BY <1>4, <3>1, <3>2
  <2>2. Claimless'
    BY <2>1, MoveClaimless DEF ACTIVE_TASK_STATUSES
  <2> QED BY <1>4, <2>2 DEF ScannerScan, AutoScan, taskRows
<1>5. CASE Environment
  <2>1. CASE Restart
    <3>1. [IdleThread EXCEPT !.pc = "trigger", !.then = "schedule"].to = "absent"
      BY DEF IdleThread
    <3>2. \A p \in Threads : th'[p].to = "absent"
      BY <2>1, <3>1, RecordTo DEF Restart
    <3> QED BY <2>1, <3>2 DEF Restart, Claimless, ACTIVE_TASK_STATUSES, taskRows
  <2>2. CASE UNCHANGED <<taskRows, th>>
    BY <2>2 DEF Claimless, taskRows
  <2> QED BY <1>5, <2>1, <2>2 DEF Environment, Lapse, SetNodeStatus
<1>6. CASE UNCHANGED vars
  BY <1>6 DEF vars, taskRows, Claimless
<1> QED BY <1>1, <1>3, <1>4, <1>5, <1>6 DEF Next

(* No handler runs initially. *)
LEMMA InitClaimless == Init => Claimless
BY RecordTo DEF Init, Claimless, ACTIVE_TASK_STATUSES

----------------------------------------------------------------------------
(* What a pass may start. *)

(* The placed tasks of a plan: each was ready, without a live lease and    *)
(* first in its lane, is handed to a node, and becomes running there.      *)
LEMMA PassStarts ==
  ASSUME TypeInv, NEW plan \in PlansNow, schedule_pending(plan)
  PROVE  /\ Placed(plan) \subseteq Schedulable(status, LeasedTasks)
         /\ \A t \in Tasks : t \in Placed(plan) =>
                /\ status[t] = "ready" /\ status'[t] = "running"
                /\ assigned'[t] = plan[t] /\ plan[t] \in Nodes
         /\ \A t \in Tasks : t \notin Placed(plan) =>
                status'[t] = status[t] /\ assigned'[t] = assigned[t]
<1>1. /\ Placed(plan) \subseteq Schedulable(status, LeasedTasks)
      /\ \A t \in Placed(plan) : plan[t] \in Nodes
  BY DEF PlansNow, Plans, Placed
<1>2. Schedulable(status, LeasedTasks) \subseteq {t \in Tasks : status[t] = "ready"}
  BY DEF Schedulable
<1>3. /\ status' = [t \in Tasks |-> IF t \in Placed(plan) THEN "running" ELSE status[t]]
      /\ \A t \in Tasks : assigned'[t] = IF t \in Placed(plan) THEN plan[t] ELSE assigned[t]
  BY DEF schedule_pending
<1> QED BY <1>1, <1>2, <1>3

(* Two tasks of a lane are never both in one pass, and none starts while   *)
(* another of its lane is active.                                          *)
LEMMA PassKeepsLanes ==
  ASSUME TypeInv, LaneExclusive, NEW plan \in PlansNow, schedule_pending(plan)
  PROVE  LaneExclusive'
<1> SUFFICES ASSUME NEW t \in Tasks, NEW u \in Tasks, t # u, SameLane(t, u),
                    status'[t] \in ACTIVE_TASK_STATUSES, status'[u] \in ACTIVE_TASK_STATUSES
             PROVE  FALSE
  BY DEF LaneExclusive
<1> DEFINE P == Placed(plan)
<1>1. \A x \in Tasks : x \in P => status[x] = "ready" /\ x \notin lane_blocked_ready_ids(status)
  BY PassStarts DEF Schedulable
<1>2. \A x \in Tasks : x \notin P => status'[x] = status[x]
  BY PassStarts
<1> HIDE DEF P
<1>3. SameLane(u, t)
  BY DEF SameLane
<1>4. CASE t \in P /\ u \in P
  <2>1. LaneBefore(t, u) \/ LaneBefore(u, t)
    <3>1. Created[t] # Created[u] /\ Created[t] \in Nat /\ Created[u] \in Nat
      BY DEF PlannerAssumption
    <3>2. Priority[t] \in 0..5 /\ Priority[u] \in 0..5
      BY DEF PlannerAssumption
    <3> QED BY <3>1, <3>2 DEF LaneBefore
  <2> QED BY <1>1, <1>3, <1>4, <2>1 DEF lane_blocked_ready_ids
<1>5. CASE t \in P /\ u \notin P
  BY <1>1, <1>2, <1>5 DEF lane_blocked_ready_ids
<1>6. CASE t \notin P /\ u \in P
  BY <1>1, <1>2, <1>3, <1>6 DEF lane_blocked_ready_ids
<1>7. CASE t \notin P /\ u \notin P
  BY <1>2, <1>7 DEF LaneExclusive
<1> QED BY <1>4, <1>5, <1>6, <1>7

(* Lane serialization for every interleaving of handlers, passes,          *)
(* recoveries and restarts: at most one task of a lane is active, as long  *)
(* as nobody calls claim_task (which makes a task running without a pass). *)
THEOREM LaneSafety ==
  ASSUME "claim" \notin Calls
  PROVE  Spec => []LaneExclusive
<1> DEFINE Inv == TypeInv /\ Claimless /\ LaneExclusive
<1>1. Init => Inv
  <2>1. Init => LaneExclusive
    BY DEF Init, LaneExclusive, ACTIVE_TASK_STATUSES
  <2> QED BY <2>1, InitTypeInv, InitClaimless
<1>2. Inv /\ [Next]_vars => Inv'
  <2> SUFFICES ASSUME Inv, [Next]_vars PROVE Inv'
    OBVIOUS
  <2>1. TypeInv' /\ Claimless'
    BY NextType, StartsByPass
  <2>2. CASE \A t \in Tasks : status'[t] \in ACTIVE_TASK_STATUSES => status'[t] = status[t]
    <3>1. LaneExclusive'
      BY <2>2 DEF LaneExclusive
    <3> QED BY <2>1, <3>1
  <2>3. CASE \E plan \in PlansNow : schedule_pending(plan)
    BY <2>1, <2>3, PassKeepsLanes
  <2> QED BY <2>2, <2>3, StartsByPass
<1>3. Inv => LaneExclusive
  OBVIOUS
<1> QED BY <1>1, <1>2, <1>3, PTL DEF Spec

(* Lane affinity for every interleaving: a task of a pinned lane starts on *)
(* the lane's node or not at all.                                          *)
THEOREM PinSafety ==
  ASSUME "claim" \notin Calls
  PROVE  Spec => LaneNotRehomed
<1> DEFINE Inv == TypeInv /\ Claimless
           Pinned == \A t \in Tasks : /\ status[t] # "running" /\ status'[t] = "running"
                                      /\ PinOf(t, pin) # NoNode
                                      => assigned'[t] = PinOf(t, pin)
<1>1. Init => Inv
  BY InitTypeInv, InitClaimless
<1>2. Inv /\ [Next]_vars => Inv'
  BY NextType, StartsByPass
<1>3. Inv /\ [Next]_vars => [Pinned]_vars
  <2> SUFFICES ASSUME Inv, [Next]_vars, NEW t \in Tasks, status[t] # "running",
                      status'[t] = "running", PinOf(t, pin) # NoNode
               PROVE  assigned'[t] = PinOf(t, pin)
    OBVIOUS
  <2>1. PICK plan \in PlansNow : schedule_pending(plan)
    BY StartsByPass DEF ACTIVE_TASK_STATUSES
  <2>2. t \in Placed(plan) /\ assigned'[t] = plan[t]
    BY <2>1, PassStarts
  <2>3. PICK load : plan[t] \in Candidates(t, Online, {}, pin, load)
    <3>1. Fits(plan, t, status, assigned, Online, {}, pin) /\ plan[t] # NoNode
      BY <2>2 DEF PlansNow, Plans, Placed
    <3> QED BY <3>1 DEF Fits
  <2> QED BY <2>2, <2>3 DEF Candidates
<1> QED BY <1>1, <1>2, <1>3, PTL DEF Spec, LaneNotRehomed

----------------------------------------------------------------------------
(* Leases *)

(* A request's first step writes neither leases nor assignments. *)
LEMMA RequestLeaves ==
  ASSUME Request
  PROVE  lease' = lease /\ assigned' = assigned
<1>1. ASSUME NEW t \in Tasks,
             \/ \E D \in DepChoices : Submit(t, D) \/ SetDependencies(t, D)
             \/ Complete(t) \/ CompleteVetoed(t) \/ Fail(t, TRUE) \/ Fail(t, FALSE)
      PROVE  lease' = lease /\ assigned' = assigned
  BY <1>1 DEF Submit, SetDependencies, Complete, CompleteVetoed, Fail, taskRows
<1>2. ASSUME NEW t \in Tasks,
             \/ Cancel(t) \/ Block(t) \/ Answer(t) \/ UnblockTask(t)
             \/ Advance(t) \/ Claim(t) \/ Release(t)
      PROVE  lease' = lease /\ assigned' = assigned
  BY <1>2 DEF Cancel, Block, Answer, UnblockTask, Advance, Claim, Release, taskRows
<1>3. ASSUME \/ \E l \in LeaseIds : Extend(l)
             \/ \E k \in Lanes, n \in Nodes : ReportLane(k, n)
             \/ \E n \in Nodes : RecoveryTrigger(n)
             \/ ScheduleTrigger \/ DetectExpired
      PROVE  lease' = lease /\ assigned' = assigned
  BY <1>3 DEF Extend, ReportLane, RecoveryTrigger, ScheduleTrigger, DetectExpired, taskRows
<1> QED BY <1>1, <1>2, <1>3 DEF Request

(* A live row after the step was live before it, with the same owner. *)
SameOwners ==
    \A l \in LeaseIds : lease'[l].st = "active" /\ lease'[l].live =>
        /\ lease[l].st = "active" /\ lease[l].live
        /\ lease'[l].task = lease[l].task /\ lease'[l].node = lease[l].node

(* Apart from passes and renewals, leases only end. *)
LEMMA OwnersByPass ==
  ASSUME TypeInv, [Next]_vars
  PROVE  \/ SameOwners
         \/ \E p \in Threads : ExtendCreate(p)
         \/ \E p \in Threads, plan \in PlansNow : (Schedule(p) \/ RecSchedule(p)) /\ schedule_pending(plan)
<1>0. lease \in [LeaseIds -> Lease] /\ \A l \in LeaseIds : lease[l] \in Lease
  BY DEF TypeInv, TypeOK
<1>1. ASSUME NEW p \in Threads, NEW S, revoke_lease(p, S)
      PROVE  SameOwners
  <2>1. \A l \in LeaseIds : lease'[l] = lease[l] \/ lease'[l].st = "revoked"
    BY <1>0, <1>1 DEF revoke_lease, NoRow, Lease
  <2> QED BY <2>1 DEF SameOwners
<1>2. ASSUME NEW S, mark_expired(S)
      PROVE  SameOwners
  <2>1. \A l \in LeaseIds : lease'[l] = lease[l] \/ lease'[l].st = "expired"
    BY <1>0, <1>2 DEF mark_expired, Lease
  <2> QED BY <2>1 DEF SameOwners
<1>3. ASSUME lease' = lease
      PROVE  SameOwners
  BY <1>3 DEF SameOwners
<1>4. CASE Request
  BY <1>3, <1>4, RequestLeaves
<1>5. ASSUME NEW p \in Threads, Continue(p), ~ExtendCreate(p), ~Schedule(p), ~RecSchedule(p)
      PROVE  SameOwners
  <2>1. CASE Revoke(p) \/ Requeue(p) \/ ExtendRevoke(p) \/ RecRevoke(p)
    <3>1. \E S : revoke_lease(p, S)
      BY <2>1 DEF Revoke, Requeue, ExtendRevoke, RecRevoke
    <3> QED BY <1>1, <3>1
  <2>2. CASE Mark(p) \/ RecMark(p)
    BY <1>2, <2>2 DEF Mark, RecMark
  <2>3. CASE \/ PromoteNew(p) \/ Trigger(p) \/ Lookup(p) \/ RecordBallot(p) \/ Write(p)
             \/ Dependents(p) \/ Victims(p) \/ UnblockToReady(p) \/ ExpiredNodes(p)
             \/ RecRead(p) \/ RecExpired(p) \/ RecTask(p) \/ RecCheck(p) \/ RecFail(p)
    <3>1. lease' = lease
      BY <2>3 DEF PromoteNew, Trigger, Lookup, RecordBallot, Write, Dependents, Victims, UnblockToReady,
         ExpiredNodes, RecRead, RecExpired, RecTask, RecCheck, RecFail
    <3> QED BY <1>3, <3>1
  <2> QED BY <1>5, <2>1, <2>2, <2>3 DEF Continue
<1>6. ASSUME NEW p \in Threads, Schedule(p) \/ RecSchedule(p)
      PROVE  \E plan \in PlansNow : schedule_pending(plan)
  BY <1>6 DEF Schedule, RecSchedule
<1>7. CASE ScannerScan \/ AutoScan \/ UNCHANGED vars
  BY <1>3, <1>7 DEF ScannerScan, AutoScan, vars
<1>8. CASE Environment
  <2>1. ASSUME NEW k \in LeaseIds, Lapse(k)
        PROVE  SameOwners
    <3>1. lease' = [lease EXCEPT ![k].live = FALSE]
      BY <2>1 DEF Lapse
    <3>2. \A x \in Lease : ~ [x EXCEPT !.live = FALSE].live
      BY DEF Lease
    <3>3. \A l \in LeaseIds : lease'[l] = IF l = k THEN [lease[l] EXCEPT !.live = FALSE] ELSE lease[l]
      BY <1>0, <3>1
    <3> QED BY <1>0, <3>2, <3>3 DEF SameOwners
  <2> QED BY <1>3, <1>8, <2>1 DEF Environment, SetNodeStatus, Restart
<1> QED BY <1>4, <1>5, <1>6, <1>7, <1>8 DEF Next

(* The rows a pass writes: each task it places gets a row that was free,   *)
(* naming it and the node it was handed to; no other row changes.          *)
LEMMA PassLeases ==
  ASSUME TypeInv, NEW plan \in PlansNow, schedule_pending(plan)
  PROVE  \E seat \in [Placed(plan) -> FreeRows] :
            /\ \A t \in Placed(plan) :
                  lease'[seat[t]] = [task |-> t, node |-> plan[t], st |-> "active", live |-> TRUE]
            /\ \A l \in LeaseIds : lease'[l] = lease[l] \/ \E t \in Placed(plan) : seat[t] = l
<1> DEFINE placed == Placed(plan)
           owner == [t \in placed |-> plan[t]]
           seat == CHOOSE f \in Seats(placed) : TRUE
<1>1. seat \in Seats(placed) /\ create_lease(seat, owner)
  BY DEF schedule_pending
<1>2. seat \in [placed -> FreeRows] /\ \A t, u \in placed : seat[t] = seat[u] => t = u
  BY <1>1 DEF Seats
<1> HIDE DEF seat, placed
<1>3. ASSUME NEW t \in placed
      PROVE  lease'[seat[t]] = [task |-> t, node |-> plan[t], st |-> "active", live |-> TRUE]
  <2> DEFINE u == CHOOSE u \in DOMAIN seat : seat[u] = seat[t]
  <2>1. u = t
    BY <1>2
  <2>2. seat[t] \in LeaseIds /\ \E v \in DOMAIN seat : seat[v] = seat[t]
    BY <1>2 DEF FreeRows
  <2>3. lease'[seat[t]] = [task |-> u, node |-> owner[u], st |-> "active", live |-> TRUE]
    BY <1>1, <2>2 DEF create_lease
  <2> HIDE DEF u
  <2> QED BY <2>1, <2>3
<1>4. ASSUME NEW l \in LeaseIds, ~ \E t \in placed : seat[t] = l
      PROVE  lease'[l] = lease[l]
  BY <1>1, <1>2, <1>4 DEF create_lease
<1> QED BY <1>2, <1>3, <1>4 DEF placed

(* While leases are not renewed, only a scheduling pass makes one live. *)
LEMMA LeasesByPass ==
  ASSUME TypeInv, "extend" \notin Calls, [Next]_vars
  PROVE  SameOwners \/ \E plan \in PlansNow : schedule_pending(plan)
<1>1. \A p \in Threads : ~ExtendCreate(p)
  BY DEF ExtendCreate, At, TypeInv, InOrder, Orderly
<1> QED BY <1>1, OwnersByPass

(* A pass gives each task it places one new lease, and only tasks without  *)
(* a live one.                                                             *)
LEMMA PassKeepsSingle ==
  ASSUME TypeInv, SingleLiveLease, NEW plan \in PlansNow, schedule_pending(plan)
  PROVE  SingleLiveLease'
<1>1. PICK seat \in [Placed(plan) -> FreeRows] :
        /\ \A t \in Placed(plan) :
              lease'[seat[t]] = [task |-> t, node |-> plan[t], st |-> "active", live |-> TRUE]
        /\ \A l \in LeaseIds : lease'[l] = lease[l] \/ \E t \in Placed(plan) : seat[t] = l
  BY PassLeases
<1>2. ASSUME NEW t \in Placed(plan)
      PROVE  t \notin LeasedTasks /\ lease'[seat[t]].task = t
  <2>1. t \notin LeasedTasks
    BY PassStarts DEF Schedulable
  <2>2. lease'[seat[t]] = [task |-> t, node |-> plan[t], st |-> "active", live |-> TRUE]
    BY <1>1
  <2> QED BY <2>1, <2>2
<1> SUFFICES ASSUME NEW l \in LeaseIds, NEW m \in LeaseIds,
                    lease'[l].st = "active" /\ lease'[l].live,
                    lease'[m].st = "active" /\ lease'[m].live,
                    lease'[l].task = lease'[m].task
             PROVE  l = m
  BY DEF SingleLiveLease, LiveLeases, ActiveLeases
<1>3. ASSUME NEW k \in LeaseIds, lease'[k] = lease[k], lease'[k].st = "active" /\ lease'[k].live
      PROVE  k \in LiveLeases /\ lease'[k].task \in LeasedTasks
  BY <1>3 DEF LiveLeases, ActiveLeases, LeasedTasks
<1>4. CASE lease'[l] = lease[l] /\ lease'[m] = lease[m]
  BY <1>3, <1>4 DEF SingleLiveLease
<1> QED BY <1>1, <1>2, <1>3, <1>4

(* A lease is exclusive ownership for every interleaving of handlers,      *)
(* passes, recoveries, lapses and restarts: a task never has two live      *)
(* leases, as long as leases are not renewed.                              *)
THEOREM LeaseSafety ==
  ASSUME "extend" \notin Calls
  PROVE  Spec => []SingleLiveLease
<1> DEFINE Inv == TypeInv /\ SingleLiveLease
<1>1. Init => Inv
  <2>1. Init => SingleLiveLease
    BY DEF Init, SingleLiveLease, LiveLeases, ActiveLeases, NoRow
  <2> QED BY <2>1, InitTypeInv
<1>2. Inv /\ [Next]_vars => Inv'
  <2> SUFFICES ASSUME Inv, [Next]_vars PROVE Inv'
    OBVIOUS
  <2>1. TypeInv'
    BY NextType
  <2>2. CASE SameOwners
    BY <2>1, <2>2 DEF SameOwners, SingleLiveLease, LiveLeases, ActiveLeases
  <2>3. CASE \E plan \in PlansNow : schedule_pending(plan)
    BY <2>1, <2>3, PassKeepsSingle
  <2> QED BY <2>2, <2>3, LeasesByPass
<1>3. Inv => SingleLiveLease
  OBVIOUS
<1> QED BY <1>1, <1>2, <1>3, PTL DEF Spec
=============================================================================
