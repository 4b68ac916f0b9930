------------------------- MODULE TaskBoardHandlers -------------------------
(***************************************************************************)
(* What the handlers of the task board promise, request by request: a      *)
(* blocked task can be answered, a delivered one stays delivered, a closed *)
(* one stays closed, a task starts after its dependencies, it never has    *)
(* owners on two nodes, and none is stranded without a lease that recovery *)
(* could reclaim.  Each theorem names the endpoints under which it holds.  *)
(*                                                                         *)
(* All rest on Routed and Moves, the control flow: which places a thread   *)
(* reaches, through which endpoint, and that a handler which has a task in *)
(* hand goes on with the same task and the same status to write.  On top   *)
(* of it each property needs what a handler relies on between its          *)
(* transactions:                                                           *)
(*   Asked       the ballot of a task about to be blocked is open;         *)
(*   Undelivered the task in hand is not completed;                        *)
(*   OpenInHand  it is not closed, or its cancel is acknowledged;          *)
(*   Gated       what is ready or has run has its dependencies completed;  *)
(*   Renewed     the lease being renewed has the owner of the live ones;   *)
(*   NoneLost    a running task without a lease is in some thread's hand,  *)
(*               or on the list of a recovery.                             *)
(***************************************************************************)
EXTENDS TaskBoardSafety

USE BoardAssumption, PlannerAssumption

----------------------------------------------------------------------------
(* The control flow of the handlers *)

(* The places at which a handler has a task in hand, on its way to write   *)
(* that task's status or to re-queue it; and the places of a recovery.     *)
Busy == {"lookup", "revoke", "requeue", "veto_lookup", "veto_requeue", "ballot", "write"}
Recovering == {"expired", "nodes", "rec_mark", "rec_expired", "rec_revoke",
               "rec_task", "rec_schedule", "rec_check", "rec_fail"}

(* Which places a thread reaches, through which endpoint, and what its     *)
(* locals say there: only the event loop runs handlers, a handler with a   *)
(* task in hand knows where to go after the lease step, and a status to    *)
(* write is around only while a task is in hand; block_task's goes through *)
(* the ballot.                                                             *)
Route(p, r) ==
    /\ r.pc \in Busy \cup {"unblock_to_ready", "promote_new"} => r.task \in Tasks
    /\ r.pc \in {"rec_schedule", "rec_check", "rec_fail"} => r.task \in Tasks
    /\ r.pc \in {"lookup", "revoke"} => r.then \in {"write", "ballot", "veto_lookup", "veto_requeue"}
    /\ r.pc \notin Busy => r.to = "absent"
    /\ r.to = "blocked" => \/ r.pc \in {"ballot", "write"}
                           \/ r.pc \in {"lookup", "revoke"} /\ r.then = "ballot"
    /\ r.pc = "trigger" => r.then \in {"idle", "schedule"}
    /\ r.pc = "mark" => r.then \in {"idle", "expired"}
    /\ p # "loop" => r.pc \in {"idle", "mark"} \cup Recovering
    /\ p = "scanner" => r.pc \in {"idle", "mark"} /\ r.then = "idle"
    /\ p = "loop" /\ r.pc \in {"mark"} \cup Recovering => {"recover", "detect_expired"} \cap Calls # {}
    /\ r.pc \in {"veto_lookup", "veto_requeue"} => "veto" \in Calls
    /\ r.pc \in {"lookup", "revoke"} /\ r.then \in {"veto_lookup", "veto_requeue"} => "veto" \in Calls
    /\ r.pc = "requeue" => "fail_requeue" \in Calls /\ r.then = "write"
    /\ r.pc \in {"extend_create", "extend_revoke"} => "extend" \in Calls

Routed == \A p \in Threads : Route(p, th[p])

(* What was true of a task when a handler took it in hand. *)
Opens(r) ==
    /\ \/ status[r.task] \notin TERMINAL_TASK_STATUSES
       \/ status[r.task] = "cancel_requested" /\ r.to = "cancelled"
       \/ "release" \in Calls
    /\ r.to = "ready" => DepsMet(r.task) \/ "release" \in Calls
    /\ r.to = "running" => status[r.task] = "ready"
    /\ ~(r.pc = "write" /\ r.to = "blocked")

(* How a handler goes on with the task it has in hand. *)
GoesOn(r, x) ==
    /\ x.task = r.task
    /\ \/ x.to = r.to
       \/ r.to = "cancel" /\ x.to \in {"cancelled", "cancel_requested"}
    /\ x.pc = "write" /\ x.to = "blocked" => r.pc = "ballot"

(* A lease as extend has just read it, with no lapsed lease around. *)
Renews(l) == lease' = lease /\ l \in LiveLeases

(* One thread moves. *)
Moves(p) ==
    /\ Route(p, th'[p])
    /\ \A q \in Threads \ {p} : th'[q] = th[q]
    /\ th'[p].pc \in Busy => /\ UNCHANGED <<status, deps>>
                             /\ IF th[p].pc \in Busy THEN GoesOn(th[p], th'[p]) ELSE Opens(th'[p])
    /\ th'[p].pc = "revoke" => lease' = lease /\ th'[p].lid \in LeasesOf(th'[p].task)
    /\ th'[p].pc = "extend_create" => Renews(th'[p].lid)

(* A record with no task in hand and nothing to write. *)
LEMMA PlainRoute ==
  ASSUME NEW p, NEW r, r.to = "absent",
         r.pc \in {"idle", "nodes", "dependents", "victims", "schedule", "rec_task"},
         p # "loop" => r.pc \in {"idle", "nodes", "rec_task"},
         r.pc \in {"nodes", "rec_task"} => p # "loop" \/ {"recover", "detect_expired"} \cap Calls # {},
         p = "scanner" => r.pc = "idle" /\ r.then = "idle"
  PROVE  Route(p, r) /\ r.pc \notin Busy \cup {"extend_create"}
BY DEF Route, Busy, Recovering

(* Every request that comes in. *)
LEMMA RequestMoves ==
  ASSUME TypeInv, Request
  PROVE  Moves("loop") /\ th["loop"].pc = "idle"
<1>0. th \in [Threads -> Thread] /\ th["loop"] \in Thread /\ "loop" \in Threads
  BY DEF TypeInv, TypeOK
<1> DEFINE Go == Moves("loop") /\ th["loop"].pc = "idle"
<1> USE <1>0 DEF Serve, Goto
<1>1. ASSUME NEW t \in Tasks, NEW D \in DepChoices, Submit(t, D)
      PROVE  Go
  BY <1>1 DEF Submit, IdleThread, Moves, Route, Busy, Recovering
<1>2. ASSUME NEW t \in Tasks, NEW D \in DepChoices, SetDependencies(t, D)
      PROVE  Go
  BY <1>2 DEF SetDependencies, IdleThread, Moves, Route, Busy, Recovering
<1>3. ASSUME NEW t \in Tasks, Answer(t)
      PROVE  Go
  BY <1>3 DEF Answer, IdleThread, Moves, Route, Busy, Recovering
<1>4. ASSUME NEW t \in Tasks, UnblockTask(t)
      PROVE  Go
  BY <1>4 DEF UnblockTask, IdleThread, Moves, Route, Busy, Recovering
<1>5. ASSUME NEW t \in Tasks, Complete(t)
      PROVE  Go
  <2> DEFINE x == [IdleThread EXCEPT !.pc = "lookup", !.task = t, !.then = "write",
             !.to   = IF status[t] = "cancel_requested" THEN "cancelled" ELSE "completed",
             !.tail = IF status[t] = "cancel_requested" THEN "idle" ELSE "downstream"]
  <2>1. /\ x.pc = "lookup" /\ x.task = t /\ x.then = "write"
        /\ x.to = IF status[t] = "cancel_requested" THEN "cancelled" ELSE "completed"
    BY DEF IdleThread
  <2>2. th'["loop"] = x /\ \A q \in Threads \ {"loop"} : th'[q] = th[q]
    BY <1>5 DEF Complete
  <2>3. UNCHANGED <<status, deps>> /\ status[t] \notin Closed /\ th["loop"].pc = "idle"
    BY <1>5 DEF Complete, taskRows
  <2> HIDE DEF x
  <2>4. Route("loop", x)
    BY <2>1 DEF Route, Busy, Recovering
  <2>5. Opens(x)
    BY <2>1, <2>3 DEF Opens, Closed, TERMINAL_TASK_STATUSES
  <2> QED BY <2>1, <2>2, <2>3, <2>4, <2>5 DEF Moves, Busy
<1>6. ASSUME NEW t \in Tasks, CompleteVetoed(t)
      PROVE  Go
  <2>1. /\ th'["loop"].pc = "lookup" /\ th'["loop"].task = t /\ th'["loop"].then = "veto_lookup"
        /\ th'["loop"].to = "failed" /\ \A q \in Threads \ {"loop"} : th'[q] = th[q]
    BY <1>6 DEF CompleteVetoed, IdleThread
  <2>2. /\ UNCHANGED <<status, deps>> /\ status[t] \notin Closed \cup {"cancel_requested"}
        /\ th["loop"].pc = "idle" /\ "veto" \in Calls
    BY <1>6 DEF CompleteVetoed, taskRows
  <2>3. Route("loop", th'["loop"])
    BY <2>1, <2>2 DEF Route, Busy, Recovering
  <2>4. Opens(th'["loop"])
    BY <2>1, <2>2 DEF Opens, Closed, TERMINAL_TASK_STATUSES
  <2> QED BY <2>1, <2>2, <2>3, <2>4 DEF Moves, Busy
<1>7. ASSUME NEW t \in Tasks, NEW q \in BOOLEAN, Fail(t, q)
      PROVE  Go
  <2>1. CASE status[t] = "cancel_requested"
    <3>1. /\ th'["loop"].pc = "write" /\ th'["loop"].task = t
          /\ th'["loop"].to = "cancelled" /\ \A p \in Threads \ {"loop"} : th'[p] = th[p]
      BY <1>7, <2>1 DEF Fail, IdleThread
    <3>2. UNCHANGED <<status, deps>> /\ th["loop"].pc = "idle"
      BY <1>7 DEF Fail, taskRows
    <3>3. Route("loop", th'["loop"])
      BY <3>1 DEF Route, Busy, Recovering
    <3>4. Opens(th'["loop"])
      BY <2>1, <3>1 DEF Opens
    <3> QED BY <3>1, <3>2, <3>3, <3>4 DEF Moves, Busy
  <2>2. CASE status[t] # "cancel_requested"
    <3>1. /\ th'["loop"].pc = IF q THEN "requeue" ELSE "lookup"
          /\ th'["loop"].task = t /\ th'["loop"].then = "write"
          /\ th'["loop"].to = "failed" /\ \A p \in Threads \ {"loop"} : th'[p] = th[p]
      BY <1>7, <2>2 DEF Fail, IdleThread
    <3>2. /\ UNCHANGED <<status, deps>> /\ th["loop"].pc = "idle"
          /\ status[t] \notin Closed /\ (q => "fail_requeue" \in Calls)
      BY <1>7 DEF Fail, taskRows
    <3>3. Route("loop", th'["loop"])
      BY <3>1, <3>2 DEF Route, Busy, Recovering
    <3>4. Opens(th'["loop"])
      BY <2>2, <3>1, <3>2 DEF Opens, Closed, TERMINAL_TASK_STATUSES
    <3> QED BY <3>1, <3>2, <3>3, <3>4 DEF Moves, Busy
  <2> QED BY <2>1, <2>2
<1>8. ASSUME NEW t \in Tasks, Cancel(t)
      PROVE  Go
  <2>1. /\ th'["loop"].pc = "lookup" /\ th'["loop"].task = t /\ th'["loop"].then = "write"
        /\ th'["loop"].to = "cancel" /\ \A q \in Threads \ {"loop"} : th'[q] = th[q]
    BY <1>8 DEF Cancel, IdleThread
  <2>2. UNCHANGED <<status, deps>> /\ status[t] \notin TERMINAL_TASK_STATUSES /\ th["loop"].pc = "idle"
    BY <1>8 DEF Cancel, taskRows
  <2>3. Route("loop", th'["loop"])
    BY <2>1 DEF Route, Busy, Recovering
  <2>4. Opens(th'["loop"])
    BY <2>1, <2>2 DEF Opens
  <2> QED BY <2>1, <2>2, <2>3, <2>4 DEF Moves, Busy
<1>9. ASSUME NEW t \in Tasks, Block(t)
      PROVE  Go
  <2>1. /\ th'["loop"].pc = "lookup" /\ th'["loop"].task = t /\ th'["loop"].then = "ballot"
        /\ th'["loop"].to = "blocked" /\ \A q \in Threads \ {"loop"} : th'[q] = th[q]
    BY <1>9 DEF Block, IdleThread
  <2>2. UNCHANGED <<status, deps>> /\ status[t] \notin TERMINAL_TASK_STATUSES /\ th["loop"].pc = "idle"
    BY <1>9 DEF Block, taskRows
  <2>3. Route("loop", th'["loop"])
    BY <2>1 DEF Route, Busy, Recovering
  <2>4. Opens(th'["loop"])
    BY <2>1, <2>2 DEF Opens
  <2> QED BY <2>1, <2>2, <2>3, <2>4 DEF Moves, Busy
<1>10. ASSUME NEW t \in Tasks, Advance(t)
      PROVE  Go
  <2>1. /\ th'["loop"].pc = "write" /\ th'["loop"].task = t
        /\ th'["loop"].to = "ready" /\ \A q \in Threads \ {"loop"} : th'[q] = th[q]
    BY <1>10 DEF Advance, IdleThread
  <2>2. /\ UNCHANGED <<status, deps>> /\ status[t] \notin TERMINAL_TASK_STATUSES
        /\ DepsMet(t) /\ th["loop"].pc = "idle"
    BY <1>10 DEF Advance, taskRows
  <2>3. Route("loop", th'["loop"])
    BY <2>1 DEF Route, Busy, Recovering
  <2>4. Opens(th'["loop"])
    BY <2>1, <2>2 DEF Opens
  <2> QED BY <2>1, <2>2, <2>3, <2>4 DEF Moves, Busy
<1>11. ASSUME NEW t \in Tasks, Claim(t)
      PROVE  Go
  <2>1. /\ th'["loop"].pc = "write" /\ th'["loop"].task = t
        /\ th'["loop"].to = "running" /\ \A q \in Threads \ {"loop"} : th'[q] = th[q]
    BY <1>11 DEF Claim, IdleThread
  <2>2. UNCHANGED <<status, deps>> /\ status[t] = "ready" /\ th["loop"].pc = "idle"
    BY <1>11 DEF Claim, taskRows
  <2>3. Route("loop", th'["loop"])
    BY <2>1 DEF Route, Busy, Recovering
  <2>4. Opens(th'["loop"])
    BY <2>1, <2>2 DEF Opens, TERMINAL_TASK_STATUSES
  <2> QED BY <2>1, <2>2, <2>3, <2>4 DEF Moves, Busy
<1>12. ASSUME NEW t \in Tasks, Release(t)
      PROVE  Go
  <2>1. /\ th'["loop"].pc = "lookup" /\ th'["loop"].task = t /\ th'["loop"].then = "write"
        /\ th'["loop"].to = "ready" /\ \A q \in Threads \ {"loop"} : th'[q] = th[q]
    BY <1>12 DEF Release, IdleThread
  <2>2. UNCHANGED <<status, deps>> /\ "release" \in Calls /\ th["loop"].pc = "idle"
    BY <1>12 DEF Release, taskRows
  <2>3. Route("loop", th'["loop"])
    BY <2>1 DEF Route, Busy, Recovering
  <2>4. Opens(th'["loop"])
    BY <2>1, <2>2 DEF Opens
  <2> QED BY <2>1, <2>2, <2>3, <2>4 DEF Moves, Busy
<1>13. ASSUME NEW l \in LeaseIds, Extend(l)
      PROVE  Go
  <2>1. /\ th["loop"].pc = "idle" /\ "extend" \in Calls /\ lease' = lease
        /\ lease[l].st = "active"
    BY <1>13 DEF Extend
  <2>2. CASE LapsedLeases # {}
    BY <1>13, <2>1, <2>2 DEF Extend, IdleThread, Moves, Route, Busy, Recovering
  <2>3. CASE LapsedLeases = {}
    <3>1. /\ th'["loop"].pc = "extend_create" /\ th'["loop"].lid = l /\ th'["loop"].to = "absent"
          /\ \A q \in Threads \ {"loop"} : th'[q] = th[q]
      BY <1>13, <2>3 DEF Extend, IdleThread
    <3>2. l \in LiveLeases
      BY <2>1, <2>3 DEF LapsedLeases, ActiveLeases
    <3> QED BY <2>1, <3>1, <3>2 DEF Moves, Renews, Route, Busy, Recovering
  <2> QED BY <2>2, <2>3
<1>14. ASSUME NEW k \in Lanes, NEW n \in Nodes, ReportLane(k, n)
      PROVE  Go
  BY <1>14 DEF ReportLane, IdleThread, Moves, Route, Busy, Recovering
<1>15. ASSUME NEW n \in Nodes, RecoveryTrigger(n)
      PROVE  Go
  BY <1>15 DEF RecoveryTrigger, AtNodes, IdleThread, Moves, Route, Busy, Recovering
<1>16. ASSUME ScheduleTrigger
      PROVE  Go
  BY <1>16 DEF ScheduleTrigger, IdleThread, Moves, Route, Busy, Recovering
<1>17. ASSUME DetectExpired
      PROVE  Go
  BY <1>17 DEF DetectExpired, Scan, IdleThread, Moves, Route, Busy, Recovering
<1> HIDE DEF Go
<1> QED BY <1>1, <1>2, <1>3, <1>4, <1>5, <1>6, <1>7, <1>8, <1>9,
            <1>10, <1>11, <1>12, <1>13, <1>14, <1>15, <1>16, <1>17 DEF Request, Go

(* The steps of a handler with a task in hand, and of the walks that take  *)
(* the next one in hand.                                                   *)
LEMMA HandlerMoves ==
  ASSUME TypeInv, Routed, NEW p \in Threads,
         \/ Lookup(p) \/ Revoke(p) \/ Requeue(p) \/ RecordBallot(p) \/ Write(p)
         \/ Dependents(p) \/ Victims(p)
  PROVE  /\ Moves(p)
         /\ \/ th[p].pc \notin Busy \/ th'[p].pc \in Busy
            \/ Write(p)
            \/ Requeue(p) /\ requeueable(th[p].task)
<1>0. th \in [Threads -> Thread] /\ th[p] \in Thread /\ Route(p, th[p]) /\ Orderly(th[p])
  BY DEF TypeInv, TypeOK, Routed, InOrder
<1> USE <1>0 DEF Goto
<1>1. CASE Lookup(p)
  <2> DEFINE r == IF th[p].pc = "lookup" THEN th[p] ELSE [th[p] EXCEPT !.then = "veto_requeue"]
             to(found) == IF r.to # "cancel" THEN r.to
                          ELSE IF found THEN "cancel_requested" ELSE "cancelled"
  <2>0. th[p].pc \in {"lookup", "veto_lookup"} /\ UNCHANGED <<status, deps>>
    BY <1>1 DEF Lookup, taskRows
  <2>1. /\ r \in Thread /\ r.task = th[p].task /\ r.to = th[p].to
        /\ r.then = IF th[p].pc = "lookup" THEN th[p].then ELSE "veto_requeue"
    BY DEF Thread, Thens
  <2>2. \/ Goto(p, [r EXCEPT !.pc = r.then, !.to = to(FALSE)])
        \/ \E l \in LeasesOf(r.task) : Goto(p, [r EXCEPT !.pc = "revoke", !.lid = l, !.to = to(TRUE)])
    BY <1>1 DEF Lookup
  <2>3. ASSUME NEW b \in BOOLEAN
        PROVE  \/ to(b) = th[p].to
               \/ th[p].to = "cancel" /\ to(b) \in {"cancelled", "cancel_requested"}
    BY <2>1
  <2> HIDE DEF r, to
  <2> DEFINE x == [r EXCEPT !.pc = r.then, !.to = to(FALSE)]
             y(l) == [r EXCEPT !.pc = "revoke", !.lid = l, !.to = to(TRUE)]
  <2>4. x.to = to(FALSE) /\ x.task = th[p].task /\ x.pc = r.then /\ x.then = r.then
    BY <2>1 DEF Thread
  <2> DEFINE Kept == /\ \/ th'[p].to = th[p].to
                        \/ th[p].to = "cancel" /\ th'[p].to \in {"cancelled", "cancel_requested"}
                     /\ th'[p].task = th[p].task /\ th'[p].then = r.then
                     /\ \/ th'[p].pc = r.then
                        \/ th'[p].pc = "revoke" /\ th'[p].lid \in LeasesOf(r.task)
                     /\ \A q \in Threads \ {p} : th'[q] = th[q]
  <2>5. Kept
    <3>1. Goto(p, x) \/ \E l \in LeasesOf(r.task) : Goto(p, y(l))
      BY <2>2
    <3>2. CASE Goto(p, x)
      <4>1. th'[p] = x /\ \A q \in Threads \ {p} : th'[q] = th[q]
        BY <3>2
      <4> HIDE DEF x
      <4> QED BY <2>3, <2>4, <4>1
    <3>3. ASSUME NEW l \in LeasesOf(r.task), Goto(p, y(l))
          PROVE  Kept
      <4>1. th'[p] = y(l) /\ \A q \in Threads \ {p} : th'[q] = th[q]
        BY <3>3
      <4>2. /\ y(l).to = to(TRUE) /\ y(l).task = th[p].task
            /\ y(l).pc = "revoke" /\ y(l).then = r.then /\ y(l).lid = l
        BY <2>1 DEF Thread
      <4> HIDE DEF y
      <4> QED BY <2>3, <4>1, <4>2
    <3> HIDE DEF Kept, x, y
    <3> QED BY <3>1, <3>2, <3>3
  <2>6. Route(p, th'[p])
    BY <2>0, <2>1, <2>5 DEF Route, Busy, Recovering
  <2>7. GoesOn(th[p], th'[p])
    BY <2>0, <2>1, <2>5 DEF GoesOn, Route, Busy
  <2>8. th[p].pc \in Busy /\ th'[p].pc \in Busy /\ th'[p].pc # "extend_create"
    BY <2>0, <2>1, <2>5 DEF Route, Busy
  <2>9. th'[p].pc = "revoke" => lease' = lease /\ th'[p].lid \in LeasesOf(th'[p].task)
    <3>1. r.then # "revoke"
      BY <2>0, <2>1 DEF Route
    <3>2. lease' = lease
      BY <1>1 DEF Lookup
    <3> QED BY <2>1, <2>5, <3>1, <3>2
  <2> QED BY <2>0, <2>5, <2>6, <2>7, <2>8, <2>9 DEF Moves
<1>2. CASE Revoke(p)
  <2>0. th[p].pc = "revoke" /\ UNCHANGED <<status, deps>>
    BY <1>2 DEF Revoke, At, taskRows
  <2>1. /\ th'[p].to = th[p].to /\ th'[p].task = th[p].task /\ th'[p].then = th[p].then
        /\ th'[p].pc = th[p].then /\ \A q \in Threads \ {p} : th'[q] = th[q]
    BY <1>2 DEF Revoke, Thread
  <2>2. Route(p, th'[p])
    BY <2>0, <2>1 DEF Route, Busy, Recovering
  <2>3. GoesOn(th[p], th'[p])
    BY <2>0, <2>1 DEF GoesOn, Route, Busy
  <2>4. th[p].pc \in Busy /\ th'[p].pc \in Busy /\ th'[p].pc \notin {"extend_create", "revoke"}
    BY <2>0, <2>1 DEF Route, Busy
  <2> QED BY <2>0, <2>1, <2>2, <2>3, <2>4 DEF Moves
<1>3. CASE Requeue(p)
  <2>0. th[p].pc \in {"requeue", "veto_requeue"}
    BY <1>3 DEF Requeue
  <2>1. CASE requeueable(th[p].task)
    <3>1. th'[p].to = "absent" /\ th'[p].pc = "schedule" /\ \A q \in Threads \ {p} : th'[q] = th[q]
      BY <1>3, <2>1 DEF Requeue, IdleThread
    <3>2. Route(p, th'[p])
      BY <2>0, <3>1 DEF Route, Busy, Recovering
    <3> QED BY <1>3, <2>1, <3>1, <3>2 DEF Moves, Busy
  <2>2. CASE ~requeueable(th[p].task)
    <3>1. /\ th'[p].to = th[p].to /\ th'[p].task = th[p].task /\ th'[p].then = th[p].then
          /\ th'[p].pc = IF th[p].pc = "requeue" THEN "lookup" ELSE "write"
          /\ \A q \in Threads \ {p} : th'[q] = th[q]
      BY <1>3, <2>2 DEF Requeue, Step, Thread
    <3>2. UNCHANGED <<status, deps>>
      BY <1>3, <2>2 DEF Requeue
    <3>3. Route(p, th'[p])
      BY <2>0, <3>1 DEF Route, Busy, Recovering
    <3>4. GoesOn(th[p], th'[p])
      BY <2>0, <3>1 DEF GoesOn, Route, Busy
    <3> QED BY <2>0, <3>1, <3>2, <3>3, <3>4 DEF Moves, Busy
  <2> QED BY <2>1, <2>2
<1>4. CASE RecordBallot(p)
  <2>0. th[p].pc = "ballot" /\ UNCHANGED <<status, deps>>
    BY <1>4 DEF RecordBallot, At, taskRows
  <2>1. /\ th'[p].to = th[p].to /\ th'[p].task = th[p].task /\ th'[p].then = th[p].then
        /\ th'[p].pc = "write" /\ \A q \in Threads \ {p} : th'[q] = th[q]
    BY <1>4 DEF RecordBallot, Step, Thread
  <2>2. Route(p, th'[p])
    BY <2>0, <2>1 DEF Route, Busy, Recovering
  <2>3. GoesOn(th[p], th'[p])
    BY <2>0, <2>1 DEF GoesOn
  <2> QED BY <2>0, <2>1, <2>2, <2>3 DEF Moves, Busy
<1>5. ASSUME NEW S
      PROVE  /\ AtDependents(S).to = "absent" /\ AtDependents(S).pc \in {"schedule", "dependents"}
             /\ AtVictims(S).to = "absent" /\ AtVictims(S).pc \in {"idle", "victims"}
  BY DEF AtDependents, AtVictims, IdleThread
<1>6. CASE Write(p)
  <2>0. p = "loop"
    BY <1>6 DEF Write, At, Route, Recovering
  <2>1. \/ Goto(p, IdleThread) \/ Goto(p, [IdleThread EXCEPT !.pc = "schedule"])
        \/ \E S : Goto(p, AtDependents(S)) \/ Goto(p, AtVictims(S))
    <3>1. th[p].tail \in Tails
      BY DEF Thread
    <3> QED BY <1>6, <3>1 DEF Write, Tails, Done
  <2>2. /\ [IdleThread EXCEPT !.pc = "schedule"].to = "absent"
        /\ [IdleThread EXCEPT !.pc = "schedule"].pc = "schedule"
        /\ IdleThread.to = "absent" /\ IdleThread.pc = "idle"
    BY DEF IdleThread
  <2>3. \E r : /\ Goto(p, r) /\ r.to = "absent"
               /\ r.pc \in {"idle", "schedule", "dependents", "victims"}
    <3>1. ASSUME NEW S, Goto(p, AtDependents(S)) \/ Goto(p, AtVictims(S))
          PROVE  \E r : /\ Goto(p, r) /\ r.to = "absent"
                        /\ r.pc \in {"idle", "schedule", "dependents", "victims"}
      BY <1>5, <3>1, Zenon
    <3> QED BY <2>1, <2>2, <3>1, Zenon
  <2>4. /\ th'[p].to = "absent" /\ th'[p].pc \in {"idle", "schedule", "dependents", "victims"}
        /\ \A q \in Threads \ {p} : th'[q] = th[q]
    BY <2>3
  <2>5. Route(p, th'[p]) /\ th'[p].pc \notin Busy \cup {"extend_create"}
    BY <2>0, <2>4, PlainRoute
  <2> QED BY <1>6, <2>4, <2>5 DEF Moves
<1>7. CASE Dependents(p)
  <2>0. p = "loop" /\ th[p].pc = "dependents" /\ UNCHANGED <<status, deps>>
    BY <1>7 DEF Dependents, At, Route, Recovering, taskRows
  <2>1. PICK d \in th[p].todo :
          Goto(p, IF promotable(d)
                  THEN [th[p] EXCEPT !.pc = "write", !.task = d, !.todo = th[p].todo \ {d},
                                     !.to = "ready", !.tail = "dependents"]
                  ELSE AtDependents(th[p].todo \ {d}))
    BY <1>7 DEF Dependents
  <2>2. d \in Tasks
    BY DEF Thread
  <2>3. CASE promotable(d)
    <3>1. /\ th'[p].to = "ready" /\ th'[p].task = d /\ th'[p].pc = "write"
          /\ \A q \in Threads \ {p} : th'[q] = th[q]
      BY <2>1, <2>3 DEF Thread
    <3>2. Route(p, th'[p])
      BY <2>0, <2>2, <3>1 DEF Route, Busy, Recovering
    <3>3. Opens(th'[p])
      BY <2>3, <3>1 DEF Opens, promotable, TERMINAL_TASK_STATUSES
    <3> QED BY <2>0, <3>1, <3>2, <3>3 DEF Moves, Busy
  <2>4. CASE ~promotable(d)
    <3>1. /\ th'[p] = AtDependents(th[p].todo \ {d})
          /\ \A q \in Threads \ {p} : th'[q] = th[q]
      BY <2>1, <2>4
    <3>2. Route(p, th'[p]) /\ th'[p].pc \notin Busy \cup {"extend_create"}
      BY <1>5, <2>0, <3>1, PlainRoute
    <3> QED BY <2>0, <3>1, <3>2 DEF Moves, Busy
  <2> QED BY <2>3, <2>4
<1>8. CASE Victims(p)
  <2>0. p = "loop" /\ th[p].pc = "victims" /\ UNCHANGED <<status, deps>>
    BY <1>8 DEF Victims, At, Route, Recovering, taskRows
  <2>1. PICK d \in th[p].todo :
          Goto(p, IF status[d] \in TERMINAL_TASK_STATUSES THEN AtVictims(th[p].todo \ {d})
                  ELSE [th[p] EXCEPT !.pc = "lookup", !.task = d, !.then = "write",
                                     !.todo = th[p].todo \ {d}, !.to = "cancel", !.tail = "victims"])
    BY <1>8 DEF Victims
  <2>2. d \in Tasks
    BY DEF Thread
  <2>3. CASE status[d] \notin TERMINAL_TASK_STATUSES
    <3>1. /\ th'[p].to = "cancel" /\ th'[p].task = d /\ th'[p].pc = "lookup" /\ th'[p].then = "write"
          /\ \A q \in Threads \ {p} : th'[q] = th[q]
      BY <2>1, <2>3 DEF Thread
    <3>2. Route(p, th'[p])
      BY <2>0, <2>2, <3>1 DEF Route, Busy, Recovering
    <3>3. Opens(th'[p])
      BY <2>3, <3>1 DEF Opens
    <3> QED BY <2>0, <3>1, <3>2, <3>3 DEF Moves, Busy
  <2>4. CASE status[d] \in TERMINAL_TASK_STATUSES
    <3>1. /\ th'[p] = AtVictims(th[p].todo \ {d})
          /\ \A q \in Threads \ {p} : th'[q] = th[q]
      BY <2>1, <2>4
    <3>2. Route(p, th'[p]) /\ th'[p].pc \notin Busy \cup {"extend_create"}
      BY <1>5, <2>0, <3>1, PlainRoute
    <3> QED BY <2>0, <3>1, <3>2 DEF Moves, Busy
  <2> QED BY <2>3, <2>4
<1> QED BY <1>1, <1>2, <1>3, <1>4, <1>6, <1>7, <1>8

(* The steps that take no task in hand. *)
LEMMA OtherMoves ==
  ASSUME TypeInv, Routed, NEW p \in Threads,
         \/ PromoteNew(p) \/ Trigger(p) \/ Schedule(p) \/ UnblockToReady(p)
         \/ ExtendCreate(p) \/ ExtendRevoke(p) \/ Mark(p) \/ ExpiredNodes(p)
         \/ RecRead(p) \/ RecMark(p) \/ RecExpired(p) \/ RecRevoke(p)
         \/ RecTask(p) \/ RecSchedule(p) \/ RecCheck(p) \/ RecFail(p)
  PROVE  Moves(p) /\ th'[p].pc \notin Busy
<1>0. th \in [Threads -> Thread] /\ th[p] \in Thread /\ Route(p, th[p])
  BY DEF TypeInv, TypeOK, Routed
<1> DEFINE Go == Route(p, th'[p]) /\ th'[p].pc \notin Busy \cup {"extend_create"} /\ \A q \in Threads \ {p} : th'[q] = th[q]
<1> USE <1>0 DEF Goto, At
<1>1. /\ IdleThread.to = "absent" /\ IdleThread.pc = "idle" /\ IdleThread.then = "idle"
      /\ \A S : AtNodes(S).to = "absent" /\ AtNodes(S).pc \in {"idle", "nodes"} /\ AtNodes(S).then = "idle"
      /\ \A S, N : /\ AtOrphans(S, N).to = "absent" /\ AtOrphans(S, N).pc \in {"idle", "nodes", "rec_task"}
                   /\ AtOrphans(S, N).then = "idle"
  BY DEF IdleThread, AtNodes, AtOrphans
<1>2. ASSUME Goto(p, IdleThread)
      PROVE  Go
  <2>1. th'[p] = IdleThread /\ \A q \in Threads \ {p} : th'[q] = th[q]
    BY <1>2
  <2>2. Route(p, IdleThread) /\ IdleThread.pc \notin Busy \cup {"extend_create"}
    BY <1>1, PlainRoute
  <2> QED BY <2>1, <2>2
<1>3. ASSUME th[p].pc \in Recovering,
             \/ \E S : Goto(p, AtNodes(S))
             \/ \E S, N : Goto(p, AtOrphans(S, N))
      PROVE  Go
  <2>1. \E r : /\ Goto(p, r) /\ r.to = "absent" /\ r.pc \in {"idle", "nodes", "rec_task"}
    <3>1. ASSUME NEW S, Goto(p, AtNodes(S))
          PROVE  <2>1
      BY <1>1, <3>1
    <3>2. ASSUME NEW S, NEW N, Goto(p, AtOrphans(S, N))
          PROVE  <2>1
      BY <1>1, <3>2
    <3> QED BY <1>3, <3>1, <3>2
  <2>2. /\ th'[p].to = "absent" /\ th'[p].pc \in {"idle", "nodes", "rec_task"}
        /\ \A q \in Threads \ {p} : th'[q] = th[q]
    BY <2>1
  <2>3. p # "scanner" /\ (p # "loop" \/ {"recover", "detect_expired"} \cap Calls # {})
    BY <1>3 DEF Route, Recovering
  <2>4. Route(p, th'[p]) /\ th'[p].pc \notin Busy \cup {"extend_create"}
    BY <2>2, <2>3, PlainRoute
  <2> QED BY <2>2, <2>4
<1>4. ASSUME th[p].pc \in Recovering, th'[p].to = th[p].to,
             th'[p].pc \in {"rec_mark", "rec_expired", "rec_revoke", "rec_task"},
             \A q \in Threads \ {p} : th'[q] = th[q]
      PROVE  Go
  BY <1>4 DEF Route, Recovering, Busy
<1>5. ASSUME th[p].pc \in {"rec_task", "rec_schedule", "rec_check"}, th'[p].to = th[p].to, th'[p].task \in Tasks,
             th'[p].pc \in {"rec_schedule", "rec_check", "rec_fail"},
             \A q \in Threads \ {p} : th'[q] = th[q]
      PROVE  Go
  BY <1>5 DEF Route, Recovering, Busy
<1>6. CASE PromoteNew(p)
  <2>1. /\ th'[p].to = "absent" /\ th'[p].pc = "trigger" /\ th'[p].then = "idle"
        /\ \A q \in Threads \ {p} : th'[q] = th[q]
    BY <1>6 DEF PromoteNew, IdleThread
  <2>2. p = "loop"
    BY <1>6 DEF PromoteNew, Route, Recovering
  <2>3. Go
    BY <2>1, <2>2 DEF Route, Recovering, Busy
  <2> QED BY <2>3 DEF Moves, Busy
<1>7. CASE Trigger(p)
  <2>1. CASE th[p].then = "idle"
    <3>1. Go
      BY <1>2, <1>7, <2>1 DEF Trigger, Return, Done
    <3> QED BY <3>1 DEF Moves, Busy
  <2>2. CASE th[p].then # "idle"
    <3>1. /\ th'[p].to = th[p].to /\ th'[p].pc = th[p].then
          /\ \A q \in Threads \ {p} : th'[q] = th[q]
      BY <1>7, <2>2 DEF Trigger, Return, Step, Thread
    <3>2. p = "loop" /\ th[p].then = "schedule" /\ th[p].to = "absent"
      BY <1>7, <2>2 DEF Trigger, Route, Recovering, Busy
    <3>3. Go
      BY <3>1, <3>2, PlainRoute
    <3> QED BY <3>3 DEF Moves, Busy
  <2> QED BY <2>1, <2>2
<1>8. CASE Schedule(p) \/ UnblockToReady(p) \/ ExtendRevoke(p)
  <2>1. Go
    BY <1>2, <1>8 DEF Schedule, UnblockToReady, ExtendRevoke, Done
  <2> QED BY <2>1 DEF Moves, Busy
<1>9. CASE ExtendCreate(p)
  <2>1. /\ th'[p].to = th[p].to /\ th'[p].pc = "extend_revoke"
        /\ \A q \in Threads \ {p} : th'[q] = th[q]
    BY <1>9 DEF ExtendCreate, Step, Thread
  <2>2. p = "loop" /\ th[p].to = "absent" /\ "extend" \in Calls
    BY <1>9 DEF ExtendCreate, Route, Recovering, Busy
  <2>3. Go
    BY <2>1, <2>2 DEF Route, Recovering, Busy
  <2> QED BY <2>3 DEF Moves, Busy
<1>10. CASE Mark(p)
  <2>1. CASE th[p].then = "idle"
    <3>1. Go
      BY <1>2, <1>10, <2>1 DEF Mark, Done
    <3> QED BY <3>1 DEF Moves, Busy
  <2>2. CASE th[p].then # "idle"
    <3>1. /\ th'[p].to = th[p].to /\ th'[p].pc = th[p].then
          /\ \A q \in Threads \ {p} : th'[q] = th[q]
      <4>1. Goto(p, [th[p] EXCEPT !.pc = th[p].then, !.rows = {}])
        BY <1>10, <2>2 DEF Mark
      <4> QED BY <4>1 DEF Thread
    <3>2. th[p].pc = "mark" /\ th[p].then = "expired" /\ th[p].to = "absent" /\ p # "scanner"
      BY <1>10, <2>2 DEF Mark, Route, Recovering, Busy
    <3>3. Go
      BY <3>1, <3>2 DEF Route, Recovering, Busy
    <3> QED BY <3>3 DEF Moves, Busy
  <2> QED BY <2>1, <2>2
<1>11. CASE ExpiredNodes(p)
  <2>1. Go
    BY <1>3, <1>11 DEF ExpiredNodes, Recovering
  <2> QED BY <2>1 DEF Moves, Busy
<1>12. CASE RecRead(p) \/ RecMark(p) \/ RecRevoke(p)
  <2>1. /\ th'[p].to = th[p].to /\ th'[p].pc \in {"rec_mark", "rec_expired", "rec_revoke", "rec_task"}
        /\ \A q \in Threads \ {p} : th'[q] = th[q]
    <3>1. CASE RecRead(p)
      <4> DEFINE c == IF LapsedLeases = {} THEN "rec_expired" ELSE "rec_mark"
                 K(n) == {l \in LiveLeases : lease[l].node = n}
                 y(n) == [th[p] EXCEPT !.pc = c, !.nodes = th[p].nodes \ {n}, !.node = n,
                                       !.rows = LapsedLeases, !.keep = K(n)]
      <4>1. PICK n \in th[p].nodes : Goto(p, y(n))
        BY <3>1 DEF RecRead
      <4>2. c \in {"rec_expired", "rec_mark"}
        OBVIOUS
      <4> HIDE DEF c, K
      <4> QED BY <4>1, <4>2 DEF Thread
    <3>2. CASE RecMark(p)
      BY <3>2 DEF RecMark, Thread
    <3>3. CASE RecRevoke(p)
      <4> DEFINE c(l) == IF th[p].keep = {l} THEN "rec_task" ELSE "rec_revoke"
                 y(l) == [th[p] EXCEPT !.pc = c(l), !.keep = th[p].keep \ {l},
                                       !.todo = th[p].todo \cup {lease[l].task}]
      <4>1. PICK l \in th[p].keep : Goto(p, y(l))
        BY <3>3 DEF RecRevoke
      <4>2. c(l) \in {"rec_task", "rec_revoke"}
        OBVIOUS
      <4> HIDE DEF c
      <4> QED BY <4>1, <4>2 DEF Thread
    <3> QED BY <1>12, <3>1, <3>2, <3>3
  <2>2. th[p].pc \in Recovering
    BY <1>12 DEF RecRead, RecMark, RecRevoke, Recovering
  <2>3. Go
    BY <1>4, <2>1, <2>2
  <2> QED BY <2>3 DEF Moves, Busy
<1>13. CASE RecExpired(p)
  <2> DEFINE all == th[p].keep \cup {l \in ExpiredLeases : lease[l].node = th[p].node}
  <2>0. th[p].pc \in Recovering
    BY <1>13 DEF RecExpired, Recovering
  <2>1. CASE all = {}
    <3>1. Goto(p, AtNodes(th[p].nodes))
      BY <1>13, <2>1 DEF RecExpired
    <3>2. Go
      BY <1>3, <2>0, <3>1
    <3> QED BY <3>2 DEF Moves, Busy
  <2>2. CASE all # {}
    <3>1. Goto(p, [th[p] EXCEPT !.pc = "rec_revoke", !.node = NoNode, !.keep = all])
      BY <1>13, <2>2 DEF RecExpired
    <3> HIDE DEF all
    <3>2. th'[p].to = th[p].to /\ th'[p].pc = "rec_revoke" /\ \A q \in Threads \ {p} : th'[q] = th[q]
      BY <3>1 DEF Thread
    <3>3. Go
      BY <1>4, <2>0, <3>2
    <3> QED BY <3>3 DEF Moves, Busy
  <2> QED BY <2>1, <2>2
<1>14. CASE RecTask(p)
  <2>1. PICK t \in th[p].todo :
          \/ Goto(p, [th[p] EXCEPT !.pc = "rec_schedule", !.task = t, !.todo = th[p].todo \ {t}])
          \/ Goto(p, AtOrphans(th[p].todo \ {t}, th[p].nodes))
    BY <1>14 DEF RecTask
  <2>2. th[p].pc = "rec_task" /\ t \in Tasks
    BY <1>14 DEF RecTask, Thread
  <2>3. CASE Goto(p, [th[p] EXCEPT !.pc = "rec_schedule", !.task = t, !.todo = th[p].todo \ {t}])
    <3>1. /\ th'[p].to = th[p].to /\ th'[p].pc = "rec_schedule" /\ th'[p].task = t
          /\ \A q \in Threads \ {p} : th'[q] = th[q]
      BY <2>3 DEF Thread
    <3>2. Go
      BY <1>5, <2>2, <3>1
    <3> QED BY <3>2 DEF Moves, Busy
  <2>4. CASE Goto(p, AtOrphans(th[p].todo \ {t}, th[p].nodes))
    <3>0. th[p].pc \in Recovering
      BY <2>2 DEF Recovering
    <3>1. \E S, N : Goto(p, AtOrphans(S, N))
      BY <2>4, Zenon
    <3>2. Go
      BY <1>3, <3>0, <3>1
    <3> QED BY <3>2 DEF Moves, Busy
  <2> QED BY <2>1, <2>3, <2>4
<1>15. CASE RecSchedule(p) \/ (RecCheck(p) /\ assigned[th[p].task] = NoNode)
  <2>1. /\ th'[p].to = th[p].to /\ th'[p].task = th[p].task
        /\ th'[p].pc \in {"rec_schedule", "rec_check", "rec_fail"}
        /\ \A q \in Threads \ {p} : th'[q] = th[q]
    <3>1. \E c \in {"rec_check", "rec_fail"} : Goto(p, [th[p] EXCEPT !.pc = c])
      BY <1>15 DEF RecSchedule, RecCheck, Step
    <3> QED BY <3>1 DEF Thread
  <2>2. th[p].pc \in {"rec_schedule", "rec_check"} /\ th[p].task \in Tasks
    BY <1>15 DEF RecSchedule, RecCheck, Route
  <2>3. Go
    BY <1>5, <2>1, <2>2
  <2> QED BY <2>3 DEF Moves, Busy
<1>16. CASE RecFail(p) \/ (RecCheck(p) /\ assigned[th[p].task] # NoNode)
  <2>1. Go
    BY <1>3, <1>16 DEF RecFail, RecCheck, NextOrphan, Recovering
  <2> QED BY <2>1 DEF Moves, Busy
<1> HIDE DEF Go
<1> QED BY <1>6, <1>7, <1>8, <1>9, <1>10, <1>11, <1>12, <1>13, <1>14, <1>15, <1>16

(* A step moves one thread, or none, or is a restart. *)
LEMMA NextMoves ==
  ASSUME TypeInv, Routed, [Next]_vars
  PROVE  /\ Routed'
         /\ \/ \E p \in Threads : Moves(p)
            \/ UNCHANGED <<taskRows, th>>
            \/ Restart
<1>0. th \in [Threads -> Thread] /\ "loop" \in Threads
  BY DEF TypeInv, TypeOK
<1>1. ASSUME NEW p \in Threads, Moves(p)
      PROVE  Routed'
  BY <1>1 DEF Moves, Routed
<1>2. CASE Request
  BY <1>0, <1>1, <1>2, RequestMoves
<1>3. ASSUME NEW p \in Threads, Continue(p)
      PROVE  Moves(p)
  BY <1>3, HandlerMoves, OtherMoves DEF Continue
<1>4. CASE ScannerScan \/ AutoScan
  <2>1. CASE ScannerScan
    <3>1. /\ "scanner" \in Threads /\ LapsedLeases # {}
          /\ Goto("scanner", [[IdleThread EXCEPT !.pc = "mark"] EXCEPT !.rows = LapsedLeases])
      BY <2>1 DEF ScannerScan, Scan, At
    <3>2. /\ th'["scanner"].pc = "mark" /\ th'["scanner"].then = "idle" /\ th'["scanner"].to = "absent"
          /\ \A q \in Threads \ {"scanner"} : th'[q] = th[q]
      BY <1>0, <3>1 DEF Goto, IdleThread
    <3>3. Moves("scanner")
      BY <3>2 DEF Moves, Route, Busy, Recovering
    <3> QED BY <1>1, <3>1, <3>3
  <2>2. CASE AutoScan
    <3>1. /\ "auto" \in Threads
          /\ th'["auto"].pc \in {"mark", "expired"} /\ th'["auto"].then = "expired" /\ th'["auto"].to = "absent"
          /\ \A q \in Threads \ {"auto"} : th'[q] = th[q]
      BY <1>0, <2>2 DEF AutoScan, Scan, At, Goto, IdleThread
    <3>2. Moves("auto")
      BY <3>1 DEF Moves, Route, Busy, Recovering
    <3> QED BY <1>1, <3>1, <3>2
  <2> QED BY <1>4, <2>1, <2>2
<1>5. CASE UNCHANGED <<taskRows, th>>
  BY <1>5 DEF Routed
<1>6. CASE Restart
  <2>1. ASSUME NEW p \in Threads
        PROVE  Route(p, th'[p])
    <3>1. CASE p = "loop"
      <4>1. th'[p].pc = "trigger" /\ th'[p].then = "schedule" /\ th'[p].to = "absent"
        BY <1>6, <3>1 DEF Restart, IdleThread
      <4> QED BY <3>1, <4>1 DEF Route, Busy, Recovering
    <3>2. CASE p # "loop"
      <4>1. th'[p].pc = "idle" /\ th'[p].then = "idle" /\ th'[p].to = "absent"
        BY <1>6, <3>2 DEF Restart, IdleThread
      <4> QED BY <3>2, <4>1, PlainRoute
    <3> QED BY <3>1, <3>2
  <2> QED BY <1>6, <2>1 DEF Routed
<1>7. CASE Environment \/ UNCHANGED vars
  <2>1. Restart \/ UNCHANGED <<taskRows, th>>
    BY <1>7 DEF Environment, Lapse, SetNodeStatus, vars
  <2> QED BY <1>5, <1>6, <2>1
<1> QED BY <1>1, <1>2, <1>3, <1>4, <1>7 DEF Next

(* No handler runs initially. *)
LEMMA InitRouted == Init => Routed
<1>1. IdleThread.pc = "idle" /\ IdleThread.then = "idle" /\ IdleThread.to = "absent"
  BY DEF IdleThread
<1>2. \A p : Route(p, IdleThread)
  BY <1>1, PlainRoute
<1> QED BY <1>2 DEF Init, Routed

(* What the event loop has in hand after a step: what it had before, or    *)
(* the same task further on, or a task just taken in hand; in the last two *)
(* cases the step wrote no status.                                         *)
LEMMA InHand ==
  ASSUME TypeInv, Routed, [Next]_vars, th'["loop"].pc \in Busy
  PROVE  \/ th'["loop"] = th["loop"]
         \/ /\ UNCHANGED <<status, deps>>
            /\ IF th["loop"].pc \in Busy THEN GoesOn(th["loop"], th'["loop"])
                                         ELSE Opens(th'["loop"])
<1>1. ASSUME Restart
      PROVE  FALSE
  <2>1. th'["loop"].pc = "trigger"
    BY <1>1 DEF Restart, IdleThread
  <2> QED BY <2>1 DEF Busy
<1>2. ASSUME NEW p \in Threads, Moves(p), p # "loop"
      PROVE  th'["loop"] = th["loop"]
  BY <1>2 DEF Moves
<1>3. ASSUME Moves("loop")
      PROVE  /\ UNCHANGED <<status, deps>>
             /\ IF th["loop"].pc \in Busy THEN GoesOn(th["loop"], th'["loop"])
                                          ELSE Opens(th'["loop"])
  BY <1>3 DEF Moves
<1> QED BY <1>1, <1>2, <1>3, NextMoves

----------------------------------------------------------------------------
(* Every way in which a task's status changes: a handler writes it, or one *)
(* of the guarded writes of the store goes through.                        *)
Rewritten(t) ==
    \/ \E p \in Threads : /\ th[p].pc = "write" /\ th[p].task = t
                          /\ status'[t] = th[p].to /\ th'[p].pc \notin Busy
    \/ status[t] = "absent" /\ status'[t] = "pending"
    \/ promotable(t) /\ status'[t] = "ready"
    \/ status[t] = "blocked" /\ status'[t] \in {"pending", "ready"}
    \/ status[t] = "ready" /\ status'[t] \in {"pending", "running"}
    \/ \E p \in Threads : /\ th[p].pc \in {"requeue", "veto_requeue"} /\ th[p].task = t
                          /\ requeueable(t) /\ status'[t] = "ready"
    \/ \E p \in Threads : th[p].pc = "rec_task" /\ unassignable(t) /\ status'[t] = "ready"
    \/ \E p \in Threads : th[p].pc = "rec_fail" /\ th[p].task = t /\ status'[t] = "failed"

(* Every status change is one of these. *)
LEMMA StatusSteps ==
  ASSUME TypeInv, Routed, [Next]_vars, NEW t \in Tasks, status'[t] # status[t]
  PROVE  Rewritten(t)
<1>0. status \in [Tasks -> Status]
  BY DEF TypeInv, TypeOK
<1> USE <1>0
<1>1. CASE Request
  <2>1. ASSUME NEW u \in Tasks, NEW D \in DepChoices, Submit(u, D) \/ SetDependencies(u, D)
        PROVE  Rewritten(t)
    BY <2>1 DEF Submit, SetDependencies, set_task_status, Rewritten
  <2>2. ASSUME NEW u \in Tasks, UnblockTask(u)
        PROVE  Rewritten(t)
    BY <2>2 DEF UnblockTask, set_task_status, Rewritten
  <2>3. ASSUME NEW u \in Tasks,
               \/ Complete(u) \/ CompleteVetoed(u) \/ Fail(u, TRUE) \/ Fail(u, FALSE)
               \/ Cancel(u) \/ Block(u) \/ Answer(u) \/ Advance(u) \/ Claim(u) \/ Release(u)
        PROVE  FALSE
    BY <2>3 DEF Complete, CompleteVetoed, Fail, Cancel, Block, Answer, Advance, Claim, Release, taskRows
  <2>4. ASSUME \/ \E l \in LeaseIds : Extend(l)
               \/ \E k \in Lanes, n \in Nodes : ReportLane(k, n)
               \/ \E n \in Nodes : RecoveryTrigger(n)
               \/ ScheduleTrigger \/ DetectExpired
        PROVE  FALSE
    BY <2>4 DEF Extend, ReportLane, RecoveryTrigger, ScheduleTrigger, DetectExpired, taskRows
  <2> QED BY <1>1, <2>1, <2>2, <2>3, <2>4 DEF Request
<1>2. ASSUME NEW p \in Threads, Continue(p)
      PROVE  Rewritten(t)
  <2>1. CASE PromoteNew(p) \/ Trigger(p)
    BY <2>1 DEF PromoteNew, Trigger, promotable, DepsMet, Rewritten
  <2>2. CASE Schedule(p) \/ RecSchedule(p)
    <3>1. PICK plan \in PlansNow : schedule_pending(plan)
      BY <2>2 DEF Schedule, RecSchedule
    <3> QED BY <3>1, PassStarts DEF Rewritten
  <2>3. CASE Write(p)
    <3>1. th[p].pc = "write" /\ t = th[p].task /\ status'[t] = th[p].to
      BY <2>3 DEF Write, At, set_task_status
    <3>2. th'[p].pc \notin Busy
      <4>1. CASE th'[p].pc \in Busy
        BY <2>3, <4>1, HandlerMoves DEF Moves
      <4> QED BY <4>1
    <3> QED BY <3>1, <3>2 DEF Rewritten
  <2>4. CASE Requeue(p)
    <3>1. t = th[p].task /\ requeueable(t) /\ status'[t] = "ready" /\ th[p].pc \in {"requeue", "veto_requeue"}
      BY <2>4 DEF Requeue
    <3> QED BY <3>1 DEF Rewritten
  <2>5. CASE UnblockToReady(p)
    BY <2>5 DEF UnblockToReady, Rewritten
  <2>6. CASE RecTask(p)
    BY <2>6 DEF RecTask, At, Rewritten
  <2>7. CASE RecFail(p)
    BY <2>7 DEF RecFail, At, set_task_status, Rewritten
  <2>8. ASSUME \/ Lookup(p) \/ Revoke(p) \/ RecordBallot(p) \/ Dependents(p) \/ Victims(p)
               \/ ExtendCreate(p) \/ ExtendRevoke(p) \/ Mark(p) \/ ExpiredNodes(p)
               \/ RecRead(p) \/ RecMark(p) \/ RecExpired(p) \/ RecRevoke(p) \/ RecCheck(p)
        PROVE  FALSE
    BY <2>8 DEF Lookup, Revoke, RecordBallot, Dependents, Victims, ExtendCreate, ExtendRevoke,
       Mark, ExpiredNodes, RecRead, RecMark, RecExpired, RecRevoke, RecCheck, taskRows
  <2> QED BY <1>2, <2>1, <2>2, <2>3, <2>4, <2>5, <2>6, <2>7, <2>8 DEF Continue
<1>3. ASSUME ScannerScan \/ AutoScan \/ Environment \/ UNCHANGED vars
      PROVE  FALSE
  BY <1>3 DEF ScannerScan, AutoScan, Environment, Lapse, SetNodeStatus, Restart, vars, taskRows
<1> QED BY <1>1, <1>2, <1>3 DEF Next

(* Every way in which a ballot changes, and that the handlers of a ballot  *)
(* do their work before they go on.                                        *)
LEMMA BallotSteps ==
  ASSUME TypeInv, Routed, [Next]_vars
  PROVE  /\ \A t \in Tasks : \/ ballot'[t] = ballot[t]
                             \/ ballot'[t] = "open"
                             \/ /\ ballot'[t] = "answered"
                                /\ th'["loop"].pc = "unblock_to_ready" /\ th'["loop"].task = t
         /\ th["loop"].pc = "ballot" /\ th'["loop"].pc = "write" => ballot'[th["loop"].task] = "open"
         /\ th["loop"].pc = "unblock_to_ready" =>
              th'["loop"] = th["loop"] \/ status'[th["loop"].task] # "blocked" \/ Restart
<1> DEFINE Kept == \A t \in Tasks : ballot'[t] = ballot[t]
           Said == th["loop"].pc = "ballot" /\ th'["loop"].pc = "write" => ballot'[th["loop"].task] = "open"
           Told == th["loop"].pc = "unblock_to_ready" =>
                     th'["loop"] = th["loop"] \/ status'[th["loop"].task] # "blocked" \/ Restart
<1>0. /\ ballot \in [Tasks -> {"none", "open", "answered"}] /\ status \in [Tasks -> Status]
      /\ th \in [Threads -> Thread] /\ "loop" \in Threads
      /\ th["loop"].pc \in {"ballot", "unblock_to_ready"} => th["loop"].task \in Tasks
  BY DEF TypeInv, TypeOK, Routed, Route, Busy
<1>1. CASE Request
  <2>1. th["loop"].pc = "idle"
    BY <1>1, RequestMoves
  <2>2. ASSUME NEW u \in Tasks, Answer(u)
        PROVE  /\ \A t \in Tasks \ {u} : ballot'[t] = ballot[t]
               /\ ballot'[u] = "answered"
               /\ th'["loop"].pc = "unblock_to_ready" /\ th'["loop"].task = u
    BY <1>0, <2>2 DEF Answer, Serve, Goto, IdleThread
  <2>3. ASSUME NEW u \in Tasks,
               \/ \E D \in DepChoices : Submit(u, D) \/ SetDependencies(u, D)
               \/ Complete(u) \/ CompleteVetoed(u) \/ Fail(u, TRUE) \/ Fail(u, FALSE)
               \/ Cancel(u) \/ Block(u) \/ UnblockTask(u) \/ Advance(u) \/ Claim(u) \/ Release(u)
        PROVE  Kept
    BY <2>3 DEF Submit, SetDependencies, UnblockTask, Complete, CompleteVetoed, Fail, Cancel, Block,
       Advance, Claim, Release, taskRows
  <2>4. ASSUME \/ \E l \in LeaseIds : Extend(l)
               \/ \E k \in Lanes, n \in Nodes : ReportLane(k, n)
               \/ \E n \in Nodes : RecoveryTrigger(n)
               \/ ScheduleTrigger \/ DetectExpired
        PROVE  Kept
    BY <2>4 DEF Extend, ReportLane, RecoveryTrigger, ScheduleTrigger, DetectExpired, taskRows
  <2>5. Kept \/ \E u \in Tasks : Answer(u)
    <3> HIDE DEF Kept
    <3> QED BY <1>1, <2>3, <2>4 DEF Request
  <2> QED BY <2>1, <2>2, <2>5
<1>2. ASSUME NEW p \in Threads, Continue(p), p # "loop"
      PROVE  Kept /\ Said /\ Told
  <2>1. th[p].pc \in {"idle", "mark"} \cup Recovering
    BY <1>2 DEF Routed, Route
  <2>2. ~RecordBallot(p)
    BY <2>1 DEF RecordBallot, At, Recovering
  <2>3. th'["loop"] = th["loop"]
    BY <1>0, <1>2, HandlerMoves, OtherMoves DEF Continue, Moves
  <2>4. ballot' = ballot
    BY <1>2, <2>2 DEF Continue, PromoteNew, Trigger, Schedule, Lookup, Revoke, Requeue, Write, Dependents,
       Victims, UnblockToReady, ExtendCreate, ExtendRevoke, Mark, ExpiredNodes, RecRead, RecMark,
       RecExpired, RecRevoke, RecTask, RecSchedule, RecCheck, RecFail, taskRows
  <2> QED BY <2>3, <2>4
<1>3. CASE RecordBallot("loop")
  BY <1>0, <1>3 DEF RecordBallot, At
<1>4. CASE UnblockToReady("loop")
  BY <1>0, <1>4 DEF UnblockToReady, At
<1>5. ASSUME Continue("loop"), ~RecordBallot("loop"), ~UnblockToReady("loop")
      PROVE  Kept /\ Said /\ Told
  <2>1. th["loop"].pc \notin {"ballot", "unblock_to_ready"} /\ ballot' = ballot
    BY <1>5 DEF Continue, PromoteNew, Trigger, Schedule, Lookup, Revoke, Requeue, Write, Dependents,
       Victims, ExtendCreate, ExtendRevoke, Mark, ExpiredNodes, RecRead, RecMark,
       RecExpired, RecRevoke, RecTask, RecSchedule, RecCheck, RecFail, At, taskRows
  <2> QED BY <2>1
<1>6. CASE ScannerScan \/ AutoScan
  BY <1>0, <1>6 DEF ScannerScan, AutoScan, Scan, Goto, At, taskRows
<1>7. CASE Environment \/ UNCHANGED vars
  <2>1. ballot' = ballot /\ (th' = th \/ Restart)
    BY <1>7 DEF Environment, Lapse, SetNodeStatus, Restart, vars, taskRows
  <2>2. ASSUME Restart
        PROVE  th'["loop"].pc = "trigger"
    BY <1>0, <2>2 DEF Restart, IdleThread
  <2> QED BY <2>1, <2>2
<1> QED BY <1>1, <1>2, <1>3, <1>4, <1>5, <1>6, <1>7 DEF Next

----------------------------------------------------------------------------
(* Ballots *)

(* A blocked task has an open question, but for the moment between the two *)
(* transactions of answer_task; and block_task records it before it writes *)
(* the status.                                                             *)
Asked ==
    /\ \A t \in Tasks : status[t] = "blocked" =>
           \/ ballot[t] = "open"
           \/ th["loop"].pc = "unblock_to_ready" /\ th["loop"].task = t
    /\ th["loop"].pc = "write" /\ th["loop"].to = "blocked" => ballot[th["loop"].task] = "open"

(* Without restarts, block_task has recorded the ballot before it writes. *)
LEMMA NextAsked ==
  ASSUME TypeInv, Routed, Asked, [Next]_vars, ~Restart
  PROVE  Asked'
<1>0. /\ ballot \in [Tasks -> {"none", "open", "answered"}] /\ "loop" \in Threads
      /\ th["loop"].pc \in Busy => th["loop"].task \in Tasks
      /\ th'["loop"].pc \in Busy => th'["loop"].task \in Tasks
  BY NextMoves DEF TypeInv, TypeOK, Routed, Route
<1>1. ASSUME NEW t \in Tasks, status'[t] = "blocked"
      PROVE  \/ ballot'[t] = "open"
             \/ th'["loop"].pc = "unblock_to_ready" /\ th'["loop"].task = t
  <2>1. CASE status[t] = "blocked" /\ ballot[t] = "open"
    BY <2>1, BallotSteps
  <2>2. CASE status[t] = "blocked" /\ ballot[t] # "open"
    <3>1. th["loop"].pc = "unblock_to_ready" /\ th["loop"].task = t
      BY <2>2 DEF Asked
    <3>2. th'["loop"] = th["loop"]
      BY <1>1, <3>1, BallotSteps
    <3> QED BY <3>1, <3>2
  <2>3. CASE status[t] # "blocked"
    <3>1. PICK p \in Threads : th[p].pc = "write" /\ th[p].task = t /\ th[p].to = "blocked"
                               /\ th'[p].pc \notin Busy
      BY <1>1, <2>3, StatusSteps DEF Rewritten
    <3>2. p = "loop"
      BY <3>1 DEF Routed, Route, Recovering
    <3>3. ballot[t] = "open"
      BY <3>1, <3>2 DEF Asked
    <3> QED BY <3>3, BallotSteps
  <2> QED BY <2>1, <2>2, <2>3
<1>2. ASSUME th'["loop"].pc = "write", th'["loop"].to = "blocked"
      PROVE  ballot'[th'["loop"].task] = "open"
  <2>0. th'["loop"].pc \in Busy
    BY <1>2 DEF Busy
  <2>1. CASE th'["loop"] = th["loop"]
    <3>1. ballot[th["loop"].task] = "open" /\ th["loop"].pc = "write" /\ th["loop"].task \in Tasks
      BY <1>0, <1>2, <2>0, <2>1 DEF Asked
    <3> QED BY <1>2, <2>1, <3>1, BallotSteps
  <2>2. CASE th'["loop"] # th["loop"]
    <3>1. th["loop"].pc \in Busy /\ GoesOn(th["loop"], th'["loop"])
      BY <1>2, <2>0, <2>2, InHand DEF Opens
    <3>2. th["loop"].pc = "ballot" /\ th'["loop"].task = th["loop"].task
      BY <1>2, <3>1 DEF GoesOn
    <3> QED BY <1>2, <3>2, BallotSteps
  <2> QED BY <2>1, <2>2
<1> QED BY <1>1, <1>2 DEF Asked

(* Ballots for every interleaving: whenever the event loop is between      *)
(* requests, the question of every blocked task is still open, as long as  *)
(* the process is not killed between the two transactions of answer_task.  *)
THEOREM BallotSafety ==
  ASSUME MaxRestarts = 0
  PROVE  Spec => []BlockedAnswerable
<1> DEFINE Inv == TypeInv /\ Routed /\ Asked
<1>1. Init => Inv
  <2>1. Init => Asked
    <3>1. IdleThread.pc = "idle"
      BY DEF IdleThread
    <3>2. "loop" \in Threads
      OBVIOUS
    <3> QED BY <3>1, <3>2 DEF Init, Asked
  <2> QED BY <2>1, InitTypeInv, InitRouted
<1>2. Inv /\ [Next]_vars => Inv'
  <2> SUFFICES ASSUME Inv, [Next]_vars PROVE Inv'
    OBVIOUS
  <2>1. ~Restart
    BY DEF Restart, TypeInv, TypeOK
  <2> QED BY <2>1, NextType, NextMoves, NextAsked
<1>3. Inv => BlockedAnswerable
  BY DEF Asked, BlockedAnswerable
<1> QED BY <1>1, <1>2, <1>3, PTL DEF Spec

----------------------------------------------------------------------------
(* Closed tasks *)

(* A handler never has a completed task in hand. *)
Undelivered == th["loop"].pc \in Busy => status[th["loop"].task] # "completed"

(* Without release_task, what a handler has in hand is not completed, so   *)
(* no write reopens it.                                                    *)
LEMMA NextUndelivered ==
  ASSUME TypeInv, Routed, Undelivered, "release" \notin Calls, [Next]_vars
  PROVE  /\ Undelivered'
         /\ \A t \in Tasks : status[t] = "completed" => status'[t] \in {"completed", "failed"}
<1>0. /\ th["loop"].pc \in Busy => th["loop"].task \in Tasks
      /\ \A p \in Threads : th[p].pc = "write" => p = "loop"
  BY DEF Routed, Route, Recovering
<1>1. ASSUME NEW t \in Tasks, status[t] = "completed", status'[t] # "completed"
      PROVE  status'[t] = "failed"
  <2>1. ~promotable(t) /\ ~requeueable(t) /\ ~unassignable(t)
    BY <1>1 DEF promotable, requeueable, unassignable, TERMINAL_TASK_STATUSES
  <2>2. Rewritten(t)
    BY <1>1, StatusSteps
  <2>3. ASSUME NEW p \in Threads, th[p].pc = "write", th[p].task = t
        PROVE  FALSE
    BY <1>0, <1>1, <2>3 DEF Undelivered, Busy
  <2> QED BY <1>1, <2>1, <2>2, <2>3 DEF Rewritten
<1>2. ASSUME th'["loop"].pc \in Busy
      PROVE  status'[th'["loop"].task] # "completed"
  <2> DEFINE t == th'["loop"].task
  <2>1. CASE th'["loop"] = th["loop"]
    <3>1. t \in Tasks /\ status[t] # "completed"
      BY <1>0, <1>2, <2>1 DEF Undelivered
    <3>2. ASSUME status'[t] = "completed"
          PROVE  FALSE
      <4>1. PICK p \in Threads : th[p].pc = "write" /\ th'[p].pc \notin Busy
        BY <3>1, <3>2, StatusSteps DEF Rewritten
      <4> QED BY <1>0, <1>2, <4>1
    <3> QED BY <3>2
  <2>2. CASE th'["loop"] # th["loop"]
    <3>1. CASE th["loop"].pc \in Busy
      BY <1>2, <2>2, <3>1, InHand DEF GoesOn, Undelivered
    <3>2. CASE th["loop"].pc \notin Busy
      BY <1>2, <2>2, <3>2, InHand DEF Opens, TERMINAL_TASK_STATUSES
    <3> QED BY <3>1, <3>2
  <2> QED BY <2>1, <2>2
<1> QED BY <1>1, <1>2 DEF Undelivered

(* A delivered task is never worked on again: whatever requests, passes,   *)
(* recoveries and restarts interleave, a completed task stays completed,   *)
(* or is written over as failed by a recovery, as long as nobody calls     *)
(* release_task (which looks at no status).                                *)
THEOREM DeliverySafety ==
  ASSUME "release" \notin Calls
  PROVE  Spec => CompletedNotReopened
<1> DEFINE Inv == TypeInv /\ Routed /\ Undelivered
           Stays == \A t \in Tasks : status[t] = "completed" => status'[t] \in {"completed", "failed"}
<1>1. Init => Inv
  <2>1. Init => Undelivered
    BY DEF Init, Undelivered, IdleThread, Busy
  <2> QED BY <2>1, InitTypeInv, InitRouted
<1>2. Inv /\ [Next]_vars => Inv' /\ Stays
  BY NextType, NextMoves, NextUndelivered
<1> QED BY <1>1, <1>2, PTL DEF Spec, CompletedNotReopened

(* No thread recovers, and nothing is released: every status is written by *)
(* the event loop, from what it has read itself.                           *)
LoopAlone == "auto" \notin Threads /\ {"recover", "detect_expired", "release"} \cap Calls = {}

(* Then no thread runs a recovery. *)
LEMMA NoRecovery ==
  ASSUME Routed, LoopAlone, NEW p \in Threads
  PROVE  th[p].pc \notin Recovering
BY DEF Routed, Route, LoopAlone, Recovering

(* A handler has an open task in hand, or acknowledges a cancel. *)
OpenInHand ==
    th["loop"].pc \in Busy =>
        \/ status[th["loop"].task] \notin TERMINAL_TASK_STATUSES
        \/ status[th["loop"].task] = "cancel_requested" /\ th["loop"].to = "cancelled"

(* While only the event loop writes, what a handler checked still holds    *)
(* when it writes.                                                         *)
LEMMA NextOpenInHand ==
  ASSUME TypeInv, Routed, OpenInHand, LoopAlone, [Next]_vars
  PROVE  /\ OpenInHand'
         /\ \A t \in Tasks : status[t] \in TERMINAL_TASK_STATUSES =>
              \/ status'[t] = status[t]
              \/ status[t] = "cancel_requested" /\ status'[t] = "cancelled"
<1>0. /\ th["loop"].pc \in Busy => th["loop"].task \in Tasks
      /\ \A p \in Threads : th[p].pc = "write" => p = "loop"
      /\ \A p \in Threads : th[p].pc \notin {"rec_task", "rec_fail"}
  BY NoRecovery DEF Routed, Route, Recovering
<1>1. ASSUME NEW t \in Tasks, status[t] \in TERMINAL_TASK_STATUSES, status'[t] # status[t]
      PROVE  /\ status[t] = "cancel_requested" /\ status'[t] = "cancelled"
             /\ th["loop"].pc \in Busy /\ th'["loop"].pc \notin Busy
  <2>1. ~promotable(t) /\ ~requeueable(t) /\ status[t] \notin {"absent", "ready", "blocked"}
    BY <1>1 DEF promotable, requeueable, TERMINAL_TASK_STATUSES
  <2>2. PICK p \in Threads : /\ th[p].pc = "write" /\ th[p].task = t
                             /\ status'[t] = th[p].to /\ th'[p].pc \notin Busy
    BY <1>0, <1>1, <2>1, StatusSteps DEF Rewritten
  <2> QED BY <1>0, <1>1, <2>2 DEF OpenInHand, Busy
<1>2. ASSUME th'["loop"].pc \in Busy
      PROVE  \/ status'[th'["loop"].task] \notin TERMINAL_TASK_STATUSES
             \/ status'[th'["loop"].task] = "cancel_requested" /\ th'["loop"].to = "cancelled"
  <2> DEFINE t == th'["loop"].task
  <2>1. CASE th'["loop"] = th["loop"]
    <3>1. t \in Tasks
      BY <1>0, <1>2, <2>1
    <3>2. CASE status'[t] = status[t]
      BY <1>2, <2>1, <3>2 DEF OpenInHand
    <3>3. CASE status'[t] # status[t]
      <4>1. Rewritten(t)
        BY <3>1, <3>3, StatusSteps
      <4>2. status'[t] \in {"pending", "ready", "running"}
        BY <1>0, <1>2, <4>1 DEF Rewritten
      <4> QED BY <4>2 DEF TERMINAL_TASK_STATUSES
    <3> QED BY <3>2, <3>3
  <2>2. CASE th'["loop"] # th["loop"]
    <3>1. CASE th["loop"].pc \in Busy
      BY <1>2, <2>2, <3>1, InHand DEF GoesOn, OpenInHand
    <3>2. CASE th["loop"].pc \notin Busy
      BY <1>2, <2>2, <3>2, InHand DEF Opens, LoopAlone
    <3> QED BY <3>1, <3>2
  <2> QED BY <2>1, <2>2
<1> QED BY <1>1, <1>2 DEF OpenInHand

(* Terminal-state invariant (B1), as far as the code keeps it: while no    *)
(* recovery runs and nothing is released, a closed task keeps its status   *)
(* through every other request, pass, scan and restart, except that a      *)
(* requested cancel is acknowledged.                                       *)
THEOREM TerminalSafety ==
  ASSUME LoopAlone
  PROVE  Spec => TerminalFinal
<1> DEFINE Inv == TypeInv /\ Routed /\ OpenInHand
           Final == \A t \in Tasks : status[t] \in TERMINAL_TASK_STATUSES =>
                      \/ status'[t] = status[t]
                      \/ status[t] = "cancel_requested" /\ status'[t] = "cancelled"
<1>1. Init => Inv
  <2>1. Init => OpenInHand
    BY DEF Init, OpenInHand, IdleThread, Busy
  <2> QED BY <2>1, InitTypeInv, InitRouted
<1>2. Inv /\ [Next]_vars => Inv' /\ Final
  BY NextType, NextMoves, NextOpenInHand
<1> QED BY <1>1, <1>2, PTL DEF Spec, TerminalFinal

----------------------------------------------------------------------------
(* The dependency gate *)

(* Nor is a task re-queued: requeue_task makes it ready whatever it waits  *)
(* for.                                                                    *)
GateKept == LoopAlone /\ {"fail_requeue", "veto"} \cap Calls = {}

Gate(t) == DepsMet(t) \/ ballot[t] # "none"

(* Every ready task has passed the gate, and so has every task a handler   *)
(* is about to make ready or running; what was blocked has been asked      *)
(* about.                                                                  *)
Gated ==
    /\ \A t \in Tasks : status[t] = "ready" => Gate(t)
    /\ \A t \in Tasks : status[t] = "blocked" => ballot[t] # "none"
    /\ th["loop"].pc \in Busy /\ th["loop"].to \in {"ready", "running"} => Gate(th["loop"].task)
    /\ th["loop"].pc = "write" /\ th["loop"].to = "blocked" => ballot[th["loop"].task] # "none"

(* A dependency list changes when the task is submitted or on request, and *)
(* then the task is not ready unless the new list is empty.                *)
LEMMA DepsSteps ==
  ASSUME TypeInv, [Next]_vars, NEW t \in Tasks, deps'[t] # deps[t]
  PROVE  th["loop"].pc = "idle" /\ (status'[t] = "ready" => deps'[t] = {})
<1>0. deps \in [Tasks -> SUBSET Tasks] /\ status \in [Tasks -> Status]
  BY DEF TypeInv, TypeOK
<1>1. CASE Request
  <2>1. ASSUME NEW u \in Tasks, NEW D \in DepChoices, Submit(u, D)
        PROVE  th["loop"].pc = "idle" /\ (status'[t] = "ready" => deps'[t] = {})
    BY <1>0, <2>1 DEF Submit, Serve, set_task_status
  <2>2. ASSUME NEW u \in Tasks, NEW D \in DepChoices, SetDependencies(u, D)
        PROVE  th["loop"].pc = "idle" /\ (status'[t] = "ready" => deps'[t] = {})
    <3>1. th["loop"].pc = "idle" /\ u = t /\ deps'[t] = D
      BY <1>0, <2>2 DEF SetDependencies, Serve
    <3>2. CASE D # {} /\ status[t] = "ready"
      <4>1. status'[t] = "pending"
        BY <1>0, <2>2, <3>1, <3>2 DEF SetDependencies
      <4> QED BY <3>1, <4>1
    <3>3. CASE D # {} /\ status[t] # "ready"
      BY <2>2, <3>1, <3>3 DEF SetDependencies
    <3> QED BY <3>1, <3>2, <3>3
  <2>3. ASSUME NEW u \in Tasks,
               \/ Complete(u) \/ CompleteVetoed(u) \/ Fail(u, TRUE) \/ Fail(u, FALSE)
               \/ Cancel(u) \/ Block(u) \/ Answer(u) \/ UnblockTask(u) \/ Advance(u)
               \/ Claim(u) \/ Release(u)
        PROVE  FALSE
    BY <2>3 DEF Complete, CompleteVetoed, Fail, Cancel, Block, Answer, UnblockTask, Advance, Claim,
       Release, taskRows
  <2>4. ASSUME \/ \E l \in LeaseIds : Extend(l)
               \/ \E k \in Lanes, n \in Nodes : ReportLane(k, n)
               \/ \E n \in Nodes : RecoveryTrigger(n)
               \/ ScheduleTrigger \/ DetectExpired
        PROVE  FALSE
    BY <2>4 DEF Extend, ReportLane, RecoveryTrigger, ScheduleTrigger, DetectExpired, taskRows
  <2> QED BY <1>1, <2>1, <2>2, <2>3, <2>4 DEF Request
<1>2. ASSUME NEW p \in Threads, Continue(p)
      PROVE  FALSE
  BY <1>2 DEF Continue, PromoteNew, Trigger, Schedule, Lookup, Revoke, Requeue, RecordBallot, Write,
     Dependents, Victims, UnblockToReady, ExtendCreate, ExtendRevoke, Mark, ExpiredNodes, RecRead,
     RecMark, RecExpired, RecRevoke, RecTask, RecSchedule, RecCheck, RecFail, taskRows
<1>3. ASSUME ScannerScan \/ AutoScan \/ Environment \/ UNCHANGED vars
      PROVE  FALSE
  BY <1>3 DEF ScannerScan, AutoScan, Environment, Lapse, SetNodeStatus, Restart, vars, taskRows
<1> QED BY <1>1, <1>2, <1>3 DEF Next

(* Every step keeps the gate. *)
LEMMA NextGated ==
  ASSUME TypeInv, Routed, OpenInHand, Gated, GateKept, [Next]_vars
  PROVE  Gated'
<1>0. /\ th["loop"].pc \in Busy => th["loop"].task \in Tasks
      /\ \A p \in Threads : th[p].pc \in Busy => p = "loop"
      /\ \A p \in Threads : th[p].pc \notin {"rec_task", "rec_fail", "requeue", "veto_requeue"}
      /\ LoopAlone /\ deps \in [Tasks -> SUBSET Tasks]
  BY NoRecovery DEF Routed, Route, Recovering, GateKept, TypeInv, TypeOK, Busy
<1>1. ASSUME NEW t \in Tasks, ballot[t] # "none"
      PROVE  ballot'[t] # "none"
  BY <1>1, BallotSteps
<1>2. ASSUME NEW t \in Tasks, Gate(t), deps'[t] = deps[t]
      PROVE  Gate(t)'
  <2>1. CASE ballot[t] # "none"
    BY <1>1, <2>1 DEF Gate
  <2>2. CASE DepsMet(t)
    <3>1. \A d \in deps[t] : status'[d] = "completed"
      BY <1>0, <2>2, NextOpenInHand DEF DepsMet, TERMINAL_TASK_STATUSES
    <3> QED BY <1>2, <3>1 DEF Gate, DepsMet
  <2> QED BY <1>2, <2>1, <2>2 DEF Gate
<1>3. ASSUME NEW t \in Tasks, status'[t] = "ready"
      PROVE  Gate(t)'
  <2>1. CASE deps'[t] # deps[t]
    BY <1>3, <2>1, DepsSteps DEF Gate, DepsMet
  <2>2. CASE deps'[t] = deps[t] /\ status'[t] = status[t]
    BY <1>2, <1>3, <2>2 DEF Gated
  <2>3. CASE deps'[t] = deps[t] /\ status'[t] # status[t]
    <3>0. Rewritten(t)
      BY <2>3, StatusSteps
    <3>1. CASE promotable(t)
      BY <1>2, <2>3, <3>1 DEF promotable, Gate
    <3>2. CASE status[t] = "blocked"
      BY <1>1, <3>2 DEF Gated, Gate
    <3>3. ASSUME NEW p \in Threads, th[p].pc = "write", th[p].task = t, status'[t] = th[p].to
          PROVE  Gate(t)'
      <4>1. p = "loop" /\ th[p].pc \in Busy
        BY <1>0, <3>3 DEF Busy
      <4> QED BY <1>2, <1>3, <2>3, <3>3, <4>1 DEF Gated
    <3> QED BY <1>0, <1>3, <3>0, <3>1, <3>2, <3>3 DEF Rewritten
  <2> QED BY <2>1, <2>2, <2>3
<1>4. ASSUME NEW t \in Tasks, status'[t] = "blocked"
      PROVE  ballot'[t] # "none"
  <2>1. CASE status[t] = "blocked"
    BY <1>1, <2>1 DEF Gated
  <2>2. CASE status[t] # "blocked"
    <3>1. PICK p \in Threads : th[p].pc = "write" /\ th[p].task = t /\ th[p].to = "blocked"
      BY <1>4, <2>2, StatusSteps DEF Rewritten
    <3>2. p = "loop"
      BY <1>0, <3>1 DEF Busy
    <3> QED BY <1>1, <3>1, <3>2 DEF Gated
  <2> QED BY <2>1, <2>2
<1>5. ASSUME th'["loop"].pc \in Busy, th'["loop"].to \in {"ready", "running"}
      PROVE  Gate(th["loop"].task)'
  <2> SUFFICES ASSUME NEW t \in Tasks, t = th'["loop"].task
               PROVE  Gate(t)'
    <3>1. th'["loop"].task \in Tasks
      BY <1>5, NextMoves DEF Routed, Route
    <3> QED BY <3>1 DEF Gate, DepsMet
  <2>0. t \in Tasks
    OBVIOUS
  <2>1. CASE th'["loop"] = th["loop"]
    <3>1. th["loop"].pc # "idle" /\ t = th["loop"].task
      BY <1>5, <2>1 DEF Busy
    <3>2. Gate(th["loop"].task)
      BY <1>5, <2>1 DEF Gated
    <3>3. deps'[t] = deps[t]
      BY <1>0, <2>0, <3>1, DepsSteps
    <3> QED BY <1>2, <2>0, <3>1, <3>2, <3>3
  <2>2. CASE th'["loop"] # th["loop"]
    <3>0. deps' = deps
      BY <1>5, <2>2, InHand
    <3>1. CASE th["loop"].pc \in Busy
      <4>1. t = th["loop"].task /\ th["loop"].to = th'["loop"].to
        BY <1>5, <2>2, <3>1, InHand DEF GoesOn
      <4>2. Gate(th["loop"].task)
        BY <1>5, <3>1, <4>1 DEF Gated
      <4> QED BY <1>2, <2>0, <3>0, <4>1, <4>2
    <3>2. CASE th["loop"].pc \notin Busy
      <4>1. Opens(th'["loop"])
        BY <1>5, <2>2, <3>2, InHand
      <4>2. Gate(t)
        BY <1>0, <1>5, <2>0, <4>1 DEF Opens, Gated, Gate, LoopAlone
      <4> QED BY <1>2, <2>0, <3>0, <4>2
    <3> QED BY <3>1, <3>2
  <2> QED BY <2>1, <2>2
<1>6. ASSUME th'["loop"].pc = "write", th'["loop"].to = "blocked"
      PROVE  ballot'[th'["loop"].task] # "none"
  <2>0. th'["loop"].pc \in Busy /\ th'["loop"].task \in Tasks
    BY <1>6, NextMoves DEF Busy, Routed, Route
  <2>1. CASE th'["loop"] = th["loop"]
    BY <1>1, <1>6, <2>0, <2>1 DEF Gated
  <2>2. CASE th'["loop"] # th["loop"]
    <3>1. th["loop"].pc \in Busy /\ GoesOn(th["loop"], th'["loop"])
      BY <1>6, <2>0, <2>2, InHand DEF Opens
    <3>2. th["loop"].pc = "ballot" /\ th'["loop"].task = th["loop"].task
      BY <1>6, <3>1 DEF GoesOn
    <3> QED BY <1>6, <3>2, BallotSteps
  <2> QED BY <2>1, <2>2
<1> QED BY <1>3, <1>4, <1>5, <1>6 DEF Gated

(* The dependency gate (#905) for every interleaving of submissions, new   *)
(* dependency lists, completions, failures, cancels, advances, claims,     *)
(* ballots, renewals, scans and restarts: a task that was never blocked starts only when      *)
(* every task it depends on is completed.                                  *)
THEOREM GateSafety ==
  ASSUME GateKept
  PROVE  Spec => StartsAfterDeps
<1> DEFINE Inv == TypeInv /\ Routed /\ OpenInHand /\ Gated
           Start == \A t \in Tasks :
             status[t] # "running" /\ status'[t] = "running" => DepsMet(t) \/ ballot[t] # "none"
<1>1. Init => Inv
  <2>1. Init => OpenInHand
    BY DEF Init, OpenInHand, IdleThread, Busy
  <2>2. Init => Gated
    BY DEF Init, Gated, IdleThread, Busy
  <2> QED BY <2>1, <2>2, InitTypeInv, InitRouted
<1>2. Inv /\ [Next]_vars => Inv'
  BY NextType, NextMoves, NextOpenInHand, NextGated DEF GateKept
<1>3. Inv /\ [Next]_vars => Start
  <2> SUFFICES ASSUME Inv, [Next]_vars, NEW t \in Tasks, status[t] # "running", status'[t] = "running"
               PROVE  Gate(t)
    BY DEF Gate
  <2>1. \/ status[t] = "ready"
        \/ \E p \in Threads : th[p].pc = "write" /\ th[p].task = t /\ th[p].to = "running"
    BY StatusSteps DEF Rewritten
  <2>2. ASSUME NEW p \in Threads, th[p].pc = "write", th[p].task = t, th[p].to = "running"
        PROVE  Gate(t)
    <3>1. p = "loop" /\ th[p].pc \in Busy
      BY <2>2 DEF Routed, Route, Recovering, Busy
    <3> QED BY <2>2, <3>1 DEF Gated
  <2> QED BY <2>1, <2>2 DEF Gated
<1> QED BY <1>1, <1>2, <1>3, PTL DEF Spec, StartsAfterDeps

----------------------------------------------------------------------------
(* One owner *)

(* The lease that extend is about to copy has the owner every live lease   *)
(* of its task has.                                                        *)
Renewed ==
    th["loop"].pc = "extend_create" =>
        \A m \in LiveLeases : lease[m].task = lease[th["loop"].lid].task
                                => lease[m].node = lease[th["loop"].lid].node

(* While extend holds the manager's lock and no recovery runs, lease rows  *)
(* change only by lapsing.                                                 *)
LEMMA LockHolds ==
  ASSUME TypeInv, Routed, "auto" \notin Threads, [Next]_vars,
         th["loop"].pc = "extend_create", th'["loop"] = th["loop"]
  PROVE  \A l \in LeaseIds : lease'[l].task = lease[l].task /\ lease'[l].node = lease[l].node
<1>0. /\ lease \in [LeaseIds -> Lease] /\ th \in [Threads -> Thread]
      /\ \A l \in LeaseIds : lease[l] \in Lease
  BY DEF TypeInv, TypeOK
<1>1. ~Request
  BY RequestMoves
<1>2. ASSUME NEW p \in Threads, Continue(p)
      PROVE  lease' = lease
  <2>1. CASE p = "loop"
    <3>1. ExtendCreate("loop")
      BY <1>2, <2>1 DEF Continue, PromoteNew, Trigger, Schedule, Lookup, Revoke, Requeue, RecordBallot,
         Write, Dependents, Victims, UnblockToReady, ExtendRevoke, Mark, ExpiredNodes, RecRead,
         RecMark, RecExpired, RecRevoke, RecTask, RecSchedule, RecCheck, RecFail, At
    <3>2. th'["loop"].pc = "extend_revoke"
      BY <1>0, <3>1 DEF ExtendCreate, Step, Goto, Thread
    <3> QED BY <3>2
  <2>2. CASE p # "loop"
    <3>1. th[p].pc \in {"idle", "mark"}
      BY <2>2 DEF Routed, Route
    <3>2. Mark(p)
      BY <1>2, <3>1 DEF Continue, PromoteNew, Trigger, Schedule, Lookup, Revoke, Requeue, RecordBallot,
         Write, Dependents, Victims, UnblockToReady, ExtendCreate, ExtendRevoke, ExpiredNodes, RecRead,
         RecMark, RecExpired, RecRevoke, RecTask, RecSchedule, RecCheck, RecFail, At
    <3> QED BY <3>2 DEF Mark, ManagerLockFree
  <2> QED BY <2>1, <2>2
<1>3. ASSUME NEW k \in LeaseIds, Lapse(k)
      PROVE  \A l \in LeaseIds : lease'[l].task = lease[l].task /\ lease'[l].node = lease[l].node
  <2>1. \A l \in LeaseIds : lease'[l] = IF l = k THEN [lease[l] EXCEPT !.live = FALSE] ELSE lease[l]
    BY <1>0, <1>3 DEF Lapse
  <2>2. \A x \in Lease : [x EXCEPT !.live = FALSE].task = x.task /\ [x EXCEPT !.live = FALSE].node = x.node
    BY DEF Lease
  <2> QED BY <1>0, <2>1, <2>2
<1>4. CASE lease' = lease
  BY <1>4
<1>5. CASE ScannerScan \/ AutoScan \/ Environment \/ UNCHANGED vars
  BY <1>3, <1>4, <1>5 DEF ScannerScan, AutoScan, Environment, SetNodeStatus, Restart, vars
<1> QED BY <1>1, <1>2, <1>4, <1>5 DEF Next

(* Every step keeps the owner of a task's live leases. *)
LEMMA NextOwner ==
  ASSUME TypeInv, Routed, OneOwnerNode, Renewed, "auto" \notin Threads, [Next]_vars
  PROVE  OneOwnerNode' /\ Renewed'
<1> DEFINE Live(l) == lease[l].st = "active" /\ lease[l].live
<1>0. /\ lease \in [LeaseIds -> Lease] /\ th \in [Threads -> Thread] /\ "loop" \in Threads
      /\ \A l \in LeaseIds : l \in LiveLeases <=> Live(l)
      /\ \A l \in LeaseIds : (l \in LiveLeases)' <=> lease'[l].st = "active" /\ lease'[l].live
      /\ LiveLeases \subseteq LeaseIds
  BY DEF TypeInv, TypeOK, LiveLeases, ActiveLeases
<1>1. OneOwnerNode'
  <2> SUFFICES ASSUME NEW l \in LeaseIds, NEW m \in LeaseIds,
                      lease'[l].st = "active" /\ lease'[l].live,
                      lease'[m].st = "active" /\ lease'[m].live,
                      lease'[l].task = lease'[m].task
               PROVE  lease'[l].node = lease'[m].node
    BY DEF OneOwnerNode, LiveLeases, ActiveLeases
  <2>1. CASE SameOwners
    BY <1>0, <2>1 DEF SameOwners, OneOwnerNode
  <2>2. ASSUME NEW p \in Threads, ExtendCreate(p)
        PROVE  lease'[l].node = lease'[m].node
    <3>1. p = "loop" /\ th["loop"].pc = "extend_create"
      BY <2>2 DEF ExtendCreate, At, Routed, Route, Recovering
    <3> DEFINE k == th["loop"].lid
               new == [task |-> lease[k].task, node |-> lease[k].node, st |-> "active", live |-> TRUE]
    <3>2. PICK f \in FreeRows : lease' = [lease EXCEPT ![f] = new]
      BY <2>2, <3>1 DEF ExtendCreate
    <3>3. new.task = lease[k].task /\ new.node = lease[k].node
      OBVIOUS
    <3> HIDE DEF new, k
    <3>4. \A x \in LeaseIds : lease'[x] = IF x = f THEN new ELSE lease[x]
      BY <1>0, <3>2
    <3>5. \A x \in LiveLeases : lease[x].task = new.task => lease[x].node = new.node
      BY <3>1, <3>3 DEF Renewed, k
    <3> QED BY <1>0, <3>4, <3>5 DEF OneOwnerNode
  <2>3. ASSUME NEW plan \in PlansNow, schedule_pending(plan)
        PROVE  lease'[l].node = lease'[m].node
    <3>1. PICK seat \in [Placed(plan) -> FreeRows] :
            /\ \A t \in Placed(plan) :
                  lease'[seat[t]] = [task |-> t, node |-> plan[t], st |-> "active", live |-> TRUE]
            /\ \A x \in LeaseIds : lease'[x] = lease[x] \/ \E t \in Placed(plan) : seat[t] = x
      BY <2>3, PassLeases
    <3>2. \A t \in Placed(plan) : t \notin LeasedTasks
      BY <2>3, PassStarts DEF Schedulable
    <3>3. ASSUME NEW x \in LeaseIds, lease'[x].st = "active" /\ lease'[x].live
          PROVE  \/ x \in LiveLeases /\ lease'[x] = lease[x] /\ lease[x].task \in LeasedTasks
                 \/ lease'[x].task \in Placed(plan) /\ lease'[x].node = plan[lease'[x].task]
      <4>1. CASE lease'[x] = lease[x]
        BY <1>0, <3>3, <4>1 DEF LeasedTasks
      <4>2. ASSUME NEW t \in Placed(plan), seat[t] = x
            PROVE  lease'[x].task \in Placed(plan) /\ lease'[x].node = plan[lease'[x].task]
        <5>0. lease'[x] = [task |-> t, node |-> plan[t], st |-> "active", live |-> TRUE]
          BY <3>1, <4>2, Zenon
        <5>1. lease'[x].task = t /\ lease'[x].node = plan[t]
          BY <5>0
        <5> QED BY <5>1
      <4> QED BY <3>1, <4>1, <4>2
    <3> QED BY <3>2, <3>3 DEF OneOwnerNode
  <2> QED BY <2>1, <2>2, <2>3, OwnersByPass
<1>2. Renewed'
  <2> SUFFICES ASSUME th'["loop"].pc = "extend_create", NEW m \in LeaseIds,
                      lease'[m].st = "active" /\ lease'[m].live,
                      lease'[m].task = lease'[th'["loop"].lid].task
               PROVE  lease'[m].node = lease'[th'["loop"].lid].node
    BY DEF Renewed, LiveLeases, ActiveLeases
  <2>1. CASE th'["loop"] = th["loop"]
    <3> DEFINE k == th["loop"].lid
    <3>1. k \in LeaseIds
      BY <2>1 DEF TypeInv, InOrder, Orderly
    <3>2. \A l \in LeaseIds : lease'[l].task = lease[l].task /\ lease'[l].node = lease[l].node
      BY <2>1, LockHolds
    <3>3. SameOwners
      <4>1. ASSUME NEW p \in Threads, ExtendCreate(p)
            PROVE  FALSE
        <5>1. p = "loop"
          BY <4>1 DEF ExtendCreate, At, Routed, Route, Recovering
        <5>2. th'["loop"].pc = "extend_revoke"
          BY <1>0, <4>1, <5>1 DEF ExtendCreate, Step, Goto, Thread
        <5> QED BY <5>2
      <4>2. ASSUME NEW p \in Threads, Schedule(p) \/ RecSchedule(p)
            PROVE  FALSE
        <5>1. th[p].pc \in {"schedule", "rec_schedule"}
          BY <4>2 DEF Schedule, RecSchedule, At
        <5>2. p # "loop"
          BY <2>1, <5>1
        <5> QED BY <5>1, <5>2 DEF Routed, Route
      <4> QED BY <4>1, <4>2, OwnersByPass
    <3>4. m \in LiveLeases
      BY <1>0, <3>3 DEF SameOwners
    <3> QED BY <2>1, <3>1, <3>2, <3>4 DEF Renewed
  <2>2. CASE th'["loop"] # th["loop"]
    <3>1. Moves("loop")
      <4>1. ~Restart
        <5>1. ASSUME Restart
              PROVE  th'["loop"].pc = "trigger"
          BY <1>0, <5>1 DEF Restart, IdleThread
        <5> QED BY <5>1
      <4> QED BY <2>2, <4>1, NextMoves DEF Moves
    <3>2. Renews(th'["loop"].lid)
      BY <3>1 DEF Moves
    <3> QED BY <1>0, <3>2 DEF Renews, OneOwnerNode
  <2> QED BY <2>1, <2>2
<1> QED BY <1>1, <1>2

(* A task never has two owners: while auto-recovery does not run, two live *)
(* leases of one task name one node, through renewals, passes, re-queues,  *)
(* expiry scans, requested recoveries, lapses and restarts.                *)
THEOREM OwnerSafety ==
  ASSUME "auto" \notin Threads
  PROVE  Spec => []OneOwnerNode
<1> DEFINE Inv == TypeInv /\ Routed /\ OneOwnerNode /\ Renewed
<1>1. Init => Inv
  <2>1. Init => OneOwnerNode
    BY DEF Init, OneOwnerNode, LiveLeases, ActiveLeases, NoRow
  <2>2. Init => Renewed
    BY DEF Init, Renewed, IdleThread
  <2> QED BY <2>1, <2>2, InitTypeInv, InitRouted
<1>2. Inv /\ [Next]_vars => Inv'
  BY NextType, NextMoves, NextOwner
<1>3. Inv => OneOwnerNode
  OBVIOUS
<1> QED BY <1>1, <1>2, <1>3, PTL DEF Spec

----------------------------------------------------------------------------
(* Nothing is lost *)

(* A row from which recovery can reclaim a task. *)
Covers(l, t) == lease[l].st # "revoked" /\ lease[l].task = t /\ lease[l].node = assigned[t]
Covered(t) == \E l \in LeaseIds : Covers(l, t)

(* A thread that has a task in hand, or on the list of a recovery that     *)
(* revoked its lease, will still write the task's status.                  *)
Orphaning == {"rec_revoke", "rec_task", "rec_schedule", "rec_check", "rec_fail"}
Responsible(p, t) == \/ th[p].pc \in Busy /\ th[p].task = t
                     \/ th[p].pc \in Orphaning /\ t \in th[p].todo

(* Every running task is covered by a lease row on its node, or some       *)
(* thread is responsible for it; a live lease is held by the node the task *)
(* is assigned to; and a handler revokes a lease of the task in its hand.  *)
NoneLost == \A t \in Tasks : status[t] = "running" => Covered(t) \/ \E p \in Threads : Responsible(p, t)
LiveAssigned == \A l \in LiveLeases : assigned[lease[l].task] = lease[l].node
RevokesOwn == \A p \in Threads : th[p].pc = "revoke" =>
                th[p].lid \in LeaseIds /\ lease[th[p].lid].task = th[p].task

LostInv == TypeInv /\ Routed /\ Claimless /\ RevokesOwn /\ LiveAssigned /\ NoneLost

(* The endpoints under which nothing is lost: claim_task starts a task     *)
(* without a lease, and a renewal may revive the lease of a former owner.  *)
NothingClaimed == {"claim", "extend"} \cap Calls = {}

(* What a thread's step must do about running tasks. *)
Secures(p) ==
    \A t \in Tasks : status'[t] = "running" =>
        /\ status[t] # "running" => Covered(t)'
        /\ status[t] = "running" /\ (Covered(t) \/ Responsible(p, t)) => Covered(t)' \/ Responsible(p, t)'

(* A step that secures what its own thread answers for loses nothing: the  *)
(* other threads go on answering for theirs.                               *)
LEMMA SecuresAll ==
  ASSUME NoneLost, NEW p \in Threads, \A q \in Threads \ {p} : th'[q] = th[q], Secures(p)
  PROVE  NoneLost'
<1> SUFFICES ASSUME NEW t \in Tasks, status'[t] = "running"
             PROVE  Covered(t)' \/ \E q \in Threads : Responsible(q, t)'
  BY DEF NoneLost
<1>1. CASE status[t] # "running"
  BY <1>1 DEF Secures
<1>2. CASE status[t] = "running" /\ (Covered(t) \/ Responsible(p, t))
  BY <1>2 DEF Secures
<1>3. ASSUME NEW q \in Threads \ {p}, Responsible(q, t)
      PROVE  Responsible(q, t)'
  BY <1>3 DEF Responsible
<1> QED BY <1>1, <1>2, <1>3 DEF NoneLost

(* A step by a thread that was not responsible for anything, and that      *)
(* starts nothing and leaves assignments and rows' contents alone.         *)
LEMMA IdleSecures ==
  ASSUME NEW p \in Threads, th[p].pc \notin Busy \cup Orphaning,
         \A t \in Tasks : status'[t] = "running" => status[t] = "running" /\ assigned'[t] = assigned[t],
         \A l \in LeaseIds : lease[l].st # "revoked" =>
            /\ lease'[l].st # "revoked" /\ lease'[l].task = lease[l].task
            /\ lease'[l].node = lease[l].node
  PROVE  Secures(p)
<1> SUFFICES ASSUME NEW t \in Tasks, status'[t] = "running", Covered(t)
             PROVE  Covered(t)'
  BY DEF Secures, Responsible
<1>1. PICK l \in LeaseIds : Covers(l, t)
  BY DEF Covered
<1>2. Covers(l, t)'
  BY <1>1 DEF Covers
<1> QED BY <1>2 DEF Covered

(* A pass covers every task it starts. *)
LEMMA PassSecures ==
  ASSUME LostInv, NEW p \in Threads, Schedule(p) \/ RecSchedule(p)
  PROVE  Secures(p) /\ LiveAssigned'
<1>0. /\ th[p] \in Thread /\ th \in [Threads -> Thread] /\ lease \in [LeaseIds -> Lease]
      /\ assigned \in [Tasks -> Nodes \cup {NoNode}]
      /\ \A l \in LiveLeases : l \in LeaseIds /\ lease[l].task \in Tasks
  BY DEF LostInv, TypeInv, TypeOK, RowsNamed, Named, LiveLeases, ActiveLeases
<1>1. PICK plan \in PlansNow : schedule_pending(plan)
  BY DEF Schedule, RecSchedule
<1>2. /\ \A t \in Tasks : t \in Placed(plan) =>
             status[t] = "ready" /\ assigned'[t] = plan[t] /\ t \notin LeasedTasks
      /\ \A t \in Tasks : t \notin Placed(plan) => status'[t] = status[t] /\ assigned'[t] = assigned[t]
      /\ Placed(plan) \subseteq Tasks
  BY <1>1, PassStarts DEF LostInv, Schedulable
<1>3. PICK seat \in [Placed(plan) -> FreeRows] :
        /\ \A t \in Placed(plan) :
              lease'[seat[t]] = [task |-> t, node |-> plan[t], st |-> "active", live |-> TRUE]
        /\ \A l \in LeaseIds : lease'[l] = lease[l] \/ \E t \in Placed(plan) : seat[t] = l
  BY <1>1, PassLeases DEF LostInv
<1>4. \A t \in Placed(plan) : /\ seat[t] \in LeaseIds /\ lease[seat[t]].st = "revoked"
                              /\ lease'[seat[t]].st = "active" /\ lease'[seat[t]].task = t
                              /\ lease'[seat[t]].node = plan[t]
  <2> TAKE t \in Placed(plan)
  <2>1. lease'[seat[t]] = [task |-> t, node |-> plan[t], st |-> "active", live |-> TRUE]
    BY <1>3
  <2>2. seat[t] \in FreeRows
    BY <1>3
  <2> QED BY <2>1, <2>2 DEF FreeRows
<1>5. ASSUME NEW t \in Placed(plan)
      PROVE  Covered(t)'
  <2>1. Covers(seat[t], t)'
    BY <1>2, <1>4 DEF Covers
  <2> QED BY <1>4, <2>1 DEF Covered
<1>6. ASSUME NEW t \in Tasks, t \notin Placed(plan), Covered(t)
      PROVE  Covered(t)'
  <2>1. PICK l \in LeaseIds : Covers(l, t)
    BY <1>6 DEF Covered
  <2>2. lease'[l] = lease[l]
    BY <1>3, <1>4, <2>1 DEF Covers
  <2>3. Covers(l, t)'
    BY <1>2, <1>6, <2>1, <2>2 DEF Covers
  <2> QED BY <2>3 DEF Covered
<1>7. ASSUME NEW t, Responsible(p, t)
      PROVE  Responsible(p, t)'
  <2>1. RecSchedule(p)
    BY <1>7 DEF Schedule, At, Responsible, Busy, Orphaning
  <2>2. \E c \in {"rec_check", "rec_fail"} : Goto(p, [th[p] EXCEPT !.pc = c])
    BY <2>1 DEF RecSchedule, Step
  <2>3. th'[p].pc \in Orphaning /\ th'[p].todo = th[p].todo
    BY <1>0, <2>2 DEF Goto, Thread, Orphaning
  <2>4. th[p].pc = "rec_schedule"
    BY <2>1 DEF RecSchedule, At
  <2> QED BY <1>7, <2>3, <2>4 DEF Responsible, Busy
<1>8. Secures(p)
  BY <1>2, <1>5, <1>6, <1>7 DEF Secures
<1>9. LiveAssigned'
  <2> SUFFICES ASSUME NEW l \in LeaseIds, lease'[l].st = "active", lease'[l].live
               PROVE  assigned'[lease'[l].task] = lease'[l].node
    BY DEF LiveAssigned, LiveLeases, ActiveLeases
  <2>1. CASE lease'[l] = lease[l]
    <3>1. l \in LiveLeases /\ lease[l].task \in LeasedTasks /\ lease[l].task \in Tasks
      BY <1>0, <2>1 DEF LiveLeases, ActiveLeases, LeasedTasks
    <3>2. assigned[lease[l].task] = lease[l].node
      BY <3>1 DEF LostInv, LiveAssigned
    <3>3. assigned'[lease[l].task] = assigned[lease[l].task]
      BY <1>2, <3>1
    <3> QED BY <2>1, <3>2, <3>3
  <2>2. ASSUME NEW t \in Placed(plan), seat[t] = l
        PROVE  assigned'[lease'[l].task] = lease'[l].node
    <3>1. lease'[l].task = t /\ lease'[l].node = plan[t]
      BY <1>4, <2>2
    <3>2. assigned'[t] = plan[t]
      BY <1>2
    <3> QED BY <3>1, <3>2
  <2> QED BY <1>3, <2>1, <2>2
<1> QED BY <1>8, <1>9

(* Leases that only end stay with the assigned node. *)
LEMMA OwnersAssigned ==
  ASSUME LiveAssigned, SameOwners,
         \A l \in LiveLeases : lease'[l].st = "active" /\ lease'[l].live =>
            assigned'[lease[l].task] = assigned[lease[l].task]
  PROVE  LiveAssigned'
<1> SUFFICES ASSUME NEW l \in LeaseIds, lease'[l].st = "active", lease'[l].live
             PROVE  assigned'[lease'[l].task] = lease'[l].node
  BY DEF LiveAssigned, LiveLeases, ActiveLeases
<1>1. l \in LiveLeases /\ lease'[l].task = lease[l].task /\ lease'[l].node = lease[l].node
  BY DEF SameOwners, LiveLeases, ActiveLeases
<1> QED BY <1>1 DEF LiveAssigned

(* What a revocation leaves of the rows. *)
LEMMA RevokedRows ==
  ASSUME LostInv, NEW p \in Threads, NEW S, revoke_lease(p, S)
  PROVE  /\ SameOwners
         /\ \A l \in LeaseIds : l \notin S => lease'[l] = lease[l]
         /\ \A l \in S : l \in LeaseIds => lease'[l].st = "revoked"
<1>0. \A l \in LeaseIds : lease[l] \in Lease
  BY DEF LostInv, TypeInv, TypeOK
<1>1. \A l \in LeaseIds : l \notin S => lease'[l] = lease[l]
  BY DEF revoke_lease
<1>2. \A l \in S : l \in LeaseIds => lease'[l].st = "revoked"
  BY <1>0 DEF revoke_lease, NoRow, Lease
<1> QED BY <1>1, <1>2 DEF SameOwners

(* Handlers with a task in hand. *)
LEMMA HandlerSecures ==
  ASSUME LostInv, NEW p \in Threads, Lookup(p) \/ RecordBallot(p) \/ Write(p)
  PROVE  Secures(p) /\ LiveAssigned'
<1>0. /\ lease' = lease /\ assigned' = assigned /\ th[p].pc \in Busy
      /\ th[p].pc \notin {"requeue", "veto_requeue", "schedule", "rec_schedule"} \cup Orphaning
  BY DEF Lookup, RecordBallot, Write, At, taskRows, Busy, Orphaning
<1>1. \A t \in Tasks : status'[t] = "running" => status[t] = "running"
  <2>1. Continue(p) /\ ~Schedule(p) /\ ~RecSchedule(p)
    BY <1>0 DEF Continue, Schedule, RecSchedule, At
  <2> QED BY <2>1, ContinueClaimless DEF LostInv, ACTIVE_TASK_STATUSES
<1>2. \A t \in Tasks : Covered(t) => Covered(t)'
  BY <1>0 DEF Covered, Covers
<1>3. ASSUME NEW t \in Tasks, status'[t] = "running", Responsible(p, t)
      PROVE  Responsible(p, t)'
  <2>1. th[p].task = t
    BY <1>0, <1>3 DEF Responsible
  <2>2. ~Requeue(p)
    BY <1>0 DEF Requeue
  <2>3. ~Write(p)
    <3>1. ASSUME Write(p)
          PROVE  FALSE
      <4>1. status'[t] = th[p].to
        BY <2>1, <3>1 DEF Write, set_task_status, LostInv, TypeInv, TypeOK
      <4> QED BY <1>3, <4>1 DEF LostInv, Claimless, ACTIVE_TASK_STATUSES
    <3> QED BY <3>1
  <2>4. Moves(p) /\ th'[p].pc \in Busy
    BY <1>0, <2>2, <2>3, HandlerMoves DEF LostInv
  <2>5. th'[p].task = t
    BY <1>0, <2>1, <2>4 DEF Moves, GoesOn
  <2> QED BY <2>4, <2>5 DEF Responsible
<1>4. Secures(p)
  BY <1>1, <1>2, <1>3 DEF Secures
<1>5. LiveAssigned'
  BY <1>0 DEF LostInv, LiveAssigned, LiveLeases, ActiveLeases
<1> QED BY <1>4, <1>5

(* A handler that revokes the lease of its task stays responsible. *)
LEMMA RevokeSecures ==
  ASSUME LostInv, NEW p \in Threads, Revoke(p)
  PROVE  Secures(p) /\ LiveAssigned'
<1>0. /\ revoke_lease(p, {th[p].lid}) /\ status' = status /\ assigned' = assigned
      /\ th[p].pc = "revoke" /\ lease[th[p].lid].task = th[p].task
  BY DEF Revoke, At, taskRows, LostInv, RevokesOwn
<1>1. th'[p].pc \in Busy /\ th'[p].task = th[p].task
  <2>1. Moves(p) /\ th'[p].pc \in Busy
    BY <1>0, HandlerMoves DEF LostInv, Busy, Write, Requeue, At
  <2> QED BY <1>0, <2>1 DEF Moves, GoesOn, Busy
<1>2. /\ SameOwners
      /\ \A l \in LeaseIds : l # th[p].lid => lease'[l] = lease[l]
  <2>1. SameOwners /\ \A l \in LeaseIds : l \notin {th[p].lid} => lease'[l] = lease[l]
    BY <1>0, RevokedRows
  <2> QED BY <2>1
<1>3. ASSUME NEW t \in Tasks, Covered(t), t # th[p].task
      PROVE  Covered(t)'
  <2>1. PICK l \in LeaseIds : Covers(l, t)
    BY <1>3 DEF Covered
  <2>2. lease'[l] = lease[l]
    BY <1>0, <1>2, <1>3, <2>1 DEF Covers
  <2>3. Covers(l, t)'
    BY <1>0, <2>1, <2>2 DEF Covers
  <2> QED BY <2>3 DEF Covered
<1>4. ASSUME NEW t \in Tasks, t = th[p].task
      PROVE  Responsible(p, t)'
  BY <1>1, <1>4 DEF Responsible
<1>5. Secures(p)
  <2>1. \A t \in Tasks : Responsible(p, t) => t = th[p].task
    BY <1>0 DEF Responsible, Orphaning
  <2> QED BY <1>0, <1>3, <1>4, <2>1 DEF Secures
<1>6. LiveAssigned'
  BY <1>0, <1>2, OwnersAssigned DEF LostInv
<1> QED BY <1>5, <1>6

(* requeue_task ends the live leases of its task, and either hands the     *)
(* task back or keeps it in hand.                                          *)
LEMMA RequeueSecures ==
  ASSUME LostInv, NEW p \in Threads, Requeue(p)
  PROVE  Secures(p) /\ LiveAssigned'
<1> DEFINE u == th[p].task
           S == {l \in LiveLeases : lease[l].task = u}
<1>0. /\ revoke_lease(p, S) /\ th[p].pc \in Busy \ Orphaning /\ u \in Tasks
      /\ status \in [Tasks -> Status] /\ assigned \in [Tasks -> Nodes \cup {NoNode}]
      /\ \A l \in LiveLeases : l \in LeaseIds
  BY DEF Requeue, LostInv, Routed, Route, Busy, Orphaning, TypeInv, TypeOK, LiveLeases, ActiveLeases
<1>1. /\ \A t \in Tasks \ {u} : status'[t] = status[t] /\ assigned'[t] = assigned[t]
      /\ requeueable(u) => status'[u] = "ready"
      /\ ~requeueable(u) => status' = status /\ assigned' = assigned
  BY <1>0 DEF Requeue
<1>2. ~requeueable(u) => th'[p].pc \in Busy /\ th'[p].task = u
  <2>1. ASSUME ~requeueable(u)
        PROVE  Moves(p) /\ th'[p].pc \in Busy
    BY <1>0, <2>1, HandlerMoves DEF LostInv, Write, Requeue, At
  <2> QED BY <1>0, <2>1 DEF Moves, GoesOn
<1>3. /\ SameOwners
      /\ \A l \in LeaseIds : l \notin S => lease'[l] = lease[l]
      /\ \A l \in S : l \in LeaseIds => lease'[l].st = "revoked"
  <2> HIDE DEF S
  <2> QED BY <1>0, RevokedRows
<1>4. ASSUME NEW t \in Tasks, Covered(t), t # u
      PROVE  Covered(t)'
  <2>1. PICK l \in LeaseIds : Covers(l, t)
    BY <1>4 DEF Covered
  <2>2. lease'[l] = lease[l]
    BY <1>3, <1>4, <2>1 DEF Covers
  <2>3. Covers(l, t)'
    BY <1>1, <1>4, <2>1, <2>2 DEF Covers
  <2> QED BY <2>3 DEF Covered
<1>5. ASSUME NEW t \in Tasks, t = u, status'[t] = "running"
      PROVE  Responsible(p, t)' /\ status[t] = "running"
  BY <1>1, <1>2, <1>5 DEF Responsible
<1>6. Secures(p)
  <2>1. \A t \in Tasks : Responsible(p, t) => t = u
    BY <1>0 DEF Responsible
  <2> HIDE DEF u
  <2> QED BY <1>1, <1>4, <1>5, <2>1 DEF Secures
<1>7. LiveAssigned'
  <2>1. ASSUME NEW l \in LiveLeases, lease'[l].st = "active"
        PROVE  assigned'[lease[l].task] = assigned[lease[l].task]
    <3>1. l \notin S /\ lease[l].task # u
      BY <1>0, <1>3, <2>1
    <3>2. lease[l].task \in Tasks
      BY <2>1 DEF LostInv, TypeInv, RowsNamed, Named, LiveLeases, ActiveLeases
    <3> QED BY <1>1, <3>1, <3>2
  <2> QED BY <1>3, <2>1, OwnersAssigned DEF LostInv
<1> QED BY <1>6, <1>7

(* A recovery is responsible for the task of each lease it revokes. *)
LEMMA RecRevokeSecures ==
  ASSUME LostInv, NEW p \in Threads, RecRevoke(p)
  PROVE  Secures(p) /\ LiveAssigned'
<1>0. /\ th \in [Threads -> Thread] /\ th[p] \in Thread /\ th[p].pc = "rec_revoke"
      /\ status' = status /\ assigned' = assigned
  BY DEF RecRevoke, At, taskRows, LostInv, TypeInv, TypeOK
<1> DEFINE c(l) == IF th[p].keep = {l} THEN "rec_task" ELSE "rec_revoke"
           y(l) == [th[p] EXCEPT !.pc = c(l), !.keep = th[p].keep \ {l},
                                 !.todo = th[p].todo \cup {lease[l].task}]
<1>1. PICK l \in th[p].keep : revoke_lease(p, {l}) /\ Goto(p, y(l))
  BY DEF RecRevoke
<1>2. c(l) \in {"rec_task", "rec_revoke"}
  OBVIOUS
<1> HIDE DEF c
<1>3. th'[p].pc \in Orphaning /\ th'[p].todo = th[p].todo \cup {lease[l].task}
  BY <1>0, <1>1, <1>2 DEF Goto, Thread, Orphaning
<1>4. SameOwners /\ \A m \in LeaseIds : m # l => lease'[m] = lease[m]
  BY <1>1, RevokedRows
<1>5. ASSUME NEW t \in Tasks, Covered(t), t # lease[l].task
      PROVE  Covered(t)'
  <2>1. PICK m \in LeaseIds : Covers(m, t)
    BY <1>5 DEF Covered
  <2>2. lease'[m] = lease[m]
    BY <1>4, <1>5, <2>1 DEF Covers
  <2>3. Covers(m, t)'
    BY <1>0, <2>1, <2>2 DEF Covers
  <2> QED BY <2>3 DEF Covered
<1>6. ASSUME NEW t \in Tasks, t = lease[l].task \/ Responsible(p, t)
      PROVE  Responsible(p, t)'
  BY <1>0, <1>3, <1>6 DEF Responsible, Busy
<1>7. Secures(p)
  BY <1>0, <1>5, <1>6 DEF Secures
<1>8. LiveAssigned'
  BY <1>0, <1>4, OwnersAssigned DEF LostInv
<1> QED BY <1>7, <1>8

(* The records with which a recovery goes on through its list. *)
LEMMA OrphansLeft ==
  ASSUME NEW S, NEW N, NEW t \in S
  PROVE  AtOrphans(S, N).pc = "rec_task" /\ AtOrphans(S, N).todo = S
BY DEF AtOrphans, IdleThread

(* unassign_task hands the task back, or leaves it to the live lease that  *)
(* it is running under.                                                    *)
LEMMA RecTaskSecures ==
  ASSUME LostInv, NEW p \in Threads, RecTask(p)
  PROVE  Secures(p) /\ LiveAssigned'
<1>0. /\ th \in [Threads -> Thread] /\ th[p] \in Thread /\ th[p].pc = "rec_task" /\ lease' = lease
      /\ status \in [Tasks -> Status] /\ assigned \in [Tasks -> Nodes \cup {NoNode}]
      /\ \A l \in LiveLeases : l \in LeaseIds /\ lease[l].st = "active"
  BY DEF RecTask, At, LostInv, TypeInv, TypeOK, LiveLeases, ActiveLeases
<1>1. PICK u \in th[p].todo :
        IF unassignable(u)
        THEN /\ status' = [status EXCEPT ![u] = "ready"]
             /\ assigned' = [assigned EXCEPT ![u] = NoNode]
             /\ Goto(p, [th[p] EXCEPT !.pc = "rec_schedule", !.task = u, !.todo = th[p].todo \ {u}])
        ELSE /\ Goto(p, AtOrphans(th[p].todo \ {u}, th[p].nodes))
             /\ UNCHANGED <<status, assigned>>
  BY DEF RecTask
<1>2. u \in Tasks
  BY <1>0 DEF Thread
<1>3. ASSUME NEW t \in th[p].todo, t # u
      PROVE  th'[p].pc \in Orphaning /\ t \in th'[p].todo
  <2>1. CASE unassignable(u)
    <3>1. Goto(p, [th[p] EXCEPT !.pc = "rec_schedule", !.task = u, !.todo = th[p].todo \ {u}])
      BY <1>1, <2>1
    <3>2. th'[p].pc = "rec_schedule" /\ th'[p].todo = th[p].todo \ {u}
      BY <1>0, <3>1 DEF Goto, Thread
    <3> QED BY <1>3, <3>2 DEF Orphaning
  <2>2. CASE ~unassignable(u)
    <3>1. th'[p] = AtOrphans(th[p].todo \ {u}, th[p].nodes)
      BY <1>0, <1>1, <2>2 DEF Goto
    <3>2. t \in th[p].todo \ {u}
      BY <1>3
    <3> QED BY <3>1, <3>2, OrphansLeft DEF Orphaning
  <2> QED BY <2>1, <2>2
<1>4. CASE unassignable(u)
  <2>1. /\ \A t \in Tasks \ {u} : status'[t] = status[t] /\ assigned'[t] = assigned[t]
        /\ status'[u] = "ready"
    BY <1>0, <1>1, <1>2, <1>4
  <2>2. ASSUME NEW t \in Tasks \ {u}, Covered(t)
        PROVE  Covered(t)'
    BY <1>0, <2>1, <2>2 DEF Covered, Covers
  <2>3. ASSUME NEW t \in Tasks \ {u}, Responsible(p, t)
        PROVE  Responsible(p, t)'
    BY <1>0, <1>3, <2>3 DEF Responsible, Busy
  <2>4. Secures(p)
    BY <2>1, <2>2, <2>3 DEF Secures
  <2>5. LiveAssigned'
    <3>1. ASSUME NEW l \in LiveLeases
          PROVE  assigned'[lease[l].task] = lease[l].node
      <4>1. lease[l].task \in Tasks /\ lease[l].task # u
        BY <1>0, <1>4, <3>1 DEF unassignable, LeasedTasks, LostInv, TypeInv, RowsNamed, Named
      <4> QED BY <2>1, <3>1, <4>1 DEF LostInv, LiveAssigned
    <3> QED BY <1>0, <3>1 DEF LiveAssigned, LiveLeases, ActiveLeases
  <2> QED BY <2>4, <2>5
<1>5. CASE ~unassignable(u)
  <2>1. status' = status /\ assigned' = assigned
    BY <1>1, <1>5
  <2>2. \A t \in Tasks : Covered(t) => Covered(t)'
    BY <1>0, <2>1 DEF Covered, Covers
  <2>3. status[u] = "running" => Covered(u)'
    <3>1. ASSUME status[u] = "running"
          PROVE  Covered(u)
      <4>1. u \in LeasedTasks
        BY <1>5, <3>1 DEF unassignable, TERMINAL_TASK_STATUSES
      <4>2. PICK l \in LiveLeases : lease[l].task = u
        BY <4>1 DEF LeasedTasks
      <4>3. Covers(l, u)
        BY <1>0, <4>2 DEF Covers, LostInv, LiveAssigned
      <4> QED BY <1>0, <4>3 DEF Covered
    <3> QED BY <1>2, <2>2, <3>1
  <2>4. ASSUME NEW t \in Tasks \ {u}, Responsible(p, t)
        PROVE  Responsible(p, t)'
    BY <1>0, <1>3, <2>4 DEF Responsible, Busy
  <2>5. Secures(p)
    BY <2>1, <2>2, <2>3, <2>4 DEF Secures
  <2>6. LiveAssigned'
    BY <1>0, <2>1 DEF LostInv, LiveAssigned, LiveLeases, ActiveLeases
  <2> QED BY <2>5, <2>6
<1> QED BY <1>4, <1>5

(* The end of a task's recovery: the rest of the list is still there. *)
LEMMA RecEndSecures ==
  ASSUME LostInv, NEW p \in Threads, RecCheck(p) \/ RecFail(p)
  PROVE  Secures(p) /\ LiveAssigned'
<1>0. /\ th \in [Threads -> Thread] /\ th[p] \in Thread /\ th[p].pc \in Orphaning \ Busy
      /\ lease' = lease /\ assigned' = assigned
      /\ \A t \in Tasks : status'[t] = "running" => status[t] = "running"
  BY DEF RecCheck, RecFail, At, taskRows, set_task_status, LostInv, TypeInv, TypeOK, Orphaning, Busy
<1>1. ASSUME NEW t \in th[p].todo
      PROVE  th'[p].pc \in Orphaning /\ t \in th'[p].todo
  <2>1. CASE Goto(p, [th[p] EXCEPT !.pc = "rec_fail"])
    BY <1>0, <2>1 DEF Goto, Thread, Orphaning
  <2>2. CASE Goto(p, AtOrphans(th[p].todo, th[p].nodes))
    <3>1. th'[p] = AtOrphans(th[p].todo, th[p].nodes)
      BY <1>0, <2>2 DEF Goto
    <3> QED BY <3>1, OrphansLeft DEF Orphaning
  <2> QED BY <2>1, <2>2 DEF RecCheck, RecFail, NextOrphan, Step
<1>2. \A t \in Tasks : Covered(t) => Covered(t)'
  BY <1>0 DEF Covered, Covers
<1>3. \A t \in Tasks : Responsible(p, t) => Responsible(p, t)'
  BY <1>0, <1>1 DEF Responsible
<1>4. Secures(p)
  BY <1>0, <1>2, <1>3 DEF Secures
<1>5. LiveAssigned'
  BY <1>0 DEF LostInv, LiveAssigned, LiveLeases, ActiveLeases
<1> QED BY <1>4, <1>5

(* Every other step of a thread, and every request. *)
LEMMA RestSecures ==
  ASSUME LostInv, NothingClaimed, NEW p \in Threads,
         \/ p = "loop" /\ Request
         \/ PromoteNew(p) \/ Trigger(p) \/ UnblockToReady(p) \/ Dependents(p) \/ Victims(p)
         \/ Mark(p) \/ ExpiredNodes(p) \/ RecRead(p) \/ RecMark(p) \/ RecExpired(p)
         \/ p = "scanner" /\ ScannerScan
         \/ p = "auto" /\ AutoScan
  PROVE  Secures(p) /\ LiveAssigned'
<1>0. /\ lease \in [LeaseIds -> Lease] /\ \A l \in LeaseIds : lease[l] \in Lease
      /\ \A l \in LiveLeases : l \in LeaseIds
  BY DEF LostInv, TypeInv, TypeOK, LiveLeases, ActiveLeases
<1>1. th[p].pc \notin Busy \cup Orphaning \cup {"schedule", "rec_schedule"}
  <2>1. CASE p = "loop" /\ Request
    BY <2>1, RequestMoves DEF LostInv, Busy, Orphaning
  <2>2. CASE ~(p = "loop" /\ Request)
    BY <2>2 DEF PromoteNew, Trigger, UnblockToReady, Dependents, Victims, Mark, ExpiredNodes, RecRead, RecMark,
       RecExpired, ScannerScan, AutoScan, At, Busy, Orphaning
  <2> QED BY <2>1, <2>2
<1>2. assigned' = assigned
  <2>1. CASE Request
    BY <2>1, RequestLeaves
  <2>2. CASE ~Request
    BY <2>2 DEF PromoteNew, Trigger, UnblockToReady, Dependents, Victims, Mark, ExpiredNodes, RecRead,
       RecMark, RecExpired, ScannerScan, AutoScan, taskRows
  <2> QED BY <2>1, <2>2
<1>3. \A t \in Tasks : status'[t] = "running" => status[t] = "running"
  <2>1. CASE Request
    BY <2>1, RequestClaimless DEF LostInv, NothingClaimed, ACTIVE_TASK_STATUSES
  <2>2. CASE Continue(p)
    <3>1. ~Schedule(p) /\ ~RecSchedule(p)
      BY <1>1 DEF Schedule, RecSchedule, At
    <3> QED BY <2>2, <3>1, ContinueClaimless DEF LostInv, ACTIVE_TASK_STATUSES
  <2>3. CASE ScannerScan \/ AutoScan
    BY <2>3 DEF ScannerScan, AutoScan, taskRows
  <2> QED BY <2>1, <2>2, <2>3 DEF Continue
<1> DEFINE Kept(l) == lease[l].st # "revoked" =>
                        /\ lease'[l].st # "revoked" /\ lease'[l].task = lease[l].task
                        /\ lease'[l].node = lease[l].node
<1>4. SameOwners /\ \A l \in LeaseIds : Kept(l)
  <2>1. CASE lease' = lease
    BY <2>1 DEF SameOwners
  <2>2. CASE Mark(p) \/ RecMark(p)
    <3>1. PICK S : mark_expired(S)
      BY <2>2 DEF Mark, RecMark
    <3> DEFINE marked(x) == [x EXCEPT !.st = "expired"]
    <3>2. \A l \in LeaseIds : lease'[l] = lease[l] \/ lease'[l] = marked(lease[l])
      BY <3>1 DEF mark_expired
    <3>3. \A x \in Lease : marked(x).st = "expired" /\ marked(x).task = x.task /\ marked(x).node = x.node
      BY DEF Lease
    <3> HIDE DEF marked
    <3>4. \A l \in LeaseIds : lease'[l] = lease[l]
             \/ /\ lease'[l].st = "expired"
                /\ lease'[l].task = lease[l].task
                /\ lease'[l].node = lease[l].node
      BY <1>0, <3>2, <3>3
    <3>5. SameOwners
      BY <3>4 DEF SameOwners
    <3> QED BY <3>4, <3>5
  <2>3. CASE ~Mark(p) /\ ~RecMark(p)
    <3>1. lease' = lease
      BY <2>3, RequestLeaves DEF PromoteNew, Trigger, UnblockToReady, Dependents, Victims, ExpiredNodes,
         RecRead, RecExpired, ScannerScan, AutoScan
    <3> QED BY <2>1, <3>1
  <2> QED BY <2>2, <2>3
<1>5. Secures(p)
  BY <1>1, <1>2, <1>3, <1>4, IdleSecures
<1>6. LiveAssigned'
  BY <1>2, <1>4, OwnersAssigned DEF LostInv
<1> QED BY <1>5, <1>6

(* Marking or lapsing a row leaves its task and node. *)
LEMMA EndedRows ==
  ASSUME LostInv, (\E S : mark_expired(S)) \/ (\E k \in LeaseIds : Lapse(k))
  PROVE  \A l \in LeaseIds : /\ lease'[l].task = lease[l].task /\ lease'[l].node = lease[l].node
                             /\ lease'[l].st \in {lease[l].st, "expired"}
                             /\ lease'[l].live => lease[l].live
<1>0. lease \in [LeaseIds -> Lease] /\ \A l \in LeaseIds : lease[l] \in Lease
  BY DEF LostInv, TypeInv, TypeOK
<1> DEFINE marked(x) == [x EXCEPT !.st = "expired"]
           lapsed(x) == [x EXCEPT !.live = FALSE]
<1>1. \A l \in LeaseIds : lease'[l] \in {lease[l], marked(lease[l]), lapsed(lease[l])}
  BY <1>0 DEF mark_expired, Lapse
<1>2. \A x \in Lease : /\ marked(x).st = "expired" /\ marked(x).task = x.task
                       /\ marked(x).node = x.node /\ marked(x).live = x.live
                       /\ lapsed(x).st = x.st /\ lapsed(x).task = x.task
                       /\ lapsed(x).node = x.node /\ lapsed(x).live = FALSE
  BY DEF Lease
<1> HIDE DEF marked, lapsed
<1> TAKE l \in LeaseIds
<1>3. CASE lease'[l] = lease[l]
  BY <1>3
<1>4. CASE lease'[l] = marked(lease[l])
  BY <1>0, <1>2, <1>4
<1>5. CASE lease'[l] = lapsed(lease[l])
  BY <1>0, <1>2, <1>5
<1> QED BY <1>1, <1>3, <1>4, <1>5

(* While a handler waits to revoke a lease, nobody gives its row to        *)
(* another task.                                                           *)
LEMMA RowWaits ==
  ASSUME LostInv, NothingClaimed, [Next]_vars,
         th["loop"].pc = "revoke", th'["loop"] = th["loop"]
  PROVE  lease'[th["loop"].lid].task = lease[th["loop"].lid].task
<1> DEFINE l == th["loop"].lid
<1>0. /\ l \in LeaseIds /\ l \in Held("loop") /\ "loop" \in Threads /\ lease[l] \in Lease
  BY DEF LostInv, RevokesOwn, Held, TypeInv, TypeOK
<1> HIDE DEF l
<1>1. CASE lease' = lease
  BY <1>1 DEF l
<1>2. CASE (\E S : mark_expired(S)) \/ (\E k \in LeaseIds : Lapse(k))
  <2>1. \A m \in LeaseIds : lease'[m].task = lease[m].task
    BY <1>2, EndedRows
  <2> QED BY <1>0, <2>1 DEF l
<1>3. ASSUME NEW p \in Threads, Continue(p)
      PROVE  lease'[l].task = lease[l].task
  <2>1. p # "loop"
    <3>1. ASSUME p = "loop"
          PROVE  FALSE
      <4>1. Revoke("loop")
        BY <1>3, <3>1 DEF Continue, PromoteNew, Trigger, Schedule, Lookup, Requeue, RecordBallot,
           Write, Dependents, Victims, UnblockToReady, ExtendCreate, ExtendRevoke, Mark, ExpiredNodes,
           RecRead, RecMark, RecExpired, RecRevoke, RecTask, RecSchedule, RecCheck, RecFail, At
      <4>2. th'["loop"].pc = th["loop"].then
        <5>1. th \in [Threads -> Thread] /\ th["loop"] \in Thread
          BY <1>0 DEF LostInv, TypeInv, TypeOK
        <5> QED BY <1>0, <4>1, <5>1 DEF Revoke, Goto, Thread
      <4>3. th["loop"].then \in {"write", "ballot", "veto_lookup", "veto_requeue"}
        BY <1>0 DEF LostInv, Routed, Route
      <4> QED BY <4>2, <4>3
    <3> QED BY <3>1
  <2>2. th[p].pc \in {"mark"} \cup Recovering \/ th[p].pc = "idle"
    BY <2>1 DEF LostInv, Routed, Route
  <2>3. \/ Mark(p) \/ ExpiredNodes(p)
        \/ RecRead(p) \/ RecMark(p) \/ RecExpired(p) \/ RecRevoke(p)
        \/ RecTask(p) \/ RecSchedule(p) \/ RecCheck(p) \/ RecFail(p)
    BY <1>3, <2>2 DEF Continue, PromoteNew, Trigger, Schedule, Lookup, Revoke, Requeue, RecordBallot,
       Write, Dependents, Victims, UnblockToReady, ExtendCreate, ExtendRevoke, At, Recovering
  <2>4. CASE Mark(p) \/ RecMark(p)
    BY <1>2, <2>4 DEF Mark, RecMark, l
  <2>5. CASE RecRevoke(p)
    <3>1. PICK S : revoke_lease(p, S)
      BY <2>5 DEF RecRevoke
    <3>2. lease'[l] = lease[l] \/ lease'[l] = [lease[l] EXCEPT !.st = "revoked"]
      BY <1>0, <2>1, <3>1 DEF revoke_lease
    <3> QED BY <1>0, <3>2 DEF Lease
  <2>6. CASE RecSchedule(p)
    <3>1. PICK plan \in PlansNow : schedule_pending(plan)
      BY <2>6 DEF RecSchedule
    <3>2. PICK seat \in [Placed(plan) -> FreeRows] :
            \A m \in LeaseIds : lease'[m] = lease[m] \/ \E t \in Placed(plan) : seat[t] = m
      BY <3>1, PassLeases DEF LostInv
    <3>3. l \notin FreeRows
      BY <1>0 DEF FreeRows
    <3> QED BY <1>0, <3>2, <3>3
  <2>7. CASE ExpiredNodes(p) \/ RecRead(p) \/ RecExpired(p) \/ RecTask(p) \/ RecCheck(p) \/ RecFail(p)
    BY <1>1, <2>7 DEF ExpiredNodes, RecRead, RecExpired, RecTask, RecCheck, RecFail, l
  <2> QED BY <2>3, <2>4, <2>5, <2>6, <2>7
<1>4. CASE Request
  BY <1>1, <1>4, RequestLeaves
<1>5. CASE ScannerScan \/ AutoScan \/ UNCHANGED vars
  BY <1>1, <1>5 DEF ScannerScan, AutoScan, vars
<1>6. CASE Environment
  BY <1>1, <1>2, <1>6 DEF Environment, SetNodeStatus, Restart
<1> QED BY <1>3, <1>4, <1>5, <1>6 DEF Next, l

(* The lease a handler read for its task is still that task's when it      *)
(* revokes it.                                                             *)
LEMMA NextRevokesOwn ==
  ASSUME LostInv, NothingClaimed, MaxRestarts = 0, [Next]_vars
  PROVE  RevokesOwn'
<1> SUFFICES ASSUME NEW p \in Threads, th'[p].pc = "revoke"
             PROVE  th'[p].lid \in LeaseIds /\ lease'[th'[p].lid].task = th'[p].task
  BY DEF RevokesOwn
<1>1. p = "loop"
  BY NextMoves DEF LostInv, Routed, Route, Recovering
<1>2. CASE th'["loop"] = th["loop"]
  BY <1>1, <1>2, RowWaits DEF LostInv, RevokesOwn
<1>3. CASE th'["loop"] # th["loop"]
  <2>1. Moves("loop")
    BY <1>3, NextMoves DEF LostInv, Moves, Restart, TypeInv, TypeOK
  <2> QED BY <1>1, <2>1 DEF Moves, LeasesOf, ActiveLeases
<1> QED BY <1>2, <1>3

(* Every step of a thread secures the tasks that run after it. *)
LEMMA NextNoneLost ==
  ASSUME LostInv, NothingClaimed, MaxRestarts = 0, [Next]_vars
  PROVE  NoneLost' /\ LiveAssigned'
<1>0. \A p \in Threads : th[p].pc \notin {"extend_create", "extend_revoke"}
  BY DEF LostInv, Routed, Route, NothingClaimed
<1>1. ASSUME NEW p \in Threads, Moves(p), Secures(p) /\ LiveAssigned'
      PROVE  NoneLost' /\ LiveAssigned'
  BY <1>1, SecuresAll DEF LostInv, Moves
<1>2. ASSUME NEW p \in Threads, Continue(p)
      PROVE  Moves(p) /\ Secures(p) /\ LiveAssigned'
  <2>1. Moves(p)
    BY <1>2, HandlerMoves, OtherMoves DEF Continue, LostInv
  <2>2. ~ExtendCreate(p) /\ ~ExtendRevoke(p)
    BY <1>0 DEF ExtendCreate, ExtendRevoke, At
  <2>3. Secures(p) /\ LiveAssigned'
    BY <1>2, <2>2, PassSecures, HandlerSecures, RevokeSecures, RequeueSecures, RecRevokeSecures,
       RecTaskSecures, RecEndSecures, RestSecures DEF Continue
  <2> QED BY <2>1, <2>3
<1>3. CASE Request
  BY <1>1, <1>3, RequestMoves, RestSecures DEF LostInv, TypeInv, TypeOK
<1>4. CASE ScannerScan \/ AutoScan
  <2>1. PICK p \in Threads : (p = "scanner" /\ ScannerScan) \/ (p = "auto" /\ AutoScan)
    BY <1>4 DEF ScannerScan, AutoScan, At
  <2>2. \A q \in Threads \ {p} : th'[q] = th[q]
    <3>1. \E r : th' = [th EXCEPT ![p] = r]
      BY <2>1 DEF ScannerScan, AutoScan, Scan, Goto
    <3> QED BY <3>1 DEF LostInv, TypeInv, TypeOK
  <2>3. Secures(p) /\ LiveAssigned'
    BY <2>1, RestSecures
  <2> QED BY <2>2, <2>3, SecuresAll DEF LostInv
<1>5. CASE status' = status /\ assigned' = assigned /\ lease' = lease /\ th' = th
  BY <1>5 DEF LostInv, NoneLost, LiveAssigned, Covered, Covers, Responsible, LiveLeases, ActiveLeases
<1>6. ASSUME NEW k \in LeaseIds, Lapse(k)
      PROVE  NoneLost' /\ LiveAssigned'
  <2>1. status' = status /\ assigned' = assigned /\ th' = th
    BY <1>6 DEF Lapse, taskRows
  <2>2. \A l \in LeaseIds : /\ lease'[l].task = lease[l].task /\ lease'[l].node = lease[l].node
                            /\ lease'[l].st \in {lease[l].st, "expired"}
                            /\ lease'[l].live => lease[l].live
    BY <1>6, EndedRows
  <2>3. ASSUME NEW t \in Tasks, Covered(t)
        PROVE  Covered(t)'
    <3>1. PICK l \in LeaseIds : Covers(l, t)
      BY <2>3 DEF Covered
    <3>2. lease'[l].st # "revoked"
      BY <2>2, <3>1 DEF Covers
    <3>3. Covers(l, t)'
      BY <2>1, <2>2, <3>1, <3>2 DEF Covers
    <3> QED BY <3>3 DEF Covered
  <2>4. NoneLost'
    BY <2>1, <2>3 DEF LostInv, NoneLost, Responsible
  <2>5. LiveAssigned'
    <3>1. SameOwners
      <4>1. \A l \in LeaseIds : lease'[l].st = "active" => lease[l].st = "active"
        BY <2>2
      <4> QED BY <2>2, <4>1 DEF SameOwners
    <3> QED BY <2>1, <3>1, OwnersAssigned DEF LostInv
  <2> QED BY <2>4, <2>5
<1>7. CASE Environment
  BY <1>5, <1>6, <1>7 DEF Environment, SetNodeStatus, Restart, taskRows, TypeInv, TypeOK, LostInv
<1>8. CASE UNCHANGED vars
  BY <1>5, <1>8 DEF vars, taskRows
<1> QED BY <1>1, <1>2, <1>3, <1>4, <1>7, <1>8 DEF Next

(* No running task is stranded (#916): while tasks start only in passes,   *)
(* leases are not renewed and the process does not die, whenever no        *)
(* request or recovery is under way each running task has a lease row on   *)
(* its node from which recovery can reclaim it.                            *)
THEOREM NothingLost ==
  ASSUME NothingClaimed, MaxRestarts = 0
  PROVE  Spec => []NoStranded
<1>1. Init => LostInv
  <2>1. Init => Claimless
    BY RecordTo DEF Init, Claimless, ACTIVE_TASK_STATUSES
  <2>2. Init => RevokesOwn
    <3>1. IdleThread.pc = "idle"
      BY DEF IdleThread
    <3> QED BY <3>1 DEF Init, RevokesOwn
  <2>3. Init => LiveAssigned /\ NoneLost
    BY DEF Init, LiveAssigned, LiveLeases, ActiveLeases, NoRow, NoneLost
  <2> QED BY <2>1, <2>2, <2>3, InitTypeInv, InitRouted DEF LostInv
<1>2. LostInv /\ [Next]_vars => LostInv'
  <2> SUFFICES ASSUME LostInv, [Next]_vars
               PROVE  LostInv'
    OBVIOUS
  <2>1. TypeInv' /\ Routed'
    BY NextType, NextMoves DEF LostInv
  <2>2. Claimless'
    BY StartsByPass DEF LostInv, NothingClaimed
  <2> QED BY <2>1, <2>2, NextRevokesOwn, NextNoneLost DEF LostInv
<1>3. LostInv => NoStranded
  <2> SUFFICES ASSUME LostInv, \A p \in Threads : th[p].pc = "idle",
                      NEW t \in Tasks, status[t] = "running"
               PROVE  \E l \in ActiveLeases \cup ExpiredLeases :
                        lease[l].task = t /\ lease[l].node = assigned[t]
    BY DEF NoStranded
  <2>1. Covered(t)
    BY DEF LostInv, NoneLost, Responsible, Busy, Orphaning
  <2>2. PICK l \in LeaseIds : Covers(l, t)
    BY <2>1 DEF Covered
  <2>3. lease[l].st \in {"active", "expired"}
    BY <2>2 DEF Covers, LostInv, TypeInv, TypeOK, Lease, LeaseStatus
  <2> QED BY <2>2, <2>3 DEF Covers, ActiveLeases, ExpiredLeases
<1> QED BY <1>1, <1>2, <1>3, PTL DEF Spec
=============================================================================
